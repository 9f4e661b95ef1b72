-------------------------- MODULE AccrualMatching --------------------------
(***************************************************************************)
(* Matching: each imported marketplace row and each JTL record is stored   *)
(* and gets a business event, and then the events of its order are matched *)
(* again (MatchingService.upsertEventFromMarketplaceTxn,                   *)
(* upsertEventFromJtlRecord, rematchByOrderId, called row by row from      *)
(* MarketplaceImportService and JtlImportService).  A user may match a     *)
(* payout by hand (PayoutReconciliationService.manualMatch).               *)
(*                                                                         *)
(* An import is a process with one action for each call that another one   *)
(* can observe or disturb.  The event of a row is named by the row: rows   *)
(* of different keys have different event keys.  That two uploads may both *)
(* store a row is the subject of ImportBatches; here a row is in progress  *)
(* once.  Amounts, matchStatus and the exceptions that matching opens and  *)
(* never closes are left out.                                              *)
(***************************************************************************)
EXTENDS Integers, FiniteSets

CONSTANTS
  MpRows,      \* rows of marketplace reports
  AmazonRows,  \* those of Amazon's
  JtlRows,     \* rows of JTL exports
  Kind,        \* [rows -> txnType or recordType]
  OrderOf,     \* [rows -> marketplaceOrderId, or NoOrder]
  Key,         \* [rows -> sourceIdentityKey, or the number of an invoice]
  Imports,     \* requests that may be in progress at one time
  MaxFailures, \* bound on rejected calls and crashes
  NoOrder, NoRow

Rows     == MpRows \cup JtlRows

(* What the parsers give; none gives a sale_line.                          *)
MpKinds  == {"order", "fee", "refund", "adjustment", "settlement", "payout",
             "unknown"}
JtlKinds == {"order", "sale", "invoice", "invoice_correction"}

ASSUME RowsOK ==
  /\ AmazonRows \subseteq MpRows
  /\ MpRows \cap JtlRows = {} /\ NoRow \notin Rows
  /\ \A r \in MpRows : Kind[r] \in MpKinds
  /\ \A r \in JtlRows : Kind[r] \in JtlKinds
  /\ MaxFailures \in Nat

VARIABLES
  shows,   \* what an order row says: the order pending, shipped or cancelled
  stored,  \* MarketplaceTxn, JtlRecord: the rows stored
  skipped, \* rows counted as duplicates
  event,   \* BusinessEvent.eventType and status, by row
  linked,  \* rows whose record has its businessEventId
  open,    \* the open exceptions that matching closes again
  req,     \* the requests in progress
  overlap, \* history: two requests have been in progress at one time
  failures \* rejected calls and crashes so far

records == <<stored, skipped, linked>>
vars    == <<shows, records, event, open, req, overlap, failures>>

Types    == {"ORDER_CREATED", "SALE", "CANCELLATION", "REFUND", "FEE",
             "ADJUSTMENT", "SETTLEMENT", "PAYOUT"}
Statuses == {"draft", "pending_match", "invoice_pending", "matched", "void"}
Event    == [type : Types, status : Statuses]
NoEvent  == [type |-> "none", status |-> "none"]
Problems == {"MISSING_INVOICE", "MISSING_JTL_ORDER",
             "UNMATCHED_MARKETPLACE_EVENT"}

Phases == {"idle", "store", "look", "match", "event", "link", "except",
           "amazon", "jtl", "mp", "void", "read", "patch", "resolve", "manual"}
Work == [pc : Phases, row : Rows \cup {NoRow}, jtl : SUBSET JtlRows,
         mp : SUBSET MpRows, todo : SUBSET Rows, cancelled : BOOLEAN,
         shipped : BOOLEAN, cur : Rows \cup {NoRow}, ev : Event \cup {NoEvent}]
Idle == [pc |-> "idle", row |-> NoRow, jtl |-> {}, mp |-> {}, todo |-> {},
         cancelled |-> FALSE, shipped |-> FALSE, cur |-> NoRow, ev |-> NoEvent]

TypeOK ==
  /\ shows \in [MpRows -> {"pending", "shipped", "cancelled", "none"}]
  /\ stored \subseteq Rows /\ skipped \subseteq Rows
  /\ linked \subseteq {r \in stored : event[r] # NoEvent}
  /\ event \in [Rows -> Event \cup {NoEvent}]
  /\ open \subseteq Problems \X Rows
  /\ req \in [Imports -> Work]
  /\ overlap \in BOOLEAN
  /\ failures \in 0..MaxFailures

(* Any report may show any state of an order.                              *)
Init ==
  /\ shows \in [MpRows -> {"pending", "shipped", "cancelled", "none"}]
  /\ \A r \in MpRows : shows[r] = "none" <=> Kind[r] # "order"
  /\ stored = {} /\ skipped = {} /\ linked = {}
  /\ event = [r \in Rows |-> NoEvent]
  /\ open = {}
  /\ req = [i \in Imports |-> Idle]
  /\ overlap = FALSE
  /\ failures = 0
-----------------------------------------------------------------------------
At(i, pc)  == req[i].pc = pc
Step(i, w) == req' = [req EXCEPT ![i] = w]
Return(i)  == Step(i, Idle)
Begin(i, w) == /\ At(i, "idle")
               /\ Step(i, w)
               /\ overlap' = (overlap \/ \E k \in Imports : ~At(k, "idle"))

(* The stored rows of an order; none are looked for without an order id.   *)
RowsOf(o)  == {r \in stored : o # NoOrder /\ OrderOf[r] = o}
Jtl(o)     == RowsOf(o) \cap JtlRows
Mp(o)      == RowsOf(o) \cap MpRows
Amazon(o)  == {r \in RowsOf(o) \cap AmazonRows : Kind[r] = "order"}
IsInvoice(r)  == r \in JtlRows /\ Kind[r] \in {"invoice", "sale"}
HasInvoice(s) == \E r \in s : IsInvoice(r)
Cancelled(r)  == Kind[r] = "order" /\ shows[r] = "cancelled"

(* amazonShippedFromTxn: a Back Market row does not have Amazon's fields.  *)
Shipped(r) == r \in AmazonRows /\ shows[r] = "shipped"
-----------------------------------------------------------------------------
(* Storing a row.                                                          *)

Taken(k) == \E r \in stored : Key[r] = k

(* The key is looked up before the row is stored.                          *)
SkipRow(i) ==
  /\ At(i, "idle")
  /\ \E r \in Rows \ stored : Taken(Key[r]) /\ skipped' = skipped \cup {r}
  /\ UNCHANGED <<shows, stored, event, linked, open, req, overlap, failures>>

StartRow(i) ==
  /\ \E r \in Rows \ stored :
       /\ ~Taken(Key[r])
       /\ \A k \in Imports : ~At(k, "idle") => Key[req[k].row] # Key[r]
       /\ Begin(i, [Idle EXCEPT !.pc = "store", !.row = r])
  /\ UNCHANGED <<shows, records, event, open, failures>>

Store(i) ==
  /\ At(i, "store")
  /\ stored' = stored \cup {req[i].row}
  /\ Step(i, [req[i] EXCEPT !.pc = "look"])
  /\ UNCHANGED <<shows, skipped, event, linked, open, overlap, failures>>
-----------------------------------------------------------------------------
(* upsertEventFromMarketplaceTxn and upsertEventFromJtlRecord.             *)

(* What the other records of the order are: for a marketplace row the JTL  *)
(* records, for a JTL record what Amazon says of the order.                *)
LookMp(i) ==
  /\ At(i, "look")
  /\ req[i].row \in MpRows
  /\ Step(i, [req[i] EXCEPT !.pc = "event", !.jtl = Jtl(OrderOf[req[i].row])])
  /\ UNCHANGED <<shows, records, event, open, overlap, failures>>

LookJtl(i) ==
  /\ At(i, "look")
  /\ req[i].row \in JtlRows
  /\ LET gone == \E r \in Amazon(OrderOf[req[i].row]) : Cancelled(r)
     IN  Step(i, [req[i] EXCEPT !.cancelled = gone,
                    !.pc = IF gone THEN "event" ELSE "match"])
  /\ UNCHANGED <<shows, records, event, open, overlap, failures>>

FindMp(i) ==
  /\ At(i, "match")
  /\ Step(i, [req[i] EXCEPT !.pc = "event", !.mp = Mp(OrderOf[req[i].row])])
  /\ UNCHANGED <<shows, records, event, open, overlap, failures>>

Ev(t, s) == [type |-> t, status |-> s]

(* marketplaceTxnToEventType.                                              *)
MpType(k) == CASE k = "order"      -> "ORDER_CREATED" [] k = "fee"    -> "FEE"
               [] k = "settlement" -> "SETTLEMENT"    [] k = "refund" -> "REFUND"
               [] k = "payout"     -> "PAYOUT"        [] OTHER -> "ADJUSTMENT"

Waiting(r, other) ==
  IF other # {} THEN "matched"
  ELSE IF OrderOf[r] # NoOrder THEN "pending_match" ELSE "draft"

(* Broken: a shipped order is taken for a sale, invoice or not.            *)
MpEventOnShipping(r, jtl) ==
  CASE Cancelled(r) -> Ev("CANCELLATION", "void")
    [] Shipped(r)   -> Ev("SALE", "matched")
    [] OTHER        -> Ev(MpType(Kind[r]), Waiting(r, jtl))

(* A shipped Amazon order is a sale if there is an invoice, else it waits. *)
MpEvent(r, jtl) ==
  CASE Cancelled(r) -> Ev("CANCELLATION", "void")
    [] Shipped(r)   -> IF HasInvoice(jtl) THEN Ev("SALE", "matched")
                                  ELSE Ev("ORDER_CREATED", "invoice_pending")
    [] OTHER        -> Ev(MpType(Kind[r]), Waiting(r, jtl))

(* jtlRecordToEventType: an invoice is a sale once the marketplace has the *)
(* order, and nothing is when Amazon cancelled it.                         *)
JtlEvent(r, mp, cancelled) ==
  IF cancelled THEN Ev("CANCELLATION", "void")
  ELSE Ev(CASE Kind[r] = "invoice_correction" -> "CANCELLATION"
            [] IsInvoice(r) /\ mp # {}        -> "SALE"
            [] OTHER                          -> "ORDER_CREATED",
          Waiting(r, mp))

CreateEvent(i) ==
  /\ At(i, "event")
  /\ LET r == req[i].row
     IN  event' = [event EXCEPT ![r] =
           IF r \in MpRows THEN MpEvent(r, req[i].jtl)
                           ELSE JtlEvent(r, req[i].mp, req[i].cancelled)]
  /\ Step(i, [req[i] EXCEPT !.pc = "link"])
  /\ UNCHANGED <<shows, records, open, overlap, failures>>

Link(i) ==
  /\ At(i, "link")
  /\ linked' = linked \cup {req[i].row}
  /\ Step(i, [req[i] EXCEPT !.pc = "except"])
  /\ UNCHANGED <<shows, stored, skipped, event, open, overlap, failures>>

(* Broken: an event that waits for its invoice opens no exception.         *)
ProblemWithoutInvoice(w) ==
  LET first == MpEvent(w.row, w.jtl)
  IN  IF w.row \in MpRows
      THEN IF first = Ev("ORDER_CREATED", "pending_match")
           THEN {<<"MISSING_JTL_ORDER", w.row>>} ELSE {}
      ELSE IF ~w.cancelled /\ w.mp = {} /\ OrderOf[w.row] # NoOrder
           THEN {<<"UNMATCHED_MARKETPLACE_EVENT", w.row>>} ELSE {}

(* The exception that goes with the event as it was created.               *)
Problem(w) ==
  LET first == MpEvent(w.row, w.jtl)
  IN  IF w.row \in MpRows
      THEN CASE first.status = "invoice_pending" -> {<<"MISSING_INVOICE", w.row>>}
             [] first = Ev("ORDER_CREATED", "pending_match") ->
                  {<<"MISSING_JTL_ORDER", w.row>>}
             [] OTHER -> {}
      ELSE IF ~w.cancelled /\ w.mp = {} /\ OrderOf[w.row] # NoOrder
           THEN {<<"UNMATCHED_MARKETPLACE_EVENT", w.row>>} ELSE {}

OpenException(i) ==
  /\ At(i, "except")
  /\ open' = open \cup Problem(req[i])
  /\ IF OrderOf[req[i].row] = NoOrder
     THEN Return(i)
     ELSE Step(i, [Idle EXCEPT !.pc = "amazon", !.row = req[i].row])
  /\ UNCHANGED <<shows, records, event, overlap, failures>>
-----------------------------------------------------------------------------
(* rematchByOrderId: three reads, then one write for each event.           *)

ReadAmazon(i) ==
  /\ At(i, "amazon")
  /\ LET rows == Amazon(OrderOf[req[i].row])
     IN  Step(i, [req[i] EXCEPT !.pc = "jtl",
                    !.cancelled = \E r \in rows : Cancelled(r),
                    !.shipped   = \E r \in rows : Shipped(r)])
  /\ UNCHANGED <<shows, records, event, open, overlap, failures>>

ReadJtl(i) ==
  /\ At(i, "jtl")
  /\ LET rows == Jtl(OrderOf[req[i].row])
     IN  Step(i, [req[i] EXCEPT !.pc = "mp", !.jtl = rows,
                                !.todo = rows \cap linked])
  /\ UNCHANGED <<shows, records, event, open, overlap, failures>>

(* Broken: of a cancelled order only the JTL events are voided.            *)
ReadMpVoidJtl(i) ==
  /\ At(i, "mp")
  /\ LET rows == Mp(OrderOf[req[i].row])
         both == req[i].jtl # {} /\ rows # {}
     IN  Step(i, [req[i] EXCEPT !.mp = rows,
           !.todo = IF req[i].cancelled THEN @
                    ELSE IF both THEN @ \cup (rows \cap linked) ELSE {},
           !.pc = IF req[i].cancelled THEN "void"
                  ELSE IF both THEN "read" ELSE "resolve"])
  /\ UNCHANGED <<shows, records, event, open, overlap, failures>>

(* The events to write are those of the records as they were read.         *)
ReadMp(i) ==
  /\ At(i, "mp")
  /\ LET rows == Mp(OrderOf[req[i].row])
         both == req[i].jtl # {} /\ rows # {}
     IN  Step(i, [req[i] EXCEPT !.mp = rows,
           !.todo = IF req[i].cancelled \/ both THEN @ \cup (rows \cap linked)
                                                ELSE {},
           !.pc = IF req[i].cancelled THEN "void"
                  ELSE IF both THEN "read" ELSE "resolve"])
  /\ UNCHANGED <<shows, records, event, open, overlap, failures>>

VoidEvent(i) ==
  /\ At(i, "void")
  /\ \/ /\ req[i].todo = {}
        /\ Step(i, [req[i] EXCEPT !.pc = "resolve"])
        /\ UNCHANGED event
     \/ \E r \in req[i].todo :
          /\ event' = [event EXCEPT ![r] = Ev("CANCELLATION", "void")]
          /\ Step(i, [req[i] EXCEPT !.todo = @ \ {r}])
  /\ UNCHANGED <<shows, records, open, overlap, failures>>

(* JTL events first, then those of the marketplace.                        *)
ReadEvent(i) ==
  /\ At(i, "read")
  /\ LET jtl == req[i].todo \cap JtlRows
         now == IF jtl # {} THEN jtl ELSE req[i].todo
     IN  \/ /\ now = {}
            /\ Step(i, [req[i] EXCEPT !.pc = "resolve"])
         \/ \E r \in now :
              Step(i, [req[i] EXCEPT !.pc = "patch", !.cur = r, !.ev = event[r],
                                     !.todo = @ \ {r}])
  /\ UNCHANGED <<shows, records, event, open, overlap, failures>>

(* Broken: a void event of a marketplace row is matched like any other.    *)
PatchedVoidToo(w) ==
  LET e == w.ev
  IN  IF w.cur \in JtlRows
      THEN Ev(IF e.type = "ORDER_CREATED" /\ Kind[w.cur] # "order"
                                          /\ HasInvoice(w.jtl)
              THEN "SALE" ELSE event[w.cur].type, "matched")
      ELSE CASE e.type = "ORDER_CREATED" /\ HasInvoice(w.jtl) -> Ev("SALE", "matched")
             [] e.type = "ORDER_CREATED" /\ ~HasInvoice(w.jtl)
                  /\ (w.shipped \/ Shipped(w.cur)) ->
                  Ev("ORDER_CREATED", "invoice_pending")
             [] OTHER -> Ev(event[w.cur].type, "matched")

(* Broken: the invoice's own event stays what it was when it was created.  *)
PatchedMpOnly(w) ==
  LET e == w.ev
  IN  IF w.cur \in JtlRows
      THEN Ev(event[w.cur].type, "matched")
      ELSE CASE e.type = "CANCELLATION" \/ e.status = "void" -> event[w.cur]
             [] e.type = "ORDER_CREATED" /\ HasInvoice(w.jtl) -> Ev("SALE", "matched")
             [] OTHER -> Ev(event[w.cur].type, "matched")

(* The event as it is written: judged by the event that was read, and the  *)
(* type is written only where it is decided.                               *)
Patched(w) ==
  LET e == w.ev
      void == e.type = "CANCELLATION" \/ e.status = "void"
      undecided == ~void /\ e.type \notin {"SETTLEMENT", "PAYOUT"}
                   /\ (e.type = "ORDER_CREATED" \/ e.status = "invoice_pending")
  IN  IF w.cur \in JtlRows
      THEN Ev(IF e.type = "ORDER_CREATED" /\ Kind[w.cur] # "order"
                                          /\ HasInvoice(w.jtl)
              THEN "SALE" ELSE event[w.cur].type, "matched")
      ELSE CASE void -> event[w.cur]
             [] undecided /\ HasInvoice(w.jtl) -> Ev("SALE", "matched")
             [] undecided /\ ~HasInvoice(w.jtl) /\ (w.shipped \/ Shipped(w.cur)) ->
                  Ev("ORDER_CREATED", "invoice_pending")
             [] OTHER -> Ev(event[w.cur].type, "matched")

PatchEvent(i) ==
  /\ At(i, "patch")
  /\ event' = [event EXCEPT ![req[i].cur] = Patched(req[i])]
  /\ Step(i, [req[i] EXCEPT !.pc = "read", !.cur = NoRow, !.ev = NoEvent])
  /\ UNCHANGED <<shows, records, open, overlap, failures>>

(* ExceptionService.resolveOpenForOrder, for a cancelled order or one with *)
(* an invoice.                                                             *)
Resolve(i) ==
  /\ At(i, "resolve")
  /\ open' = IF req[i].cancelled \/ HasInvoice(req[i].jtl)
             THEN {x \in open : OrderOf[x[2]] # OrderOf[req[i].row]} ELSE open
  /\ Return(i)
  /\ UNCHANGED <<shows, records, event, overlap, failures>>
-----------------------------------------------------------------------------
(* PayoutReconciliationService.manualMatch.                                *)

StartManual(i) ==
  /\ \E r \in Rows : /\ event[r].type = "PAYOUT"
                     /\ Begin(i, [Idle EXCEPT !.pc = "manual", !.row = r])
  /\ UNCHANGED <<shows, records, event, open, failures>>

ManualMatch(i) ==
  /\ At(i, "manual")
  /\ event' = [event EXCEPT ![req[i].row].status = "matched"]
  /\ Return(i)
  /\ UNCHANGED <<shows, records, open, overlap, failures>>

(* A call rejects, or the process dies; bounded.                           *)
Fail(i) ==
  /\ failures < MaxFailures
  /\ ~At(i, "idle")
  /\ failures' = failures + 1
  /\ Return(i)
  /\ UNCHANGED <<shows, records, event, open, overlap>>

Upsert(i)  == \/ SkipRow(i) \/ StartRow(i) \/ Store(i) \/ LookMp(i)
              \/ LookJtl(i) \/ FindMp(i) \/ CreateEvent(i) \/ Link(i)
              \/ OpenException(i)
Rematch(i) == \/ ReadAmazon(i) \/ ReadJtl(i) \/ ReadMp(i) \/ VoidEvent(i)
              \/ ReadEvent(i) \/ PatchEvent(i) \/ Resolve(i)

Next == \E i \in Imports : \/ Upsert(i) \/ Rematch(i)
                           \/ StartManual(i) \/ ManualMatch(i) \/ Fail(i)

Spec == Init /\ [][Next]_vars
-----------------------------------------------------------------------------
(* However imports overlap and fail.                                       *)

(* matching.util.ts:6 "order report rows -> ORDER_CREATED (not revenue)":  *)
(* there is no sale without a JTL invoice of its order.                    *)
SalesInvoiced ==
  \A r \in Rows : event[r].type = "SALE" => HasInvoice(Jtl(OrderOf[r]))

(* When imports follow one another, in whatever order, and none fails.     *)
Quiet == ~overlap /\ failures = 0 /\ \A i \in Imports : At(i, "idle")

CancelledAtAmazon(o) == \E r \in Amazon(o) : Cancelled(r)

(* README:122 "Amazon cancel = no SALE": of an order of which a stored row *)
(* says that Amazon cancelled it, every event is void.                     *)
CancelledIsVoid ==
  Quiet => \A r \in stored : CancelledAtAmazon(OrderOf[r]) =>
             event[r] = Ev("CANCELLATION", "void")

(* matching.service.ts:201 "wird bei Folgeimporten erneut geprueft": an    *)
(* invoice is a sale and nothing of its order waits any longer, whether    *)
(* the marketplace's rows came before it or after it.                      *)
InvoiceRecognised ==
  Quiet => \A r \in stored : LET o == OrderOf[r] IN
    HasInvoice(Jtl(o)) /\ Mp(o) # {} /\ ~CancelledAtAmazon(o) =>
      /\ IsInvoice(r) => event[r] = Ev("SALE", "matched")
      /\ event[r].status \notin {"pending_match", "invoice_pending"}

(* matching.service.ts:201 "bleibt offen": an event that waits for its     *)
(* invoice has its exception, and no other event has one.                  *)
WaitingIsOpen ==
  Quiet => \A r \in stored : event[r].status = "invoice_pending"
                               <=> <<"MISSING_INVOICE", r>> \in open

(* A void event is never revived, also after an import died half way.      *)
VoidStays ==
  [][~overlap' => \A r \in Rows : event[r].status = "void"
                                    => event'[r].status = "void"]_vars
=============================================================================
