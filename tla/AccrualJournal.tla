--------------------------- MODULE AccrualJournal ---------------------------
(***************************************************************************)
(* The accrual journal: a business event gets a journal entry with its     *)
(* lines (AccrualJournalService.buildDraftForEvent), the draft is posted,  *)
(* an FX true-up posts the difference to the marketplace's EUR amount      *)
(* (FxTrueUpService), and the accrual DATEV export writes the lines of the *)
(* posted entries into a file and marks them (AccrualDatevExportService).  *)
(* Imports change the events meanwhile: a rematch or an Amazon             *)
(* cancellation (MatchingService.rematchByOrderId).                        *)
(*                                                                         *)
(* Nothing spans two database calls: a request is a process with one       *)
(* action for each call another request can observe or disturb.  Bulk      *)
(* operations are successive requests.  An order's id, texts, BU keys and  *)
(* dates other than the posting date are left out.                         *)
(***************************************************************************)
EXTENDS Integers, Sequences, FiniteSetsExt

CONSTANTS
  Events,      \* business events
  FirstType,   \* [Events -> event type when the event is created]
  FromJtl,     \* the events made from JTL invoices
  FirstFx,     \* [Events -> the fx of the event when it is created]
  Actual,      \* [Events -> the marketplace's EUR amount, or NoEur]
  DateOf,      \* [Events -> posting date]
  Periods,     \* export periods: sets of posting dates
  RatePercent, \* VAT rate of fees
  Entries,     \* ids of journal entries, a set of numbers (bounds how many)
  Jobs,        \* ids of export jobs (bounds how many)
  Requests,    \* requests that may be in progress at one time
  MaxFailures, \* bound on rejected calls and crashes
  NoEur, NoEvent, NoEntry, NoJob

Types == {"ORDER_CREATED", "SALE", "CANCELLATION", "REFUND", "FEE",
          "ADJUSTMENT", "SETTLEMENT", "PAYOUT"}
Eur   == Int \cup {NoEur}
Fx    == [original : Int, eur : Eur, source : {"ECB", "marketplace", "none"}]

ASSUME EventsOK ==
  /\ FirstType \in [Events -> Types]
  /\ FirstFx \in [Events -> Fx]
  /\ Actual \in [Events -> Eur]
  /\ RatePercent \in Nat
  /\ Entries \subseteq Nat
  /\ MaxFailures \in Nat
  /\ NoEvent \notin Events /\ NoEntry \notin Entries /\ NoJob \notin Jobs

VARIABLES
  type, status, fx,  \* BusinessEvent.eventType, status, fx
  meta,    \* BusinessEvent.metadata: provisionalFx.eurAmountCents, fxTrueUp
  cancelled, \* the events whose order an Amazon row shows as cancelled
  entries, \* the journal entries
  lines,   \* the journal lines of each entry, by lineOrder
  files,   \* AccrualDatevExportJob.fileContent: the lines of each job
  req,     \* the requests in progress
  failures \* rejected calls and crashes so far

events  == <<type, status, fx, meta, cancelled>>
journal == <<entries, lines>>
vars    == <<events, journal, files, req, failures>>

Statuses == {"draft", "pending_match", "invoice_pending", "matched", "posted",
             "void"}
Accounts == {"revenue", "fee", "refund", "adjustment", "clearing", "debtor",
             "vatIn", "vatOut", "fxGain", "fxLoss"}
Line  == [account : Accounts, side : {"S", "H"}, amount : Int,
          job : Jobs \cup {NoJob}]
Entry == [event : Events \cup {NoEvent}, kind : {"base", "trueUp"},
          status : {"none", "draft", "posted", "exported"},
          job : Jobs \cup {NoJob}]
LineIds == Entries \X (1..4)

Phases == {"idle", "find", "create", "lines", "vat", "link",
           "post", "posting", "postEvent",
           "trueUp", "trueUpCreate", "trueUpEvent",
           "gather", "job", "mark", "markEntries"}
Work == [pc : Phases, then : Phases, event : Events \cup {NoEvent},
         entry : Entries \cup {NoEntry}, todo : Seq(Line), fx : Fx,
         prov : Eur, list : SUBSET Entries, kept : SUBSET Entries,
         rows : SUBSET LineIds, job : Jobs \cup {NoJob}]
Idle == [pc |-> "idle", then |-> "idle", event |-> NoEvent, entry |-> NoEntry,
         todo |-> <<>>, fx |-> [original |-> 0, eur |-> NoEur, source |-> "none"],
         prov |-> NoEur, list |-> {}, kept |-> {}, rows |-> {}, job |-> NoJob]

TypeOK ==
  /\ type \in [Events -> Types]
  /\ status \in [Events -> Statuses]
  /\ fx \in [Events -> Fx]
  /\ meta \in [Events -> [prov : Eur, trueUp : BOOLEAN]]
  /\ cancelled \subseteq Events
  /\ entries \in [Entries -> Entry]
  /\ lines \in [Entries -> Seq(Line)]
  /\ \A n \in Entries : Len(lines[n]) <= 4
  /\ files \in [Jobs -> SUBSET LineIds]
  /\ req \in [Requests -> Work]
  /\ failures \in 0..MaxFailures

(* The statuses with which the imports create an event.                    *)
FirstStatus(t) ==
  CASE t = "CANCELLATION"  -> {"void", "draft", "pending_match", "matched"}
    [] t = "ORDER_CREATED" -> {"invoice_pending", "pending_match", "matched",
                               "draft"}
    [] OTHER               -> {"draft", "pending_match", "matched"}

Init ==
  /\ type = FirstType
  /\ status \in [Events -> Statuses]
  /\ \A e \in Events : status[e] \in FirstStatus(type[e])
  /\ fx = FirstFx
  /\ meta = [e \in Events |-> [prov |-> NoEur, trueUp |-> FALSE]]
  /\ cancelled = {e \in FromJtl \cap Events : status[e] = "void"}
  /\ entries = [n \in Entries |-> [event |-> NoEvent, kind |-> "base",
                                   status |-> "none", job |-> NoJob]]
  /\ lines = [n \in Entries |-> <<>>]
  /\ files = [j \in Jobs |-> {}]
  /\ req = [r \in Requests |-> Idle]
  /\ failures = 0
-----------------------------------------------------------------------------
At(r, pc)  == req[r].pc = pc
Step(r, w) == req' = [req EXCEPT ![r] = w]
Return(r)  == Step(r, Idle)

Abs(n) == IF n < 0 THEN -n ELSE n

OfEvent(e) == {n \in Entries : entries[n].status # "none"
                               /\ entries[n].event = e}

(* The next unused id.                                                     *)
Fresh(n) == /\ entries[n].status = "none"
            /\ \A m \in Entries : m < n => entries[m].status # "none"
-----------------------------------------------------------------------------
(* AccrualJournalService.buildDraftForEvent.                               *)

NewLine(a, s, n) == [account |-> a, side |-> s, amount |-> n, job |-> NoJob]

Primary(t) == CASE t = "SALE" -> "revenue"      [] t = "FEE" -> "fee"
                [] t = "REFUND" -> "refund"     [] t = "ADJUSTMENT" -> "adjustment"
                [] OTHER -> "clearing"
Contra(t)  == IF t \in {"SETTLEMENT", "PAYOUT"} THEN "debtor" ELSE "clearing"

(* amountCents: the EUR amount, or failing that the original amount.       *)
BookedAmount(x) == Abs(IF x.eur # NoEur THEN x.eur ELSE x.original)

BaseLines(t, x) ==
  LET credit == x.original < 0 \/ t \in {"FEE", "REFUND"}
      n      == BookedAmount(x)
  IN  << NewLine(Primary(t), IF credit THEN "H" ELSE "S", n),
         NewLine(Contra(t),  IF credit THEN "S" ELSE "H", n) >>

(* buildFeeVatExtraLines, by the treatment of the marketplace or the event.*)
VatLines(treatment, net) ==
  LET vat == (net * RatePercent + 50) \div 100
  IN  IF treatment = "none" \/ vat = 0 THEN <<>>
      ELSE << NewLine("vatIn", "S", vat),
              NewLine(IF treatment = "reverse_charge_13b" THEN "vatOut"
                                                          ELSE "clearing",
                      "H", vat) >>

Buildable(e) == /\ type[e] \notin {"ORDER_CREATED", "CANCELLATION"}
                /\ status[e] \notin {"invoice_pending", "void"}
                /\ BookedAmount(fx[e]) # 0

StartBuild(r) ==
  /\ At(r, "idle")
  /\ \E e \in Events :
       /\ Buildable(e)
       /\ Step(r, [Idle EXCEPT !.pc = "find", !.event = e,
                     !.todo = BaseLines(type[e], fx[e]),
                     !.then = IF type[e] = "FEE" THEN "vat" ELSE "link"])
  /\ UNCHANGED <<events, journal, files, failures>>

(* Broken: looks for a draft, not for any entry of the event.              *)
FindDraft(r) ==
  /\ At(r, "find")
  /\ IF \E n \in OfEvent(req[r].event) : entries[n].status = "draft"
     THEN Return(r)
     ELSE Step(r, [req[r] EXCEPT !.pc = "create"])
  /\ UNCHANGED <<events, journal, files, failures>>

(* An event that has an entry keeps it as it is.                           *)
FindEntry(r) ==
  /\ At(r, "find")
  /\ IF OfEvent(req[r].event) # {}
     THEN Return(r)
     ELSE Step(r, [req[r] EXCEPT !.pc = "create"])
  /\ UNCHANGED <<events, journal, files, failures>>

CreateEntry(r) ==
  /\ At(r, "create")
  /\ \E n \in Entries :
       /\ Fresh(n)
       /\ entries' = [entries EXCEPT ![n] =
            [event |-> req[r].event, kind |-> "base", status |-> "draft",
             job |-> NoJob]]
       /\ Step(r, [req[r] EXCEPT !.pc = "lines", !.entry = n])
  /\ UNCHANGED <<events, lines, files, failures>>

(* One line after the other, for the base entry, its VAT and the true-up.  *)
AddLine(r) ==
  /\ At(r, "lines")
  /\ LET n == req[r].entry
         rest == Tail(req[r].todo)
     IN  /\ lines' = [lines EXCEPT ![n] = Append(@, Head(req[r].todo))]
         /\ Step(r, [req[r] EXCEPT !.todo = rest,
                       !.pc = IF rest = <<>> THEN req[r].then ELSE "lines"])
  /\ UNCHANGED <<events, entries, files, failures>>

(* The clearing configuration is read only now.                            *)
ReadVat(r) ==
  /\ At(r, "vat")
  /\ \E treatment \in {"none", "reverse_charge_13b", "input_vat_de"} :
       LET extra == VatLines(treatment, lines[req[r].entry][1].amount)
       IN  Step(r, [req[r] EXCEPT !.todo = extra, !.then = "link",
                      !.pc = IF extra = <<>> THEN "link" ELSE "lines"])
  /\ UNCHANGED <<events, journal, files, failures>>

LinkEvent(r) ==
  /\ At(r, "link")
  /\ status' = [status EXCEPT ![req[r].event] = "draft"]
  /\ Return(r)
  /\ UNCHANGED <<type, fx, meta, cancelled, journal, files, failures>>
-----------------------------------------------------------------------------
(* AccrualJournalService.post.                                             *)

(* Soll minus Haben of an entry; no entry has more than four lines.        *)
Signed(ls, i) == IF i \notin DOMAIN ls THEN 0
                 ELSE IF ls[i].side = "S" THEN ls[i].amount ELSE -ls[i].amount
Balance(ls)   == Signed(ls, 1) + Signed(ls, 2) + Signed(ls, 3) + Signed(ls, 4)

StartPost(r) ==
  /\ At(r, "idle")
  /\ \E n \in Entries : /\ entries[n].status = "draft"
                        /\ Step(r, [Idle EXCEPT !.pc = "post", !.entry = n])
  /\ UNCHANGED <<events, journal, files, failures>>

(* The lines are read and must balance.                                    *)
CheckBalance(r) ==
  /\ At(r, "post")
  /\ IF Balance(lines[req[r].entry]) # 0
     THEN Return(r)
     ELSE Step(r, [req[r] EXCEPT !.pc = "posting"])
  /\ UNCHANGED <<events, journal, files, failures>>

(* Broken: the event is written, the entry is not.                         *)
PostNothing(r) ==
  /\ At(r, "posting")
  /\ Step(r, [req[r] EXCEPT !.pc = "postEvent"])
  /\ UNCHANGED <<events, journal, files, failures>>

PostEntry(r) ==
  /\ At(r, "posting")
  /\ entries' = [entries EXCEPT ![req[r].entry].status = "posted"]
  /\ Step(r, [req[r] EXCEPT !.pc = "postEvent"])
  /\ UNCHANGED <<events, lines, files, failures>>

(* The event is posted whatever has become of it.                          *)
PostEvent(r) ==
  /\ At(r, "postEvent")
  /\ status' = [status EXCEPT ![entries[req[r].entry].event] = "posted"]
  /\ Return(r)
  /\ UNCHANGED <<type, fx, meta, cancelled, journal, files, failures>>
-----------------------------------------------------------------------------
(* FxTrueUpService.trueUpEvent.                                            *)

(* Broken: does not ask whether the true-up was posted.                    *)
StartTrueUpAgain(r) ==
  /\ At(r, "idle")
  /\ \E e \in Events :
       Step(r, [Idle EXCEPT !.pc = "trueUp", !.event = e, !.fx = fx[e],
                            !.prov = meta[e].prov])
  /\ UNCHANGED <<events, journal, files, failures>>

(* The event is read: its fx and metadata are those of this moment.        *)
StartTrueUp(r) ==
  /\ At(r, "idle")
  /\ \E e \in Events :
       /\ ~meta[e].trueUp
       /\ Step(r, [Idle EXCEPT !.pc = "trueUp", !.event = e, !.fx = fx[e],
                               !.prov = meta[e].prov])
  /\ UNCHANGED <<events, journal, files, failures>>

(* The amount booked in an entry: its first line, else the event's fx.     *)
Booked(n, x) == IF lines[n] # <<>> THEN lines[n][1].amount
                ELSE IF x.eur # NoEur THEN Abs(x.eur) ELSE 0

(* What was booked provisionally, and what the marketplace settled.        *)
Provisional(x, prov, n) ==
  CASE prov # NoEur                          -> prov
    [] prov = NoEur /\ x.source = "ECB" /\ x.eur # NoEur -> x.eur
    [] OTHER                                 -> Booked(n, x)
Settled(e, x, prov) ==
  IF x.source = "marketplace" /\ x.eur # NoEur /\ prov # NoEur THEN x.eur
                                                               ELSE Actual[e]

(* Any entry of the event may be found; it must have been posted.          *)
FindPosted(r) ==
  /\ At(r, "trueUp")
  /\ LET e == req[r].event
         x == req[r].fx
         settled == Settled(e, x, req[r].prov)
     IN  \/ /\ \/ settled = NoEur
               \/ OfEvent(e) = {}
               \/ \E n \in OfEvent(e) :
                    \/ entries[n].status = "draft"
                    \/ settled = Provisional(x, req[r].prov, n)
            /\ Return(r)
         \/ \E n \in OfEvent(e) :
              LET prov == Provisional(x, req[r].prov, n)
              IN  /\ entries[n].status # "draft"
                  /\ settled # NoEur
                  /\ settled # prov
                  /\ Step(r, [req[r] EXCEPT !.pc = "trueUpCreate",
                                !.fx.eur = settled, !.prov = prov])
  /\ UNCHANGED <<events, journal, files, failures>>

TrueUpLines(delta) ==
  IF delta > 0
  THEN << NewLine("clearing", "S", delta), NewLine("fxGain", "H", delta) >>
  ELSE << NewLine("fxLoss", "S", -delta), NewLine("clearing", "H", -delta) >>

(* The true-up entry is created as posted, and then gets its lines.        *)
CreateTrueUp(r) ==
  /\ At(r, "trueUpCreate")
  /\ \E n \in Entries :
       /\ Fresh(n)
       /\ entries' = [entries EXCEPT ![n] =
            [event |-> req[r].event, kind |-> "trueUp", status |-> "posted",
             job |-> NoJob]]
       /\ Step(r, [req[r] EXCEPT !.pc = "lines", !.then = "trueUpEvent",
                     !.entry = n,
                     !.todo = TrueUpLines(req[r].fx.eur - req[r].prov)])
  /\ UNCHANGED <<events, lines, files, failures>>

TrueUpEvent(r) ==
  /\ At(r, "trueUpEvent")
  /\ fx' = [fx EXCEPT ![req[r].event] =
              [req[r].fx EXCEPT !.source = "marketplace"]]
  /\ meta' = [meta EXCEPT ![req[r].event] =
                [prov |-> req[r].prov, trueUp |-> TRUE]]
  /\ Return(r)
  /\ UNCHANGED <<type, status, cancelled, journal, files, failures>>
-----------------------------------------------------------------------------
(* AccrualDatevExportService.create.                                       *)

InPeriod(p) == {n \in Entries : /\ entries[n].status # "none"
                                /\ DateOf[entries[n].event] \in p}

StartExport(r) ==
  /\ At(r, "idle")
  /\ \E p \in Periods :
       LET posted == {n \in InPeriod(p) : entries[n].status = "posted"}
       IN  /\ posted # {}
           /\ Step(r, [Idle EXCEPT !.pc = "gather", !.list = posted])
  /\ UNCHANGED <<events, journal, files, failures>>

Unexported(n) == {<<n, i>> : i \in {j \in DOMAIN lines[n] :
                                      lines[n][j].job = NoJob}}

(* Broken: an entry without lines to export is kept in the list.           *)
GatherAnyEntry(r) ==
  /\ At(r, "gather")
  /\ \E n \in req[r].list :
       LET rows == req[r].rows \cup Unexported(n)
           left == req[r].list \ {n}
       IN  IF left = {} /\ rows = {}
           THEN Return(r)
           ELSE Step(r, [req[r] EXCEPT !.list = left, !.rows = rows,
                           !.kept = @ \cup {n},
                           !.pc = IF left = {} THEN "job" ELSE "gather"])
  /\ UNCHANGED <<events, journal, files, failures>>

(* The lines of one entry of the list are read.  An export without any     *)
(* line is an error.                                                       *)
GatherEntry(r) ==
  /\ At(r, "gather")
  /\ \E n \in req[r].list :
       LET rows == req[r].rows \cup Unexported(n)
           left == req[r].list \ {n}
           kept == IF Unexported(n) = {} THEN req[r].kept
                                         ELSE req[r].kept \cup {n}
       IN  IF left = {} /\ rows = {}
           THEN Return(r)
           ELSE Step(r, [req[r] EXCEPT !.list = left, !.rows = rows,
                           !.kept = kept,
                           !.pc = IF left = {} THEN "job" ELSE "gather"])
  /\ UNCHANGED <<events, journal, files, failures>>

LineOf(l) == lines[l[1]][l[2]]

(* Broken: a line that finds no counterpart is written all the same.       *)
AnyRows(rows) == rows # {}

(* accrualLinesToDatevRows pairs a line with one of the other side, of the *)
(* same amount and posting date; validateDatevRows refuses a row that is   *)
(* left without gegenkonto.  All find a counterpart when there are as many *)
(* lines on each side, for each date and amount.                           *)
RowsPair(rows) ==
  \A l \in rows :
    LET alike(side) == {k \in rows :
          /\ DateOf[entries[k[1]].event] = DateOf[entries[l[1]].event]
          /\ LineOf(k).amount = LineOf(l).amount
          /\ LineOf(k).side = side}
    IN  Cardinality(alike("S")) = Cardinality(alike("H"))

CreateJob(r) ==
  /\ At(r, "job")
  /\ \/ /\ ~RowsPair(req[r].rows)
        /\ Return(r)
        /\ UNCHANGED files
     \/ /\ RowsPair(req[r].rows)
        /\ \E j \in Jobs : /\ files[j] = {}
                           /\ files' = [files EXCEPT ![j] = req[r].rows]
                           /\ Step(r, [req[r] EXCEPT !.pc = "mark", !.job = j])
  /\ UNCHANGED <<events, journal, failures>>

MarkLine(r) ==
  /\ At(r, "mark")
  /\ \E l \in req[r].rows :
       LET left == req[r].rows \ {l}
       IN  /\ lines' = [lines EXCEPT ![l[1]][l[2]].job = req[r].job]
           /\ Step(r, [req[r] EXCEPT !.rows = left,
                         !.pc = IF left = {} THEN "markEntries" ELSE "mark"])
  /\ UNCHANGED <<events, entries, files, failures>>

(* Broken: the entries are not marked.                                     *)
MarkNoEntry(r) ==
  /\ At(r, "markEntries")
  /\ Return(r)
  /\ UNCHANGED <<events, journal, files, failures>>

MarkEntry(r) ==
  /\ At(r, "markEntries")
  /\ \E n \in req[r].kept :
       LET left == req[r].kept \ {n}
       IN  /\ entries' = [entries EXCEPT ![n].status = "exported",
                                         ![n].job = req[r].job]
           /\ IF left = {} THEN Return(r)
                           ELSE Step(r, [req[r] EXCEPT !.kept = left])
  /\ UNCHANGED <<events, lines, files, failures>>
-----------------------------------------------------------------------------
(* What an import does meanwhile to the events of an order, one write each *)
(* (MatchingService.rematchByOrderId).                                     *)

(* An order with JTL records and marketplace rows: matched, and a sale     *)
(* once there is an invoice; a shipped order waits for its invoice.  Only  *)
(* the events of marketplace rows are left alone when void.  The rows are  *)
(* kept: an order once cancelled is never matched again.                   *)
Rematch(r) ==
  /\ At(r, "idle")
  /\ \E e \in Events :
       /\ e \notin cancelled
       /\ e \in FromJtl \/ ~(type[e] = "CANCELLATION" \/ status[e] = "void")
       /\ \/ status' = [status EXCEPT ![e] = "matched"]
             /\ UNCHANGED type
          \/ /\ type[e] = "ORDER_CREATED"
             /\ type' = [type EXCEPT ![e] = "SALE"]
             /\ status' = [status EXCEPT ![e] = "matched"]
          \/ /\ type[e] = "ORDER_CREATED"
             /\ e \notin FromJtl
             /\ status' = [status EXCEPT ![e] = "invoice_pending"]
             /\ UNCHANGED type
  /\ UNCHANGED <<fx, meta, cancelled, journal, files, req, failures>>

(* Amazon cancelled the order; the metadata is replaced.                   *)
CancelOrder(r) ==
  /\ At(r, "idle")
  /\ \E e \in Events :
       /\ cancelled' = cancelled \cup {e}
       /\ type' = [type EXCEPT ![e] = "CANCELLATION"]
       /\ status' = [status EXCEPT ![e] = "void"]
       /\ meta' = [meta EXCEPT ![e] = [prov |-> NoEur, trueUp |-> FALSE]]
  /\ UNCHANGED <<fx, journal, files, req, failures>>
-----------------------------------------------------------------------------
(* A call of the request rejects, or the process dies; bounded.            *)
Fail(r) ==
  /\ failures < MaxFailures
  /\ ~At(r, "idle")
  /\ failures' = failures + 1
  /\ Return(r)
  /\ UNCHANGED <<events, journal, files>>

Build(r)  == \/ StartBuild(r) \/ FindEntry(r) \/ CreateEntry(r) \/ AddLine(r)
             \/ ReadVat(r) \/ LinkEvent(r)
Post(r)   == StartPost(r) \/ CheckBalance(r) \/ PostEntry(r) \/ PostEvent(r)
TrueUp(r) == StartTrueUp(r) \/ FindPosted(r) \/ CreateTrueUp(r) \/ TrueUpEvent(r)
Export(r) == \/ StartExport(r) \/ GatherEntry(r) \/ CreateJob(r) \/ MarkLine(r)
             \/ MarkEntry(r)

Next == \E r \in Requests : \/ Build(r) \/ Post(r) \/ TrueUp(r) \/ Export(r)
                            \/ Rematch(r) \/ CancelOrder(r) \/ Fail(r)

Spec == Init /\ [][Next]_vars
-----------------------------------------------------------------------------
(* When requests do not overlap, even if one of them failed half way.      *)

(* An event is booked once (accrualJournal.service.ts:63 returns the entry *)
(* it finds, and bulkBuild skips the event as already_exists), whatever    *)
(* rematching makes of the event in between.                               *)
OneEntry ==
  \A e \in Events :
    Cardinality({n \in OfEvent(e) : entries[n].kind = "base"}) <= 1

(* An event that says posted has a booking that was posted, although its   *)
(* status is written by the builder, by post and by the imports.           *)
EventShowsJournal ==
  \A e \in Events : status[e] = "posted" =>
    \E n \in OfEvent(e) : /\ entries[n].kind = "base"
                          /\ entries[n].status \in {"posted", "exported"}

(* When nothing fails either.                                              *)

(* fxTrueUp.service.ts:39 "FX True-up bereits gebucht": an event is trued  *)
(* up once, unless its order is cancelled, which forgets the true-up.      *)
TrueUpOnce ==
  failures = 0 => \A e \in Events : type[e] # "CANCELLATION" =>
    Cardinality({n \in OfEvent(e) : entries[n].kind = "trueUp"}) <= 1

(* An event has one entry of each kind.                                    *)
EntriesOnce == OneEntry /\ TrueUpOnce

(* Between requests, what a file shows is marked with the file's job, line *)
(* and entry, so that no line is in two files and none is left behind.     *)
ExportComplete ==
  failures = 0 /\ (\A r \in Requests : At(r, "idle")) =>
    /\ \A j \in Jobs : \A l \in files[j] :
         /\ LineOf(l).job = j
         /\ entries[l[1]].status = "exported" /\ entries[l[1]].job = j
    /\ \A n \in Entries : entries[n].status = "exported" =>
         \A i \in DOMAIN lines[n] : <<n, i>> \in files[entries[n].job]
-----------------------------------------------------------------------------
(* However requests overlap and fail.                                      *)

(* Soll and Haben of every DATEV file agree, although the lines of entries *)
(* still being written may have been gathered.                             *)
FilesBalanced ==
  \A j \in Jobs :
    MapThenSumSet(LAMBDA l : Signed(lines[l[1]], l[2]), files[j]) = 0

(* A line marked as exported is in the file of that job, and an entry      *)
(* marked as exported has at least one line there.                         *)
MarksBacked ==
  \A n \in Entries :
    /\ \A i \in DOMAIN lines[n] : lines[n][i].job # NoJob =>
         <<n, i>> \in files[lines[n][i].job]
    /\ entries[n].job # NoJob =>
         \E i \in DOMAIN lines[n] : <<n, i>> \in files[entries[n].job]
=============================================================================
