----------------------- MODULE AccrualMatchingProofs -----------------------
(***************************************************************************)
(* Matching for any set of rows, orders and overlapping imports, any of    *)
(* which may fail at any call: type correctness, and that no event is a    *)
(* sale without a stored invoice of its order.  While requests follow one  *)
(* another, failures included, void events stay void; and if besides none  *)
(* fails, cancelled orders are void, invoices recognised, and the          *)
(* exceptions those of the events that wait.                               *)
(***************************************************************************)
EXTENDS AccrualMatching, TLAPS

(***************************************************************************)
(* What a request carries from one call to the next: the row it imports    *)
(* is stored and the records it has read are of that row's order; the      *)
(* events it is to write exist, and are of that order too.                 *)
(***************************************************************************)
Carry(w) ==
  /\ w.pc # "idle" => w.row \in Rows
  /\ w.pc \notin {"idle", "store", "manual"} => w.row \in stored
  /\ w.pc \in {"link", "manual"} => event[w.row] # NoEvent
  /\ w.jtl \subseteq Jtl(OrderOf[w.row])
  /\ w.mp # {} => OrderOf[w.row] # NoOrder
  /\ \A r \in w.todo : event[r] # NoEvent /\ OrderOf[r] = OrderOf[w.row]
  /\ w.pc = "patch" => /\ w.cur \in Rows
                       /\ event[w.cur] # NoEvent
                       /\ OrderOf[w.cur] = OrderOf[w.row]

IInv == TypeOK /\ SalesInvoiced /\ \A i \in Imports : Carry(req[i])

(* The idle record is one a request can hold.                              *)
LEMMA IdleInWork == Idle \in Work
BY DEF Idle, Work, Phases

(* Before anything is imported no request carries anything.                *)
LEMMA IInvInit == Init => IInv
<1> SUFFICES ASSUME Init PROVE IInv
  OBVIOUS
<1>1. /\ shows \in [MpRows -> {"pending", "shipped", "cancelled", "none"}]
      /\ stored \subseteq Rows /\ skipped \subseteq Rows
      /\ linked \subseteq {r \in stored : event[r] # NoEvent}
      /\ open \subseteq Problems \X Rows
  BY DEF Init
<1>7. failures \in 0..MaxFailures
  BY RowsOK DEF Init
<1>8. overlap \in BOOLEAN
  BY DEF Init
<1>2. event \in [Rows -> Event \cup {NoEvent}]
  BY DEF Init
<1>3. req \in [Imports -> Work]
  BY IdleInWork DEF Init
<1>4. SalesInvoiced
  BY DEF Init, SalesInvoiced, NoEvent
<1>5. \A i \in Imports : Carry(req[i])
  BY DEF Init, Carry, Idle
<1>6. QED BY <1>1, <1>2, <1>3, <1>4, <1>5, <1>7, <1>8 DEF IInv, TypeOK

(***************************************************************************)
(* Rows are never deleted, and events neither: what a request carries      *)
(* stays true while others write, and so does what is known of a sale.     *)
(***************************************************************************)
Grows == /\ stored \subseteq stored'
         /\ \A r \in Rows : event[r] # NoEvent => event'[r] # NoEvent

(* The JTL records of an order only become more.                           *)
LEMMA JtlGrows ==
  ASSUME Grows, NEW o
  PROVE  Jtl(o) \subseteq Jtl(o)'
BY DEF Grows, Jtl, RowsOf

(* What a request carries stays true while others store and write.         *)
LEMMA CarryStays ==
  ASSUME Grows, stored \subseteq Rows, NEW w \in Work, Carry(w)
  PROVE  Carry(w)'
<1>1. Jtl(OrderOf[w.row]) \subseteq Jtl(OrderOf[w.row])'
  BY JtlGrows
<1>2. w.todo \subseteq Rows
  BY DEF Work
<1>3. QED BY <1>1, <1>2 DEF Carry, Grows

(* One request moves on, to a record that carries what it should.          *)
LEMMA Moves ==
  ASSUME IInv, Grows, NEW i \in Imports, NEW w \in Work, Step(i, w), Carry(w)'
  PROVE  req' \in [Imports -> Work] /\ (\A j \in Imports : Carry(req[j]))'
<1>1. req' \in [Imports -> Work]
  BY DEF IInv, TypeOK, Step
<1>2. ASSUME NEW j \in Imports PROVE Carry(req[j])'
  <2>1. CASE req'[j] = w
    BY <2>1 DEF Carry
  <2>2. CASE req'[j] = req[j]
    <3>1. PICK v \in Work : v = req[j]
      BY DEF IInv, TypeOK
    <3>2. Carry(v)
      BY <3>1 DEF IInv
    <3>3. Carry(v)'
      BY <3>2, CarryStays DEF IInv, TypeOK
    <3>4. QED BY <2>2, <3>1, <3>3 DEF Carry
  <2>3. QED BY <2>1, <2>2 DEF Step, IInv, TypeOK
<1>3. QED BY <1>1, <1>2

(* One request ends: an idle request carries nothing.                      *)
LEMMA Returns ==
  ASSUME IInv, Grows, NEW i \in Imports, Return(i)
  PROVE  req' \in [Imports -> Work] /\ (\A j \in Imports : Carry(req[j]))'
<1>1. PICK w \in Work : w = Idle
  BY IdleInWork
<1>2. Carry(w)'
  BY <1>1 DEF Carry, Idle
<1>3. QED BY <1>1, <1>2, Moves DEF Return

(* Most calls write neither rows nor events.                               *)
LEMMA Quiet1 ==
  ASSUME IInv, UNCHANGED <<stored, event>>
  PROVE  Grows /\ SalesInvoiced'
BY DEF IInv, Grows, SalesInvoiced, Jtl, RowsOf, HasInvoice, IsInvoice

(* A call that writes neither moves on with what it carried.               *)
LEMMA QuietMoves ==
  ASSUME IInv, UNCHANGED <<shows, stored, event>>,
         NEW i \in Imports, NEW w \in Work, Step(i, w), Carry(w),
         skipped' \subseteq Rows,
         linked' \subseteq {r \in stored : event[r] # NoEvent},
         open' \subseteq Problems \X Rows,
         overlap' \in BOOLEAN, failures' \in 0..MaxFailures
  PROVE  IInv'
<1>1. Grows /\ SalesInvoiced'
  BY Quiet1
<1>2. Carry(w)'
  BY <1>1, CarryStays DEF IInv, TypeOK
<1>3. req' \in [Imports -> Work] /\ (\A j \in Imports : Carry(req[j]))'
  BY <1>1, <1>2, Moves
<1>4. TypeOK'
  BY <1>3 DEF IInv, TypeOK
<1>5. QED BY <1>1, <1>3, <1>4 DEF IInv

(* What the invariant says of the request that acts.                       *)
LEMMA Current ==
  ASSUME IInv, NEW i \in Imports
  PROVE  req[i] \in Work /\ Carry(req[i])
BY DEF IInv, TypeOK

(***************************************************************************)
(* The requests that begin, and the calls that only read.                  *)
(***************************************************************************)
LEMMA IInvStart ==
  ASSUME IInv, NEW i \in Imports, StartRow(i) \/ StartManual(i)
  PROVE  IInv'
<1>1. PICK r \in Rows, pc \in {"store", "manual"} :
        /\ pc = "manual" => event[r].type = "PAYOUT"
        /\ Begin(i, [Idle EXCEPT !.pc = pc, !.row = r])
  BY DEF StartRow, StartManual
<1>2. PICK w \in Work : w = [Idle EXCEPT !.pc = pc, !.row = r]
  BY <1>1, IdleInWork DEF Work, Phases
<1>3. Carry(w)
  BY <1>1, <1>2 DEF Carry, Idle, NoEvent
<1>4. Step(i, w) /\ overlap' \in BOOLEAN
  BY <1>1, <1>2 DEF Begin, IInv, TypeOK
<1>5. /\ UNCHANGED <<shows, stored, event>>
      /\ skipped' \subseteq Rows
      /\ linked' \subseteq {q \in stored : event[q] # NoEvent}
      /\ open' \subseteq Problems \X Rows
      /\ failures' \in 0..MaxFailures
  BY DEF StartRow, StartManual, records, IInv, TypeOK
<1>6. QED BY <1>3, <1>4, <1>5, QuietMoves

(* A request that stays with its row and order.                            *)
LEMMA IInvReads ==
  ASSUME IInv, NEW i \in Imports, NEW w \in Work, Step(i, w), Carry(w),
         UNCHANGED <<shows, records, event, open, overlap, failures>>
  PROVE  IInv'
<1>1. /\ UNCHANGED <<shows, stored, event>>
      /\ skipped' \subseteq Rows
      /\ linked' \subseteq {q \in stored : event[q] # NoEvent}
      /\ open' \subseteq Problems \X Rows
      /\ failures' \in 0..MaxFailures
  BY DEF records, IInv, TypeOK
<1>2. overlap' \in BOOLEAN
  BY DEF IInv, TypeOK
<1>3. QED BY <1>1, <1>2, QuietMoves

(* The reads of an import before it creates its event.                     *)
LEMMA IInvLook ==
  ASSUME IInv, NEW i \in Imports, LookMp(i) \/ LookJtl(i) \/ FindMp(i)
  PROVE  IInv'
<1> DEFINE o == OrderOf[req[i].row]
<1>1. Jtl(o) \subseteq JtlRows /\ Mp(o) \subseteq MpRows
      /\ (Mp(o) # {} => o # NoOrder)
  BY DEF Jtl, Mp, RowsOf
<1>2. CASE LookMp(i)
  <2>1. PICK w \in Work : w = [req[i] EXCEPT !.pc = "event", !.jtl = Jtl(o)]
    BY <1>1, Current DEF Work, Phases
  <2>2. Carry(w)
    BY <1>2, <2>1, Current DEF Carry, LookMp, At, Work
  <2>3. QED BY <1>2, <2>1, <2>2, IInvReads DEF LookMp
<1>3. CASE LookJtl(i)
  <2>1. PICK gone \in BOOLEAN :
          Step(i, [req[i] EXCEPT !.cancelled = gone,
                                 !.pc = IF gone THEN "event" ELSE "match"])
    BY <1>3 DEF LookJtl
  <2>2. PICK w \in Work :
          w = [req[i] EXCEPT !.cancelled = gone,
                             !.pc = IF gone THEN "event" ELSE "match"]
    BY Current DEF Work, Phases
  <2>3. Carry(w)
    BY <1>3, <2>2, Current DEF Carry, LookJtl, At, Work
  <2>4. QED BY <1>3, <2>1, <2>2, <2>3, IInvReads DEF LookJtl
<1>4. CASE FindMp(i)
  <2>1. PICK w \in Work : w = [req[i] EXCEPT !.pc = "event", !.mp = Mp(o)]
    BY <1>1, Current DEF Work, Phases
  <2>2. Carry(w)
    BY <1>1, <1>4, <2>1, Current DEF Carry, FindMp, At, Work
  <2>3. QED BY <1>4, <2>1, <2>2, IInvReads DEF FindMp
<1>5. QED BY <1>2, <1>3, <1>4

(* The reads of a rematch: rows of its order, and the events of linked ones. *)
LEMMA IInvRematch ==
  ASSUME IInv, NEW i \in Imports, ReadAmazon(i) \/ ReadJtl(i) \/ ReadMp(i)
  PROVE  IInv'
<1> DEFINE o == OrderOf[req[i].row]
<1>1. /\ Jtl(o) \subseteq JtlRows /\ Mp(o) \subseteq MpRows
      /\ Mp(o) # {} => o # NoOrder
      /\ \A r \in Jtl(o) \cup Mp(o) : OrderOf[r] = o
      /\ \A r \in linked : event[r] # NoEvent
  BY DEF Jtl, Mp, RowsOf, IInv, TypeOK
<1>2. CASE ReadAmazon(i)
  <2>1. PICK gone \in BOOLEAN, sent \in BOOLEAN :
          Step(i, [req[i] EXCEPT !.pc = "jtl", !.cancelled = gone,
                                 !.shipped = sent])
    BY <1>2 DEF ReadAmazon
  <2>2. PICK w \in Work :
          w = [req[i] EXCEPT !.pc = "jtl", !.cancelled = gone, !.shipped = sent]
    BY Current DEF Work, Phases
  <2>3. Carry(w)
    BY <1>2, <2>2, Current DEF Carry, ReadAmazon, At, Work
  <2>4. QED BY <1>2, <2>1, <2>2, <2>3, IInvReads DEF ReadAmazon
<1>3. CASE ReadJtl(i)
  <2>1. PICK w \in Work :
          w = [req[i] EXCEPT !.pc = "mp", !.jtl = Jtl(o),
                             !.todo = Jtl(o) \cap linked]
    BY <1>1, Current DEF Work, Phases, Rows
  <2>2. Carry(w)
    BY <1>1, <1>3, <2>1, Current DEF Carry, ReadJtl, At, Work
  <2>3. QED BY <1>3, <2>1, <2>2, IInvReads DEF ReadJtl
<1>4. CASE ReadMp(i)
  <2>1. PICK pc \in {"void", "read", "resolve"},
             todo \in {{}, req[i].todo \cup (Mp(o) \cap linked)} :
          Step(i, [req[i] EXCEPT !.mp = Mp(o), !.todo = todo, !.pc = pc])
    BY <1>4 DEF ReadMp
  <2>2. PICK w \in Work :
          w = [req[i] EXCEPT !.mp = Mp(o), !.todo = todo, !.pc = pc]
    BY <1>1, <2>1, Current DEF Work, Phases, Rows
  <2>3. \A r \in todo : event[r] # NoEvent /\ OrderOf[r] = o
    BY <1>1, <2>1, Current DEF Carry
  <2>4. Carry(w)
    BY <1>1, <1>4, <2>2, <2>3, Current DEF Carry, ReadMp, At, Work
  <2>5. QED BY <1>4, <2>1, <2>2, <2>4, IInvReads DEF ReadMp
<1>5. QED BY <1>2, <1>3, <1>4

(* A rematch reads one event, or has read them all.                        *)
LEMMA IInvReadEvent ==
  ASSUME IInv, NEW i \in Imports, ReadEvent(i)
  PROVE  IInv'
<1>1. CASE Step(i, [req[i] EXCEPT !.pc = "resolve"])
  <2>1. PICK w \in Work : w = [req[i] EXCEPT !.pc = "resolve"]
    BY Current DEF Work, Phases
  <2>2. Carry(w)
    BY <2>1, Current DEF Carry, ReadEvent, At, Work
  <2>3. QED BY <1>1, <2>1, <2>2, IInvReads DEF ReadEvent
<1>2. ASSUME NEW r \in req[i].todo,
             Step(i, [req[i] EXCEPT !.pc = "patch", !.cur = r, !.ev = event[r],
                                    !.todo = @ \ {r}])
      PROVE  IInv'
  <2>1. r \in Rows /\ event[r] \in Event \cup {NoEvent}
    BY Current DEF Work, IInv, TypeOK
  <2>2. PICK w \in Work :
          w = [req[i] EXCEPT !.pc = "patch", !.cur = r, !.ev = event[r],
                             !.todo = @ \ {r}]
    BY <2>1, Current DEF Work, Phases
  <2>3. Carry(w)
    BY <2>1, <2>2, Current DEF Carry, ReadEvent, At, Work
  <2>4. QED BY <1>2, <2>2, <2>3, IInvReads DEF ReadEvent
<1>3. QED BY <1>1, <1>2 DEF ReadEvent

(***************************************************************************)
(* The calls that end a request or write beside the events.                *)
(***************************************************************************)
LEMMA IInvBeside ==
  ASSUME IInv, NEW i \in Imports,
         SkipRow(i) \/ Link(i) \/ OpenException(i) \/ Resolve(i) \/ Fail(i)
  PROVE  IInv'
<1>1. UNCHANGED <<shows, stored, event>> /\ Grows /\ SalesInvoiced'
  BY Quiet1 DEF SkipRow, Link, OpenException, Resolve, Fail, records
<1>2. skipped' \subseteq Rows
  BY DEF SkipRow, Link, OpenException, Resolve, Fail, records, IInv, TypeOK
<1>3. linked' \subseteq {r \in stored : event[r] # NoEvent}
  <2>1. CASE Link(i)
    BY <2>1, Current DEF Link, At, Carry, IInv, TypeOK
  <2>2. CASE UNCHANGED linked
    BY <2>2 DEF IInv, TypeOK
  <2>3. QED
    BY <2>1, <2>2 DEF SkipRow, OpenException, Resolve, Fail, records
<1>4. open' \subseteq Problems \X Rows
  <2>1. CASE OpenException(i)
    <3>1. req[i].row \in Rows
      BY <2>1, Current DEF OpenException, At, Carry
    <3>2. Problem(req[i]) \subseteq Problems \X Rows
      BY <3>1 DEF Problem, Problems
    <3>3. QED BY <2>1, <3>2 DEF OpenException, IInv, TypeOK
  <2>2. CASE Resolve(i)
    BY <2>2 DEF Resolve, IInv, TypeOK
  <2>3. CASE UNCHANGED open
    BY <2>3 DEF IInv, TypeOK
  <2>4. QED BY <2>1, <2>2, <2>3 DEF SkipRow, Link, Fail
<1>5. overlap' \in BOOLEAN
  BY DEF SkipRow, Link, OpenException, Resolve, Fail, IInv, TypeOK
<1>6. failures' \in 0..MaxFailures
  <2>1. CASE Fail(i)
    BY <2>1, RowsOK DEF Fail, IInv, TypeOK
  <2>2. CASE UNCHANGED failures
    BY <2>2 DEF IInv, TypeOK
  <2>3. QED BY <2>1, <2>2 DEF SkipRow, Link, OpenException, Resolve
<1>7. req' \in [Imports -> Work] /\ (\A j \in Imports : Carry(req[j]))'
  <2>1. CASE Return(i)
    BY <1>1, <2>1, Returns
  <2>2. CASE SkipRow(i)
    <3>1. PICK w \in Work : w = req[i]
      BY Current
    <3>2. Carry(w)'
      BY <1>1, <3>1, Current, CarryStays DEF IInv, TypeOK
    <3>3. Step(i, w)
      BY <2>2, <3>1 DEF SkipRow, Step, IInv, TypeOK
    <3>4. QED BY <1>1, <3>2, <3>3, Moves
  <2>3. CASE Link(i)
    <3>1. PICK w \in Work : w = [req[i] EXCEPT !.pc = "except"]
      BY Current DEF Work, Phases
    <3>2. Carry(w)
      BY <2>3, <3>1, Current DEF Carry, Link, At, Work
    <3>3. Carry(w)'
      BY <1>1, <3>2, CarryStays DEF IInv, TypeOK
    <3>4. QED BY <1>1, <2>3, <3>1, <3>3, Moves DEF Link
  <2>4. CASE OpenException(i) /\ ~Return(i)
    <3>1. req[i].row \in Rows /\ req[i].row \in stored
      BY <2>4, Current DEF OpenException, At, Carry
    <3>2. PICK w \in Work : w = [Idle EXCEPT !.pc = "amazon", !.row = req[i].row]
      BY <3>1, IdleInWork DEF Work, Phases
    <3>3. Carry(w)
      BY <3>1, <3>2 DEF Carry, Idle
    <3>4. Carry(w)'
      BY <1>1, <3>3, CarryStays DEF IInv, TypeOK
    <3>5. QED BY <1>1, <2>4, <3>2, <3>4, Moves DEF OpenException
  <2>5. QED BY <2>1, <2>2, <2>3, <2>4 DEF Resolve, Fail
<1>8. TypeOK'
  BY <1>1, <1>2, <1>3, <1>4, <1>5, <1>6, <1>7 DEF IInv, TypeOK
<1>9. QED BY <1>1, <1>7, <1>8 DEF IInv

(***************************************************************************)
(* The calls that store a row or write an event.                           *)
(***************************************************************************)
LEMMA InvoiceStays ==
  ASSUME Grows, NEW o, HasInvoice(Jtl(o))
  PROVE  HasInvoice(Jtl(o))'
BY JtlGrows DEF HasInvoice, IsInvoice

(* A write that makes no sale without an invoice keeps the invariant.      *)
LEMMA Writes ==
  ASSUME IInv, Grows, UNCHANGED <<shows, skipped, linked, open, overlap, failures>>,
         NEW i \in Imports, NEW w \in Work, Step(i, w), Carry(w)',
         stored' \subseteq Rows,
         event' \in [Rows -> Event \cup {NoEvent}],
         \A r \in Rows : event'[r].type = "SALE" =>
           event[r].type = "SALE" \/ HasInvoice(Jtl(OrderOf[r]))
  PROVE  IInv'
<1>1. SalesInvoiced'
  <2> SUFFICES ASSUME NEW r \in Rows, event'[r].type = "SALE"
               PROVE  HasInvoice(Jtl(OrderOf[r]))'
    BY DEF SalesInvoiced
  <2>1. HasInvoice(Jtl(OrderOf[r]))
    BY DEF IInv, SalesInvoiced
  <2>2. QED BY <2>1, InvoiceStays
<1>2. linked' \subseteq {r \in stored' : event'[r] # NoEvent}
  BY DEF IInv, TypeOK, Grows
<1>3. req' \in [Imports -> Work] /\ (\A j \in Imports : Carry(req[j]))'
  BY Moves
<1>4. overlap' \in BOOLEAN
  BY DEF IInv, TypeOK
<1>5. TypeOK'
  BY <1>2, <1>3, <1>4 DEF IInv, TypeOK
<1>6. QED BY <1>1, <1>3, <1>5 DEF IInv

(* A row is stored: the request that imports it moves on.                  *)
LEMMA IInvStore ==
  ASSUME IInv, NEW i \in Imports, Store(i)
  PROVE  IInv'
<1>1. req[i].row \in Rows
  BY Current DEF Store, At, Carry
<1>2. PICK w \in Work : w = [req[i] EXCEPT !.pc = "look"]
  BY Current DEF Work, Phases
<1>3. Grows /\ stored' \subseteq Rows
  BY <1>1 DEF Store, Grows, IInv, TypeOK
<1>4. Carry(w)'
  <2>1. PICK v \in Work : v = req[i]
    BY Current
  <2>2. Carry(v)'
    BY <1>3, <2>1, Current, CarryStays DEF IInv, TypeOK
  <2>3. v.pc = "store" /\ w = [v EXCEPT !.pc = "look"] /\ v.row \in stored'
    BY <1>2, <2>1 DEF Store, At
  <2>4. QED BY <2>2, <2>3 DEF Carry, Work
<1>5. event' \in [Rows -> Event \cup {NoEvent}]
  BY DEF Store, IInv, TypeOK
<1>6. QED BY <1>2, <1>3, <1>4, <1>5, Writes DEF Store

(* One event is written: a request that carried what it should still does. *)
LEMMA WritesEvent ==
  ASSUME IInv, NEW i \in Imports, NEW w \in Work, Step(i, w),
         NEW r \in Rows, NEW e \in Event,
         event' = [event EXCEPT ![r] = e],
         UNCHANGED <<shows, records, open, overlap, failures>>,
         e.type = "SALE" => event[r].type = "SALE" \/ HasInvoice(Jtl(OrderOf[r])),
         Carry(w) \/ Carry(w)'
  PROVE  IInv'
<1>1. e # NoEvent
  BY DEF Event, NoEvent, Types
<1>2. Grows
  BY <1>1 DEF Grows, IInv, TypeOK, records
<1>3. Carry(w)'
  BY <1>2, CarryStays DEF IInv, TypeOK
<1>4. event' \in [Rows -> Event \cup {NoEvent}] /\ stored' \subseteq Rows
  BY DEF IInv, TypeOK, records
<1>5. \A q \in Rows : event'[q].type = "SALE" =>
        event[q].type = "SALE" \/ HasInvoice(Jtl(OrderOf[q]))
  BY DEF IInv, TypeOK
<1>6. QED BY <1>2, <1>3, <1>4, <1>5, Writes DEF records

(***************************************************************************)
(* What the matching rules make of a row: a sale only with an invoice.     *)
(***************************************************************************)
LEMMA EvOK ==
  ASSUME NEW t \in Types, NEW s \in Statuses
  PROVE  Ev(t, s) \in Event /\ Ev(t, s).type = t
BY DEF Ev, Event

(* A marketplace row becomes a sale only if an invoice was read.           *)
LEMMA MpEventOK ==
  ASSUME NEW r, NEW jtl
  PROVE  /\ MpEvent(r, jtl) \in Event
         /\ MpEvent(r, jtl).type = "SALE" => HasInvoice(jtl)
<1>1. MpType(Kind[r]) \in Types \ {"SALE"}
  BY DEF MpType, Types
<1>2. Waiting(r, jtl) \in Statuses
  BY DEF Waiting, Statuses
<1>3. CASE Cancelled(r)
  BY <1>3, EvOK DEF MpEvent, Types, Statuses
<1>4. CASE ~Cancelled(r) /\ Shipped(r)
  BY <1>4, EvOK DEF MpEvent, Types, Statuses
<1>5. CASE ~Cancelled(r) /\ ~Shipped(r)
  BY <1>1, <1>2, <1>5, EvOK DEF MpEvent
<1>6. QED BY <1>3, <1>4, <1>5

(* A JTL record becomes a sale only if it is an invoice of an order.       *)
LEMMA JtlEventOK ==
  ASSUME NEW r, NEW mp, NEW cancelled
  PROVE  /\ JtlEvent(r, mp, cancelled) \in Event
         /\ JtlEvent(r, mp, cancelled).type = "SALE" => IsInvoice(r) /\ mp # {}
<1>1. Waiting(r, mp) \in Statuses
  BY DEF Waiting, Statuses
<1> DEFINE t == CASE Kind[r] = "invoice_correction" -> "CANCELLATION"
                  [] IsInvoice(r) /\ mp # {}        -> "SALE"
                  [] OTHER                          -> "ORDER_CREATED"
<1>2. t \in Types /\ (t = "SALE" => IsInvoice(r) /\ mp # {})
  BY DEF IsInvoice, Types
<1>3. CASE cancelled
  BY <1>3, EvOK DEF JtlEvent, Types, Statuses
<1>4. CASE ~cancelled
  <2>1. JtlEvent(r, mp, cancelled) = Ev(t, Waiting(r, mp))
    BY <1>4 DEF JtlEvent
  <2> HIDE DEF t
  <2>2. QED BY <1>1, <1>2, <2>1, EvOK
<1>5. QED BY <1>3, <1>4

(* A rematch makes a sale only if it has read an invoice.                  *)
LEMMA PatchedOK ==
  ASSUME NEW w \in Work, event[w.cur] \in Event
  PROVE  /\ Patched(w) \in Event
         /\ Patched(w).type = "SALE" => event[w.cur].type = "SALE" \/ HasInvoice(w.jtl)
<1>1. event[w.cur].type \in Types
  BY DEF Event
<1>2. /\ {"matched", "invoice_pending"} \subseteq Statuses
      /\ {"SALE", "ORDER_CREATED"} \subseteq Types
  BY DEF Statuses, Types
<1>3. \/ Patched(w) = event[w.cur]
      \/ Patched(w) = Ev(event[w.cur].type, "matched")
      \/ Patched(w) = Ev("SALE", "matched") /\ HasInvoice(w.jtl)
      \/ Patched(w) = Ev("ORDER_CREATED", "invoice_pending")
  BY DEF Patched
<1>4. QED BY <1>1, <1>2, <1>3, EvOK

(* The event of a row: the invoice it was decided by is still stored.      *)
LEMMA IInvCreateEvent ==
  ASSUME IInv, NEW i \in Imports, CreateEvent(i)
  PROVE  IInv'
<1> DEFINE r == req[i].row
           e == IF r \in MpRows THEN MpEvent(r, req[i].jtl)
                                ELSE JtlEvent(r, req[i].mp, req[i].cancelled)
<1>1. r \in Rows /\ r \in stored
  BY Current DEF CreateEvent, At, Carry
<1>2. e \in Event
  BY MpEventOK, JtlEventOK
<1>3. ASSUME e.type = "SALE" PROVE HasInvoice(Jtl(OrderOf[r]))
  <2>1. CASE r \in MpRows
    <3>1. HasInvoice(req[i].jtl)
      BY <1>3, <2>1, MpEventOK
    <3>2. QED BY <3>1, Current DEF Carry, HasInvoice
  <2>2. CASE r \notin MpRows
    <3>1. IsInvoice(r) /\ req[i].mp # {}
      BY <1>3, <2>2, JtlEventOK
    <3>2. OrderOf[r] # NoOrder
      BY <3>1, Current DEF Carry
    <3>3. r \in Jtl(OrderOf[r])
      BY <1>1, <3>1, <3>2 DEF Jtl, RowsOf, IsInvoice
    <3>4. QED BY <3>1, <3>3 DEF HasInvoice
  <2>3. QED BY <2>1, <2>2
<1>4. PICK w \in Work : w = [req[i] EXCEPT !.pc = "link"]
  BY Current DEF Work, Phases
<1>5. event' = [event EXCEPT ![r] = e]
  BY DEF CreateEvent
<1>6. Carry(w)'
  <2>1. PICK v \in Work : v = req[i]
    BY Current
  <2>2. PICK x \in Event : x = e
    BY <1>2
  <2>3. x # NoEvent
    BY DEF Event, NoEvent, Types
  <2>4. Grows
    BY <1>1, <1>5, <2>2, <2>3 DEF Grows, CreateEvent, records, IInv, TypeOK
  <2>5. Carry(v)'
    BY <2>1, <2>4, Current, CarryStays DEF IInv, TypeOK
  <2>6. event'[v.row] # NoEvent
    BY <1>1, <1>5, <2>1, <2>2, <2>3 DEF IInv, TypeOK
  <2>7. v.pc = "event" /\ w = [v EXCEPT !.pc = "link"]
    BY <1>4, <2>1 DEF CreateEvent, At
  <2>8. QED BY <2>5, <2>6, <2>7 DEF Carry, Work
<1>7. PICK x \in Event : x = e
  BY <1>2
<1>8. Step(i, w) /\ UNCHANGED <<shows, records, open, overlap, failures>>
  BY <1>4 DEF CreateEvent
<1> HIDE DEF e
<1>9. QED BY <1>1, <1>3, <1>5, <1>6, <1>7, <1>8, WritesEvent

(* A cancelled order makes no sale.                                        *)
LEMMA IInvVoidEvent ==
  ASSUME IInv, NEW i \in Imports, VoidEvent(i)
  PROVE  IInv'
<1>1. CASE Step(i, [req[i] EXCEPT !.pc = "resolve"]) /\ UNCHANGED event
  <2>1. PICK w \in Work : w = [req[i] EXCEPT !.pc = "resolve"]
    BY Current DEF Work, Phases
  <2>2. Carry(w)
    BY <2>1, Current DEF Carry, VoidEvent, At, Work
  <2>3. QED BY <1>1, <2>1, <2>2, IInvReads DEF VoidEvent
<1>2. ASSUME NEW r \in req[i].todo,
             event' = [event EXCEPT ![r] = Ev("CANCELLATION", "void")],
             Step(i, [req[i] EXCEPT !.todo = @ \ {r}])
      PROVE  IInv'
  <2>1. r \in Rows
    BY Current DEF Work
  <2>2. PICK w \in Work : w = [req[i] EXCEPT !.todo = @ \ {r}]
    BY Current DEF Work
  <2>3. Carry(w)
    BY <2>2, Current DEF Carry, Work
  <2>4. /\ Ev("CANCELLATION", "void") \in Event
        /\ Ev("CANCELLATION", "void").type # "SALE"
    BY EvOK DEF Types, Statuses
  <2>5. QED BY <1>2, <2>1, <2>2, <2>3, <2>4, WritesEvent DEF VoidEvent
<1>3. QED BY <1>1, <1>2 DEF VoidEvent

(* A rematch writes an event of its own order.                             *)
LEMMA IInvPatchEvent ==
  ASSUME IInv, NEW i \in Imports, PatchEvent(i)
  PROVE  IInv'
<1>1. PICK v \in Work : v = req[i]
  BY Current
<1>2. /\ v.cur \in Rows /\ event[v.cur] \in Event
      /\ OrderOf[v.cur] = OrderOf[v.row]
      /\ v.jtl \subseteq Jtl(OrderOf[v.row])
  BY <1>1, Current DEF PatchEvent, At, Carry, IInv, TypeOK
<1>3. PICK e \in Event : e = Patched(v)
  BY <1>2, PatchedOK
<1>4. e.type = "SALE" =>
        event[v.cur].type = "SALE" \/ HasInvoice(Jtl(OrderOf[v.cur]))
  BY <1>2, <1>3, PatchedOK DEF HasInvoice
<1>5. PICK w \in Work : w = [v EXCEPT !.pc = "read", !.cur = NoRow, !.ev = NoEvent]
  BY DEF Work, Phases
<1>6. Carry(w)
  BY <1>1, <1>5, Current DEF Carry, PatchEvent, At, Work
<1>7. /\ event' = [event EXCEPT ![v.cur] = e]
      /\ Step(i, w)
      /\ UNCHANGED <<shows, records, open, overlap, failures>>
  BY <1>1, <1>3, <1>5 DEF PatchEvent
<1>8. QED BY <1>2, <1>4, <1>6, <1>7, WritesEvent

(* A manual match leaves the type of the event.                            *)
LEMMA IInvManualMatch ==
  ASSUME IInv, NEW i \in Imports, ManualMatch(i)
  PROVE  IInv'
<1>1. PICK r \in Rows : r = req[i].row /\ event[r] \in Event
  BY Current DEF ManualMatch, At, Carry, IInv, TypeOK
<1>2. PICK e \in Event : e = [event[r] EXCEPT !.status = "matched"]
  BY <1>1 DEF Event, Statuses
<1>3. e.type = event[r].type
  BY <1>1, <1>2 DEF Event
<1>4. event' = [event EXCEPT ![r] = e]
  BY <1>1, <1>2 DEF ManualMatch
<1>5. PICK w \in Work : w = Idle
  BY IdleInWork
<1>6. Carry(w)
  BY <1>5 DEF Carry, Idle
<1>7. QED BY <1>3, <1>4, <1>5, <1>6, WritesEvent DEF ManualMatch, Return

(* Every call of every request keeps the invariant.                        *)
LEMMA IInvNext == IInv /\ [Next]_vars => IInv'
<1> SUFFICES ASSUME IInv, [Next]_vars PROVE IInv'
  OBVIOUS
<1>1. CASE UNCHANGED vars
  BY <1>1 DEF vars, records, IInv, TypeOK, SalesInvoiced, Carry, Jtl, RowsOf,
              HasInvoice, IsInvoice
<1>2. ASSUME NEW i \in Imports,
             Upsert(i) \/ Rematch(i) \/ StartManual(i) \/ ManualMatch(i) \/ Fail(i)
      PROVE  IInv'
  <2>1. CASE StartRow(i) \/ StartManual(i)
    BY <2>1, IInvStart
  <2>2. CASE LookMp(i) \/ LookJtl(i) \/ FindMp(i)
    BY <2>2, IInvLook
  <2>3. CASE ReadAmazon(i) \/ ReadJtl(i) \/ ReadMp(i)
    BY <2>3, IInvRematch
  <2>4. CASE ReadEvent(i)
    BY <2>4, IInvReadEvent
  <2>5. CASE SkipRow(i) \/ Link(i) \/ OpenException(i) \/ Resolve(i) \/ Fail(i)
    BY <2>5, IInvBeside
  <2>6. CASE Store(i) \/ CreateEvent(i) \/ VoidEvent(i) \/ PatchEvent(i)
             \/ ManualMatch(i)
    BY <2>6, IInvStore, IInvCreateEvent, IInvVoidEvent, IInvPatchEvent,
       IInvManualMatch
  <2>7. QED
    BY <1>2, <2>1, <2>2, <2>3, <2>4, <2>5, <2>6 DEF Upsert, Rematch
<1>3. QED BY <1>1, <1>2 DEF Next

(* The inductive invariant of matching.                                    *)
THEOREM Invariance == Spec => []IInv
<1>1. QED BY IInvInit, IInvNext, PTL DEF Spec

(* Every variable has its type, whatever rows are imported and however the *)
(* imports overlap.                                                        *)
THEOREM TypeCorrect == Spec => []TypeOK
<1>1. IInv => TypeOK
  BY DEF IInv
<1>2. QED BY <1>1, Invariance, PTL

(* However many imports overlap, act on stale reads or die half way, no    *)
(* event becomes a sale (upsertEventFromMarketplaceTxn,                    *)
(* upsertEventFromJtlRecord, rematchByOrderId) before an invoice of its    *)
(* order is stored.                                                        *)
THEOREM NoSaleWithoutInvoice == Spec => []SalesInvoiced
<1>1. IInv => SalesInvoiced
  BY DEF IInv
<1>2. QED BY <1>1, Invariance, PTL

-----------------------------------------------------------------------------
(***************************************************************************)
(* Void events.  What says of an order that Amazon cancelled it stays said,*)
(* so that what only a cancelled order leads to never has to be taken back.*)
(***************************************************************************)
VoidOK(r) ==
  event[r].status = "void" =>
    /\ event[r].type = "CANCELLATION"
    /\ r \in JtlRows => CancelledAtAmazon(OrderOf[r])

CancelOK(w) ==
  /\ w.cancelled => CancelledAtAmazon(OrderOf[w.row])
  /\ w.pc = "void" => w.cancelled
  /\ w.pc \in {"read", "patch"} => ~w.cancelled

(* One request at a time: what it has read is still so.                    *)
Sole == \A i, k \in Imports : At(i, "idle") \/ At(k, "idle") \/ i = k

FreshOK(w) ==
  /\ w.pc = "store" => w.row \notin stored /\ ~Taken(Key[w.row])
  /\ w.pc \in {"look", "match", "event"} => event[w.row] = NoEvent
  /\ w.pc = "manual" => event[w.row].type = "PAYOUT"
  /\ w.pc \in {"jtl", "mp", "void", "read", "patch", "resolve"} =>
       (w.cancelled <=> CancelledAtAmazon(OrderOf[w.row]))
  /\ w.pc = "patch" => w.ev = event[w.cur]

VInv ==
  /\ IInv
  /\ \A r \in MpRows : shows[r] = "none" <=> Kind[r] # "order"
  /\ \A r \in Rows : VoidOK(r) /\ (event[r] # NoEvent => r \in stored)
  /\ \A i \in Imports : CancelOK(req[i])
  /\ ~overlap => Sole /\ \A i \in Imports : FreshOK(req[i])

(***************************************************************************)
(* An Amazon order has one row in an order report: the parsers name it by  *)
(* the order (`amazon-order:<id>`), and no other marketplace uses its ids. *)
(***************************************************************************)
OneReportRow ==
  \A r \in AmazonRows, s \in MpRows :
    Kind[r] = "order" /\ Kind[s] = "order" /\ OrderOf[r] = OrderOf[s] => Key[r] = Key[s]

(***************************************************************************)
(* What is known of a stored row while request w is the only one.  From    *)
(* the store of a row until its order has been read for matching, nothing  *)
(* is promised of the order's other rows.                                  *)
(***************************************************************************)
Creating(w, r) == w.row = r /\ w.pc \in {"look", "match", "event"}
Settling(w, r) ==
  /\ w.pc \in {"look", "match", "event", "link", "except", "amazon", "jtl", "mp"}
  /\ OrderOf[r] = OrderOf[w.row]
Doing(w, r) == r \in w.todo \/ (w.pc = "patch" /\ r = w.cur)
Closing(w, r) ==
  /\ w.pc \in {"void", "read", "patch", "resolve"}
  /\ OrderOf[r] = OrderOf[w.row]
  /\ w.cancelled \/ HasInvoice(w.jtl)

Awaits == Ev("ORDER_CREATED", "invoice_pending")
IsOpen(r) == <<"MISSING_INVOICE", r>> \in open

(* What the kind of a row says of its event.                               *)
TypesOK(r) ==
  event[r] # NoEvent =>
    /\ IsInvoice(r) => \/ event[r].type \in {"SALE", "ORDER_CREATED"}
                       \/ CancelledAtAmazon(OrderOf[r])
    /\ r \in MpRows /\ event[r].type = "CANCELLATION" => event[r].status = "void"
    /\ r \in MpRows /\ event[r].type = "ORDER_CREATED" => Kind[r] = "order"
    /\ event[r].status = "invoice_pending" =>
         r \in MpRows /\ event[r].type = "ORDER_CREATED" /\ Shipped(r)
    /\ Shipped(r) /\ ~HasInvoice(Jtl(OrderOf[r])) /\ ~CancelledAtAmazon(OrderOf[r]) =>
         event[r] = Awaits

LinkedOK(w, r) == r \in linked \/ Creating(w, r) \/ (w.row = r /\ w.pc = "link")

VoidedOK(w, r) ==
  CancelledAtAmazon(OrderOf[r]) =>
    \/ event[r] = Ev("CANCELLATION", "void")
    \/ Settling(w, r)
    \/ w.pc = "void" /\ r \in w.todo

Recognised(r) ==
  /\ IsInvoice(r) => event[r] = Ev("SALE", "matched")
  /\ event[r].status \notin {"pending_match", "invoice_pending"}

SeenOK(w, r) ==
  LET o == OrderOf[r] IN
  HasInvoice(Jtl(o)) /\ Mp(o) # {} /\ ~CancelledAtAmazon(o) =>
    \/ Recognised(r)
    \/ Settling(w, r)
    \/ w.pc \in {"read", "patch"} /\ Doing(w, r)

OpenedOK(w, r) ==
  IF w.row = r /\ w.pc \in {"look", "match", "event", "link", "except"}
  THEN ~IsOpen(r)
  ELSE (event[r].status = "invoice_pending" <=> IsOpen(r)) \/ Closing(w, r)

(* What w has read of its order.                                           *)
ReadsOK(w) ==
  LET o == OrderOf[w.row] IN
  /\ w.pc = "match" => w.row \in JtlRows
  /\ w.pc = "event" /\ w.row \in MpRows => w.jtl = Jtl(o)
  /\ w.pc \in {"link", "except"} /\ w.row \in MpRows =>
       w.jtl = Jtl(o) /\ event[w.row] = MpEvent(w.row, w.jtl)
  /\ w.pc \in {"amazon", "jtl", "mp", "void", "read", "patch", "resolve"} => o # NoOrder
  /\ w.pc \in {"mp", "void", "read", "patch", "resolve"} => w.jtl = Jtl(o)
  /\ w.pc \in {"jtl", "mp", "void", "read", "patch", "resolve"} /\ w.shipped =>
       \E r \in Amazon(o) : Shipped(r)
  /\ w.pc = "mp" => w.todo = Jtl(o)

KeysOnce == \A r, s \in stored : Key[r] = Key[s] => r = s

Whole(w) ==
  /\ \A r \in stored : /\ TypesOK(r) /\ LinkedOK(w, r) /\ VoidedOK(w, r)
                       /\ SeenOK(w, r) /\ OpenedOK(w, r)
  /\ \A r \in Rows : IsOpen(r) => r \in stored
  /\ KeysOnce /\ ReadsOK(w)

NInv ==
  /\ VInv
  /\ Imports = {} => stored = {}
  /\ ~overlap /\ failures = 0 =>
       \A i \in Imports : (\A k \in Imports \ {i} : At(k, "idle")) => Whole(req[i])

-----------------------------------------------------------------------------
(* The request after a step, and the others.                               *)
LEMMA Went ==
  ASSUME IInv, NEW i \in Imports, NEW w, Step(i, w)
  PROVE  req'[i] = w /\ \A k \in Imports \ {i} : req'[k] = req[k]
BY DEF IInv, TypeOK, Step

LEMMA WentIdle ==
  ASSUME IInv, NEW i \in Imports, Return(i)
  PROVE  /\ req'[i].pc = "idle" /\ ~req'[i].cancelled /\ ~req'[i].shipped
         /\ \A k \in Imports \ {i} : req'[k] = req[k]
<1>1. req'[i] = Idle /\ \A k \in Imports \ {i} : req'[k] = req[k]
  BY Went DEF Return
<1>2. QED BY <1>1 DEF Idle

(* What each call leaves of what the request carries.                      *)
LEMMA StartFlow ==
  ASSUME IInv, NEW i \in Imports, StartRow(i) \/ StartManual(i)
  PROVE  /\ At(i, "idle") /\ UNCHANGED <<shows, stored, linked, event, open, failures>>
         /\ overlap' = (overlap \/ \E k \in Imports : ~At(k, "idle"))
         /\ \A k \in Imports \ {i} : req'[k] = req[k]
         /\ ~req'[i].cancelled /\ ~req'[i].shipped
         /\ \/ /\ req'[i].pc = "store" /\ req'[i].row \in Rows \ stored
               /\ ~Taken(Key[req'[i].row])
            \/ /\ req'[i].pc = "manual" /\ req'[i].row \in Rows
               /\ event[req'[i].row].type = "PAYOUT"
<1>1. PICK r \in Rows, pc \in {"store", "manual"} :
        /\ Begin(i, [Idle EXCEPT !.pc = pc, !.row = r])
        /\ pc = "store" => r \notin stored /\ ~Taken(Key[r])
        /\ pc = "manual" => event[r].type = "PAYOUT"
  BY DEF StartRow, StartManual
<1> DEFINE w == [Idle EXCEPT !.pc = pc, !.row = r]
<1>2. w.pc = pc /\ w.row = r /\ ~w.cancelled /\ ~w.shipped
  BY DEF Idle
<1>3. Step(i, w) /\ At(i, "idle")
      /\ overlap' = (overlap \/ \E k \in Imports : ~At(k, "idle"))
  BY <1>1 DEF Begin
<1> HIDE DEF w
<1>4. req'[i] = w /\ \A k \in Imports \ {i} : req'[k] = req[k]
  BY <1>3, Went
<1>5. UNCHANGED <<shows, stored, linked, event, open, failures>>
  BY DEF StartRow, StartManual, records
<1>6. QED BY <1>1, <1>2, <1>3, <1>4, <1>5

LEMMA LookFlow ==
  ASSUME IInv, NEW i \in Imports, Store(i) \/ LookMp(i) \/ LookJtl(i) \/ FindMp(i)
  PROVE  /\ UNCHANGED <<shows, linked, event, open, overlap, failures>>
         /\ \A k \in Imports \ {i} : req'[k] = req[k]
         /\ req'[i].row = req[i].row /\ req'[i].shipped = req[i].shipped
         /\ \/ /\ At(i, "store") /\ req'[i].pc = "look" /\ stored' = stored \cup {req[i].row}
               /\ req'[i].cancelled = req[i].cancelled
            \/ /\ At(i, "look") /\ req[i].row \in MpRows /\ req'[i].pc = "event"
               /\ stored' = stored /\ req'[i].cancelled = req[i].cancelled
               /\ req'[i].jtl = Jtl(OrderOf[req[i].row])
            \/ /\ At(i, "look") /\ req[i].row \in JtlRows /\ req'[i].pc \in {"event", "match"}
               /\ stored' = stored
               /\ req'[i].cancelled = CancelledAtAmazon(OrderOf[req[i].row])
            \/ /\ At(i, "match") /\ req'[i].pc = "event"
               /\ stored' = stored /\ req'[i].cancelled = req[i].cancelled
<1>0. req[i] \in Work
  BY Current
<1>1. CASE Store(i)
  <2> DEFINE w == [req[i] EXCEPT !.pc = "look"]
  <2>1. /\ w.pc = "look" /\ w.row = req[i].row
        /\ w.shipped = req[i].shipped /\ w.cancelled = req[i].cancelled
    BY <1>0 DEF Work
  <2>2. req'[i] = w /\ \A k \in Imports \ {i} : req'[k] = req[k]
    BY <1>1, Went DEF Store
  <2> HIDE DEF w
  <2>3. QED BY <1>1, <2>1, <2>2 DEF Store
<1>2. CASE LookMp(i)
  <2> DEFINE w == [req[i] EXCEPT !.pc = "event", !.jtl = Jtl(OrderOf[req[i].row])]
  <2>1. /\ w.pc = "event" /\ w.row = req[i].row /\ w.jtl = Jtl(OrderOf[req[i].row])
        /\ w.shipped = req[i].shipped /\ w.cancelled = req[i].cancelled
    BY <1>0 DEF Work
  <2>2. req'[i] = w /\ \A k \in Imports \ {i} : req'[k] = req[k]
    BY <1>2, Went DEF LookMp
  <2> HIDE DEF w
  <2>3. QED BY <1>2, <2>1, <2>2 DEF LookMp, records
<1>3. CASE LookJtl(i)
  <2> DEFINE gone == CancelledAtAmazon(OrderOf[req[i].row])
             pc == IF gone THEN "event" ELSE "match"
             w == [req[i] EXCEPT !.cancelled = gone, !.pc = pc]
  <2>1. pc \in {"event", "match"}
    OBVIOUS
  <2>2. req'[i] = w /\ \A k \in Imports \ {i} : req'[k] = req[k]
    BY <1>3, Went DEF LookJtl, CancelledAtAmazon
  <2> HIDE DEF pc, gone
  <2>3. w.pc = pc /\ w.row = req[i].row /\ w.shipped = req[i].shipped /\ w.cancelled = gone
    BY <1>0 DEF Work
  <2> HIDE DEF w
  <2>4. QED BY <1>3, <2>1, <2>2, <2>3 DEF LookJtl, records, gone
<1>4. CASE FindMp(i)
  <2> DEFINE w == [req[i] EXCEPT !.pc = "event", !.mp = Mp(OrderOf[req[i].row])]
  <2>1. /\ w.pc = "event" /\ w.row = req[i].row
        /\ w.shipped = req[i].shipped /\ w.cancelled = req[i].cancelled
    BY <1>0 DEF Work
  <2>2. req'[i] = w /\ \A k \in Imports \ {i} : req'[k] = req[k]
    BY <1>4, Went DEF FindMp
  <2> HIDE DEF w
  <2>3. QED BY <1>4, <2>1, <2>2 DEF FindMp, records
<1>5. QED BY <1>1, <1>2, <1>3, <1>4

LEMMA CreateFlow ==
  ASSUME IInv, NEW i \in Imports, CreateEvent(i) \/ Link(i)
  PROVE  /\ UNCHANGED <<shows, stored, open, overlap, failures>>
         /\ \A k \in Imports \ {i} : req'[k] = req[k]
         /\ req'[i].row = req[i].row /\ req'[i].shipped = req[i].shipped
         /\ req'[i].cancelled = req[i].cancelled /\ req'[i].jtl = req[i].jtl
         /\ \/ /\ At(i, "event") /\ req'[i].pc = "link" /\ linked' = linked
               /\ event' = [event EXCEPT ![req[i].row] =
                    IF req[i].row \in MpRows
                    THEN MpEvent(req[i].row, req[i].jtl)
                    ELSE JtlEvent(req[i].row, req[i].mp, req[i].cancelled)]
            \/ /\ At(i, "link") /\ req'[i].pc = "except" /\ event' = event
               /\ linked' = linked \cup {req[i].row}
<1>0. req[i] \in Work
  BY Current
<1>1. ASSUME NEW pc, Step(i, [req[i] EXCEPT !.pc = pc])
      PROVE  /\ req'[i].pc = pc /\ \A k \in Imports \ {i} : req'[k] = req[k]
             /\ req'[i].row = req[i].row /\ req'[i].shipped = req[i].shipped
             /\ req'[i].cancelled = req[i].cancelled /\ req'[i].jtl = req[i].jtl
  <2> DEFINE w == [req[i] EXCEPT !.pc = pc]
  <2>1. /\ w.pc = pc /\ w.row = req[i].row /\ w.jtl = req[i].jtl
        /\ w.shipped = req[i].shipped /\ w.cancelled = req[i].cancelled
    BY <1>0 DEF Work
  <2>2. req'[i] = w /\ \A k \in Imports \ {i} : req'[k] = req[k]
    BY <1>1, Went
  <2> HIDE DEF w
  <2>3. QED BY <2>1, <2>2
<1>2. CASE CreateEvent(i)
  BY <1>1, <1>2 DEF CreateEvent, records
<1>3. CASE Link(i)
  BY <1>1, <1>3 DEF Link
<1>4. QED BY <1>2, <1>3

(* The exceptions are opened, and the order is matched if there is one.    *)
LEMMA ExceptFlow ==
  ASSUME IInv, NEW i \in Imports, OpenException(i)
  PROVE  /\ At(i, "except") /\ UNCHANGED <<shows, stored, linked, event, overlap, failures>>
         /\ \A k \in Imports \ {i} : req'[k] = req[k]
         /\ ~req'[i].cancelled /\ ~req'[i].shipped
         /\ open' = open \cup Problem(req[i])
         /\ \/ req'[i].pc = "idle" /\ OrderOf[req[i].row] = NoOrder
            \/ /\ req'[i].pc = "amazon" /\ req'[i].row = req[i].row
               /\ OrderOf[req[i].row] # NoOrder
<1>1. UNCHANGED <<shows, stored, linked, event, overlap, failures>>
  BY DEF OpenException, records
<1>2. CASE OrderOf[req[i].row] = NoOrder
  <2>1. Return(i)
    BY <1>2 DEF OpenException
  <2>2. QED BY <1>1, <1>2, <2>1, WentIdle DEF OpenException
<1>3. CASE OrderOf[req[i].row] # NoOrder
  <2> DEFINE w == [Idle EXCEPT !.pc = "amazon", !.row = req[i].row]
  <2>1. w.pc = "amazon" /\ w.row = req[i].row /\ ~w.cancelled /\ ~w.shipped
    BY DEF Idle
  <2>2. req'[i] = w /\ \A k \in Imports \ {i} : req'[k] = req[k]
    BY <1>3, Went DEF OpenException
  <2> HIDE DEF w
  <2>3. QED BY <1>1, <1>3, <2>1, <2>2 DEF OpenException
<1>4. QED BY <1>2, <1>3

(* The three reads of the order.                                           *)
LEMMA OrderFlow ==
  ASSUME IInv, NEW i \in Imports, ReadAmazon(i) \/ ReadJtl(i)
  PROVE  /\ UNCHANGED <<shows, stored, linked, event, open, overlap, failures>>
         /\ \A k \in Imports \ {i} : req'[k] = req[k]
         /\ req'[i].row = req[i].row
         /\ \/ /\ At(i, "amazon") /\ req'[i].pc = "jtl"
               /\ req'[i].cancelled = CancelledAtAmazon(OrderOf[req[i].row])
               /\ req'[i].shipped = \E r \in Amazon(OrderOf[req[i].row]) : Shipped(r)
            \/ /\ At(i, "jtl") /\ req'[i].pc = "mp"
               /\ req'[i].cancelled = req[i].cancelled
               /\ req'[i].shipped = req[i].shipped
               /\ req'[i].jtl = Jtl(OrderOf[req[i].row])
               /\ req'[i].todo = Jtl(OrderOf[req[i].row]) \cap linked
<1>0. req[i] \in Work
  BY Current
<1>1. CASE ReadAmazon(i)
  <2> DEFINE c == CancelledAtAmazon(OrderOf[req[i].row])
             s == \E r \in Amazon(OrderOf[req[i].row]) : Shipped(r)
             w == [req[i] EXCEPT !.pc = "jtl", !.cancelled = c, !.shipped = s]
  <2>1. req'[i] = w /\ \A k \in Imports \ {i} : req'[k] = req[k]
    BY <1>1, Went DEF ReadAmazon, CancelledAtAmazon
  <2> HIDE DEF c, s
  <2>2. w.pc = "jtl" /\ w.row = req[i].row /\ w.cancelled = c /\ w.shipped = s
    BY <1>0 DEF Work
  <2> HIDE DEF w
  <2>3. QED BY <1>1, <2>1, <2>2 DEF ReadAmazon, records, c, s
<1>2. CASE ReadJtl(i)
  <2> DEFINE rows == Jtl(OrderOf[req[i].row])
             w == [req[i] EXCEPT !.pc = "mp", !.jtl = rows, !.todo = rows \cap linked]
  <2>1. req'[i] = w /\ \A k \in Imports \ {i} : req'[k] = req[k]
    BY <1>2, Went DEF ReadJtl
  <2> HIDE DEF rows
  <2>2. /\ w.pc = "mp" /\ w.row = req[i].row /\ w.cancelled = req[i].cancelled
        /\ w.shipped = req[i].shipped /\ w.jtl = rows /\ w.todo = rows \cap linked
    BY <1>0 DEF Work
  <2> HIDE DEF w
  <2>3. QED BY <1>2, <2>1, <2>2 DEF ReadJtl, records, rows
<1>3. QED BY <1>1, <1>2

LEMMA ReadMpFlow ==
  ASSUME IInv, NEW i \in Imports, ReadMp(i)
  PROVE  /\ At(i, "mp") /\ UNCHANGED <<shows, stored, linked, event, open, overlap, failures>>
         /\ \A k \in Imports \ {i} : req'[k] = req[k]
         /\ req'[i].row = req[i].row /\ req'[i].shipped = req[i].shipped
         /\ req'[i].cancelled = req[i].cancelled /\ req'[i].jtl = req[i].jtl
         /\ LET mp   == Mp(OrderOf[req[i].row])
                both == req[i].jtl # {} /\ mp # {}
            IN  \/ /\ req[i].cancelled /\ req'[i].pc = "void"
                   /\ req'[i].todo = req[i].todo \cup (mp \cap linked)
                \/ /\ ~req[i].cancelled /\ both /\ req'[i].pc = "read"
                   /\ req'[i].todo = req[i].todo \cup (mp \cap linked)
                \/ ~req[i].cancelled /\ ~both /\ req'[i].pc = "resolve"
<1>0. req[i] \in Work
  BY Current
<1> DEFINE mp   == Mp(OrderOf[req[i].row])
           both == req[i].jtl # {} /\ mp # {}
           todo == IF req[i].cancelled \/ both THEN req[i].todo \cup (mp \cap linked) ELSE {}
           pc   == IF req[i].cancelled THEN "void" ELSE IF both THEN "read" ELSE "resolve"
           w    == [req[i] EXCEPT !.mp = mp, !.todo = todo, !.pc = pc]
<1>1. req'[i] = w /\ \A k \in Imports \ {i} : req'[k] = req[k]
  <2>1. Step(i, w)
    BY DEF ReadMp
  <2>2. QED BY <2>1, Went
<1>2. \/ req[i].cancelled /\ pc = "void" /\ todo = req[i].todo \cup (mp \cap linked)
      \/ ~req[i].cancelled /\ both /\ pc = "read" /\ todo = req[i].todo \cup (mp \cap linked)
      \/ ~req[i].cancelled /\ ~both /\ pc = "resolve"
  <2>1. CASE req[i].cancelled
    BY <2>1
  <2>2. CASE ~req[i].cancelled /\ both
    BY <2>2
  <2>3. CASE ~req[i].cancelled /\ ~both
    BY <2>3
  <2> HIDE DEF pc, todo, both
  <2>4. QED BY <2>1, <2>2, <2>3
<1> HIDE DEF pc, todo
<1>3. /\ w.pc = pc /\ w.row = req[i].row /\ w.cancelled = req[i].cancelled
      /\ w.shipped = req[i].shipped /\ w.jtl = req[i].jtl /\ w.todo = todo
  BY <1>0 DEF Work
<1> HIDE DEF w
<1>4. At(i, "mp") /\ UNCHANGED <<shows, stored, linked, event, open, overlap, failures>>
  BY DEF ReadMp, records
<1>5. QED BY <1>1, <1>2, <1>3, <1>4

(* The writes to the events of the order.                                  *)
LEMMA VoidFlow ==
  ASSUME IInv, NEW i \in Imports, VoidEvent(i)
  PROVE  /\ At(i, "void") /\ UNCHANGED <<shows, stored, linked, open, overlap, failures>>
         /\ \A k \in Imports \ {i} : req'[k] = req[k]
         /\ req'[i].row = req[i].row /\ req'[i].shipped = req[i].shipped
         /\ req'[i].cancelled = req[i].cancelled /\ req'[i].jtl = req[i].jtl
         /\ \/ /\ req[i].todo = {} /\ event' = event
               /\ req'[i].pc = "resolve" /\ req'[i].todo = req[i].todo
            \/ /\ req'[i].pc = "void"
               /\ \E r \in req[i].todo :
                    /\ req'[i].todo = req[i].todo \ {r}
                    /\ event' = [event EXCEPT ![r] = Ev("CANCELLATION", "void")]
<1>0. req[i] \in Work
  BY Current
<1>1. At(i, "void") /\ UNCHANGED <<shows, stored, linked, open, overlap, failures>>
  BY DEF VoidEvent, records
<1>2. CASE req[i].todo = {} /\ Step(i, [req[i] EXCEPT !.pc = "resolve"]) /\ UNCHANGED event
  <2> DEFINE w == [req[i] EXCEPT !.pc = "resolve"]
  <2>1. /\ w.pc = "resolve" /\ w.row = req[i].row /\ w.cancelled = req[i].cancelled
        /\ w.shipped = req[i].shipped /\ w.jtl = req[i].jtl /\ w.todo = req[i].todo
    BY <1>0 DEF Work
  <2>2. req'[i] = w /\ \A k \in Imports \ {i} : req'[k] = req[k]
    BY <1>2, Went
  <2> HIDE DEF w
  <2>3. QED BY <1>1, <1>2, <2>1, <2>2
<1>3. ASSUME NEW r \in req[i].todo,
             event' = [event EXCEPT ![r] = Ev("CANCELLATION", "void")],
             Step(i, [req[i] EXCEPT !.todo = @ \ {r}])
      PROVE  /\ \A k \in Imports \ {i} : req'[k] = req[k]
             /\ req'[i].row = req[i].row /\ req'[i].shipped = req[i].shipped
             /\ req'[i].cancelled = req[i].cancelled /\ req'[i].jtl = req[i].jtl
             /\ req'[i].pc = "void" /\ req'[i].todo = req[i].todo \ {r}
  <2> DEFINE w == [req[i] EXCEPT !.todo = @ \ {r}]
  <2>1. /\ w.pc = req[i].pc /\ w.row = req[i].row /\ w.cancelled = req[i].cancelled
        /\ w.shipped = req[i].shipped /\ w.jtl = req[i].jtl /\ w.todo = req[i].todo \ {r}
    BY <1>0 DEF Work
  <2>2. req'[i] = w /\ \A k \in Imports \ {i} : req'[k] = req[k]
    BY <1>3, Went
  <2> HIDE DEF w
  <2>3. QED BY <1>1, <2>1, <2>2 DEF At
<1>4. CASE \E r \in req[i].todo :
              /\ event' = [event EXCEPT ![r] = Ev("CANCELLATION", "void")]
              /\ Step(i, [req[i] EXCEPT !.todo = @ \ {r}])
  BY <1>1, <1>3, <1>4
<1>5. QED BY <1>2, <1>4 DEF VoidEvent

LEMMA ReadEventFlow ==
  ASSUME IInv, NEW i \in Imports, ReadEvent(i)
  PROVE  /\ At(i, "read") /\ UNCHANGED <<shows, stored, linked, event, open, overlap, failures>>
         /\ \A k \in Imports \ {i} : req'[k] = req[k]
         /\ req'[i].row = req[i].row /\ req'[i].shipped = req[i].shipped
         /\ req'[i].cancelled = req[i].cancelled /\ req'[i].jtl = req[i].jtl
         /\ \/ req[i].todo = {} /\ req'[i].pc = "resolve"
            \/ /\ req'[i].pc = "patch" /\ req'[i].cur \in req[i].todo
               /\ req'[i].todo = req[i].todo \ {req'[i].cur}
               /\ req'[i].ev = event[req'[i].cur]
<1>0. req[i] \in Work
  BY Current
<1>1. At(i, "read") /\ UNCHANGED <<shows, stored, linked, event, open, overlap, failures>>
  BY DEF ReadEvent, records
<1> DEFINE jtl == req[i].todo \cap JtlRows
           now == IF jtl # {} THEN jtl ELSE req[i].todo
<1>2. now \subseteq req[i].todo /\ (now = {} => req[i].todo = {})
  OBVIOUS
<1>3. CASE now = {} /\ Step(i, [req[i] EXCEPT !.pc = "resolve"])
  <2> DEFINE w == [req[i] EXCEPT !.pc = "resolve"]
  <2>1. /\ w.pc = "resolve" /\ w.row = req[i].row /\ w.cancelled = req[i].cancelled
        /\ w.shipped = req[i].shipped /\ w.jtl = req[i].jtl
    BY <1>0 DEF Work
  <2>2. req'[i] = w /\ \A k \in Imports \ {i} : req'[k] = req[k]
    BY <1>3, Went
  <2> HIDE DEF w, now
  <2>3. QED BY <1>1, <1>2, <1>3, <2>1, <2>2
<1>4. ASSUME NEW r \in now,
             Step(i, [req[i] EXCEPT !.pc = "patch", !.cur = r, !.ev = event[r],
                                    !.todo = @ \ {r}])
      PROVE  /\ \A k \in Imports \ {i} : req'[k] = req[k]
             /\ req'[i].row = req[i].row /\ req'[i].shipped = req[i].shipped
             /\ req'[i].cancelled = req[i].cancelled /\ req'[i].jtl = req[i].jtl
             /\ req'[i].pc = "patch" /\ req'[i].cur \in req[i].todo
             /\ req'[i].todo = req[i].todo \ {req'[i].cur}
             /\ req'[i].ev = event[req'[i].cur]
  <2> DEFINE w == [req[i] EXCEPT !.pc = "patch", !.cur = r, !.ev = event[r],
                                 !.todo = @ \ {r}]
  <2>1. /\ w.pc = "patch" /\ w.row = req[i].row /\ w.cancelled = req[i].cancelled
        /\ w.shipped = req[i].shipped /\ w.jtl = req[i].jtl /\ w.cur = r
        /\ w.ev = event[r] /\ w.todo = req[i].todo \ {r}
    BY <1>0 DEF Work
  <2>2. req'[i] = w /\ \A k \in Imports \ {i} : req'[k] = req[k]
    BY <1>4, Went
  <2> HIDE DEF w, now
  <2>3. QED BY <1>2, <1>4, <2>1, <2>2
<1>5. CASE \E r \in now :
             Step(i, [req[i] EXCEPT !.pc = "patch", !.cur = r, !.ev = event[r],
                                    !.todo = @ \ {r}])
  BY <1>1, <1>4, <1>5
<1>6. QED BY <1>3, <1>5 DEF ReadEvent

LEMMA PatchFlow ==
  ASSUME IInv, NEW i \in Imports, PatchEvent(i)
  PROVE  /\ At(i, "patch") /\ UNCHANGED <<shows, stored, linked, open, overlap, failures>>
         /\ \A k \in Imports \ {i} : req'[k] = req[k]
         /\ req'[i].row = req[i].row /\ req'[i].shipped = req[i].shipped
         /\ req'[i].cancelled = req[i].cancelled /\ req'[i].jtl = req[i].jtl
         /\ req'[i].pc = "read" /\ req'[i].todo = req[i].todo
         /\ event' = [event EXCEPT ![req[i].cur] = Patched(req[i])]
<1>0. req[i] \in Work
  BY Current
<1> DEFINE w == [req[i] EXCEPT !.pc = "read", !.cur = NoRow, !.ev = NoEvent]
<1>1. /\ w.pc = "read" /\ w.row = req[i].row /\ w.cancelled = req[i].cancelled
      /\ w.shipped = req[i].shipped /\ w.jtl = req[i].jtl /\ w.todo = req[i].todo
  BY <1>0 DEF Work
<1>2. req'[i] = w /\ \A k \in Imports \ {i} : req'[k] = req[k]
  BY Went DEF PatchEvent
<1> HIDE DEF w
<1>3. QED BY <1>1, <1>2 DEF PatchEvent, records

(* What ends a request, and a row that is skipped.                         *)
LEMMA EndFlow ==
  ASSUME IInv, NEW i \in Imports, Resolve(i) \/ ManualMatch(i) \/ Fail(i)
  PROVE  /\ UNCHANGED <<shows, stored, linked, overlap>>
         /\ req'[i].pc = "idle" /\ ~req'[i].cancelled /\ ~req'[i].shipped
         /\ \A k \in Imports \ {i} : req'[k] = req[k]
         /\ \/ /\ At(i, "resolve") /\ UNCHANGED <<event, failures>>
               /\ open' = IF req[i].cancelled \/ HasInvoice(req[i].jtl)
                          THEN {x \in open : OrderOf[x[2]] # OrderOf[req[i].row]} ELSE open
            \/ /\ At(i, "manual") /\ UNCHANGED <<open, failures>>
               /\ event' = [event EXCEPT ![req[i].row].status = "matched"]
            \/ ~At(i, "idle") /\ UNCHANGED <<event, open>> /\ failures' = failures + 1
<1>1. Return(i)
  BY DEF Resolve, ManualMatch, Fail
<1>2. /\ req'[i].pc = "idle" /\ ~req'[i].cancelled /\ ~req'[i].shipped
      /\ \A k \in Imports \ {i} : req'[k] = req[k]
  BY <1>1, WentIdle
<1>3. CASE Resolve(i)
  BY <1>2, <1>3 DEF Resolve, records
<1>4. CASE ManualMatch(i)
  BY <1>2, <1>4 DEF ManualMatch, records
<1>5. CASE Fail(i)
  BY <1>2, <1>5 DEF Fail, records
<1>6. QED BY <1>3, <1>4, <1>5

-----------------------------------------------------------------------------
(* Reports are stored and never taken back.                                *)
LEMMA CancelledStays ==
  ASSUME shows' = shows, stored \subseteq stored', NEW o
  PROVE  CancelledAtAmazon(o) => CancelledAtAmazon(o)'
BY DEF CancelledAtAmazon, Amazon, RowsOf, Cancelled

LEMMA CancelledSame ==
  ASSUME shows' = shows, stored' = stored, NEW o
  PROVE  CancelledAtAmazon(o)' <=> CancelledAtAmazon(o)
BY DEF CancelledAtAmazon, Amazon, RowsOf, Cancelled

(* A request in progress is the only one.                                  *)
LEMMA Alone ==
  ASSUME VInv, NEW i \in Imports, ~At(i, "idle"), overlap' = overlap, ~overlap'
  PROVE  /\ ~overlap /\ FreshOK(req[i])
         /\ \A k \in Imports \ {i} : At(k, "idle")
BY DEF VInv, Sole

(* What has to be shown of a call: that its events are void for a reason,  *)
(* and that its request remembers what is so.                              *)
LEMMA VoidStep ==
  ASSUME VInv, IInv', shows' = shows, stored \subseteq stored', NEW i \in Imports,
         \A k \in Imports \ {i} : req'[k] = req[k],
         \A r \in Rows : VoidOK(r)' /\ (event'[r] # NoEvent => r \in stored'),
         CancelOK(req[i])',
         ~overlap' => /\ ~overlap /\ FreshOK(req[i])'
                      /\ \A k \in Imports \ {i} : At(k, "idle")
  PROVE  VInv'
<1>1. ASSUME NEW k \in Imports PROVE CancelOK(req[k])'
  <2>1. CASE k = i
    BY <2>1
  <2>2. CASE k # i
    <3>1. PICK w : w = req[k]
      OBVIOUS
    <3>2. w = req'[k] /\ CancelOK(w)
      BY <2>2, <3>1 DEF VInv
    <3>3. CancelledAtAmazon(OrderOf[w.row]) => CancelledAtAmazon(OrderOf[w.row])'
      BY CancelledStays
    <3>4. CancelOK(w)'
      BY <3>2, <3>3 DEF CancelOK
    <3>5. QED BY <3>2, <3>4 DEF CancelOK, CancelledAtAmazon, Amazon, RowsOf
  <2>3. QED BY <2>1, <2>2
<1>2. ASSUME ~overlap' PROVE Sole' /\ \A k \in Imports : FreshOK(req[k])'
  <2>1. \A k \in Imports \ {i} : req'[k].pc = "idle"
    BY <1>2 DEF At
  <2>2. Sole'
    BY <2>1 DEF Sole, At
  <2>3. ASSUME NEW k \in Imports PROVE FreshOK(req[k])'
    <3>1. CASE k = i
      BY <1>2, <3>1
    <3>2. CASE k # i
      BY <2>1, <3>2 DEF FreshOK
    <3>3. QED BY <3>1, <3>2
  <2>4. QED BY <2>2, <2>3
<1>3. \A r \in MpRows : (shows[r] = "none")' <=> Kind[r] # "order"
  BY DEF VInv
<1>4. QED BY <1>1, <1>2, <1>3 DEF VInv

(* Calls that write no event.                                              *)
LEMMA VoidKept ==
  ASSUME VInv, shows' = shows, stored \subseteq stored', event' = event
  PROVE  \A r \in Rows : VoidOK(r)' /\ (event'[r] # NoEvent => r \in stored')
<1>1. ASSUME NEW r \in Rows PROVE VoidOK(r)' /\ (event'[r] # NoEvent => r \in stored')
  <2>1. CancelledAtAmazon(OrderOf[r]) => CancelledAtAmazon(OrderOf[r])'
    BY CancelledStays
  <2>2. QED BY <2>1 DEF VInv, VoidOK
<1>2. QED BY <1>1

(* A call that writes one event.                                           *)
LEMMA VoidWritten ==
  ASSUME VInv, shows' = shows, stored' = stored, NEW c \in Rows, NEW e,
         event' = [event EXCEPT ![c] = e], c \in stored,
         e.status = "void" => /\ e.type = "CANCELLATION"
                              /\ c \in JtlRows => CancelledAtAmazon(OrderOf[c])
  PROVE  \A r \in Rows : VoidOK(r)' /\ (event'[r] # NoEvent => r \in stored')
<1>1. event \in [Rows -> Event \cup {NoEvent}]
  BY DEF VInv, IInv, TypeOK
<1>2. ASSUME NEW r \in Rows PROVE VoidOK(r)' /\ (event'[r] # NoEvent => r \in stored')
  <2>1. CancelledAtAmazon(OrderOf[r]) <=> CancelledAtAmazon(OrderOf[r])'
    BY CancelledSame
  <2>2. CASE r = c
    <3>1. event'[r] = e
      BY <1>1, <2>2
    <3>2. QED BY <2>1, <2>2, <3>1 DEF VoidOK
  <2>3. CASE r # c
    <3>1. event'[r] = event[r]
      BY <1>1, <2>3
    <3>2. QED BY <2>1, <3>1 DEF VoidOK, VInv
  <2>4. QED BY <2>2, <2>3
<1>3. QED BY <1>2

-----------------------------------------------------------------------------
LEMMA VoidStart ==
  ASSUME VInv, IInv', NEW i \in Imports, StartRow(i) \/ StartManual(i)
  PROVE  VInv'
<1>0. IInv
  BY DEF VInv
<1>1. /\ At(i, "idle") /\ UNCHANGED <<shows, stored, event>>
      /\ overlap' = (overlap \/ \E k \in Imports : ~At(k, "idle"))
      /\ \A k \in Imports \ {i} : req'[k] = req[k]
      /\ ~req'[i].cancelled
      /\ \/ /\ req'[i].pc = "store" /\ req'[i].row \in Rows \ stored
            /\ ~Taken(Key[req'[i].row])
         \/ /\ req'[i].pc = "manual" /\ req'[i].row \in Rows
            /\ event[req'[i].row].type = "PAYOUT"
  BY <1>0, StartFlow
<1>2. \A r \in Rows : VoidOK(r)' /\ (event'[r] # NoEvent => r \in stored')
  BY <1>1, VoidKept
<1>3. CancelOK(req[i])'
  BY <1>1 DEF CancelOK
<1>4. FreshOK(req[i])'
  BY <1>1 DEF FreshOK, Taken
<1>5. ~overlap' => ~overlap /\ \A k \in Imports \ {i} : At(k, "idle")
  BY <1>1 DEF VInv, IInv, TypeOK
<1>6. QED BY <1>1, <1>2, <1>3, <1>4, <1>5, VoidStep

LEMMA VoidLook ==
  ASSUME VInv, IInv', NEW i \in Imports, Store(i) \/ LookMp(i) \/ LookJtl(i) \/ FindMp(i)
  PROVE  VInv'
<1>0. IInv
  BY DEF VInv
<1>1. /\ UNCHANGED <<shows, event, overlap>> /\ stored \subseteq stored'
      /\ \A k \in Imports \ {i} : req'[k] = req[k]
      /\ req'[i].row = req[i].row
      /\ \/ /\ At(i, "store") /\ req'[i].pc = "look"
            /\ req'[i].cancelled = req[i].cancelled
         \/ /\ At(i, "look") /\ req'[i].pc \in {"event", "match"}
            /\ \/ req'[i].cancelled = req[i].cancelled
               \/ /\ stored' = stored
                  /\ req'[i].cancelled = CancelledAtAmazon(OrderOf[req[i].row])
         \/ /\ At(i, "match") /\ req'[i].pc = "event"
            /\ req'[i].cancelled = req[i].cancelled
  BY <1>0, LookFlow
<1>2. \A r \in Rows : VoidOK(r)' /\ (event'[r] # NoEvent => r \in stored')
  BY <1>1, VoidKept
<1>3. CancelOK(req[i])'
  <2>1. PICK o : o = OrderOf[req[i].row]
    OBVIOUS
  <2>2. CancelledAtAmazon(o) => CancelledAtAmazon(o)'
    BY <1>1, CancelledStays
  <2>3. stored' = stored => (CancelledAtAmazon(o) <=> CancelledAtAmazon(o)')
    BY <1>1, CancelledSame
  <2>4. CancelOK(req[i])
    BY DEF VInv
  <2>5. req'[i].cancelled => CancelledAtAmazon(o)'
    BY <1>1, <2>1, <2>2, <2>3, <2>4 DEF CancelOK
  <2>6. QED BY <1>1, <2>1, <2>5 DEF CancelOK, CancelledAtAmazon, Amazon, RowsOf
<1>4. ASSUME ~overlap'
      PROVE  ~overlap /\ FreshOK(req[i])' /\ \A k \in Imports \ {i} : At(k, "idle")
  <2>1. ~overlap /\ FreshOK(req[i]) /\ \A k \in Imports \ {i} : At(k, "idle")
    BY <1>1, <1>4, Alone DEF At
  <2>2. req[i].row \in Rows
    BY <1>0, <1>1, Current DEF Carry, At
  <2>3. event[req[i].row] = NoEvent
    BY <1>1, <2>1, <2>2 DEF FreshOK, At, VInv
  <2>4. QED BY <1>1, <2>1, <2>3 DEF FreshOK
<1>5. QED BY <1>1, <1>2, <1>3, <1>4, VoidStep

(* An event is created void only for what Amazon cancelled.                *)
LEMMA CreatedVoid ==
  ASSUME NEW r \in Rows, NEW jtl, NEW mp, NEW c \in BOOLEAN, NEW e,
         e = IF r \in MpRows THEN MpEvent(r, jtl) ELSE JtlEvent(r, mp, c),
         e.status = "void"
  PROVE  e.type = "CANCELLATION" /\ (r \in JtlRows => c)
<1>1. \A o : Waiting(r, o) # "void"
  BY DEF Waiting
<1>2. CASE r \in MpRows
  <2>1. e = MpEvent(r, jtl) /\ r \notin JtlRows
    BY <1>2, RowsOK
  <2>2. CASE Cancelled(r)
    BY <2>1, <2>2 DEF MpEvent, Ev
  <2>3. CASE ~Cancelled(r) /\ Shipped(r)
    BY <2>1, <2>3 DEF MpEvent, Ev
  <2>4. CASE ~Cancelled(r) /\ ~Shipped(r)
    BY <1>1, <2>1, <2>4 DEF MpEvent, Ev
  <2>5. QED BY <2>2, <2>3, <2>4
<1>3. CASE r \notin MpRows
  <2>1. e = JtlEvent(r, mp, c)
    BY <1>3
  <2>2. CASE c
    BY <2>1, <2>2 DEF JtlEvent, Ev
  <2>3. CASE ~c
    BY <1>1, <2>1, <2>3 DEF JtlEvent, Ev
  <2>4. QED BY <2>2, <2>3
<1>4. QED BY <1>2, <1>3

LEMMA VoidCreate ==
  ASSUME VInv, IInv', NEW i \in Imports, CreateEvent(i) \/ Link(i)
  PROVE  VInv'
<1>0. IInv /\ CancelOK(req[i]) /\ req[i] \in Work /\ Carry(req[i])
  BY Current DEF VInv
<1>1. /\ UNCHANGED <<shows, stored, open, overlap, failures>>
      /\ \A k \in Imports \ {i} : req'[k] = req[k]
      /\ req'[i].row = req[i].row /\ req'[i].cancelled = req[i].cancelled
      /\ \/ /\ At(i, "event") /\ req'[i].pc = "link"
            /\ event' = [event EXCEPT ![req[i].row] =
                 IF req[i].row \in MpRows
                 THEN MpEvent(req[i].row, req[i].jtl)
                 ELSE JtlEvent(req[i].row, req[i].mp, req[i].cancelled)]
         \/ At(i, "link") /\ req'[i].pc = "except" /\ event' = event
  BY <1>0, CreateFlow
<1>2. \A r \in Rows : VoidOK(r)' /\ (event'[r] # NoEvent => r \in stored')
  <2>1. CASE event' = event
    BY <1>1, <2>1, VoidKept
  <2>2. CASE At(i, "event") /\ event' # event
    <3>1. PICK c : c = req[i].row
      OBVIOUS
    <3>2. PICK e : e = IF c \in MpRows THEN MpEvent(c, req[i].jtl)
                                       ELSE JtlEvent(c, req[i].mp, req[i].cancelled)
      OBVIOUS
    <3>3. c \in Rows /\ c \in stored
      BY <1>0, <2>2, <3>1 DEF Carry, At
    <3>4. event' = [event EXCEPT ![c] = e]
      BY <1>1, <2>2, <3>1, <3>2
    <3>5. req[i].cancelled \in BOOLEAN
      BY <1>0 DEF Work
    <3>6. e.status = "void" => e.type = "CANCELLATION" /\ (c \in JtlRows => req[i].cancelled)
      BY <3>2, <3>3, <3>5, CreatedVoid
    <3>7. req[i].cancelled => CancelledAtAmazon(OrderOf[c])
      BY <1>0, <3>1 DEF CancelOK
    <3>8. QED BY <1>1, <3>3, <3>4, <3>6, <3>7, VoidWritten
  <2>3. QED BY <1>1, <2>1, <2>2
<1>3. CancelOK(req[i])'
  <2>1. PICK o : o = OrderOf[req[i].row]
    OBVIOUS
  <2>2. CancelledAtAmazon(o) <=> CancelledAtAmazon(o)'
    BY <1>1, CancelledSame
  <2>3. req'[i].cancelled => CancelledAtAmazon(o)'
    BY <1>0, <1>1, <2>1, <2>2 DEF CancelOK
  <2>4. QED BY <1>1, <2>1, <2>3 DEF CancelOK, CancelledAtAmazon, Amazon, RowsOf
<1>4. ASSUME ~overlap'
      PROVE  ~overlap /\ FreshOK(req[i])' /\ \A k \in Imports \ {i} : At(k, "idle")
  <2>1. ~overlap /\ \A k \in Imports \ {i} : At(k, "idle")
    BY <1>1, <1>4, Alone DEF At
  <2>2. QED BY <1>1, <2>1 DEF FreshOK
<1>5. QED BY <1>1, <1>2, <1>3, <1>4, VoidStep

(* Calls that only read, and remember whether Amazon cancelled the order.  *)
LEMMA VoidRead ==
  ASSUME VInv, IInv', NEW i \in Imports,
         \/ OpenException(i) \/ ReadAmazon(i) \/ ReadJtl(i) \/ ReadMp(i) \/ ReadEvent(i)
  PROVE  VInv'
<1>0. IInv /\ CancelOK(req[i])
  BY DEF VInv
<1> DEFINE Reads == {"jtl", "mp", "void", "read", "patch", "resolve"}
<1>1. /\ ~At(i, "idle")
      /\ UNCHANGED <<shows, stored, event, overlap>>
      /\ \A k \in Imports \ {i} : req'[k] = req[k]
      /\ \/ ~req'[i].cancelled /\ req'[i].pc \in {"idle", "amazon"}
         \/ /\ req'[i].row = req[i].row /\ req'[i].pc = "jtl"
            /\ req'[i].cancelled = CancelledAtAmazon(OrderOf[req[i].row])
         \/ /\ req[i].pc \in Reads /\ req'[i].pc \in Reads
            /\ req'[i].row = req[i].row /\ req'[i].cancelled = req[i].cancelled
            /\ req'[i].pc = "void" => req'[i].cancelled
            /\ req'[i].pc \in {"read", "patch"} => ~req'[i].cancelled
            /\ req'[i].pc = "patch" => req'[i].ev = event[req'[i].cur]
  <2>1. CASE OpenException(i)
    BY <1>0, <2>1, ExceptFlow DEF At
  <2>2. CASE ReadAmazon(i) \/ ReadJtl(i)
    BY <1>0, <2>2, OrderFlow DEF At
  <2>3. CASE ReadMp(i)
    BY <1>0, <2>3, ReadMpFlow DEF At
  <2>4. CASE ReadEvent(i)
    BY <1>0, <2>4, ReadEventFlow DEF At, CancelOK
  <2>5. QED BY <2>1, <2>2, <2>3, <2>4
<1>2. \A r \in Rows : VoidOK(r)' /\ (event'[r] # NoEvent => r \in stored')
  BY <1>1, VoidKept
<1>3. PICK o : o = OrderOf[req[i].row]
  OBVIOUS
<1>4. CancelledAtAmazon(o) <=> CancelledAtAmazon(o)'
  BY <1>1, CancelledSame
<1>5. CancelOK(req[i])'
  <2>1. req'[i].cancelled => req'[i].row = req[i].row /\ CancelledAtAmazon(o)'
    BY <1>0, <1>1, <1>3, <1>4 DEF CancelOK
  <2>2. QED BY <1>1, <1>3, <2>1 DEF CancelOK, CancelledAtAmazon, Amazon, RowsOf
<1>6. ASSUME ~overlap'
      PROVE  ~overlap /\ FreshOK(req[i])' /\ \A k \in Imports \ {i} : At(k, "idle")
  <2>1. ~overlap /\ FreshOK(req[i]) /\ \A k \in Imports \ {i} : At(k, "idle")
    BY <1>1, <1>6, Alone
  <2>2. req[i].pc \in Reads => (req[i].cancelled <=> CancelledAtAmazon(o))
    BY <1>3, <2>1 DEF FreshOK
  <2>3. req'[i].pc \in Reads => /\ req'[i].row = req[i].row
                                /\ (req'[i].cancelled <=> CancelledAtAmazon(o)')
    BY <1>1, <1>3, <1>4, <2>2
  <2>4. req'[i].pc = "patch" => req'[i].ev = event'[req'[i].cur]
    BY <1>1
  <2>5. req'[i].pc \notin {"store", "look", "match", "event", "manual"}
    BY <1>1
  <2>6. QED BY <1>3, <2>1, <2>3, <2>4, <2>5 DEF FreshOK, CancelledAtAmazon, Amazon, RowsOf
<1>7. QED BY <1>1, <1>2, <1>5, <1>6, VoidStep

(* A void event of the marketplace is not patched, one of JTL is matched.  *)
LEMMA PatchedVoid ==
  ASSUME NEW w, w.cur \in Rows
  PROVE  /\ w.cur \in JtlRows => Patched(w).status = "matched"
         /\ w.cur \in MpRows /\ (w.ev.type = "CANCELLATION" \/ w.ev.status = "void") =>
              Patched(w) = event[w.cur]
         /\ w.cur \in MpRows /\ ~(w.ev.type = "CANCELLATION" \/ w.ev.status = "void") =>
              Patched(w).status \in {"matched", "invoice_pending"}
<1> DEFINE e == w.ev
           void == e.type = "CANCELLATION" \/ e.status = "void"
           undecided == ~void /\ e.type \notin {"SETTLEMENT", "PAYOUT"}
                        /\ (e.type = "ORDER_CREATED" \/ e.status = "invoice_pending")
<1>1. CASE w.cur \in JtlRows
  BY <1>1, RowsOK DEF Patched, Ev
<1>2. CASE w.cur \notin JtlRows
  <2>1. Patched(w) = CASE void -> event[w.cur]
             [] undecided /\ HasInvoice(w.jtl) -> Ev("SALE", "matched")
             [] undecided /\ ~HasInvoice(w.jtl) /\ (w.shipped \/ Shipped(w.cur)) ->
                  Ev("ORDER_CREATED", "invoice_pending")
             [] OTHER -> Ev(event[w.cur].type, "matched")
    BY <1>2 DEF Patched
  <2>2. CASE void
    <3>1. Patched(w) = event[w.cur]
      BY <2>1, <2>2
    <3>2. QED BY <1>2, <2>2, <3>1
  <2>3. CASE undecided /\ HasInvoice(w.jtl)
    <3>1. Patched(w) = Ev("SALE", "matched")
      BY <2>1, <2>3
    <3>2. QED BY <1>2, <2>3, <3>1 DEF Ev
  <2>4. CASE undecided /\ ~HasInvoice(w.jtl) /\ (w.shipped \/ Shipped(w.cur))
    <3>1. Patched(w) = Ev("ORDER_CREATED", "invoice_pending")
      BY <2>1, <2>4
    <3>2. QED BY <1>2, <2>4, <3>1 DEF Ev
  <2>5. CASE /\ ~void /\ ~(undecided /\ HasInvoice(w.jtl))
             /\ ~(undecided /\ ~HasInvoice(w.jtl) /\ (w.shipped \/ Shipped(w.cur)))
    <3>1. Patched(w) = Ev(event[w.cur].type, "matched")
      BY <2>1, <2>5
    <3>2. QED BY <1>2, <2>5, <3>1 DEF Ev
  <2>6. QED BY <2>2, <2>3, <2>4, <2>5
<1>3. QED BY <1>1, <1>2

(* The row that is patched: its event exists, and its order's is the one.  *)
LEMMA VoidWrite ==
  ASSUME VInv, IInv', NEW i \in Imports, VoidEvent(i) \/ PatchEvent(i)
  PROVE  VInv'
<1>0. IInv /\ CancelOK(req[i]) /\ req[i] \in Work /\ Carry(req[i])
  BY Current DEF VInv
<1>1. /\ req[i].pc \in {"void", "patch"} /\ UNCHANGED <<shows, stored, overlap>>
      /\ \A k \in Imports \ {i} : req'[k] = req[k]
      /\ req'[i].row = req[i].row /\ req'[i].cancelled = req[i].cancelled
      /\ req'[i].pc \in {"void", "resolve", "read"}
      /\ req'[i].pc = "read" => At(i, "patch")
      /\ req'[i].pc = "void" => At(i, "void")
  <2>1. CASE VoidEvent(i)
    BY <1>0, <2>1, VoidFlow DEF At
  <2>2. CASE PatchEvent(i)
    BY <1>0, <2>2, PatchFlow DEF At
  <2>3. QED BY <2>1, <2>2
<1>2. \A r \in Rows : VoidOK(r)' /\ (event'[r] # NoEvent => r \in stored')
  <2>1. CASE event' = event
    BY <1>1, <2>1, VoidKept
  <2>2. CASE VoidEvent(i) /\ event' # event
    <3>1. PICK c \in req[i].todo :
            event' = [event EXCEPT ![c] = Ev("CANCELLATION", "void")]
      BY <1>0, <2>2, VoidFlow
    <3>2. c \in Rows /\ c \in stored /\ OrderOf[c] = OrderOf[req[i].row]
      BY <1>0, <3>1 DEF Carry, Work, VInv
    <3>3. CancelledAtAmazon(OrderOf[c])
      BY <1>0, <2>2, <3>2 DEF CancelOK, VoidEvent, At
    <3>4. PICK e : e = Ev("CANCELLATION", "void")
      OBVIOUS
    <3>5. e.type = "CANCELLATION" /\ event' = [event EXCEPT ![c] = e]
      BY <3>1, <3>4 DEF Ev
    <3>6. QED BY <1>1, <3>2, <3>3, <3>5, VoidWritten
  <2>3. CASE PatchEvent(i)
    <3>1. PICK c, e : c = req[i].cur /\ e = Patched(req[i])
      OBVIOUS
    <3>2. event' = [event EXCEPT ![c] = e] /\ At(i, "patch")
      BY <1>0, <2>3, <3>1, PatchFlow
    <3>3. c \in Rows /\ c \in stored
      BY <1>0, <3>1, <3>2 DEF Carry, At, VInv
    <3>4. e.status = "void" => c \in MpRows /\ e = event[c]
      BY <3>1, <3>3, PatchedVoid DEF Rows
    <3>5. VoidOK(c)
      BY <3>3 DEF VInv
    <3>6. e.status = "void" => e.type = "CANCELLATION" /\ c \notin JtlRows
      BY <3>4, <3>5, RowsOK DEF VoidOK
    <3>7. QED BY <1>1, <3>2, <3>3, <3>6, VoidWritten
  <2>4. QED BY <2>1, <2>2, <2>3
<1>3. PICK o : o = OrderOf[req[i].row]
  OBVIOUS
<1>4. CancelledAtAmazon(o) <=> CancelledAtAmazon(o)'
  BY <1>1, CancelledSame
<1>5. CancelOK(req[i])'
  <2>1. req'[i].cancelled => CancelledAtAmazon(o)'
    BY <1>0, <1>1, <1>3, <1>4 DEF CancelOK
  <2>2. QED BY <1>0, <1>1, <1>3, <2>1 DEF CancelOK, CancelledAtAmazon, Amazon, RowsOf, At
<1>6. ASSUME ~overlap'
      PROVE  ~overlap /\ FreshOK(req[i])' /\ \A k \in Imports \ {i} : At(k, "idle")
  <2>1. ~overlap /\ FreshOK(req[i]) /\ \A k \in Imports \ {i} : At(k, "idle")
    BY <1>1, <1>6, Alone DEF At
  <2>2. req'[i].cancelled <=> CancelledAtAmazon(o)'
    BY <1>1, <1>3, <1>4, <2>1 DEF FreshOK
  <2>3. QED BY <1>1, <1>3, <2>1, <2>2 DEF FreshOK, CancelledAtAmazon, Amazon, RowsOf
<1>7. QED BY <1>1, <1>2, <1>5, <1>6, VoidStep

LEMMA VoidEnd ==
  ASSUME VInv, IInv', NEW i \in Imports, Resolve(i) \/ ManualMatch(i) \/ Fail(i)
  PROVE  VInv'
<1>0. IInv /\ req[i] \in Work /\ Carry(req[i])
  BY Current DEF VInv
<1>1. /\ UNCHANGED <<shows, stored, overlap>>
      /\ req'[i].pc = "idle" /\ ~req'[i].cancelled
      /\ \A k \in Imports \ {i} : req'[k] = req[k]
      /\ ~At(i, "idle")
      /\ \/ event' = event
         \/ /\ At(i, "manual")
            /\ event' = [event EXCEPT ![req[i].row].status = "matched"]
  BY <1>0, EndFlow DEF At
<1>2. \A r \in Rows : VoidOK(r)' /\ (event'[r] # NoEvent => r \in stored')
  <2>1. CASE event' = event
    BY <1>1, <2>1, VoidKept
  <2>2. CASE At(i, "manual") /\ event' = [event EXCEPT ![req[i].row].status = "matched"]
    <3>1. PICK c, e : c = req[i].row /\ e = [event[c] EXCEPT !.status = "matched"]
      OBVIOUS
    <3>2. c \in Rows /\ event[c] # NoEvent /\ c \in stored
      BY <1>0, <2>2, <3>1 DEF Carry, At, VInv
    <3>3. event[c] \in Event
      BY <1>0, <3>2 DEF IInv, TypeOK
    <3>4. e.status = "matched"
      BY <3>1, <3>3 DEF Event
    <3>5. event' = [event EXCEPT ![c] = e]
      BY <2>2, <3>1
    <3>6. QED BY <1>1, <3>2, <3>4, <3>5, VoidWritten
  <2>3. QED BY <1>1, <2>1, <2>2
<1>3. CancelOK(req[i])' /\ FreshOK(req[i])'
  BY <1>1 DEF CancelOK, FreshOK
<1>4. ~overlap' => ~overlap /\ \A k \in Imports \ {i} : At(k, "idle")
  BY <1>1, Alone
<1>5. QED BY <1>1, <1>2, <1>3, <1>4, VoidStep

(* A step that changes nothing the invariant is about.                     *)
LEMMA VoidSame ==
  ASSUME VInv, IInv', UNCHANGED <<shows, stored, event, req, overlap>>
  PROVE  VInv'
<1>1. \A r \in Rows : VoidOK(r)' /\ (event'[r] # NoEvent => r \in stored')
  BY VoidKept
<1>2. \A i \in Imports : CancelOK(req[i])'
  BY DEF VInv, CancelOK, CancelledAtAmazon, Amazon, RowsOf, Cancelled
<1>3. ~overlap' => Sole' /\ \A i \in Imports : FreshOK(req[i])'
  BY DEF VInv, Sole, At, FreshOK, Taken, CancelledAtAmazon, Amazon, RowsOf, Cancelled
<1>4. QED BY <1>1, <1>2, <1>3 DEF VInv

LEMMA VInvInit == Init => VInv
<1> SUFFICES ASSUME Init PROVE VInv
  OBVIOUS
<1>1. \A r \in Rows : VoidOK(r) /\ event[r] = NoEvent
  BY DEF Init, VoidOK, NoEvent
<1>2. \A i \in Imports : CancelOK(req[i]) /\ FreshOK(req[i]) /\ At(i, "idle")
  BY DEF Init, CancelOK, FreshOK, Idle, At
<1>3. \A r \in MpRows : shows[r] = "none" <=> Kind[r] # "order"
  BY DEF Init
<1>4. QED BY <1>1, <1>2, <1>3, IInvInit DEF VInv, Sole

LEMMA VInvNext == VInv /\ [Next]_vars => VInv'
<1> SUFFICES ASSUME VInv, [Next]_vars PROVE VInv'
  OBVIOUS
<1>1. IInv'
  BY IInvNext DEF VInv
<1>2. CASE UNCHANGED vars
  BY <1>1, <1>2, VoidSame DEF vars, records
<1>3. ASSUME NEW i \in Imports, Upsert(i) \/ Rematch(i) \/ StartManual(i)
                                \/ ManualMatch(i) \/ Fail(i)
      PROVE  VInv'
  <2>1. CASE SkipRow(i)
    BY <1>1, <2>1, VoidSame DEF SkipRow
  <2>2. CASE StartRow(i) \/ StartManual(i)
    BY <1>1, <2>2, VoidStart
  <2>3. CASE Store(i) \/ LookMp(i) \/ LookJtl(i) \/ FindMp(i)
    BY <1>1, <2>3, VoidLook
  <2>4. CASE CreateEvent(i) \/ Link(i)
    BY <1>1, <2>4, VoidCreate
  <2>5. CASE \/ OpenException(i) \/ ReadAmazon(i) \/ ReadJtl(i) \/ ReadMp(i)
             \/ ReadEvent(i)
    BY <1>1, <2>5, VoidRead
  <2>6. CASE VoidEvent(i) \/ PatchEvent(i)
    BY <1>1, <2>6, VoidWrite
  <2>7. CASE Resolve(i) \/ ManualMatch(i) \/ Fail(i)
    BY <1>1, <2>7, VoidEnd
  <2>8. QED BY <1>3, <2>1, <2>2, <2>3, <2>4, <2>5, <2>6, <2>7 DEF Upsert, Rematch
<1>4. QED BY <1>2, <1>3 DEF Next

(***************************************************************************)
(* A void event has a reason, an event a stored row, and while requests    *)
(* follow one another what a request has read is still so.                 *)
(***************************************************************************)
THEOREM VoidInvariance == Spec => []VInv
BY VInvInit, VInvNext, PTL DEF Spec

(* No write revives a void event while requests follow one another.        *)
LEMMA NothingRevived ==
  ASSUME VInv, Next, ~overlap', NEW r \in Rows, event[r].status = "void"
  PROVE  event'[r].status = "void"
<1>0. IInv /\ event \in [Rows -> Event \cup {NoEvent}] /\ VoidOK(r)
  BY DEF VInv, IInv, TypeOK
<1>1. CASE event' = event
  BY <1>1
<1>2. ASSUME NEW i \in Imports, CreateEvent(i) PROVE event'[r].status = "void"
  <2>1. ~At(i, "idle") /\ overlap' = overlap /\ At(i, "event")
    BY <1>2 DEF CreateEvent, At
  <2>2. FreshOK(req[i])
    BY <2>1, Alone
  <2>3. r # req[i].row
    BY <2>1, <2>2 DEF FreshOK, At, NoEvent
  <2>4. event'[r] = event[r]
    BY <1>0, <1>2, <2>3 DEF CreateEvent
  <2>5. QED BY <2>4
<1>3. ASSUME NEW i \in Imports, VoidEvent(i) PROVE event'[r].status = "void"
  <2>1. CASE \E c \in req[i].todo : event' = [event EXCEPT ![c] = Ev("CANCELLATION", "void")]
    BY <1>0, <2>1 DEF Ev
  <2>2. QED BY <1>1, <1>3, <2>1 DEF VoidEvent
<1>4. ASSUME NEW i \in Imports, PatchEvent(i) PROVE event'[r].status = "void"
  <2>1. ~At(i, "idle") /\ overlap' = overlap /\ req[i].pc = "patch"
    BY <1>4 DEF PatchEvent, At
  <2>2. FreshOK(req[i]) /\ CancelOK(req[i]) /\ Carry(req[i]) /\ req[i] \in Work
    BY <1>0, <2>1, Alone, Current DEF VInv
  <2>3. PICK c : c = req[i].cur
    OBVIOUS
  <2>4. event' = [event EXCEPT ![c] = Patched(req[i])]
    BY <1>4, <2>3 DEF PatchEvent
  <2>5. CASE r = c
    <3>1. r \in MpRows
      BY <1>0, <2>1, <2>2, <2>3, <2>5 DEF FreshOK, CancelOK, Carry, VoidOK, Rows
    <3>2. req[i].ev.status = "void"
      BY <2>1, <2>2, <2>3, <2>5 DEF FreshOK
    <3>3. Patched(req[i]) = event[c]
      BY <2>3, <2>5, <3>1, <3>2, PatchedVoid
    <3>4. QED BY <1>0, <2>4, <2>5, <3>3
  <2>6. CASE r # c
    BY <1>0, <2>4, <2>6
  <2>7. QED BY <2>5, <2>6
<1>5. ASSUME NEW i \in Imports, ManualMatch(i) PROVE event'[r].status = "void"
  <2>1. ~At(i, "idle") /\ overlap' = overlap /\ At(i, "manual")
    BY <1>5 DEF ManualMatch, At
  <2>2. FreshOK(req[i])
    BY <2>1, Alone
  <2>3. r # req[i].row
    BY <1>0, <2>1, <2>2 DEF FreshOK, At, VoidOK
  <2>4. event'[r] = event[r]
    BY <1>0, <1>5, <2>3 DEF ManualMatch
  <2>5. QED BY <2>4
<1>6. QED BY <1>1, <1>2, <1>3, <1>4, <1>5 DEF Next, Upsert, Rematch, SkipRow, StartRow,
        Store, LookMp, LookJtl, FindMp, Link, OpenException, ReadAmazon, ReadJtl, ReadMp,
        ReadEvent, Resolve, StartManual, Fail

(* VoidStays for any rows, orders and imports, failures included: while    *)
(* requests follow one another, no event that is void is ever anything     *)
(* else again; neither a rematch nor a match by hand takes it up.          *)
THEOREM VoidForever == Spec => VoidStays
<1>1. VInv /\ [Next]_vars => [~overlap' => \A r \in Rows : event[r].status = "void"
                                              => event'[r].status = "void"]_vars
  BY NothingRevived
<1>2. QED BY <1>1, VoidInvariance, PTL DEF Spec, VoidStays

-----------------------------------------------------------------------------
(***************************************************************************)
(* The order of a row, and what is known of it, as requests go on.         *)
(***************************************************************************)
LEMMA OrderSame ==
  ASSUME shows' = shows, stored' = stored, NEW o
  PROVE  /\ Jtl(o)' = Jtl(o) /\ Mp(o)' = Mp(o) /\ Amazon(o)' = Amazon(o)
         /\ CancelledAtAmazon(o)' <=> CancelledAtAmazon(o)
BY CancelledSame DEF Jtl, Mp, Amazon, RowsOf

LEMMA OrderGrows ==
  ASSUME shows' = shows, stored \subseteq stored', NEW o
  PROVE  /\ HasInvoice(Jtl(o)) => HasInvoice(Jtl(o))'
         /\ CancelledAtAmazon(o) => CancelledAtAmazon(o)'
BY CancelledStays DEF Jtl, RowsOf, HasInvoice, IsInvoice

(* No row is looked for without an order.                                  *)
LEMMA NoRows == Jtl(NoOrder) = {} /\ Mp(NoOrder) = {} /\ ~CancelledAtAmazon(NoOrder)
BY DEF Jtl, Mp, Amazon, RowsOf, CancelledAtAmazon

LEMMA RowOfOrder ==
  ASSUME stored \subseteq Rows, NEW r \in stored, OrderOf[r] # NoOrder
  PROVE  r \in Jtl(OrderOf[r]) \/ r \in Mp(OrderOf[r])
BY DEF Jtl, Mp, RowsOf, Rows

(* A step that writes nothing leaves what is known.                        *)
LEMMA WholeKept ==
  ASSUME UNCHANGED <<shows, stored, linked, event, open>>, NEW w, Whole(w)
  PROVE  Whole(w)'
<1>1. \A o : /\ Jtl(o)' = Jtl(o) /\ Mp(o)' = Mp(o) /\ Amazon(o)' = Amazon(o)
             /\ CancelledAtAmazon(o)' <=> CancelledAtAmazon(o)
  BY OrderSame
<1>2. ASSUME NEW r \in stored
      PROVE  TypesOK(r)' /\ LinkedOK(w, r)' /\ VoidedOK(w, r)' /\ SeenOK(w, r)'
             /\ OpenedOK(w, r)'
  <2>1. TypesOK(r)'
    BY <1>1 DEF Whole, TypesOK, Shipped
  <2>2. LinkedOK(w, r)'
    BY DEF Whole, LinkedOK, Creating
  <2>3. VoidedOK(w, r)'
    BY <1>1 DEF Whole, VoidedOK, Settling
  <2>4. SeenOK(w, r)'
    BY <1>1 DEF Whole, SeenOK, Settling, Recognised, Doing
  <2>5. OpenedOK(w, r)'
    BY <1>1 DEF Whole, OpenedOK, IsOpen, Closing
  <2>6. QED BY <2>1, <2>2, <2>3, <2>4, <2>5
<1>3. ReadsOK(w)'
  BY <1>1 DEF Whole, ReadsOK, Shipped, MpEvent, Cancelled, Waiting
<1>4. QED BY <1>2, <1>3 DEF Whole, IsOpen, KeysOnce

(* The request by its record.                                              *)
LEMMA WholeAt ==
  ASSUME NEW i, NEW v, v = req'[i], Whole(v)'
  PROVE  Whole(req[i])'
<1>1. ASSUME NEW r \in stored'
      PROVE  /\ TypesOK(r)' /\ LinkedOK(req[i], r)' /\ VoidedOK(req[i], r)'
             /\ SeenOK(req[i], r)' /\ OpenedOK(req[i], r)'
  <2>1. TypesOK(r)' /\ LinkedOK(v, r)' /\ VoidedOK(v, r)' /\ SeenOK(v, r)' /\ OpenedOK(v, r)'
    BY DEF Whole
  <2>2. LinkedOK(req[i], r)'
    BY <2>1 DEF LinkedOK, Creating
  <2>3. VoidedOK(req[i], r)'
    BY <2>1 DEF VoidedOK, Settling
  <2>4. SeenOK(req[i], r)'
    BY <2>1 DEF SeenOK, Settling, Doing
  <2>5. OpenedOK(req[i], r)'
    BY <2>1 DEF OpenedOK, Closing
  <2>6. QED BY <2>1, <2>2, <2>3, <2>4, <2>5
<1>2. ReadsOK(req[i])'
  <2>1. PICK o : o = OrderOf[v.row]
    OBVIOUS
  <2>2. ReadsOK(v)'
    BY DEF Whole
  <2>3. QED BY <2>1, <2>2 DEF ReadsOK, Jtl, Amazon, RowsOf, MpEvent, Waiting
<1>3. QED BY <1>1, <1>2 DEF Whole

(* Calls that write nothing: what the request goes on with must fit what   *)
(* is known.                                                               *)
LEMMA WholeOn ==
  ASSUME UNCHANGED <<shows, stored, linked, event, open>>,
         NEW i, NEW w, Whole(w), NEW v, v = req'[i], ReadsOK(v),
         \A r \in stored : LinkedOK(v, r) /\ VoidedOK(v, r) /\ SeenOK(v, r) /\ OpenedOK(v, r)
  PROVE  Whole(req[i])'
<1>1. Whole(v)
  BY DEF Whole
<1>2. QED BY <1>1, WholeKept, WholeAt

LEMMA WholeStart ==
  ASSUME VInv, NEW i \in Imports, Whole(req[i]), StartRow(i) \/ StartManual(i)
  PROVE  Whole(req[i])'
<1>0. IInv
  BY DEF VInv
<1>1. PICK w, v : w = req[i] /\ v = req'[i]
  OBVIOUS
<1>2. /\ w.pc = "idle" /\ UNCHANGED <<shows, stored, linked, event, open>>
      /\ v.pc \in {"store", "manual"}
  BY <1>0, <1>1, StartFlow DEF At
<1>3. Whole(w)
  BY <1>1
<1>4. ASSUME NEW r \in stored
      PROVE  LinkedOK(v, r) /\ VoidedOK(v, r) /\ SeenOK(v, r) /\ OpenedOK(v, r)
  BY <1>2, <1>3 DEF Whole, LinkedOK, VoidedOK, SeenOK, OpenedOK, Creating, Settling, Closing
<1>5. ReadsOK(v)
  BY <1>2 DEF ReadsOK
<1>6. QED BY <1>1, <1>2, <1>3, <1>4, <1>5, WholeOn

LEMMA WholeLook ==
  ASSUME VInv, NEW i \in Imports, Whole(req[i]), LookMp(i) \/ LookJtl(i) \/ FindMp(i)
  PROVE  Whole(req[i])'
<1>0. IInv
  BY DEF VInv
<1>1. PICK w, v : w = req[i] /\ v = req'[i]
  OBVIOUS
<1>3. Whole(w)
  BY <1>1
<1>2. /\ w.pc \in {"look", "match"} /\ UNCHANGED <<shows, stored, linked, event, open>>
      /\ v.pc \in {"event", "match"} /\ v.row = w.row
      /\ \/ v.row \in MpRows /\ v.pc = "event" /\ v.jtl = Jtl(OrderOf[v.row])
         \/ v.row \in JtlRows
  <2>1. CASE LookMp(i) \/ LookJtl(i)
    BY <1>0, <1>1, <2>1, LookFlow DEF At, LookMp, LookJtl, records
  <2>2. CASE FindMp(i)
    BY <1>0, <1>1, <1>3, <2>2, LookFlow DEF At, FindMp, records, Whole, ReadsOK
  <2>3. QED BY <2>1, <2>2
<1>4. ASSUME NEW r \in stored
      PROVE  LinkedOK(v, r) /\ VoidedOK(v, r) /\ SeenOK(v, r) /\ OpenedOK(v, r)
  BY <1>2, <1>3 DEF Whole, LinkedOK, VoidedOK, SeenOK, OpenedOK, Creating, Settling, Closing
<1>5. ReadsOK(v)
  BY <1>2, RowsOK DEF ReadsOK
<1>6. QED BY <1>1, <1>2, <1>3, <1>4, <1>5, WholeOn

LEMMA WholeOrder ==
  ASSUME VInv, NEW i \in Imports, Whole(req[i]), ReadAmazon(i) \/ ReadJtl(i)
  PROVE  Whole(req[i])'
<1>0. IInv /\ stored \subseteq Rows
  BY DEF VInv, IInv, TypeOK
<1>1. PICK w, v : w = req[i] /\ v = req'[i]
  OBVIOUS
<1>2. PICK o : o = OrderOf[w.row]
  OBVIOUS
<1>3. /\ UNCHANGED <<shows, stored, linked, event, open>> /\ v.row = w.row
      /\ \/ w.pc = "amazon" /\ v.pc = "jtl" /\ v.shipped = \E r \in Amazon(o) : Shipped(r)
         \/ /\ w.pc = "jtl" /\ v.pc = "mp" /\ v.shipped = w.shipped
            /\ v.jtl = Jtl(o) /\ v.todo = Jtl(o) \cap linked
  BY <1>0, <1>1, <1>2, OrderFlow DEF At
<1>4. Whole(w)
  BY <1>1
<1>5. ASSUME NEW r \in stored
      PROVE  LinkedOK(v, r) /\ VoidedOK(v, r) /\ SeenOK(v, r) /\ OpenedOK(v, r)
  BY <1>3, <1>4 DEF Whole, LinkedOK, VoidedOK, SeenOK, OpenedOK, Creating, Settling, Closing
<1>6. ReadsOK(v)
  <2>1. w.pc = "jtl" => Jtl(o) \subseteq linked
    <3>1. \A r \in stored : LinkedOK(w, r)
      BY <1>4 DEF Whole
    <3>2. Jtl(o) \subseteq stored
      BY DEF Jtl, RowsOf
    <3>3. QED BY <3>1, <3>2 DEF LinkedOK, Creating
  <2>2. o # NoOrder /\ (w.pc = "jtl" /\ w.shipped => \E r \in Amazon(o) : Shipped(r))
    BY <1>2, <1>3, <1>4 DEF Whole, ReadsOK
  <2>3. QED BY <1>2, <1>3, <2>1, <2>2 DEF ReadsOK
<1>7. QED BY <1>1, <1>3, <1>4, <1>5, <1>6, WholeOn

LEMMA WholeReadMp ==
  ASSUME VInv, NEW i \in Imports, Whole(req[i]), FreshOK(req[i]), ReadMp(i)
  PROVE  Whole(req[i])'
<1>0. IInv /\ stored \subseteq Rows
  BY DEF VInv, IInv, TypeOK
<1>1. PICK w, v : w = req[i] /\ v = req'[i]
  OBVIOUS
<1>2. PICK o, mp : o = OrderOf[w.row] /\ mp = Mp(o)
  OBVIOUS
<1>3. /\ w.pc = "mp" /\ UNCHANGED <<shows, stored, linked, event, open>>
      /\ v.row = w.row /\ v.shipped = w.shipped /\ v.cancelled = w.cancelled /\ v.jtl = w.jtl
      /\ \/ w.cancelled /\ v.pc = "void" /\ v.todo = w.todo \cup (mp \cap linked)
         \/ ~w.cancelled /\ v.pc = "read" /\ v.todo = w.todo \cup (mp \cap linked)
         \/ ~w.cancelled /\ (w.jtl = {} \/ mp = {}) /\ v.pc = "resolve"
  BY <1>0, <1>1, <1>2, ReadMpFlow DEF At
<1>4. Whole(w)
  BY <1>1
<1>5. o # NoOrder /\ w.jtl = Jtl(o) /\ w.todo = Jtl(o)
  BY <1>2, <1>3, <1>4 DEF Whole, ReadsOK
<1>6. w.cancelled <=> CancelledAtAmazon(o)
  BY <1>1, <1>2, <1>3 DEF FreshOK
<1>7. ASSUME NEW r \in stored
      PROVE  LinkedOK(v, r) /\ VoidedOK(v, r) /\ SeenOK(v, r) /\ OpenedOK(v, r)
  <2>0. LinkedOK(w, r) /\ VoidedOK(w, r) /\ SeenOK(w, r) /\ OpenedOK(w, r)
    BY <1>4 DEF Whole
  <2>1. r \in linked
    BY <1>3, <2>0 DEF LinkedOK, Creating
  <2>2. OrderOf[r] = o => r \in Jtl(o) \/ r \in mp
    BY <1>0, <1>2, <1>5, RowOfOrder
  <2>3. v.pc \in {"void", "read"} /\ OrderOf[r] = o => r \in v.todo
    BY <1>3, <1>5, <2>1, <2>2
  <2>4. VoidedOK(v, r)
    BY <1>2, <1>3, <1>6, <2>0, <2>3 DEF VoidedOK, Settling
  <2>5. SeenOK(v, r)
    <3>1. CASE OrderOf[r] # o
      BY <1>2, <1>3, <2>0, <3>1 DEF SeenOK, Settling
    <3>2. CASE OrderOf[r] = o
      <4>1. HasInvoice(Jtl(o)) /\ Mp(o) # {} /\ ~CancelledAtAmazon(o) => v.pc = "read"
        BY <1>2, <1>3, <1>5, <1>6 DEF HasInvoice
      <4>2. QED BY <2>3, <3>2, <4>1 DEF SeenOK, Doing
    <3>3. QED BY <3>1, <3>2
  <2>6. OpenedOK(v, r)
    BY <1>3, <2>0 DEF OpenedOK, Closing
  <2>7. LinkedOK(v, r)
    BY <2>1 DEF LinkedOK
  <2>8. QED BY <2>4, <2>5, <2>6, <2>7
<1>8. ReadsOK(v)
  <2>1. w.shipped => \E r \in Amazon(o) : Shipped(r)
    BY <1>2, <1>3, <1>4 DEF Whole, ReadsOK
  <2>2. QED BY <1>2, <1>3, <1>5, <2>1 DEF ReadsOK
<1>9. QED BY <1>1, <1>3, <1>4, <1>7, <1>8, WholeOn

LEMMA WholeReadEvent ==
  ASSUME VInv, NEW i \in Imports, Whole(req[i]), ReadEvent(i)
  PROVE  Whole(req[i])'
<1>0. IInv
  BY DEF VInv
<1>1. PICK w, v : w = req[i] /\ v = req'[i]
  OBVIOUS
<1>2. /\ w.pc = "read" /\ UNCHANGED <<shows, stored, linked, event, open>>
      /\ v.row = w.row /\ v.shipped = w.shipped /\ v.cancelled = w.cancelled /\ v.jtl = w.jtl
      /\ \/ w.todo = {} /\ v.pc = "resolve"
         \/ v.pc = "patch" /\ v.cur \in w.todo /\ v.todo = w.todo \ {v.cur}
  BY <1>0, <1>1, ReadEventFlow DEF At
<1>3. Whole(w)
  BY <1>1
<1>4. ASSUME NEW r \in stored
      PROVE  LinkedOK(v, r) /\ VoidedOK(v, r) /\ SeenOK(v, r) /\ OpenedOK(v, r)
  <2>0. LinkedOK(w, r) /\ VoidedOK(w, r) /\ SeenOK(w, r) /\ OpenedOK(w, r)
    BY <1>3 DEF Whole
  <2>1. Doing(w, r) => v.pc = "patch" /\ Doing(v, r)
    BY <1>2 DEF Doing
  <2>2. LinkedOK(v, r)
    BY <1>2, <2>0 DEF LinkedOK, Creating
  <2>3. VoidedOK(v, r)
    BY <1>2, <2>0 DEF VoidedOK, Settling
  <2>4. SeenOK(v, r)
    BY <1>2, <2>0, <2>1 DEF SeenOK, Settling
  <2>5. OpenedOK(v, r)
    BY <1>2, <2>0 DEF OpenedOK, Closing
  <2>6. QED BY <2>2, <2>3, <2>4, <2>5
<1>5. ReadsOK(v)
  BY <1>2, <1>3 DEF Whole, ReadsOK
<1>6. QED BY <1>1, <1>2, <1>3, <1>4, <1>5, WholeOn

(* The row is stored: nothing is known of its order until it is matched.   *)
LEMMA WholeStore ==
  ASSUME VInv, NEW i \in Imports, Whole(req[i]), FreshOK(req[i]), Store(i)
  PROVE  Whole(req[i])'
<1>0. IInv /\ req[i] \in Work /\ Carry(req[i])
  BY Current DEF VInv
<1>1. PICK w, v : w = req[i] /\ v = req'[i]
  OBVIOUS
<1>2. PICK c, o : c = w.row /\ o = OrderOf[c]
  OBVIOUS
<1>3. /\ w.pc = "store" /\ v.pc = "look" /\ v.row = w.row
      /\ UNCHANGED <<shows, linked, event, open>> /\ stored' = stored \cup {c}
  BY <1>0, <1>1, <1>2, LookFlow DEF Store, At, records
<1>4. Whole(w)
  BY <1>1
<1>5. c \in Rows /\ c \notin stored /\ ~Taken(Key[c])
  BY <1>0, <1>1, <1>2, <1>3 DEF FreshOK, Carry
<1>6. event[c] = NoEvent /\ ~IsOpen(c)
  BY <1>4, <1>5 DEF VInv, Whole
<1>7. ASSUME NEW p, p # o
      PROVE  /\ Jtl(p)' = Jtl(p) /\ Mp(p)' = Mp(p)
             /\ CancelledAtAmazon(p)' <=> CancelledAtAmazon(p)
  BY <1>2, <1>3, <1>7 DEF Jtl, Mp, Amazon, RowsOf, CancelledAtAmazon, Cancelled
<1>8. ASSUME NEW r \in stored'
      PROVE  TypesOK(r)' /\ LinkedOK(v, r)' /\ VoidedOK(v, r)' /\ SeenOK(v, r)'
             /\ OpenedOK(v, r)'
  <2>1. CASE r = c
    BY <1>2, <1>3, <1>6, <2>1 DEF TypesOK, LinkedOK, VoidedOK, SeenOK, OpenedOK, Creating,
       Settling, IsOpen
  <2>2. CASE r # c
    <3>0. /\ r \in stored /\ TypesOK(r) /\ LinkedOK(w, r) /\ VoidedOK(w, r)
          /\ SeenOK(w, r) /\ OpenedOK(w, r)
      BY <1>3, <1>4, <2>2 DEF Whole
    <3>1. /\ HasInvoice(Jtl(OrderOf[r])) => HasInvoice(Jtl(OrderOf[r]))'
          /\ CancelledAtAmazon(OrderOf[r]) => CancelledAtAmazon(OrderOf[r])'
      BY <1>3, OrderGrows
    <3>2. TypesOK(r)'
      BY <1>3, <3>0, <3>1 DEF TypesOK, Shipped
    <3>3. LinkedOK(v, r)'
      BY <1>2, <1>3, <2>2, <3>0 DEF LinkedOK, Creating
    <3>4. OpenedOK(v, r)'
      BY <1>2, <1>3, <2>2, <3>0 DEF OpenedOK, Closing, IsOpen
    <3>5. CASE OrderOf[r] = o
      <4>1. Settling(v, r)'
        BY <1>2, <1>3, <3>5 DEF Settling
      <4>2. QED BY <3>2, <3>3, <3>4, <4>1 DEF VoidedOK, SeenOK
    <3>6. CASE OrderOf[r] # o
      <4>1. VoidedOK(v, r)'
        BY <1>3, <1>7, <3>0, <3>6 DEF VoidedOK, Settling
      <4>2. SeenOK(v, r)'
        BY <1>3, <1>7, <3>0, <3>6 DEF SeenOK, Settling, Recognised
      <4>3. QED BY <3>2, <3>3, <3>4, <4>1, <4>2
    <3>7. QED BY <3>5, <3>6
  <2>3. QED BY <2>1, <2>2
<1>9. ReadsOK(v)'
  BY <1>3 DEF ReadsOK
<1>10. KeysOnce'
  BY <1>3, <1>4, <1>5 DEF Whole, KeysOnce, Taken
<1>11. (\A r \in Rows : IsOpen(r) => r \in stored)'
  BY <1>3, <1>4 DEF Whole, IsOpen
<1>12. Whole(v)'
  BY <1>8, <1>9, <1>10, <1>11 DEF Whole
<1>13. QED BY <1>1, <1>12, WholeAt

(* The exception for the row's event, if that event waits for its invoice. *)
LEMMA WholeExcept ==
  ASSUME VInv, NEW i \in Imports, Whole(req[i]), OpenException(i)
  PROVE  Whole(req[i])'
<1>0. IInv /\ req[i] \in Work /\ Carry(req[i])
  BY Current DEF VInv
<1>1. PICK w, v : w = req[i] /\ v = req'[i]
  OBVIOUS
<1>2. PICK c, o : c = w.row /\ o = OrderOf[c]
  OBVIOUS
<1>3. /\ w.pc = "except" /\ UNCHANGED <<shows, stored, linked, event>>
      /\ open' = open \cup Problem(w)
      /\ \/ v.pc = "idle" /\ o = NoOrder
         \/ v.pc = "amazon" /\ v.row = w.row /\ o # NoOrder
  BY <1>0, <1>1, <1>2, ExceptFlow DEF At
<1>4. Whole(w)
  BY <1>1
<1>5. c \in stored /\ c \in Rows
  BY <1>0, <1>1, <1>2, <1>3 DEF Carry
<1>6. \A r : <<"MISSING_INVOICE", r>> \in Problem(w) <=>
                r = c /\ event[c].status = "invoice_pending"
  <2>1. event[c].status = "invoice_pending" => c \in MpRows
    BY <1>4, <1>5 DEF Whole, TypesOK, NoEvent
  <2>2. CASE c \in MpRows
    <3>1. event[c] = MpEvent(c, w.jtl)
      BY <1>2, <1>3, <1>4, <2>2 DEF Whole, ReadsOK
    <3>2. CASE event[c].status = "invoice_pending"
      <4>1. Problem(w) = {<<"MISSING_INVOICE", c>>}
        BY <1>2, <2>2, <3>1, <3>2 DEF Problem, Ev
      <4>2. QED BY <3>2, <4>1
    <3>3. CASE event[c].status # "invoice_pending"
      <4>1. Problem(w) = {} \/ Problem(w) = {<<"MISSING_JTL_ORDER", c>>}
        BY <1>2, <2>2, <3>1, <3>3 DEF Problem
      <4>2. QED BY <3>3, <4>1
    <3>4. QED BY <3>2, <3>3
  <2>3. CASE c \notin MpRows
    <3>1. Problem(w) = {} \/ Problem(w) = {<<"UNMATCHED_MARKETPLACE_EVENT", c>>}
      BY <1>2, <2>3 DEF Problem
    <3>2. QED BY <2>1, <2>3, <3>1
  <2>4. QED BY <2>2, <2>3
<1>7. \A p : /\ Jtl(p)' = Jtl(p) /\ Mp(p)' = Mp(p)
             /\ CancelledAtAmazon(p)' <=> CancelledAtAmazon(p)
  BY <1>3, OrderSame
<1>8. ASSUME NEW r \in stored
      PROVE  TypesOK(r)' /\ LinkedOK(v, r)' /\ VoidedOK(v, r)' /\ SeenOK(v, r)'
             /\ OpenedOK(v, r)'
  <2>0. TypesOK(r) /\ LinkedOK(w, r) /\ VoidedOK(w, r) /\ SeenOK(w, r) /\ OpenedOK(w, r)
    BY <1>4 DEF Whole
  <2>1. TypesOK(r)'
    BY <1>3, <1>7, <2>0 DEF TypesOK, Shipped
  <2>2. LinkedOK(v, r)'
    BY <1>3, <2>0 DEF LinkedOK, Creating
  <2>3. Settling(w, r) => Settling(v, r) \/ OrderOf[r] = NoOrder
    BY <1>2, <1>3 DEF Settling
  <2>4. VoidedOK(v, r)'
    BY <1>3, <1>7, <2>0, <2>3, NoRows DEF VoidedOK, Settling
  <2>5. SeenOK(v, r)'
    BY <1>3, <1>7, <2>0, <2>3, NoRows DEF SeenOK, Settling, Recognised
  <2>6. IsOpen(r)' <=> IsOpen(r) \/ (r = c /\ event[c].status = "invoice_pending")
    BY <1>3, <1>6 DEF IsOpen
  <2>7. OpenedOK(v, r)'
    BY <1>2, <1>3, <2>0, <2>6 DEF OpenedOK, Closing
  <2>8. QED BY <2>1, <2>2, <2>4, <2>5, <2>7
<1>9. ReadsOK(v)'
  BY <1>2, <1>3 DEF ReadsOK
<1>10. KeysOnce' /\ (\A r \in Rows : IsOpen(r) => r \in stored)'
  BY <1>3, <1>4, <1>5, <1>6 DEF Whole, KeysOnce, IsOpen
<1>11. Whole(v)'
  BY <1>3, <1>8, <1>9, <1>10 DEF Whole
<1>12. QED BY <1>1, <1>11, WholeAt

(* The row is linked to its event.                                         *)
LEMMA WholeLink ==
  ASSUME VInv, NEW i \in Imports, Whole(req[i]), Link(i)
  PROVE  Whole(req[i])'
<1>0. IInv
  BY DEF VInv
<1>1. PICK w, v : w = req[i] /\ v = req'[i]
  OBVIOUS
<1>2. /\ w.pc = "link" /\ v.pc = "except" /\ UNCHANGED <<shows, stored, event, open>>
      /\ v.row = w.row /\ v.jtl = w.jtl /\ linked' = linked \cup {w.row}
  BY <1>0, <1>1, CreateFlow DEF At, Link
<1>3. Whole(w)
  BY <1>1
<1>4. \A p : /\ Jtl(p)' = Jtl(p) /\ Mp(p)' = Mp(p)
             /\ CancelledAtAmazon(p)' <=> CancelledAtAmazon(p)
  BY <1>2, OrderSame
<1>5. ASSUME NEW r \in stored
      PROVE  TypesOK(r)' /\ LinkedOK(v, r)' /\ VoidedOK(v, r)' /\ SeenOK(v, r)'
             /\ OpenedOK(v, r)'
  <2>0. TypesOK(r) /\ LinkedOK(w, r) /\ VoidedOK(w, r) /\ SeenOK(w, r) /\ OpenedOK(w, r)
    BY <1>3 DEF Whole
  <2>1. TypesOK(r)'
    BY <1>2, <1>4, <2>0 DEF TypesOK, Shipped
  <2>2. LinkedOK(v, r)'
    BY <1>2, <2>0 DEF LinkedOK, Creating
  <2>3. VoidedOK(v, r)' /\ SeenOK(v, r)'
    BY <1>2, <1>4, <2>0 DEF VoidedOK, SeenOK, Settling, Recognised
  <2>4. OpenedOK(v, r)'
    BY <1>2, <2>0 DEF OpenedOK, Closing, IsOpen
  <2>5. QED BY <2>1, <2>2, <2>3, <2>4
<1>6. ReadsOK(v)'
  <2>1. v.row \in MpRows => v.jtl = Jtl(OrderOf[v.row]) /\ event[v.row] = MpEvent(v.row, v.jtl)
    BY <1>2, <1>3 DEF Whole, ReadsOK
  <2>2. MpEvent(v.row, v.jtl)' = MpEvent(v.row, v.jtl)
    BY <1>2 DEF MpEvent, Cancelled, Shipped, Waiting
  <2>3. QED BY <1>2, <1>4, <2>1, <2>2 DEF ReadsOK
<1>7. KeysOnce' /\ (\A r \in Rows : IsOpen(r) => r \in stored)'
  BY <1>2, <1>3 DEF Whole, KeysOnce, IsOpen
<1>8. Whole(v)'
  BY <1>2, <1>5, <1>6, <1>7 DEF Whole
<1>9. QED BY <1>1, <1>8, WholeAt

(* What the types of a new event say.                                      *)
LEMMA MpEventTypes ==
  ASSUME VInv, NEW r \in MpRows, NEW jtl
  PROVE  LET e == MpEvent(r, jtl) IN
         /\ e.type = "CANCELLATION" => e.status = "void"
         /\ e.type = "ORDER_CREATED" => Kind[r] = "order"
         /\ e.status = "invoice_pending" => e.type = "ORDER_CREATED" /\ Shipped(r)
         /\ Shipped(r) /\ ~HasInvoice(jtl) => e = Awaits
<1>1. Shipped(r) => Kind[r] = "order" /\ ~Cancelled(r)
  BY DEF VInv, Shipped, Cancelled
<1>2. Waiting(r, jtl) # "invoice_pending"
  BY DEF Waiting
<1>3. CASE Cancelled(r)
  BY <1>1, <1>3 DEF MpEvent, Ev
<1>4. CASE ~Cancelled(r) /\ Shipped(r)
  BY <1>1, <1>4 DEF MpEvent, Ev, Awaits
<1>5. CASE ~Cancelled(r) /\ ~Shipped(r)
  <2>1. MpEvent(r, jtl) = Ev(MpType(Kind[r]), Waiting(r, jtl))
    BY <1>5 DEF MpEvent
  <2>2. Kind[r] \in MpKinds
    BY RowsOK
  <2>3. MpType(Kind[r]) # "CANCELLATION" /\ (MpType(Kind[r]) = "ORDER_CREATED" => Kind[r] = "order")
    BY <2>2 DEF MpType, MpKinds
  <2>4. QED BY <1>2, <1>5, <2>1, <2>3 DEF Ev
<1>6. QED BY <1>3, <1>4, <1>5

LEMMA JtlEventTypes ==
  ASSUME NEW r \in JtlRows, NEW mp, NEW c \in BOOLEAN
  PROVE  LET e == JtlEvent(r, mp, c) IN
         /\ IsInvoice(r) => e.type \in {"SALE", "ORDER_CREATED"} \/ c
         /\ e.status # "invoice_pending"
<1>1. CASE c
  BY <1>1 DEF JtlEvent, Ev
<1>2. CASE ~c
  <2>1. Waiting(r, mp) # "invoice_pending"
    BY DEF Waiting
  <2>2. JtlEvent(r, mp, c) =
          Ev(CASE Kind[r] = "invoice_correction" -> "CANCELLATION"
               [] IsInvoice(r) /\ mp # {}        -> "SALE"
               [] OTHER                          -> "ORDER_CREATED",
             Waiting(r, mp))
    BY <1>2 DEF JtlEvent
  <2>3. JtlEvent(r, mp, c).status # "invoice_pending"
    BY <2>1, <2>2 DEF Ev
  <2>4. ASSUME IsInvoice(r) PROVE JtlEvent(r, mp, c).type \in {"SALE", "ORDER_CREATED"}
    <3>1. Kind[r] # "invoice_correction"
      BY <2>4 DEF IsInvoice
    <3>2. CASE mp # {}
      <4>1. JtlEvent(r, mp, c) = Ev("SALE", Waiting(r, mp))
        BY <2>2, <2>4, <3>1, <3>2
      <4>2. QED BY <4>1 DEF Ev
    <3>3. CASE mp = {}
      <4>1. JtlEvent(r, mp, c) = Ev("ORDER_CREATED", Waiting(r, mp))
        BY <2>2, <3>1, <3>3
      <4>2. QED BY <4>1 DEF Ev
    <3>4. QED BY <3>2, <3>3
  <2>5. QED BY <2>3, <2>4
<1>3. QED BY <1>1, <1>2

(* One event is written: what the types of the others say is as before.    *)
LEMMA OthersTypes ==
  ASSUME IInv, UNCHANGED <<shows, stored>>, NEW c \in Rows, NEW e,
         event' = [event EXCEPT ![c] = e]
  PROVE  /\ event'[c] = e
         /\ \A r \in Rows \ {c} : event'[r] = event[r] /\ (TypesOK(r) => TypesOK(r)')
         /\ \A p : /\ Jtl(p)' = Jtl(p) /\ Mp(p)' = Mp(p) /\ Amazon(p)' = Amazon(p)
                   /\ CancelledAtAmazon(p)' <=> CancelledAtAmazon(p)
<1>1. event'[c] = e /\ \A r \in Rows \ {c} : event'[r] = event[r]
  BY DEF IInv, TypeOK
<1>2. \A p : /\ Jtl(p)' = Jtl(p) /\ Mp(p)' = Mp(p) /\ Amazon(p)' = Amazon(p)
             /\ CancelledAtAmazon(p)' <=> CancelledAtAmazon(p)
  BY OrderSame
<1>3. ASSUME NEW r \in Rows \ {c}, TypesOK(r) PROVE TypesOK(r)'
  BY <1>1, <1>2, <1>3 DEF TypesOK, Shipped
<1>4. QED BY <1>1, <1>2, <1>3

LEMMA WholeCreate ==
  ASSUME VInv, NEW i \in Imports, Whole(req[i]), CreateEvent(i)
  PROVE  Whole(req[i])'
<1>0. IInv /\ req[i] \in Work /\ Carry(req[i]) /\ CancelOK(req[i]) /\ stored \subseteq Rows
  BY Current DEF VInv, IInv, TypeOK
<1>1. PICK w, v : w = req[i] /\ v = req'[i]
  OBVIOUS
<1>2. PICK c, o : c = w.row /\ o = OrderOf[c]
  OBVIOUS
<1>3. PICK e : e = IF c \in MpRows THEN MpEvent(c, w.jtl) ELSE JtlEvent(c, w.mp, w.cancelled)
  OBVIOUS
<1>4. /\ w.pc = "event" /\ v.pc = "link" /\ UNCHANGED <<shows, stored, linked, open>>
      /\ v.row = w.row /\ v.jtl = w.jtl /\ event' = [event EXCEPT ![c] = e]
  BY <1>0, <1>1, <1>2, <1>3, CreateFlow DEF At, CreateEvent, records
<1>5. Whole(w)
  BY <1>1
<1>6. c \in stored /\ c \in Rows
  BY <1>0, <1>1, <1>2, <1>4 DEF Carry
<1>7. /\ event'[c] = e
      /\ \A r \in Rows \ {c} : event'[r] = event[r] /\ (TypesOK(r) => TypesOK(r)')
      /\ \A p : /\ Jtl(p)' = Jtl(p) /\ Mp(p)' = Mp(p) /\ Amazon(p)' = Amazon(p)
                /\ CancelledAtAmazon(p)' <=> CancelledAtAmazon(p)
  BY <1>0, <1>4, <1>6, OthersTypes
<1>8. TypesOK(c)'
  <2>1. CASE c \in MpRows
    <3>1. c \notin JtlRows /\ ~IsInvoice(c) /\ w.jtl = Jtl(o) /\ e = MpEvent(c, w.jtl)
      BY <1>2, <1>3, <1>4, <1>5, <2>1, RowsOK DEF Whole, ReadsOK, IsInvoice
    <3>2. /\ e.type = "CANCELLATION" => e.status = "void"
          /\ e.type = "ORDER_CREATED" => Kind[c] = "order"
          /\ e.status = "invoice_pending" => e.type = "ORDER_CREATED" /\ Shipped(c)
          /\ Shipped(c) /\ ~HasInvoice(w.jtl) => e = Awaits
      BY <2>1, <3>1, MpEventTypes
    <3>3. QED BY <1>2, <1>4, <1>7, <2>1, <3>1, <3>2 DEF TypesOK, Shipped
  <2>2. CASE c \notin MpRows
    <3>1. c \in JtlRows /\ c \notin AmazonRows /\ e = JtlEvent(c, w.mp, w.cancelled)
      BY <1>3, <1>6, <2>2, RowsOK DEF Rows
    <3>2. w.cancelled \in BOOLEAN /\ (w.cancelled => CancelledAtAmazon(o))
      BY <1>0, <1>1, <1>2 DEF Work, CancelOK
    <3>3. /\ IsInvoice(c) => e.type \in {"SALE", "ORDER_CREATED"} \/ w.cancelled
          /\ e.status # "invoice_pending"
      BY <3>1, <3>2, JtlEventTypes
    <3>4. QED BY <1>2, <1>7, <2>2, <3>1, <3>2, <3>3 DEF TypesOK, Shipped
  <2>3. QED BY <2>1, <2>2
<1>9. ASSUME NEW r \in stored
      PROVE  TypesOK(r)' /\ LinkedOK(v, r)' /\ VoidedOK(v, r)' /\ SeenOK(v, r)'
             /\ OpenedOK(v, r)'
  <2>0. r \in Rows /\ TypesOK(r) /\ LinkedOK(w, r) /\ VoidedOK(w, r) /\ SeenOK(w, r)
        /\ OpenedOK(w, r)
    BY <1>0, <1>5 DEF Whole
  <2>1. TypesOK(r)'
    BY <1>7, <1>8, <2>0
  <2>2. LinkedOK(v, r)'
    BY <1>4, <2>0 DEF LinkedOK, Creating
  <2>3. CASE r = c
    <3>1. Settling(v, r)' /\ OpenedOK(v, r)'
      BY <1>2, <1>4, <2>0, <2>3 DEF Settling, OpenedOK, IsOpen
    <3>2. QED BY <2>1, <2>2, <3>1 DEF VoidedOK, SeenOK
  <2>4. CASE r # c
    <3>1. event'[r] = event[r]
      BY <1>7, <2>0, <2>4
    <3>2. VoidedOK(v, r)' /\ SeenOK(v, r)'
      BY <1>4, <1>7, <2>0, <3>1 DEF VoidedOK, SeenOK, Settling, Recognised
    <3>3. OpenedOK(v, r)'
      BY <1>2, <1>4, <2>0, <2>4, <3>1 DEF OpenedOK, Closing, IsOpen
    <3>4. QED BY <2>1, <2>2, <3>2, <3>3
  <2>5. QED BY <2>3, <2>4
<1>10. ReadsOK(v)'
  <2>1. v.row \in MpRows => v.jtl = Jtl(OrderOf[v.row]) /\ event'[v.row] = MpEvent(v.row, v.jtl)
    BY <1>2, <1>3, <1>4, <1>5, <1>7 DEF Whole, ReadsOK
  <2>2. MpEvent(v.row, v.jtl)' = MpEvent(v.row, v.jtl)
    BY <1>4 DEF MpEvent, Cancelled, Shipped, Waiting
  <2>3. QED BY <1>4, <1>7, <2>1, <2>2 DEF ReadsOK
<1>11. KeysOnce' /\ (\A r \in Rows : IsOpen(r) => r \in stored)'
  BY <1>4, <1>5 DEF Whole, KeysOnce, IsOpen
<1>12. Whole(v)'
  BY <1>4, <1>9, <1>10, <1>11 DEF Whole
<1>13. QED BY <1>1, <1>12, WholeAt

(* Of a cancelled order, one event more is void.                           *)
LEMMA WholeVoid ==
  ASSUME VInv, NEW i \in Imports, Whole(req[i]), VoidEvent(i)
  PROVE  Whole(req[i])'
<1>0. /\ IInv /\ req[i] \in Work /\ Carry(req[i]) /\ CancelOK(req[i])
      /\ stored \subseteq Rows
  BY Current DEF VInv, IInv, TypeOK
<1>1. PICK w, v : w = req[i] /\ v = req'[i]
  OBVIOUS
<1>2. PICK o : o = OrderOf[w.row]
  OBVIOUS
<1>3. /\ w.pc = "void" /\ UNCHANGED <<shows, stored, linked, open>>
      /\ v.row = w.row /\ v.shipped = w.shipped /\ v.cancelled = w.cancelled /\ v.jtl = w.jtl
      /\ \/ w.todo = {} /\ event' = event /\ v.pc = "resolve" /\ v.todo = w.todo
         \/ /\ v.pc = "void"
            /\ \E r \in w.todo : /\ v.todo = w.todo \ {r}
                                 /\ event' = [event EXCEPT ![r] = Ev("CANCELLATION", "void")]
  BY <1>0, <1>1, VoidFlow DEF At
<1>4. Whole(w) /\ w.cancelled /\ CancelledAtAmazon(o)
  BY <1>0, <1>1, <1>2, <1>3 DEF CancelOK
<1>5. CASE w.todo = {} /\ event' = event /\ v.pc = "resolve"
  <2>1. ASSUME NEW r \in stored
        PROVE  LinkedOK(v, r) /\ VoidedOK(v, r) /\ SeenOK(v, r) /\ OpenedOK(v, r)
    BY <1>3, <1>4, <1>5 DEF Whole, LinkedOK, VoidedOK, SeenOK, OpenedOK, Creating, Settling,
       Closing
  <2>2. ReadsOK(v)
    BY <1>3, <1>4, <1>5 DEF Whole, ReadsOK
  <2>3. QED BY <1>1, <1>3, <1>4, <1>5, <2>1, <2>2, WholeOn
<1>6. CASE v.pc = "void" /\ \E r \in w.todo :
             v.todo = w.todo \ {r} /\ event' = [event EXCEPT ![r] = Ev("CANCELLATION", "void")]
  <2>1. PICK c \in w.todo : /\ v.todo = w.todo \ {c}
                            /\ event' = [event EXCEPT ![c] = Ev("CANCELLATION", "void")]
    BY <1>6
  <2>2. c \in Rows /\ c \in stored /\ OrderOf[c] = o
    BY <1>0, <1>1, <1>2, <2>1 DEF Carry, Work, VInv
  <2>3. PICK e : e = Ev("CANCELLATION", "void")
    OBVIOUS
  <2>4. /\ event'[c] = e
        /\ \A r \in Rows \ {c} : event'[r] = event[r] /\ (TypesOK(r) => TypesOK(r)')
        /\ \A p : /\ Jtl(p)' = Jtl(p) /\ Mp(p)' = Mp(p) /\ Amazon(p)' = Amazon(p)
                  /\ CancelledAtAmazon(p)' <=> CancelledAtAmazon(p)
    BY <1>0, <1>3, <2>1, <2>2, <2>3, OthersTypes
  <2>5. TypesOK(c)'
    BY <1>4, <2>2, <2>3, <2>4 DEF TypesOK, Ev
  <2>6. ASSUME NEW r \in stored
        PROVE  TypesOK(r)' /\ LinkedOK(v, r)' /\ VoidedOK(v, r)' /\ SeenOK(v, r)'
               /\ OpenedOK(v, r)'
    <3>0. r \in Rows /\ TypesOK(r) /\ LinkedOK(w, r) /\ VoidedOK(w, r) /\ SeenOK(w, r)
          /\ OpenedOK(w, r)
      BY <1>0, <1>4 DEF Whole
    <3>1. TypesOK(r)'
      BY <2>4, <2>5, <3>0
    <3>2. LinkedOK(v, r)'
      BY <1>3, <3>0 DEF LinkedOK, Creating
    <3>3. CASE r = c
      <4>1. VoidedOK(v, r)' /\ SeenOK(v, r)'
        BY <1>4, <2>2, <2>3, <2>4, <3>3 DEF VoidedOK, SeenOK
      <4>2. OpenedOK(v, r)'
        BY <1>2, <1>3, <1>4, <1>6, <2>2, <3>3 DEF OpenedOK, Closing
      <4>3. QED BY <3>1, <3>2, <4>1, <4>2
    <3>4. CASE r # c
      <4>1. event'[r] = event[r]
        BY <2>4, <3>0, <3>4
      <4>2. VoidedOK(v, r)' /\ SeenOK(v, r)'
        BY <1>3, <1>6, <2>1, <2>4, <3>0, <3>4, <4>1 DEF VoidedOK, SeenOK, Settling, Recognised
      <4>3. OpenedOK(v, r)'
        BY <1>3, <1>6, <3>0, <4>1 DEF OpenedOK, Closing, IsOpen
      <4>4. QED BY <3>1, <3>2, <4>2, <4>3
    <3>5. QED BY <3>3, <3>4
  <2>7. ReadsOK(v)'
    <3>1. o # NoOrder /\ v.jtl = Jtl(o) /\ (v.shipped => \E r \in Amazon(o) : Shipped(r))
      BY <1>2, <1>3, <1>4 DEF Whole, ReadsOK
    <3>2. QED BY <1>2, <1>3, <1>6, <2>4, <3>1 DEF ReadsOK, Shipped
  <2>8. KeysOnce' /\ (\A r \in Rows : IsOpen(r) => r \in stored)'
    BY <1>3, <1>4 DEF Whole, KeysOnce, IsOpen
  <2>9. Whole(v)'
    BY <1>3, <2>6, <2>7, <2>8 DEF Whole
  <2>10. QED BY <1>1, <2>9, WholeAt
<1>7. QED BY <1>3, <1>5, <1>6

(* What a rematch makes of the event that it has read.                     *)
LEMMA PatchedMp ==
  ASSUME NEW w, w.cur \in MpRows, w.ev = event[w.cur]
  PROVE  LET e == event[w.cur]
             void == e.type = "CANCELLATION" \/ e.status = "void"
             undecided == ~void /\ e.type \notin {"SETTLEMENT", "PAYOUT"}
                          /\ (e.type = "ORDER_CREATED" \/ e.status = "invoice_pending")
             waits == ~HasInvoice(w.jtl) /\ (w.shipped \/ Shipped(w.cur))
         IN  \/ void /\ Patched(w) = e
             \/ undecided /\ HasInvoice(w.jtl) /\ Patched(w) = Ev("SALE", "matched")
             \/ undecided /\ waits /\ Patched(w) = Awaits
             \/ /\ ~void /\ ~(undecided /\ (HasInvoice(w.jtl) \/ waits))
                /\ Patched(w) = Ev(e.type, "matched")
<1> DEFINE e == event[w.cur]
           void == e.type = "CANCELLATION" \/ e.status = "void"
           undecided == ~void /\ e.type \notin {"SETTLEMENT", "PAYOUT"}
                        /\ (e.type = "ORDER_CREATED" \/ e.status = "invoice_pending")
           waits == ~HasInvoice(w.jtl) /\ (w.shipped \/ Shipped(w.cur))
<1>1. Patched(w) = CASE void -> e
             [] undecided /\ HasInvoice(w.jtl) -> Ev("SALE", "matched")
             [] undecided /\ ~HasInvoice(w.jtl) /\ (w.shipped \/ Shipped(w.cur)) ->
                  Ev("ORDER_CREATED", "invoice_pending")
             [] OTHER -> Ev(e.type, "matched")
  BY RowsOK DEF Patched
<1>2. void => ~undecided
  OBVIOUS
<1>3. Patched(w) = CASE void -> e [] undecided /\ HasInvoice(w.jtl) -> Ev("SALE", "matched")
             [] undecided /\ waits -> Awaits [] OTHER -> Ev(e.type, "matched")
  BY <1>1 DEF Awaits
<1>4. \/ void /\ Patched(w) = e
      \/ undecided /\ HasInvoice(w.jtl) /\ Patched(w) = Ev("SALE", "matched")
      \/ undecided /\ waits /\ Patched(w) = Awaits
      \/ /\ ~void /\ ~(undecided /\ (HasInvoice(w.jtl) \/ waits))
         /\ Patched(w) = Ev(e.type, "matched")
  <2> HIDE DEF void, undecided, e
  <2>1. waits => ~HasInvoice(w.jtl)
    OBVIOUS
  <2> HIDE DEF waits
  <2>2. CASE void
    <3>1. Patched(w) = e
      BY <1>2, <1>3, <2>2
    <3>2. QED BY <2>2, <3>1
  <2>3. CASE ~void /\ undecided /\ HasInvoice(w.jtl)
    <3>1. Patched(w) = Ev("SALE", "matched")
      BY <1>3, <2>1, <2>3
    <3>2. QED BY <2>3, <3>1
  <2>4. CASE ~void /\ undecided /\ waits
    <3>1. Patched(w) = Awaits
      BY <1>3, <2>1, <2>4
    <3>2. QED BY <2>4, <3>1
  <2>5. CASE ~void /\ ~(undecided /\ (HasInvoice(w.jtl) \/ waits))
    <3>1. Patched(w) = Ev(e.type, "matched")
      BY <1>3, <2>5
    <3>2. QED BY <2>5, <3>1
  <2>6. QED BY <2>2, <2>3, <2>4, <2>5
<1>5. QED BY <1>4

(* An event is not the absence of one.                                     *)
LEMMA EventApart == NoEvent \notin Event
BY DEF NoEvent, Event, Types

(* Of a patched row, in an order that is not cancelled: an invoice is a    *)
(* sale, and the event waits just if no invoice is there and it waited.    *)
LEMMA PatchedRight ==
  ASSUME VInv, OneReportRow, NEW w, NEW o, w.cur \in stored, w.cur \in Rows,
         o # NoOrder, OrderOf[w.cur] = o, w.ev = event[w.cur], event[w.cur] \in Event,
         TypesOK(w.cur), KeysOnce, ~CancelledAtAmazon(o), w.jtl = Jtl(o),
         w.shipped => \E a \in Amazon(o) : Shipped(a),
         NEW p, p = Patched(w)
  PROVE  /\ IsInvoice(w.cur) => p.type \in {"SALE", "ORDER_CREATED"}
         /\ w.cur \in MpRows /\ p.type = "CANCELLATION" => p.status = "void"
         /\ w.cur \in MpRows /\ p.type = "ORDER_CREATED" => Kind[w.cur] = "order"
         /\ p.status = "invoice_pending" =>
              w.cur \in MpRows /\ p.type = "ORDER_CREATED" /\ Shipped(w.cur)
         /\ Shipped(w.cur) /\ ~HasInvoice(w.jtl) => p = Awaits
         /\ HasInvoice(w.jtl) => /\ IsInvoice(w.cur) => p = Ev("SALE", "matched")
                                 /\ p.status \notin {"pending_match", "invoice_pending"}
         /\ ~HasInvoice(w.jtl) =>
              (p.status = "invoice_pending" <=> event[w.cur].status = "invoice_pending")
<1> DEFINE c == w.cur
           e == event[c]
<1>1. CASE c \in JtlRows
  <2>1. c \notin MpRows /\ ~Shipped(c)
    BY <1>1, RowsOK DEF Shipped
  <2>2. PICK t : t = IF e.type = "ORDER_CREATED" /\ Kind[c] # "order" /\ HasInvoice(w.jtl)
                     THEN "SALE" ELSE e.type
    OBVIOUS
  <2>3. p = Ev(t, "matched")
    BY <1>1, <2>2 DEF Patched
  <2>4. IsInvoice(c) => /\ t \in {"SALE", "ORDER_CREATED"}
                        /\ HasInvoice(w.jtl) => t = "SALE"
    BY <2>2, EventApart DEF TypesOK, IsInvoice
  <2>5. event[c].status # "invoice_pending"
    BY <2>1, EventApart DEF TypesOK
  <2>6. QED BY <2>1, <2>3, <2>4, <2>5 DEF Ev
<1>2. CASE c \in MpRows
  <2>0. ~IsInvoice(c) /\ event[c] # NoEvent
    BY <1>2, RowsOK, EventApart DEF IsInvoice
  <2>1. /\ e.type = "CANCELLATION" => e.status = "void"
        /\ e.type = "ORDER_CREATED" => Kind[c] = "order"
        /\ e.status = "invoice_pending" => e.type = "ORDER_CREATED" /\ Shipped(c)
        /\ Shipped(c) /\ ~HasInvoice(w.jtl) => e = Awaits
    BY <1>2, <2>0 DEF TypesOK
  <2>2. w.shipped /\ Kind[c] = "order" => Shipped(c)
    <3>1. SUFFICES ASSUME w.shipped, Kind[c] = "order" PROVE Shipped(c)
      OBVIOUS
    <3>2. PICK a \in Amazon(o) : Shipped(a)
      BY <3>1
    <3>3. a \in stored /\ a \in AmazonRows /\ Kind[a] = "order" /\ OrderOf[a] = OrderOf[c]
      BY <3>2 DEF Amazon, RowsOf
    <3>4. Key[a] = Key[c]
      BY <1>2, <3>1, <3>3 DEF OneReportRow
    <3>5. QED BY <3>2, <3>3, <3>4 DEF KeysOnce
  <2>3. \/ (e.type = "CANCELLATION" \/ e.status = "void") /\ p = e
        \/ HasInvoice(w.jtl) /\ p = Ev("SALE", "matched")
        \/ /\ ~HasInvoice(w.jtl) /\ p = Awaits /\ (w.shipped \/ Shipped(c))
           /\ e.type = "ORDER_CREATED" \/ e.status = "invoice_pending"
        \/ /\ p = Ev(e.type, "matched") /\ e.type # "CANCELLATION" /\ e.status # "void"
           /\ e.type = "ORDER_CREATED" /\ ~HasInvoice(w.jtl) => ~Shipped(c)
    BY <1>2, PatchedMp
  <2>4. CASE (e.type = "CANCELLATION" \/ e.status = "void") /\ p = e
    BY <1>2, <2>0, <2>1, <2>4 DEF Awaits, Ev
  <2>5. CASE HasInvoice(w.jtl) /\ p = Ev("SALE", "matched")
    BY <2>0, <2>5 DEF Ev
  <2>6. CASE /\ ~HasInvoice(w.jtl) /\ p = Awaits /\ (w.shipped \/ Shipped(c))
             /\ e.type = "ORDER_CREATED" \/ e.status = "invoice_pending"
    <3>1. Kind[c] = "order" /\ Shipped(c)
      BY <2>1, <2>2, <2>6
    <3>2. e = Awaits
      BY <2>1, <2>6, <3>1
    <3>3. QED BY <1>2, <2>0, <2>6, <3>1, <3>2 DEF Awaits, Ev
  <2>7. CASE /\ p = Ev(e.type, "matched") /\ e.type # "CANCELLATION" /\ e.status # "void"
             /\ e.type = "ORDER_CREATED" /\ ~HasInvoice(w.jtl) => ~Shipped(c)
    <3>1. ~HasInvoice(w.jtl) => ~Shipped(c) /\ e.status # "invoice_pending"
      BY <2>1, <2>7 DEF Awaits, Ev
    <3>2. p.type = e.type /\ p.status = "matched"
      BY <2>7 DEF Ev
    <3>3. QED BY <2>0, <2>1, <2>7, <3>1, <3>2
  <2>8. QED BY <2>3, <2>4, <2>5, <2>6, <2>7
<1>3. QED BY <1>1, <1>2 DEF Rows

LEMMA WholePatch ==
  ASSUME VInv, OneReportRow, NEW i \in Imports, Whole(req[i]), FreshOK(req[i]), PatchEvent(i)
  PROVE  Whole(req[i])'
<1>0. /\ IInv /\ req[i] \in Work /\ Carry(req[i]) /\ CancelOK(req[i])
      /\ stored \subseteq Rows
  BY Current DEF VInv, IInv, TypeOK
<1>1. PICK w, v : w = req[i] /\ v = req'[i]
  OBVIOUS
<1>2. PICK c, o, p : c = w.cur /\ o = OrderOf[w.row] /\ p = Patched(w)
  OBVIOUS
<1>3. /\ w.pc = "patch" /\ v.pc = "read" /\ UNCHANGED <<shows, stored, linked, open>>
      /\ v.row = w.row /\ v.shipped = w.shipped /\ v.cancelled = w.cancelled /\ v.jtl = w.jtl
      /\ v.todo = w.todo /\ event' = [event EXCEPT ![c] = p]
  BY <1>0, <1>1, <1>2, PatchFlow DEF At
<1>4. Whole(w)
  BY <1>1
<1>5. ~w.cancelled /\ ~CancelledAtAmazon(o) /\ w.ev = event[c]
  BY <1>0, <1>1, <1>2, <1>3 DEF CancelOK, FreshOK
<1>6. c \in Rows /\ c \in stored /\ OrderOf[c] = o /\ event[c] \in Event
  BY <1>0, <1>1, <1>2, <1>3 DEF Carry, VInv, IInv, TypeOK
<1>7. /\ o # NoOrder /\ w.jtl = Jtl(o) /\ KeysOnce /\ TypesOK(c)
      /\ w.shipped => \E r \in Amazon(o) : Shipped(r)
  BY <1>2, <1>3, <1>4, <1>6 DEF Whole, ReadsOK
<1>8. /\ IsInvoice(c) => p.type \in {"SALE", "ORDER_CREATED"}
      /\ c \in MpRows /\ p.type = "CANCELLATION" => p.status = "void"
      /\ c \in MpRows /\ p.type = "ORDER_CREATED" => Kind[c] = "order"
      /\ p.status = "invoice_pending" =>
           c \in MpRows /\ p.type = "ORDER_CREATED" /\ Shipped(c)
      /\ Shipped(c) /\ ~HasInvoice(w.jtl) => p = Awaits
      /\ HasInvoice(w.jtl) => /\ IsInvoice(c) => p = Ev("SALE", "matched")
                              /\ p.status \notin {"pending_match", "invoice_pending"}
      /\ ~HasInvoice(w.jtl) =>
           (p.status = "invoice_pending" <=> event[c].status = "invoice_pending")
  BY <1>2, <1>5, <1>6, <1>7, PatchedRight
<1>9. /\ event'[c] = p
      /\ \A r \in Rows \ {c} : event'[r] = event[r] /\ (TypesOK(r) => TypesOK(r)')
      /\ \A q : /\ Jtl(q)' = Jtl(q) /\ Mp(q)' = Mp(q) /\ Amazon(q)' = Amazon(q)
                /\ CancelledAtAmazon(q)' <=> CancelledAtAmazon(q)
  BY <1>0, <1>3, <1>6, OthersTypes
<1>10. TypesOK(c)'
  BY <1>3, <1>6, <1>7, <1>8, <1>9 DEF TypesOK, Shipped
<1>11. ASSUME NEW r \in stored
       PROVE  TypesOK(r)' /\ LinkedOK(v, r)' /\ VoidedOK(v, r)' /\ SeenOK(v, r)'
              /\ OpenedOK(v, r)'
  <2>0. r \in Rows /\ TypesOK(r) /\ LinkedOK(w, r) /\ VoidedOK(w, r) /\ SeenOK(w, r)
        /\ OpenedOK(w, r)
    BY <1>0, <1>4 DEF Whole
  <2>1. TypesOK(r)'
    BY <1>9, <1>10, <2>0
  <2>2. LinkedOK(v, r)'
    BY <1>3, <2>0 DEF LinkedOK, Creating
  <2>3. CASE r = c
    <3>1. VoidedOK(v, r)'
      BY <1>5, <1>6, <1>9, <2>3 DEF VoidedOK
    <3>2. SeenOK(v, r)'
      <4>1. HasInvoice(Jtl(o)) => Recognised(r)'
        BY <1>7, <1>8, <1>9, <2>3 DEF Recognised
      <4>2. QED BY <1>6, <1>9, <2>3, <4>1 DEF SeenOK
    <3>3. OpenedOK(v, r)'
      <4>1. CASE HasInvoice(w.jtl)
        BY <1>2, <1>3, <1>6, <2>3, <4>1 DEF OpenedOK, Closing
      <4>2. CASE ~HasInvoice(w.jtl)
        <5>1. event[r].status = "invoice_pending" <=> IsOpen(r)
          BY <1>3, <1>5, <2>0, <4>2 DEF OpenedOK, Closing
        <5>2. QED BY <1>3, <1>8, <1>9, <2>3, <4>2, <5>1 DEF OpenedOK, IsOpen
      <4>3. QED BY <4>1, <4>2
    <3>4. QED BY <2>1, <2>2, <3>1, <3>2, <3>3
  <2>4. CASE r # c
    <3>1. event'[r] = event[r]
      BY <1>9, <2>0, <2>4
    <3>2. VoidedOK(v, r)'
      BY <1>3, <1>9, <2>0, <3>1 DEF VoidedOK, Settling
    <3>3. SeenOK(v, r)'
      BY <1>2, <1>3, <1>9, <2>0, <2>4, <3>1 DEF SeenOK, Settling, Recognised, Doing
    <3>4. OpenedOK(v, r)'
      BY <1>3, <2>0, <3>1 DEF OpenedOK, Closing, IsOpen
    <3>5. QED BY <2>1, <2>2, <3>2, <3>3, <3>4
  <2>5. QED BY <2>3, <2>4
<1>12. ReadsOK(v)'
  BY <1>2, <1>3, <1>7, <1>9 DEF ReadsOK, Shipped
<1>13. KeysOnce' /\ (\A r \in Rows : IsOpen(r) => r \in stored)'
  BY <1>3, <1>4 DEF Whole, KeysOnce, IsOpen
<1>14. Whole(v)'
  BY <1>3, <1>11, <1>12, <1>13 DEF Whole
<1>15. QED BY <1>1, <1>14, WholeAt

(* The exceptions of an order that is cancelled or invoiced are closed.    *)
LEMMA WholeResolve ==
  ASSUME VInv, NEW i \in Imports, Whole(req[i]), FreshOK(req[i]), Resolve(i)
  PROVE  Whole(req[i])'
<1>0. /\ IInv /\ CancelOK(req[i]) /\ stored \subseteq Rows
  BY DEF VInv, IInv, TypeOK
<1>1. PICK w, v : w = req[i] /\ v = req'[i]
  OBVIOUS
<1>2. PICK o : o = OrderOf[w.row]
  OBVIOUS
<1>3. /\ w.pc = "resolve" /\ v.pc = "idle" /\ UNCHANGED <<shows, stored, linked, event>>
      /\ open' = IF w.cancelled \/ HasInvoice(w.jtl)
                 THEN {x \in open : OrderOf[x[2]] # o} ELSE open
  BY <1>0, <1>1, <1>2, EndFlow DEF At, Resolve, records
<1>4. Whole(w)
  BY <1>1
<1>5. o # NoOrder /\ w.jtl = Jtl(o) /\ (w.cancelled <=> CancelledAtAmazon(o))
  BY <1>1, <1>2, <1>3, <1>4 DEF Whole, ReadsOK, FreshOK
<1>6. \A r : IsOpen(r)' <=> /\ IsOpen(r)
                           /\ \/ ~(w.cancelled \/ HasInvoice(w.jtl))
                              \/ OrderOf[r] # o
  <2>1. CASE w.cancelled \/ HasInvoice(w.jtl)
    BY <1>3, <2>1 DEF IsOpen
  <2>2. CASE ~(w.cancelled \/ HasInvoice(w.jtl))
    BY <1>3, <2>2 DEF IsOpen
  <2>3. QED BY <2>1, <2>2
<1>7. \A q : /\ Jtl(q)' = Jtl(q) /\ Mp(q)' = Mp(q)
             /\ CancelledAtAmazon(q)' <=> CancelledAtAmazon(q)
  BY <1>3, OrderSame
<1>8. ASSUME NEW r \in stored
      PROVE  TypesOK(r)' /\ LinkedOK(v, r)' /\ VoidedOK(v, r)' /\ SeenOK(v, r)'
             /\ OpenedOK(v, r)'
  <2>0. TypesOK(r) /\ LinkedOK(w, r) /\ VoidedOK(w, r) /\ SeenOK(w, r) /\ OpenedOK(w, r)
    BY <1>4 DEF Whole
  <2>1. TypesOK(r)'
    BY <1>3, <1>7, <2>0 DEF TypesOK, Shipped
  <2>2. LinkedOK(v, r)'
    BY <1>3, <2>0 DEF LinkedOK, Creating
  <2>3. CancelledAtAmazon(OrderOf[r]) => event[r] = Ev("CANCELLATION", "void")
    BY <1>3, <2>0 DEF VoidedOK, Settling
  <2>4. HasInvoice(Jtl(OrderOf[r])) /\ Mp(OrderOf[r]) # {} /\ ~CancelledAtAmazon(OrderOf[r])
          => Recognised(r)
    BY <1>3, <2>0 DEF SeenOK, Settling
  <2>5. VoidedOK(v, r)' /\ SeenOK(v, r)'
    BY <1>3, <1>7, <2>3, <2>4 DEF VoidedOK, SeenOK, Recognised
  <2>6. OpenedOK(v, r)'
    <3>1. CASE OrderOf[r] = o /\ (w.cancelled \/ HasInvoice(w.jtl))
      <4>1. ~IsOpen(r)'
        BY <1>6, <3>1
      <4>2. event[r].status # "invoice_pending"
        <5>1. CASE CancelledAtAmazon(o)
          BY <2>3, <3>1, <5>1 DEF Ev
        <5>2. CASE ~CancelledAtAmazon(o)
          <6>1. HasInvoice(Jtl(o))
            BY <1>5, <3>1, <5>2
          <6>2. event[r].status = "invoice_pending" => r \in MpRows
            BY <2>0 DEF TypesOK, NoEvent
          <6>3. r \in MpRows => Mp(o) # {}
            BY <1>5, <3>1 DEF Mp, RowsOf
          <6>4. QED BY <2>4, <3>1, <5>2, <6>1, <6>2, <6>3 DEF Recognised
        <5>3. QED BY <5>1, <5>2
      <4>3. QED BY <1>3, <4>1, <4>2 DEF OpenedOK
    <3>2. CASE ~(OrderOf[r] = o /\ (w.cancelled \/ HasInvoice(w.jtl)))
      <4>1. IsOpen(r)' <=> IsOpen(r)
        BY <1>6, <3>2
      <4>2. event[r].status = "invoice_pending" <=> IsOpen(r)
        BY <1>2, <1>3, <2>0, <3>2 DEF OpenedOK, Closing
      <4>3. QED BY <1>3, <4>1, <4>2 DEF OpenedOK
    <3>3. QED BY <3>1, <3>2
  <2>7. QED BY <2>1, <2>2, <2>5, <2>6
<1>9. ReadsOK(v)'
  BY <1>3 DEF ReadsOK
<1>10. KeysOnce' /\ (\A r \in Rows : IsOpen(r) => r \in stored)'
  BY <1>3, <1>4, <1>6 DEF Whole, KeysOnce
<1>11. Whole(v)'
  BY <1>3, <1>8, <1>9, <1>10 DEF Whole
<1>12. QED BY <1>1, <1>11, WholeAt

(* A payout matched by hand is no sale, and nobody waits for it.           *)
LEMMA WholeManual ==
  ASSUME VInv, NEW i \in Imports, Whole(req[i]), FreshOK(req[i]), ManualMatch(i)
  PROVE  Whole(req[i])'
<1>0. /\ IInv /\ req[i] \in Work /\ Carry(req[i]) /\ stored \subseteq Rows
  BY Current DEF VInv, IInv, TypeOK
<1>1. PICK w, v : w = req[i] /\ v = req'[i]
  OBVIOUS
<1>2. PICK c : c = w.row
  OBVIOUS
<1>3. PICK e : e = [event[c] EXCEPT !.status = "matched"]
  OBVIOUS
<1>4. /\ w.pc = "manual" /\ v.pc = "idle" /\ UNCHANGED <<shows, stored, linked, open>>
      /\ event' = [event EXCEPT ![c] = e]
  BY <1>0, <1>1, <1>2, <1>3, EndFlow DEF At, ManualMatch, records
<1>5. Whole(w)
  BY <1>1
<1>6. c \in Rows /\ c \in stored /\ event[c] \in Event /\ event[c].type = "PAYOUT"
  BY <1>0, <1>1, <1>2, <1>4 DEF Carry, VInv, IInv, TypeOK, FreshOK
<1>7. e.type = "PAYOUT" /\ e.status = "matched"
  BY <1>3, <1>6 DEF Event
<1>8. /\ event'[c] = e
      /\ \A r \in Rows \ {c} : event'[r] = event[r] /\ (TypesOK(r) => TypesOK(r)')
      /\ \A q : /\ Jtl(q)' = Jtl(q) /\ Mp(q)' = Mp(q) /\ Amazon(q)' = Amazon(q)
                /\ CancelledAtAmazon(q)' <=> CancelledAtAmazon(q)
  BY <1>0, <1>4, <1>6, OthersTypes
<1>9. /\ IsInvoice(c) => CancelledAtAmazon(OrderOf[c])
      /\ ~(Shipped(c) /\ ~HasInvoice(Jtl(OrderOf[c])) /\ ~CancelledAtAmazon(OrderOf[c]))
      /\ event[c].status # "invoice_pending" /\ ~CancelledAtAmazon(OrderOf[c])
  <2>1. TypesOK(c) /\ VoidedOK(w, c) /\ event[c] # NoEvent
    BY <1>5, <1>6, EventApart DEF Whole
  <2>2. ~CancelledAtAmazon(OrderOf[c])
    BY <1>4, <1>6, <2>1 DEF VoidedOK, Settling, Ev
  <2>3. QED BY <1>6, <2>1, <2>2 DEF TypesOK, Awaits, Ev
<1>10. TypesOK(c)'
  BY <1>4, <1>7, <1>8, <1>9 DEF TypesOK, Shipped
<1>11. ASSUME NEW r \in stored
       PROVE  TypesOK(r)' /\ LinkedOK(v, r)' /\ VoidedOK(v, r)' /\ SeenOK(v, r)'
              /\ OpenedOK(v, r)'
  <2>0. r \in Rows /\ TypesOK(r) /\ LinkedOK(w, r) /\ VoidedOK(w, r) /\ SeenOK(w, r)
        /\ OpenedOK(w, r)
    BY <1>0, <1>5 DEF Whole
  <2>1. TypesOK(r)'
    BY <1>8, <1>10, <2>0
  <2>2. LinkedOK(v, r)'
    BY <1>4, <2>0 DEF LinkedOK, Creating
  <2>3. CASE r = c
    <3>1. VoidedOK(v, r)' /\ SeenOK(v, r)'
      BY <1>7, <1>8, <1>9, <2>3 DEF VoidedOK, SeenOK, Recognised
    <3>2. OpenedOK(v, r)'
      BY <1>4, <1>7, <1>8, <1>9, <2>0, <2>3 DEF OpenedOK, Closing, IsOpen
    <3>3. QED BY <2>1, <2>2, <3>1, <3>2
  <2>4. CASE r # c
    <3>1. event'[r] = event[r]
      BY <1>8, <2>0, <2>4
    <3>2. VoidedOK(v, r)' /\ SeenOK(v, r)'
      BY <1>4, <1>8, <2>0, <3>1 DEF VoidedOK, SeenOK, Settling, Recognised
    <3>3. OpenedOK(v, r)'
      BY <1>4, <2>0, <3>1 DEF OpenedOK, Closing, IsOpen
    <3>4. QED BY <2>1, <2>2, <3>2, <3>3
  <2>5. QED BY <2>3, <2>4
<1>12. ReadsOK(v)'
  BY <1>4 DEF ReadsOK
<1>13. KeysOnce' /\ (\A r \in Rows : IsOpen(r) => r \in stored)'
  BY <1>4, <1>5 DEF Whole, KeysOnce, IsOpen
<1>14. Whole(v)'
  BY <1>4, <1>11, <1>12, <1>13 DEF Whole
<1>15. QED BY <1>1, <1>14, WholeAt

-----------------------------------------------------------------------------
(* Of an idle request only that it is idle matters.                        *)
LEMMA WholeIdle ==
  ASSUME NEW i, NEW k, req'[i].pc = "idle", req'[k].pc = "idle", Whole(req[i])'
  PROVE  Whole(req[k])'
<1>1. ASSUME NEW r \in stored'
      PROVE  /\ TypesOK(r)' /\ LinkedOK(req[k], r)' /\ VoidedOK(req[k], r)'
             /\ SeenOK(req[k], r)' /\ OpenedOK(req[k], r)'
  <2>1. /\ TypesOK(r)' /\ LinkedOK(req[i], r)' /\ VoidedOK(req[i], r)'
        /\ SeenOK(req[i], r)' /\ OpenedOK(req[i], r)'
    BY DEF Whole
  <2>2. LinkedOK(req[k], r)'
    BY <2>1 DEF LinkedOK, Creating
  <2>3. VoidedOK(req[k], r)'
    BY <2>1 DEF VoidedOK, Settling
  <2>4. SeenOK(req[k], r)'
    BY <2>1 DEF SeenOK, Settling
  <2>5. OpenedOK(req[k], r)'
    BY <2>1 DEF OpenedOK, Closing
  <2>6. QED BY <2>1, <2>2, <2>3, <2>4, <2>5
<1>2. ReadsOK(req[k])'
  BY DEF ReadsOK
<1>3. QED BY <1>1, <1>2 DEF Whole

(* The request that acts is the only one, and what it leaves is whole.     *)
LEMMA WholeStep ==
  ASSUME NInv, OneReportRow, NEW i \in Imports, ~overlap', failures' = 0,
         \/ Upsert(i) /\ ~SkipRow(i)
         \/ Rematch(i) \/ StartManual(i) \/ ManualMatch(i) \/ Fail(i)
  PROVE  /\ Whole(req[i])'
         /\ \A k \in Imports \ {i} : At(k, "idle") /\ req'[k] = req[k]
<1>0. VInv /\ IInv /\ failures \in Nat
  BY RowsOK DEF NInv, VInv, IInv, TypeOK
<1>1. ~Fail(i)
  BY <1>0 DEF Fail
<1>2. failures = 0
  BY <1>1 DEF Upsert, Rematch, SkipRow, StartRow, Store, LookMp, LookJtl, FindMp, CreateEvent,
     Link, OpenException, ReadAmazon, ReadJtl, ReadMp, VoidEvent, ReadEvent, PatchEvent,
     Resolve, StartManual, ManualMatch
<1>3. CASE StartRow(i) \/ StartManual(i)
  <2>1. /\ overlap' = (overlap \/ \E k \in Imports : ~At(k, "idle"))
        /\ \A k \in Imports \ {i} : req'[k] = req[k]
    BY <1>0, <1>3, StartFlow
  <2>2. ~overlap /\ \A k \in Imports : At(k, "idle")
    BY <2>1 DEF VInv, IInv, TypeOK
  <2>3. Whole(req[i])
    BY <1>2, <2>2 DEF NInv
  <2>4. QED BY <1>0, <1>3, <2>1, <2>2, <2>3, WholeStart
<1>4. CASE ~(StartRow(i) \/ StartManual(i))
  <2>1. ~At(i, "idle") /\ overlap' = overlap
    BY <1>1, <1>4 DEF Upsert, Rematch, Store, LookMp, LookJtl, FindMp, CreateEvent, Link,
       OpenException, ReadAmazon, ReadJtl, ReadMp, VoidEvent, ReadEvent, PatchEvent, Resolve,
       ManualMatch, At
  <2>2. ~overlap /\ FreshOK(req[i]) /\ \A k \in Imports \ {i} : At(k, "idle")
    BY <1>0, <2>1, Alone
  <2>3. Whole(req[i])
    BY <1>2, <2>2 DEF NInv
  <2>4. CASE Store(i)
    BY <1>0, <2>2, <2>3, <2>4, LookFlow, WholeStore
  <2>5. CASE LookMp(i) \/ LookJtl(i) \/ FindMp(i)
    BY <1>0, <2>2, <2>3, <2>5, LookFlow, WholeLook
  <2>6. CASE CreateEvent(i)
    BY <1>0, <2>2, <2>3, <2>6, CreateFlow, WholeCreate
  <2>7. CASE Link(i)
    BY <1>0, <2>2, <2>3, <2>7, CreateFlow, WholeLink
  <2>8. CASE OpenException(i)
    BY <1>0, <2>2, <2>3, <2>8, ExceptFlow, WholeExcept
  <2>9. CASE ReadAmazon(i) \/ ReadJtl(i)
    BY <1>0, <2>2, <2>3, <2>9, OrderFlow, WholeOrder
  <2>10. CASE ReadMp(i)
    BY <1>0, <2>2, <2>3, <2>10, ReadMpFlow, WholeReadMp
  <2>11. CASE VoidEvent(i)
    BY <1>0, <2>2, <2>3, <2>11, VoidFlow, WholeVoid
  <2>12. CASE ReadEvent(i)
    BY <1>0, <2>2, <2>3, <2>12, ReadEventFlow, WholeReadEvent
  <2>13. CASE PatchEvent(i)
    BY <1>0, <2>2, <2>3, <2>13, PatchFlow, WholePatch
  <2>14. CASE Resolve(i)
    BY <1>0, <2>2, <2>3, <2>14, EndFlow, WholeResolve
  <2>15. CASE ManualMatch(i)
    BY <1>0, <2>2, <2>3, <2>15, EndFlow, WholeManual
  <2>16. QED BY <1>1, <1>4, <2>4, <2>5, <2>6, <2>7, <2>8, <2>9, <2>10, <2>11, <2>12, <2>13,
                <2>14, <2>15 DEF Upsert, Rematch
<1>5. QED BY <1>3, <1>4

LEMMA NInvInit == Init => NInv
<1> SUFFICES ASSUME Init PROVE NInv
  OBVIOUS
<1>1. stored = {} /\ \A r : ~IsOpen(r)
  BY DEF Init, IsOpen
<1>2. ASSUME NEW i \in Imports PROVE Whole(req[i])
  BY <1>1 DEF Init, Idle, Whole, KeysOnce, ReadsOK
<1>3. QED BY <1>1, <1>2, VInvInit DEF NInv

LEMMA NInvNext == ASSUME OneReportRow PROVE NInv /\ [Next]_vars => NInv'
<1> SUFFICES ASSUME NInv, [Next]_vars PROVE NInv'
  OBVIOUS
<1>1. VInv'
  BY VInvNext DEF NInv
<1>2. CASE UNCHANGED <<shows, stored, event, linked, open, req, overlap, failures>>
  <2>1. ASSUME NEW i \in Imports, ~overlap', failures' = 0,
               \A k \in Imports \ {i} : req'[k].pc = "idle"
        PROVE  Whole(req[i])'
    <3>1. PICK w : w = req[i]
      OBVIOUS
    <3>2. Whole(w)
      BY <1>2, <2>1, <3>1 DEF NInv, At
    <3>3. Whole(w)'
      BY <1>2, <3>2, WholeKept
    <3>4. w = req'[i]
      BY <1>2, <3>1
    <3>5. QED BY <3>3, <3>4, WholeAt
  <2>2. Imports = {} => stored' = {}
    BY <1>2 DEF NInv
  <2>3. QED BY <1>1, <2>1, <2>2 DEF NInv, At
<1>3. ASSUME NEW i \in Imports,
             \/ Upsert(i) /\ ~SkipRow(i)
             \/ Rematch(i) \/ StartManual(i) \/ ManualMatch(i) \/ Fail(i)
      PROVE  NInv'
  <2>1. ASSUME NEW j \in Imports, ~overlap', failures' = 0,
               \A k \in Imports \ {j} : req'[k].pc = "idle"
        PROVE  Whole(req[j])'
    <3>1. Whole(req[i])' /\ \A k \in Imports \ {i} : At(k, "idle") /\ req'[k] = req[k]
      BY <1>3, <2>1, WholeStep
    <3>2. CASE j = i
      BY <3>1, <3>2
    <3>3. CASE j # i
      <4>1. req'[i].pc = "idle" /\ req'[j].pc = "idle"
        BY <2>1, <3>1, <3>3 DEF At
      <4>2. QED BY <3>1, <4>1, WholeIdle
    <3>4. QED BY <3>2, <3>3
  <2>2. QED BY <1>1, <2>1 DEF NInv, At
<1>4. QED BY <1>2, <1>3 DEF Next, vars, records, Upsert, SkipRow

(***************************************************************************)
(* While requests follow one another and none fails, every stored row's    *)
(* event says what its order says, but for the order now being imported.   *)
(***************************************************************************)
THEOREM WholeInvariance == ASSUME OneReportRow PROVE Spec => []NInv
BY NInvInit, NInvNext, PTL DEF Spec

(* What is known when nothing is in progress.                              *)
LEMMA WhenQuiet ==
  ASSUME NInv, Quiet, NEW r \in stored
  PROVE  /\ CancelledAtAmazon(OrderOf[r]) => event[r] = Ev("CANCELLATION", "void")
         /\ HasInvoice(Jtl(OrderOf[r])) /\ Mp(OrderOf[r]) # {}
              /\ ~CancelledAtAmazon(OrderOf[r]) => Recognised(r)
         /\ event[r].status = "invoice_pending" <=> IsOpen(r)
<1>1. PICK i \in Imports : At(i, "idle") /\ Whole(req[i])
  BY DEF NInv, Quiet
<1>2. VoidedOK(req[i], r) /\ SeenOK(req[i], r) /\ OpenedOK(req[i], r)
  BY <1>1 DEF Whole
<1>3. QED BY <1>1, <1>2 DEF VoidedOK, SeenOK, OpenedOK, Settling, Closing, At

(* CancelledIsVoid for any rows, orders and number of imports, whatever    *)
(* the order in which reports and invoices come: rematchByOrderId leaves   *)
(* no event of an order cancelled at Amazon out.                           *)
THEOREM CancelledOrdersVoid == ASSUME OneReportRow PROVE Spec => []CancelledIsVoid
<1>1. NInv => CancelledIsVoid
  BY WhenQuiet DEF CancelledIsVoid
<1>2. QED BY <1>1, WholeInvariance, PTL

(* InvoiceRecognised likewise: whichever came first, the invoice or the    *)
(* marketplace's row, the rematch of the later one makes the sale.         *)
THEOREM InvoicesRecognised == ASSUME OneReportRow PROVE Spec => []InvoiceRecognised
<1>1. NInv => InvoiceRecognised
  BY WhenQuiet DEF InvoiceRecognised, Recognised
<1>2. QED BY <1>1, WholeInvariance, PTL

(* WaitingIsOpen likewise: the exception of a shipped order is opened when *)
(* its event begins to wait, and closed when that event no longer does.    *)
THEOREM WaitingShown == ASSUME OneReportRow PROVE Spec => []WaitingIsOpen
<1>1. NInv => WaitingIsOpen
  BY WhenQuiet DEF WaitingIsOpen, IsOpen
<1>2. QED BY <1>1, WholeInvariance, PTL

=============================================================================
