------------------------ MODULE AccrualJournalProofs ------------------------
(***************************************************************************)
(* Proofs about AccrualJournal.  Whatever requests overlap and fail: types,*)
(* the marks of the export, the balance of its files, and events that say  *)
(* posted.  When requests do not overlap: one booking for each event.      *)
(* When nothing fails either: one true-up for each event, and complete     *)
(* exports.                                                                *)
(***************************************************************************)
EXTENDS AccrualJournal, FiniteSetTheorems, WellFoundedInduction, TLAPS

Existing(l) == l[2] \in DOMAIN lines[l[1]]

Made(n)   == entries[n].status # "none"
WasPosted(n) == entries[n].status \in {"posted", "exported"}

\* Lines being written are not marked, and no entry gets more than four.
BuildOK(r) ==
  LET w == req[r] IN
  /\ \A i \in DOMAIN w.todo : w.todo[i].job = NoJob
  /\ w.pc \in {"find", "create"} => /\ Len(w.todo) = 2
                                    /\ w.then \in {"vat", "link"}
  /\ w.pc = "lines" =>
       /\ w.todo # <<>>
       /\ w.entry \in Entries /\ Made(w.entry)
       /\ w.then \in {"vat", "link", "trueUpEvent"}
       /\ Len(lines[w.entry]) + Len(w.todo) <= IF w.then = "vat" THEN 2 ELSE 4
  /\ w.pc = "vat" =>
       /\ w.entry \in Entries /\ Made(w.entry)
       /\ Len(lines[w.entry]) \in 1..2
  /\ w.pc = "trueUp" => w.event \in Events
  /\ w.pc = "trueUpCreate" => w.fx.eur \in Int /\ w.prov \in Int

PostOK(r) ==
  LET w == req[r] IN
  /\ w.pc \in {"post", "posting", "postEvent"} =>
       w.entry \in Entries /\ Made(w.entry) /\ entries[w.entry].kind = "base"
  /\ w.pc = "postEvent" => WasPosted(w.entry)

\* The rows of a file are lines of the entries that are to be marked.
ExportOK(r) ==
  LET w == req[r] IN
  /\ \A n \in w.list \cup w.kept : Made(n)
  /\ \A l \in w.rows : Existing(l)
  /\ w.pc \in {"gather", "job"} =>
       \A n \in w.kept : \E i \in DOMAIN lines[n] : <<n, i>> \in w.rows
  /\ w.pc \in {"mark", "markEntries"} =>
       /\ w.job \in Jobs
       /\ w.rows \subseteq files[w.job]
       /\ \A n \in w.kept : \E i \in DOMAIN lines[n] : <<n, i>> \in files[w.job]

JournalOK ==
  /\ \A n \in Entries : ~Made(n) => lines[n] = <<>>
  /\ \A n \in Entries : entries[n].status = "draft" => entries[n].kind = "base"
  /\ \A j \in Jobs : \A l \in files[j] : Existing(l)

\* Two requests never write lines of the same entry.
Writing(r) == req[r].pc \in {"lines", "vat"}
Apart(q, r) == (q # r /\ Writing(q) /\ Writing(r)) => req[q].entry # req[r].entry

RequestOK(r) == BuildOK(r) /\ PostOK(r) /\ ExportOK(r)

IInv ==
  /\ TypeOK
  /\ JournalOK
  /\ MarksBacked
  /\ EventShowsJournal
  /\ \A r \in Requests : RequestOK(r)
  /\ \A q, r \in Requests : Apart(q, r)

----------------------------------------------------------------------------
(* What a step of one request leaves of the journal and of the others.     *)

TypeRest ==
  /\ type \in [Events -> Types]
  /\ status \in [Events -> Statuses]
  /\ fx \in [Events -> Fx]
  /\ meta \in [Events -> [prov : Eur, trueUp : BOOLEAN]]
  /\ cancelled \subseteq Events
  /\ entries \in [Entries -> Entry]
  /\ lines \in [Entries -> Seq(Line)]
  /\ \A n \in Entries : Len(lines[n]) <= 4
  /\ files \in [Jobs -> SUBSET LineIds]
  /\ failures \in 0..MaxFailures

\* Entries, their lines and the rows of files are never taken back.
JournalGrows ==
  /\ \A n \in Entries : Made(n) => /\ Made(n)'
                                   /\ entries'[n].kind = entries[n].kind
                                   /\ entries'[n].event = entries[n].event
  /\ \A n \in Entries : WasPosted(n) => WasPosted(n)'
  /\ \A n \in Entries : DOMAIN lines[n] \subseteq DOMAIN lines'[n]
  /\ \A j \in Jobs : files[j] \subseteq files'[j]

Untouched(q) == Writing(q) => Len(lines'[req[q].entry]) = Len(lines[req[q].entry])

LEMMA WorkTypes ==
  ASSUME TypeOK, NEW r \in Requests
  PROVE  /\ req[r] \in Work
         /\ req[r].rows \subseteq LineIds /\ req[r].list \subseteq Entries
         /\ req[r].kept \subseteq Entries /\ req[r].todo \in Seq(Line)
BY DEF TypeOK, Work

LEMMA OthersKept ==
  ASSUME TypeOK, JournalGrows, NEW q \in Requests, RequestOK(q),
         req'[q] = req[q], Untouched(q)
  PROVE  RequestOK(q)'
<1> DEFINE w == req[q]
<1>0. w \in Work /\ w.rows \subseteq LineIds /\ w.list \subseteq Entries
      /\ w.kept \subseteq Entries
  BY WorkTypes
<1>1. BuildOK(q)'
  BY DEF RequestOK, BuildOK, JournalGrows, Untouched, Writing
<1>2. PostOK(q)'
  BY DEF RequestOK, PostOK, JournalGrows
<1>3. ExportOK(q)'
  <2>1. \A l \in w.rows : Existing(l)'
    BY <1>0 DEF RequestOK, ExportOK, JournalGrows, Existing, LineIds
  <2>2. \A n \in w.list \cup w.kept : Made(n)'
    BY <1>0 DEF RequestOK, ExportOK, JournalGrows
  <2>3. \A n \in w.kept : DOMAIN lines[n] \subseteq DOMAIN lines'[n]
    BY <1>0 DEF JournalGrows
  <2> QED BY <2>1, <2>2, <2>3 DEF RequestOK, ExportOK, JournalGrows
<1> QED BY <1>1, <1>2, <1>3 DEF RequestOK

LEMMA OneStep ==
  ASSUME TypeOK, NEW r \in Requests, NEW w \in Work, Step(r, w)
  PROVE  /\ req' \in [Requests -> Work]
         /\ req'[r] = w
         /\ \A q \in Requests : q # r => req'[q] = req[q]
BY DEF TypeOK, Step

\* Request r goes on with w; if it begins to write an entry, no other has it.
LEMMA Stepped ==
  ASSUME IInv, NEW r \in Requests, NEW w \in Work, Step(r, w),
         TypeRest', JournalOK', MarksBacked', EventShowsJournal', JournalGrows,
         \A q \in Requests : q # r => Untouched(q),
         w.pc \in {"lines", "vat"} =>
           \/ Writing(r) /\ w.entry = req[r].entry
           \/ ~Made(w.entry),
         req'[r] = w => RequestOK(r)'
  PROVE  IInv'
<1>1. /\ req' \in [Requests -> Work]
      /\ req'[r] = w
      /\ \A q \in Requests : q # r => req'[q] = req[q]
  BY OneStep DEF IInv
<1>2. TypeOK'
  BY <1>1 DEF TypeRest, TypeOK
<1>3. ASSUME NEW q \in Requests PROVE RequestOK(q)'
  BY <1>1, OthersKept DEF IInv
<1>4. ASSUME NEW p \in Requests, NEW q \in Requests PROVE Apart(p, q)'
  <2>1. \A x \in Requests : Writing(x) => Made(req[x].entry)
    BY DEF IInv, RequestOK, BuildOK, Writing
  <2>2. Apart(p, q) /\ Apart(r, q) /\ Apart(p, r)
    BY DEF IInv
  <2>3. CASE p = r /\ q # r
    BY <1>1, <2>1, <2>2, <2>3 DEF Apart, Writing
  <2>4. CASE q = r /\ p # r
    BY <1>1, <2>1, <2>2, <2>4 DEF Apart, Writing
  <2>5. CASE p # r /\ q # r
    BY <1>1, <2>2, <2>5 DEF Apart, Writing
  <2>6. CASE p = r /\ q = r
    BY <2>6 DEF Apart
  <2> QED BY <2>3, <2>4, <2>5, <2>6
<1> QED BY <1>2, <1>3, <1>4 DEF IInv

LEMMA EventsShown ==
  ASSUME EventShowsJournal, JournalGrows,
         \A e \in Events : status'[e] = "posted" =>
           \/ status[e] = "posted"
           \/ \E n \in OfEvent(e) : entries[n].kind = "base" /\ WasPosted(n)
  PROVE  EventShowsJournal'
<1> SUFFICES ASSUME NEW e \in Events, status'[e] = "posted"
             PROVE  \E n \in OfEvent(e)' : /\ entries'[n].kind = "base"
                                           /\ entries'[n].status \in {"posted", "exported"}
  BY DEF EventShowsJournal
<1>1. PICK n \in OfEvent(e) : entries[n].kind = "base" /\ WasPosted(n)
  BY DEF EventShowsJournal, WasPosted
<1>2. n \in Entries /\ Made(n) /\ entries[n].event = e
  BY <1>1 DEF OfEvent, Made
<1>3. n \in OfEvent(e)' /\ entries'[n].kind = "base" /\ WasPosted(n)'
  BY <1>1, <1>2 DEF JournalGrows, OfEvent, Made
<1> QED BY <1>3 DEF WasPosted

\* The journal and the files stay as they are.
LEMMA JournalKept ==
  ASSUME IInv, UNCHANGED <<entries, lines, files>>
  PROVE  /\ JournalOK' /\ MarksBacked' /\ JournalGrows
         /\ \A q \in Requests : Untouched(q)
<1>1. JournalOK'
  BY DEF IInv, JournalOK, Made, Existing
<1>2. MarksBacked'
  BY DEF IInv, MarksBacked
<1>3. JournalGrows
  BY DEF JournalGrows, Made, WasPosted
<1>4. \A q \in Requests : Untouched(q)
  BY DEF Untouched
<1> QED BY <1>1, <1>2, <1>3, <1>4

LEMMA IdleIsWork ==
  /\ Idle \in Work
  /\ Idle.pc = "idle" /\ Idle.todo = <<>>
  /\ Idle.list = {} /\ Idle.kept = {} /\ Idle.rows = {}
<1>1. <<>> \in Seq(Line)
  OBVIOUS
<1>2. [original |-> 0, eur |-> NoEur, source |-> "none"] \in Fx
  BY DEF Fx, Eur
<1> QED BY <1>1, <1>2 DEF Idle, Work, Phases, Eur

\* Only requests and failures change.
LEMMA Noted ==
  ASSUME IInv, NEW r \in Requests, NEW w \in Work, Step(r, w),
         UNCHANGED <<events, journal, files>>,
         failures' \in 0..MaxFailures,
         w.pc \in {"lines", "vat"} => Writing(r) /\ w.entry = req[r].entry,
         req'[r] = w => RequestOK(r)'
  PROVE  IInv'
<1>1. UNCHANGED <<type, status, fx, meta, cancelled, entries, lines, files>>
  BY DEF events, journal
<1>2. TypeRest'
  BY <1>1 DEF IInv, TypeOK, TypeRest
<1>3. /\ JournalOK' /\ MarksBacked' /\ JournalGrows
      /\ \A q \in Requests : Untouched(q)
  BY <1>1, JournalKept
<1>4. EventShowsJournal'
  BY <1>1 DEF IInv, EventShowsJournal, OfEvent
<1> QED BY <1>2, <1>3, <1>4, Stepped

\* A request that is idle again relies on nothing.
LEMMA IdleOK ==
  ASSUME NEW r \in Requests, req'[r] = Idle
  PROVE  RequestOK(r)'
BY IdleIsWork DEF RequestOK, BuildOK, PostOK, ExportOK

LEMMA Returned ==
  ASSUME IInv, NEW r \in Requests, Return(r),
         UNCHANGED <<events, journal, files>>, failures' \in 0..MaxFailures
  PROVE  IInv'
<1>1. Idle \in Work /\ Step(r, Idle) /\ Idle.pc = "idle"
  BY IdleIsWork DEF Return
<1>2. req'[r] = Idle => RequestOK(r)'
  BY IdleOK
<1> QED BY <1>1, <1>2, Noted

----------------------------------------------------------------------------
(* Lines.                                                                  *)

LEMMA NewLineIsLine ==
  ASSUME NEW a \in Accounts, NEW s \in {"S", "H"}, NEW n \in Int
  PROVE  NewLine(a, s, n) \in Line /\ NewLine(a, s, n).job = NoJob
BY DEF NewLine, Line

\* A list of two lines, neither marked.
LEMMA TwoLines ==
  ASSUME NEW k \in Line, NEW l \in Line, k.job = NoJob, l.job = NoJob
  PROVE  /\ <<k, l>> \in Seq(Line) /\ Len(<<k, l>>) = 2 /\ <<k, l>> # <<>>
         /\ \A i \in DOMAIN <<k, l>> : <<k, l>>[i].job = NoJob
OBVIOUS

LEMMA NoLines == \A s \in Seq(Line) : Len(s) = 0 <=> s = <<>>
OBVIOUS

LEMMA TwoIsSome == \A s : Len(s) = 2 => s # <<>>
OBVIOUS

LEMMA BookedAmountIsInt ==
  ASSUME NEW x \in Fx
  PROVE  BookedAmount(x) \in Int
BY DEF Fx, Eur, BookedAmount, Abs

LEMMA BaseLinesOK ==
  ASSUME NEW t \in Types, NEW x \in Fx
  PROVE  LET ls == BaseLines(t, x) IN
         /\ ls \in Seq(Line) /\ Len(ls) = 2
         /\ \A i \in DOMAIN ls : ls[i].job = NoJob
<1> DEFINE credit == x.original < 0 \/ t \in {"FEE", "REFUND"}
           n == BookedAmount(x)
           s == IF credit THEN "H" ELSE "S"
           h == IF credit THEN "S" ELSE "H"
           k == NewLine(Primary(t), s, n)
           l == NewLine(Contra(t), h, n)
<1>1. n \in Int /\ s \in {"S", "H"} /\ h \in {"S", "H"}
  BY BookedAmountIsInt
<1>2. Primary(t) \in Accounts /\ Contra(t) \in Accounts
  BY DEF Primary, Contra, Accounts, Types
<1>3. BaseLines(t, x) = <<k, l>>
  BY DEF BaseLines
<1> HIDE DEF n, s, h
<1>4. k \in Line /\ l \in Line /\ k.job = NoJob /\ l.job = NoJob
  BY <1>1, <1>2, NewLineIsLine
<1> HIDE DEF k, l
<1> QED BY <1>3, <1>4, TwoLines

LEMMA VatLinesOK ==
  ASSUME NEW treatment, NEW net \in Int
  PROVE  LET ls == VatLines(treatment, net) IN
         /\ ls \in Seq(Line) /\ (ls = <<>> \/ Len(ls) = 2)
         /\ \A i \in DOMAIN ls : ls[i].job = NoJob
<1> DEFINE vat == (net * RatePercent + 50) \div 100
           a == IF treatment = "reverse_charge_13b" THEN "vatOut" ELSE "clearing"
           k == NewLine("vatIn", "S", vat)
           l == NewLine(a, "H", vat)
<1>1. vat \in Int
  <2>1. net * RatePercent \in Int
    BY EventsOK
  <2> QED BY <2>1
<1>2. a \in Accounts /\ "vatIn" \in Accounts
  BY DEF Accounts
<1>3. VatLines(treatment, net) = <<>> \/ VatLines(treatment, net) = <<k, l>>
  BY DEF VatLines
<1> HIDE DEF vat, a
<1>4. k \in Line /\ l \in Line /\ k.job = NoJob /\ l.job = NoJob
  BY <1>1, <1>2, NewLineIsLine
<1> HIDE DEF k, l
<1>5. CASE VatLines(treatment, net) = <<>>
  BY <1>5
<1>6. CASE VatLines(treatment, net) = <<k, l>>
  BY <1>4, <1>6, TwoLines
<1> QED BY <1>3, <1>5, <1>6

LEMMA TrueUpLinesOK ==
  ASSUME NEW delta \in Int
  PROVE  LET ls == TrueUpLines(delta) IN
         /\ ls \in Seq(Line) /\ Len(ls) = 2 /\ ls # <<>>
         /\ \A i \in DOMAIN ls : ls[i].job = NoJob
<1>1. CASE delta > 0
  <2> DEFINE k == NewLine("clearing", "S", delta)
             l == NewLine("fxGain", "H", delta)
  <2>1. k \in Line /\ l \in Line /\ k.job = NoJob /\ l.job = NoJob
    BY NewLineIsLine DEF Accounts
  <2>2. TrueUpLines(delta) = <<k, l>>
    BY <1>1 DEF TrueUpLines
  <2> HIDE DEF k, l
  <2> QED BY <2>1, <2>2, TwoLines
<1>2. CASE ~(delta > 0)
  <2> DEFINE k == NewLine("fxLoss", "S", -delta)
             l == NewLine("clearing", "H", -delta)
  <2>1. k \in Line /\ l \in Line /\ k.job = NoJob /\ l.job = NoJob
    BY NewLineIsLine DEF Accounts
  <2>2. TrueUpLines(delta) = <<k, l>>
    BY <1>2 DEF TrueUpLines
  <2> HIDE DEF k, l
  <2> QED BY <2>1, <2>2, TwoLines
<1> QED BY <1>1, <1>2

----------------------------------------------------------------------------
(* Building the entry of an event.                                         *)

LEMMA StartBuildStep ==
  ASSUME IInv, NEW r \in Requests, StartBuild(r)
  PROVE  IInv'
<1>1. PICK e \in Events :
        Step(r, [Idle EXCEPT !.pc = "find", !.event = e,
                     !.todo = BaseLines(type[e], fx[e]),
                     !.then = IF type[e] = "FEE" THEN "vat" ELSE "link"])
  BY DEF StartBuild
<1> DEFINE ls == BaseLines(type[e], fx[e])
           th == IF type[e] = "FEE" THEN "vat" ELSE "link"
           w  == [Idle EXCEPT !.pc = "find", !.event = e, !.todo = ls, !.then = th]
<1>2. ls \in Seq(Line) /\ Len(ls) = 2 /\ \A i \in DOMAIN ls : ls[i].job = NoJob
  <2>1. type[e] \in Types /\ fx[e] \in Fx
    BY DEF IInv, TypeOK
  <2> QED BY <2>1, BaseLinesOK
<1>3. th \in {"vat", "link"} /\ "vat" \in Phases /\ "link" \in Phases /\ "find" \in Phases
  BY DEF Phases
<1>4. Step(r, w)
  BY <1>1
<1> HIDE DEF ls, th
<1>5. w \in Work
  BY <1>2, <1>3, IdleIsWork DEF Work
<1>6. /\ w.pc = "find" /\ w.todo = ls /\ w.then = th
      /\ w.list = {} /\ w.kept = {} /\ w.rows = {}
  BY IdleIsWork DEF Work
<1> HIDE DEF w
<1>7. req'[r] = w => RequestOK(r)'
  BY <1>2, <1>3, <1>6 DEF RequestOK, BuildOK, PostOK, ExportOK
<1>8. UNCHANGED <<events, journal, files>> /\ failures' \in 0..MaxFailures
  BY DEF StartBuild, IInv, TypeOK
<1> QED BY <1>4, <1>5, <1>6, <1>7, <1>8, Noted

LEMMA FindEntryStep ==
  ASSUME IInv, NEW r \in Requests, FindEntry(r)
  PROVE  IInv'
<1> DEFINE q == req[r]
           w == [q EXCEPT !.pc = "create"]
<1>1. UNCHANGED <<events, journal, files>> /\ failures' \in 0..MaxFailures
  BY DEF FindEntry, IInv, TypeOK
<1>2. CASE Return(r)
  BY <1>1, <1>2, Returned
<1>3. CASE Step(r, w)
  <2>0. q \in Work /\ q.pc = "find" /\ RequestOK(r) /\ "create" \in Phases
    BY WorkTypes DEF IInv, FindEntry, At, Phases
  <2>1. /\ w \in Work /\ w.pc = "create" /\ w.todo = q.todo /\ w.then = q.then
        /\ w.list = q.list /\ w.kept = q.kept /\ w.rows = q.rows
    BY <2>0 DEF Work
  <2>2. UNCHANGED <<entries, lines, files>>
    BY <1>1 DEF journal
  <2> HIDE DEF w
  <2>3. req'[r] = w => RequestOK(r)'
    BY <2>0, <2>1, <2>2 DEF RequestOK, BuildOK, PostOK, ExportOK, Made, Existing
  <2> QED BY <1>1, <1>3, <2>1, <2>3, Noted
<1> QED BY <1>2, <1>3 DEF FindEntry

\* A new entry changes nothing of the others.
LEMMA EntryCreated ==
  ASSUME IInv, NEW n \in Entries, ~Made(n), NEW x \in Entry,
         x.status # "none", x.status = "draft" => x.kind = "base", x.job = NoJob,
         entries' = [entries EXCEPT ![n] = x], UNCHANGED <<status, lines, files>>
  PROVE  /\ entries' \in [Entries -> Entry] /\ entries'[n] = x
         /\ JournalOK' /\ MarksBacked' /\ EventShowsJournal' /\ JournalGrows
         /\ \A q \in Requests : Untouched(q)
<1>0. /\ entries' \in [Entries -> Entry]
      /\ entries'[n] = x
      /\ \A m \in Entries : m # n => entries'[m] = entries[m]
  BY DEF IInv, TypeOK
<1>1. JournalOK'
  BY <1>0 DEF IInv, JournalOK, Made, Existing
<1>2. MarksBacked'
  BY <1>0 DEF IInv, MarksBacked
<1>3. JournalGrows
  BY <1>0 DEF JournalGrows, Made, WasPosted
<1>4. EventShowsJournal'
  BY <1>3, EventsShown DEF IInv
<1> QED BY <1>0, <1>1, <1>2, <1>3, <1>4 DEF Untouched

LEMMA CreateEntryStep ==
  ASSUME IInv, NEW r \in Requests, CreateEntry(r)
  PROVE  IInv'
<1> DEFINE q == req[r]
           x == [event |-> q.event, kind |-> "base", status |-> "draft", job |-> NoJob]
<1>1. PICK n \in Entries : /\ Fresh(n)
                           /\ entries' = [entries EXCEPT ![n] = x]
                           /\ Step(r, [q EXCEPT !.pc = "lines", !.entry = n])
  BY DEF CreateEntry
<1> DEFINE w == [q EXCEPT !.pc = "lines", !.entry = n]
<1>2. q \in Work /\ q.pc = "create" /\ RequestOK(r) /\ "lines" \in Phases
  BY WorkTypes DEF IInv, CreateEntry, At, Phases
<1>3. x \in Entry /\ x.status = "draft" /\ x.kind = "base" /\ x.job = NoJob
  BY <1>2 DEF Entry, Work
<1>4. ~Made(n) /\ UNCHANGED <<type, status, fx, meta, cancelled, lines, files, failures>>
  BY <1>1 DEF Fresh, Made, CreateEntry, events
<1> HIDE DEF x
<1>5. /\ entries' \in [Entries -> Entry] /\ entries'[n] = x
      /\ JournalOK' /\ MarksBacked' /\ EventShowsJournal' /\ JournalGrows
      /\ \A p \in Requests : Untouched(p)
  BY <1>1, <1>3, <1>4, EntryCreated
<1>6. TypeRest'
  BY <1>4, <1>5 DEF IInv, TypeOK, TypeRest
<1>7. /\ w \in Work /\ w.pc = "lines" /\ w.entry = n /\ w.todo = q.todo /\ w.then = q.then
      /\ w.list = q.list /\ w.kept = q.kept /\ w.rows = q.rows
  BY <1>2 DEF Work
<1> HIDE DEF w
<1>8. lines[n] = <<>> /\ Len(q.todo) = 2 /\ q.then \in {"vat", "link"}
  BY <1>2, <1>4 DEF IInv, JournalOK, RequestOK, BuildOK
<1>9. Step(r, w)
  BY <1>1 DEF w
<1>10. req'[r] = w => RequestOK(r)'
  <2> SUFFICES ASSUME req'[r] = w PROVE RequestOK(r)'
    OBVIOUS
  <2>1. q.kept \subseteq Entries /\ q.list \subseteq Entries
    BY WorkTypes DEF IInv
  <2>2. q.todo # <<>>
    BY <1>8, TwoIsSome
  <2>3. Len(lines'[n]) = 0 /\ Made(n)'
    BY <1>3, <1>4, <1>5, <1>8 DEF Made
  <2>0. /\ q.kept \subseteq Entries /\ q.list \subseteq Entries
        /\ Len(lines'[n]) + Len(q.todo) = 2 /\ q.todo # <<>> /\ Made(n)'
    BY <1>8, <2>1, <2>2, <2>3
  <2>4. BuildOK(r)'
    BY <1>2, <1>7, <1>8, <2>0 DEF RequestOK, BuildOK
  <2>5. PostOK(r)'
    BY <1>7 DEF PostOK
  <2>6. ExportOK(r)'
    BY <1>2, <1>4, <1>5, <1>7, <2>0 DEF RequestOK, ExportOK, Existing, JournalGrows
  <2> QED BY <2>4, <2>5, <2>6 DEF RequestOK
<1> QED BY <1>4, <1>5, <1>6, <1>7, <1>9, <1>10, Stepped

LEMMA SeqTail ==
  ASSUME NEW s \in Seq(Line), s # <<>>, \A i \in DOMAIN s : s[i].job = NoJob
  PROVE  /\ Head(s) \in Line /\ Head(s).job = NoJob
         /\ Tail(s) \in Seq(Line) /\ Len(Tail(s)) = Len(s) - 1
         /\ \A i \in DOMAIN Tail(s) : Tail(s)[i].job = NoJob
<1>1. Len(s) \in Nat /\ Len(s) >= 1 /\ DOMAIN s = 1..Len(s)
  OBVIOUS
<1>2. Head(s) = s[1] /\ Tail(s) \in Seq(Line) /\ Len(Tail(s)) = Len(s) - 1
  BY <1>1
<1>3. \A i \in 1..(Len(s) - 1) : Tail(s)[i] = s[i + 1]
  BY <1>1
<1>4. DOMAIN Tail(s) = 1..(Len(s) - 1)
  BY <1>2
<1>5. \A i \in DOMAIN Tail(s) : Tail(s)[i].job = NoJob
  BY <1>1, <1>3, <1>4
<1>6. Head(s) \in Line /\ Head(s).job = NoJob
  BY <1>1, <1>2
<1> QED BY <1>2, <1>5, <1>6

LEMMA SeqAppend ==
  ASSUME NEW s \in Seq(Line), NEW x \in Line
  PROVE  /\ Append(s, x) \in Seq(Line) /\ Len(Append(s, x)) = Len(s) + 1
         /\ DOMAIN s = 1..Len(s) /\ DOMAIN Append(s, x) = 1..(Len(s) + 1)
         /\ \A i \in DOMAIN s : Append(s, x)[i] = s[i]
         /\ Append(s, x)[Len(s) + 1] = x
OBVIOUS

LEMMA AddLineStep ==
  ASSUME IInv, NEW r \in Requests, AddLine(r)
  PROVE  IInv'
<1>a. req[r].entry \in Entries
  BY DEF IInv, AddLine, At, RequestOK, BuildOK
<1>b. PICK n \in Entries : n = req[r].entry
  BY <1>a
<1> DEFINE q    == req[r]
           x    == Head(q.todo)
           rest == Tail(q.todo)
           to   == IF rest = <<>> THEN q.then ELSE "lines"
           w    == [q EXCEPT !.todo = rest, !.pc = to]
<1>0. q \in Work /\ q.pc = "lines" /\ RequestOK(r) /\ TypeOK /\ q.entry = n /\ Made(n)
      /\ q.todo \in Seq(Line) /\ q.todo # <<>> /\ Writing(r)
  BY <1>b, WorkTypes DEF IInv, AddLine, At, RequestOK, BuildOK, Writing
<1>1. UNCHANGED <<type, status, fx, meta, cancelled, entries, files, failures>>
  BY DEF AddLine, events
<1>2. /\ x \in Line /\ x.job = NoJob
      /\ rest \in Seq(Line) /\ Len(rest) = Len(q.todo) - 1
      /\ \A i \in DOMAIN rest : rest[i].job = NoJob
  <2>1. \A i \in DOMAIN q.todo : q.todo[i].job = NoJob
    BY <1>0 DEF RequestOK, BuildOK
  <2> QED BY <1>0, <2>1, SeqTail
<1>3. lines' = [lines EXCEPT ![n] = Append(lines[n], x)] /\ Step(r, w)
  BY <1>0 DEF AddLine
<1>4. /\ q.then \in {"vat", "link", "trueUpEvent"}
      /\ Len(lines[n]) + Len(q.todo) <= IF q.then = "vat" THEN 2 ELSE 4
  BY <1>0 DEF RequestOK, BuildOK
<1>5. lines[n] \in Seq(Line) /\ Len(lines[n]) \in Nat /\ Len(q.todo) \in Nat /\ Len(rest) \in Nat
  BY <1>0, <1>2 DEF TypeOK
<1>6. to \in {"vat", "link", "trueUpEvent", "lines"} /\ to \in Phases
      /\ (to = "lines" => rest # <<>>) /\ (to # "lines" => rest = <<>> /\ to = q.then)
  BY <1>4 DEF Phases
<1> HIDE DEF x, rest, to, w
<1>7. /\ lines' \in [Entries -> Seq(Line)]
      /\ lines'[n] = Append(lines[n], x)
      /\ \A m \in Entries : m # n => lines'[m] = lines[m]
  <2>1. Append(lines[n], x) \in Seq(Line)
    BY <1>2, <1>5, SeqAppend
  <2> QED BY <1>0, <1>3, <2>1 DEF TypeOK
<1>8. /\ Len(lines'[n]) = Len(lines[n]) + 1
      /\ DOMAIN lines[n] = 1..Len(lines[n]) /\ DOMAIN lines'[n] = 1..(Len(lines[n]) + 1)
      /\ \A i \in DOMAIN lines[n] : lines'[n][i] = lines[n][i]
      /\ lines'[n][Len(lines[n]) + 1] = x
  BY <1>2, <1>5, <1>7, SeqAppend
<1>9. Len(rest) = 0 <=> rest = <<>>
  BY <1>2, NoLines
<1>10. TypeRest'
  <2>1. Len(lines'[n]) <= 4
    <3>1. PICK a \in Nat : a = Len(lines[n])
      BY <1>5
    <3>2. PICK b \in Nat : b = Len(q.todo)
      BY <1>5
    <3>3. PICK c \in Nat : c = Len(rest)
      BY <1>5
    <3>4. c = b - 1
      BY <1>2, <3>2, <3>3
    <3>5. a + b <= 4
      <4>1. a + b <= IF q.then = "vat" THEN 2 ELSE 4
        BY <1>4, <3>1, <3>2
      <4>2. a + b <= 2 \/ a + b <= 4
        BY <4>1
      <4> QED BY <4>2
    <3>6. Len(lines'[n]) = a + 1
      BY <1>8, <3>1
    <3>7. a + 1 <= 4
      BY <3>4, <3>5
    <3> QED BY <3>6, <3>7
  <2>2. \A m \in Entries : Len(lines'[m]) <= 4
    BY <1>0, <1>7, <2>1 DEF TypeOK
  <2> QED BY <1>0, <1>1, <1>7, <2>2 DEF TypeOK, TypeRest
<1>11. JournalGrows
  BY <1>1, <1>5, <1>7, <1>8 DEF JournalGrows, Made, WasPosted
<1>12. JournalOK'
  <2>1. \A m \in Entries : ~Made(m)' => lines'[m] = <<>>
    BY <1>0, <1>1, <1>7 DEF IInv, JournalOK, Made
  <2>2. \A j \in Jobs : \A l \in files'[j] : Existing(l)'
    BY <1>0, <1>1, <1>11 DEF IInv, TypeOK, JournalOK, JournalGrows, Existing, LineIds
  <2> QED BY <1>1, <2>1, <2>2 DEF IInv, JournalOK
<1>13. MarksBacked'
  <2> SUFFICES ASSUME NEW m \in Entries
               PROVE  /\ \A i \in DOMAIN lines'[m] : lines'[m][i].job # NoJob =>
                           <<m, i>> \in files[lines'[m][i].job]
                      /\ entries[m].job # NoJob =>
                           \E i \in DOMAIN lines'[m] : <<m, i>> \in files[entries[m].job]
    BY <1>1 DEF MarksBacked
  <2>1. /\ \A i \in DOMAIN lines[m] : lines[m][i].job # NoJob =>
             <<m, i>> \in files[lines[m][i].job]
        /\ entries[m].job # NoJob =>
             \E i \in DOMAIN lines[m] : <<m, i>> \in files[entries[m].job]
    BY DEF IInv, MarksBacked
  <2>2. DOMAIN lines[m] \subseteq DOMAIN lines'[m]
    BY <1>11 DEF JournalGrows
  <2>3. \A i \in DOMAIN lines'[m] : lines'[m][i].job # NoJob =>
          i \in DOMAIN lines[m] /\ lines'[m][i] = lines[m][i]
    <3>1. CASE m = n
      BY <1>2, <1>5, <1>8, <3>1
    <3>2. CASE m # n
      BY <1>7, <3>2
    <3> QED BY <3>1, <3>2
  <2> QED BY <2>1, <2>2, <2>3
<1>14. EventShowsJournal'
  BY <1>1, <1>11, EventsShown DEF IInv
<1>15. \A p \in Requests : p # r => Untouched(p)
  <2> SUFFICES ASSUME NEW p \in Requests, p # r, Writing(p)
               PROVE  Len(lines'[req[p].entry]) = Len(lines[req[p].entry])
    BY DEF Untouched
  <2>1. req[p].entry # n
    BY <1>0 DEF IInv, Apart
  <2>2. req[p].entry \in Entries
    BY DEF IInv, RequestOK, BuildOK, Writing
  <2> QED BY <1>7, <2>1, <2>2
<1>16. w \in Work
  BY <1>0, <1>2, <1>6 DEF Work, w
<1>17. /\ w.pc = to /\ w.entry = n /\ w.todo = rest /\ w.then = q.then
       /\ w.list = q.list /\ w.kept = q.kept /\ w.rows = q.rows
  BY <1>0 DEF Work, w
<1>18. req'[r] = w => RequestOK(r)'
  <2> SUFFICES ASSUME req'[r] = w PROVE RequestOK(r)'
    OBVIOUS
  <2>1. BuildOK(r)'
    <3>1. to = "lines" => Len(lines'[n]) + Len(rest) <= IF q.then = "vat" THEN 2 ELSE 4
      <4>1. Len(lines'[n]) + Len(rest) = Len(lines[n]) + Len(q.todo)
        <5>1. PICK a \in Nat : a = Len(lines[n])
          BY <1>5
        <5>2. PICK b \in Nat : b = Len(q.todo)
          BY <1>5
        <5>3. Len(rest) = b - 1 /\ Len(lines'[n]) = a + 1
          BY <1>2, <1>8, <5>1, <5>2
        <5>4. (a + 1) + (b - 1) = a + b
          OBVIOUS
        <5> QED BY <5>1, <5>2, <5>3, <5>4
      <4> QED BY <1>4, <4>1
    <3>2. to = "vat" => Len(lines'[n]) \in 1..2
      <4> SUFFICES ASSUME to = "vat" PROVE Len(lines'[n]) \in 1..2
        OBVIOUS
      <4>1. Len(q.todo) = 1 /\ q.then = "vat"
        BY <1>2, <1>5, <1>6, <1>9
      <4> QED BY <1>4, <1>5, <1>8, <4>1
    <3>3. Made(n)'
      BY <1>0, <1>1 DEF Made
    <3>4. \A i \in DOMAIN w.todo : w.todo[i].job = NoJob
      BY <1>2, <1>17
    <3> QED BY <1>0, <1>4, <1>6, <1>17, <3>1, <3>2, <3>3, <3>4 DEF BuildOK
  <2>2. PostOK(r)'
    BY <1>6, <1>17 DEF PostOK
  <2>3. ExportOK(r)'
    <3>1. q.kept \subseteq Entries /\ q.list \subseteq Entries /\ q.rows \subseteq LineIds
      BY <1>0, WorkTypes
    <3> QED BY <1>0, <1>1, <1>6, <1>11, <1>17, <3>1
            DEF RequestOK, ExportOK, Existing, JournalGrows, LineIds
  <2> QED BY <2>1, <2>2, <2>3 DEF RequestOK
<1>19. w.pc \in {"lines", "vat"} => Writing(r) /\ w.entry = req[r].entry
  BY <1>0, <1>17
<1> QED BY <1>3, <1>10, <1>11, <1>12, <1>13, <1>14, <1>15, <1>16, <1>18, <1>19, Stepped

LEMMA ReadVatStep ==
  ASSUME IInv, NEW r \in Requests, ReadVat(r)
  PROVE  IInv'
<1>a. req[r].entry \in Entries
  BY DEF IInv, ReadVat, At, RequestOK, BuildOK
<1>b. PICK n \in Entries : n = req[r].entry
  BY <1>a
<1> DEFINE q == req[r]
<1>0. q \in Work /\ q.pc = "vat" /\ RequestOK(r) /\ TypeOK /\ q.entry = n /\ Made(n)
      /\ Len(lines[n]) \in 1..2 /\ Writing(r)
  BY <1>b, WorkTypes DEF IInv, ReadVat, At, RequestOK, BuildOK, Writing
<1>1. UNCHANGED <<events, journal, files>> /\ failures' \in 0..MaxFailures
  BY <1>0 DEF ReadVat, TypeOK
<1>2. UNCHANGED <<entries, lines, files>>
  BY <1>1 DEF journal
<1>3. PICK treatment \in {"none", "reverse_charge_13b", "input_vat_de"} :
        LET extra == VatLines(treatment, lines[n][1].amount)
        IN  Step(r, [q EXCEPT !.todo = extra, !.then = "link",
                      !.pc = IF extra = <<>> THEN "link" ELSE "lines"])
  BY <1>0 DEF ReadVat
<1> DEFINE extra == VatLines(treatment, lines[n][1].amount)
           to    == IF extra = <<>> THEN "link" ELSE "lines"
           w     == [q EXCEPT !.todo = extra, !.then = "link", !.pc = to]
<1>4. Step(r, w)
  BY <1>3
<1>5. /\ extra \in Seq(Line) /\ (extra = <<>> \/ Len(extra) = 2)
      /\ \A i \in DOMAIN extra : extra[i].job = NoJob
  <2>1. lines[n] \in Seq(Line)
    BY <1>0 DEF TypeOK
  <2>2. lines[n][1] \in Line
    BY <1>0, <2>1
  <2>3. lines[n][1].amount \in Int
    BY <2>2 DEF Line
  <2> QED BY <2>3, VatLinesOK
<1>6. to \in {"link", "lines"} /\ (to = "lines" => extra # <<>>) /\ to \in Phases /\ "link" \in Phases
  BY DEF Phases
<1> HIDE DEF extra, to
<1>7. w \in Work
  BY <1>0, <1>5, <1>6 DEF Work
<1>8. /\ w.pc = to /\ w.entry = n /\ w.todo = extra /\ w.then = "link"
      /\ w.list = q.list /\ w.kept = q.kept /\ w.rows = q.rows
  BY <1>0 DEF Work
<1> HIDE DEF w
<1>9. req'[r] = w => RequestOK(r)'
  <2> SUFFICES ASSUME req'[r] = w PROVE RequestOK(r)'
    OBVIOUS
  <2>1. BuildOK(r)'
    <3>1. to = "lines" => Len(lines'[n]) + Len(extra) <= 4
      <4>1. PICK a \in 1..2 : a = Len(lines[n])
        BY <1>0
      <4>2. a + 2 <= 4
        OBVIOUS
      <4> QED BY <1>2, <1>5, <1>6, <4>1, <4>2
    <3>2. Made(n)'
      BY <1>0, <1>2 DEF Made
    <3> QED BY <1>0, <1>5, <1>6, <1>8, <3>1, <3>2 DEF BuildOK
  <2>2. PostOK(r)'
    BY <1>6, <1>8 DEF PostOK
  <2>3. ExportOK(r)'
    BY <1>0, <1>2, <1>6, <1>8 DEF RequestOK, ExportOK, Existing, Made
  <2> QED BY <2>1, <2>2, <2>3 DEF RequestOK
<1>10. w.pc \in {"lines", "vat"} => Writing(r) /\ w.entry = req[r].entry
  BY <1>0, <1>8
<1> QED BY <1>1, <1>4, <1>7, <1>9, <1>10, Noted

\* Only events change, by request r, which is then idle.
LEMMA EventWritten ==
  ASSUME IInv, NEW r \in Requests, Return(r),
         UNCHANGED <<entries, lines, files, failures>>,
         TypeRest',
         \A e \in Events : status'[e] = "posted" =>
           \/ status[e] = "posted"
           \/ \E n \in OfEvent(e) : entries[n].kind = "base" /\ WasPosted(n)
  PROVE  IInv'
<1>1. /\ JournalOK' /\ MarksBacked' /\ JournalGrows
      /\ \A q \in Requests : Untouched(q)
  BY JournalKept
<1>2. EventShowsJournal'
  BY <1>1, EventsShown DEF IInv
<1>3. Idle \in Work /\ Step(r, Idle) /\ Idle.pc = "idle"
  BY IdleIsWork DEF Return
<1>4. req'[r] = Idle => RequestOK(r)'
  BY IdleOK
<1> QED BY <1>1, <1>2, <1>3, <1>4, Stepped

LEMMA LinkEventStep ==
  ASSUME IInv, NEW r \in Requests, LinkEvent(r)
  PROVE  IInv'
<1>1. UNCHANGED <<type, fx, meta, cancelled, entries, lines, files, failures>> /\ Return(r)
  BY DEF LinkEvent, journal
<1>2. /\ status' \in [Events -> Statuses]
      /\ \A e \in Events : status'[e] = "posted" => status[e] = "posted"
  BY DEF LinkEvent, IInv, TypeOK, Statuses
<1>3. TypeRest'
  BY <1>1, <1>2 DEF IInv, TypeOK, TypeRest
<1> QED BY <1>1, <1>2, <1>3, EventWritten

----------------------------------------------------------------------------
(* Posting.                                                                *)

LEMMA StartPostStep ==
  ASSUME IInv, NEW r \in Requests, StartPost(r)
  PROVE  IInv'
<1>1. PICK n \in Entries : /\ entries[n].status = "draft"
                           /\ Step(r, [Idle EXCEPT !.pc = "post", !.entry = n])
  BY DEF StartPost
<1> DEFINE w == [Idle EXCEPT !.pc = "post", !.entry = n]
<1>2. UNCHANGED <<events, journal, files>> /\ UNCHANGED <<entries, lines, files>>
      /\ failures' \in 0..MaxFailures
  BY DEF StartPost, IInv, TypeOK, journal
<1>3. /\ w \in Work /\ w.pc = "post" /\ w.entry = n /\ w.todo = <<>>
      /\ w.list = {} /\ w.kept = {} /\ w.rows = {}
  <2>1. "post" \in Phases
    BY DEF Phases
  <2> QED BY <2>1, IdleIsWork DEF Work
<1>4. Step(r, w)
  BY <1>1
<1> HIDE DEF w
<1>5. entries[n].kind = "base"
  BY <1>1 DEF IInv, JournalOK
<1>6. req'[r] = w => RequestOK(r)'
  <2>1. DOMAIN <<>> = {}
    OBVIOUS
  <2>2. req'[r] = w => BuildOK(r)'
    BY <1>3, <2>1 DEF BuildOK
  <2>3. req'[r] = w => PostOK(r)'
    BY <1>1, <1>2, <1>3, <1>5 DEF PostOK, Made
  <2>4. req'[r] = w => ExportOK(r)'
    BY <1>3 DEF ExportOK
  <2> QED BY <2>2, <2>3, <2>4 DEF RequestOK
<1> QED BY <1>2, <1>3, <1>4, <1>6, Noted

LEMMA CheckBalanceStep ==
  ASSUME IInv, NEW r \in Requests, CheckBalance(r)
  PROVE  IInv'
<1> DEFINE q == req[r]
           w == [q EXCEPT !.pc = "posting"]
<1>1. UNCHANGED <<events, journal, files>> /\ UNCHANGED <<entries, lines, files>>
      /\ failures' \in 0..MaxFailures
  BY DEF CheckBalance, IInv, TypeOK, journal
<1>2. CASE Return(r)
  BY <1>1, <1>2, Returned
<1>3. CASE Step(r, w)
  <2>0. q \in Work /\ q.pc = "post" /\ RequestOK(r) /\ "posting" \in Phases
    BY WorkTypes DEF IInv, CheckBalance, At, Phases
  <2>1. /\ w \in Work /\ w.pc = "posting" /\ w.entry = q.entry /\ w.todo = q.todo
        /\ w.list = q.list /\ w.kept = q.kept /\ w.rows = q.rows
    BY <2>0 DEF Work
  <2> HIDE DEF w
  <2>2. req'[r] = w => RequestOK(r)'
    BY <1>1, <2>0, <2>1 DEF RequestOK, BuildOK, PostOK, ExportOK, Made, Existing
  <2> QED BY <1>1, <1>3, <2>1, <2>2, Noted
<1> QED BY <1>2, <1>3 DEF CheckBalance

\* The status, or the job, of an entry that exists is written; posted
\* entries stay posted.
LEMMA EntryMarked ==
  ASSUME IInv, NEW n \in Entries, Made(n), NEW x \in Entry,
         x.status \in {"posted", "exported"},
         x.kind = entries[n].kind, x.event = entries[n].event,
         x.job # NoJob => \E i \in DOMAIN lines[n] : <<n, i>> \in files[x.job],
         entries' = [entries EXCEPT ![n] = x], UNCHANGED <<status, lines, files>>
  PROVE  /\ entries' \in [Entries -> Entry] /\ entries'[n] = x
         /\ JournalOK' /\ MarksBacked' /\ EventShowsJournal' /\ JournalGrows
         /\ \A q \in Requests : Untouched(q)
<1>0. /\ entries' \in [Entries -> Entry]
      /\ entries'[n] = x
      /\ \A m \in Entries : m # n => entries'[m] = entries[m]
  BY DEF IInv, TypeOK
<1>1. JournalOK'
  BY <1>0 DEF IInv, JournalOK, Made, Existing
<1>2. MarksBacked'
  BY <1>0 DEF IInv, MarksBacked
<1>3. JournalGrows
  BY <1>0 DEF JournalGrows, Made, WasPosted
<1>4. EventShowsJournal'
  BY <1>3, EventsShown DEF IInv
<1> QED BY <1>0, <1>1, <1>2, <1>3, <1>4 DEF Untouched

LEMMA PostEntryStep ==
  ASSUME IInv, NEW r \in Requests, PostEntry(r)
  PROVE  IInv'
<1>a. req[r].entry \in Entries
  BY DEF IInv, PostEntry, At, RequestOK, PostOK
<1>b. PICK n \in Entries : n = req[r].entry
  BY <1>a
<1> DEFINE q == req[r]
           w == [q EXCEPT !.pc = "postEvent"]
           x == [entries[n] EXCEPT !.status = "posted"]
<1>0. q \in Work /\ q.pc = "posting" /\ RequestOK(r) /\ "postEvent" \in Phases
      /\ q.entry = n /\ Made(n) /\ entries[n].kind = "base" /\ TypeOK
  BY <1>b, WorkTypes DEF IInv, PostEntry, At, Phases, RequestOK, PostOK
<1>1. entries' = [entries EXCEPT ![n] = x] /\ Step(r, w)
  BY <1>0 DEF PostEntry
<1>2. UNCHANGED <<type, status, fx, meta, cancelled, lines, files, failures>>
  BY DEF PostEntry, events
<1>3. entries[n] \in Entry
  BY <1>0 DEF TypeOK
<1>4. /\ x \in Entry /\ x.status = "posted" /\ x.kind = entries[n].kind
      /\ x.event = entries[n].event /\ x.job = entries[n].job
  BY <1>3 DEF Entry
<1>5. x.job # NoJob => \E i \in DOMAIN lines[n] : <<n, i>> \in files[x.job]
  BY <1>4 DEF IInv, MarksBacked
<1> HIDE DEF x
<1>6. /\ entries' \in [Entries -> Entry] /\ entries'[n] = x
      /\ JournalOK' /\ MarksBacked' /\ EventShowsJournal' /\ JournalGrows
      /\ \A p \in Requests : Untouched(p)
  BY <1>0, <1>1, <1>2, <1>4, <1>5, EntryMarked
<1>7. TypeRest'
  BY <1>0, <1>2, <1>6 DEF TypeOK, TypeRest
<1>8. /\ w \in Work /\ w.pc = "postEvent" /\ w.entry = n /\ w.todo = q.todo
      /\ w.list = q.list /\ w.kept = q.kept /\ w.rows = q.rows
  BY <1>0 DEF Work
<1> HIDE DEF w
<1>9. req'[r] = w => RequestOK(r)'
  <2> SUFFICES ASSUME req'[r] = w PROVE RequestOK(r)'
    OBVIOUS
  <2>0. q.kept \subseteq Entries /\ q.list \subseteq Entries
    BY <1>0, WorkTypes
  <2>1. BuildOK(r)'
    BY <1>0, <1>8 DEF RequestOK, BuildOK
  <2>2. PostOK(r)'
    BY <1>0, <1>4, <1>6, <1>8 DEF PostOK, Made, WasPosted
  <2>3. ExportOK(r)'
    BY <1>0, <1>2, <1>6, <1>8, <2>0 DEF RequestOK, ExportOK, Existing, JournalGrows
  <2> QED BY <2>1, <2>2, <2>3 DEF RequestOK
<1> QED BY <1>1, <1>6, <1>7, <1>8, <1>9, Stepped

LEMMA PostEventStep ==
  ASSUME IInv, NEW r \in Requests, PostEvent(r)
  PROVE  IInv'
<1> DEFINE n == req[r].entry
           d == entries[n].event
<1>0. n \in Entries /\ Made(n) /\ entries[n].kind = "base" /\ WasPosted(n)
  BY DEF IInv, PostEvent, At, RequestOK, PostOK
<1>1. UNCHANGED <<type, fx, meta, cancelled, entries, lines, files, failures>> /\ Return(r)
  BY DEF PostEvent, journal
<1>2. /\ status' \in [Events -> Statuses]
      /\ \A e \in Events : status'[e] = "posted" => status[e] = "posted" \/ e = d
  BY DEF PostEvent, IInv, TypeOK, Statuses
<1>3. TypeRest'
  BY <1>1, <1>2 DEF IInv, TypeOK, TypeRest
<1>4. n \in OfEvent(d)
  BY <1>0 DEF OfEvent, Made
<1> QED BY <1>0, <1>1, <1>2, <1>3, <1>4, EventWritten

----------------------------------------------------------------------------
(* The FX true-up.                                                         *)

LEMMA StartTrueUpStep ==
  ASSUME IInv, NEW r \in Requests, StartTrueUp(r)
  PROVE  IInv'
<1>1. PICK e \in Events :
        Step(r, [Idle EXCEPT !.pc = "trueUp", !.event = e, !.fx = fx[e],
                             !.prov = meta[e].prov])
  BY DEF StartTrueUp
<1> DEFINE x == fx[e]
           p == meta[e].prov
           w == [Idle EXCEPT !.pc = "trueUp", !.event = e, !.fx = x, !.prov = p]
<1>2. x \in Fx /\ p \in Eur /\ "trueUp" \in Phases
  BY DEF IInv, TypeOK, Phases
<1>3. UNCHANGED <<events, journal, files>> /\ failures' \in 0..MaxFailures
  BY DEF StartTrueUp, IInv, TypeOK
<1>4. Step(r, w)
  BY <1>1
<1> HIDE DEF x, p
<1>5. w \in Work
  BY <1>2, IdleIsWork DEF Work
<1>6. /\ w.pc = "trueUp" /\ w.todo = <<>> /\ w.event = e
      /\ w.list = {} /\ w.kept = {} /\ w.rows = {}
  BY IdleIsWork DEF Work
<1> HIDE DEF w
<1>7. req'[r] = w => RequestOK(r)'
  <2>1. DOMAIN <<>> = {}
    OBVIOUS
  <2>2. req'[r] = w => BuildOK(r)'
    BY <1>6, <2>1 DEF BuildOK
  <2>3. req'[r] = w => PostOK(r)' /\ ExportOK(r)'
    BY <1>6 DEF PostOK, ExportOK
  <2> QED BY <2>2, <2>3 DEF RequestOK
<1> QED BY <1>3, <1>4, <1>5, <1>6, <1>7, Noted

LEMMA ProvisionalIsInt ==
  ASSUME TypeOK, NEW x \in Fx, NEW p \in Eur, NEW n \in Entries
  PROVE  Provisional(x, p, n) \in Int
<1>1. lines[n] # <<>> => lines[n][1].amount \in Int
  <2> SUFFICES ASSUME lines[n] # <<>> PROVE lines[n][1].amount \in Int
    OBVIOUS
  <2>1. lines[n] \in Seq(Line)
    BY DEF TypeOK
  <2>2. lines[n][1] \in Line
    BY <2>1
  <2> QED BY <2>2 DEF Line
<1>2. x.eur # NoEur => x.eur \in Int
  BY DEF Fx, Eur
<1>3. x.eur # NoEur => Abs(x.eur) \in Int
  BY <1>2 DEF Abs
<1>4. Booked(n, x) \in Int
  BY <1>1, <1>3 DEF Booked
<1>5. p # NoEur => p \in Int
  BY DEF Eur
<1>6. Provisional(x, p, n) \in {p, x.eur, Booked(n, x)}
      /\ (Provisional(x, p, n) = p => p # NoEur \/ Provisional(x, p, n) \in Int)
      /\ (p = NoEur => Provisional(x, p, n) \in Int)
  BY <1>2, <1>4, <1>5 DEF Provisional
<1>7. CASE p # NoEur
  BY <1>5, <1>7 DEF Provisional
<1>8. CASE p = NoEur
  BY <1>6, <1>8
<1> QED BY <1>7, <1>8

LEMMA FindPostedStep ==
  ASSUME IInv, NEW r \in Requests, FindPosted(r)
  PROVE  IInv'
<1> DEFINE q == req[r]
           x == q.fx
           settled == Settled(q.event, x, q.prov)
<1>0. q \in Work /\ q.pc = "trueUp" /\ RequestOK(r) /\ TypeOK /\ "trueUpCreate" \in Phases
      /\ x \in Fx /\ q.prov \in Eur
  BY WorkTypes DEF IInv, FindPosted, At, Phases, Work
<1>1. UNCHANGED <<events, journal, files>> /\ UNCHANGED <<entries, lines, files>>
      /\ failures' \in 0..MaxFailures
  BY DEF FindPosted, IInv, TypeOK, journal
<1>2. CASE Return(r)
  BY <1>1, <1>2, Returned
<1>3. ASSUME NEW n \in OfEvent(q.event), settled # NoEur,
             Step(r, [q EXCEPT !.pc = "trueUpCreate", !.fx.eur = settled,
                               !.prov = Provisional(x, q.prov, n)])
      PROVE  IInv'
  <2> DEFINE prov == Provisional(x, q.prov, n)
             y    == [x EXCEPT !.eur = settled]
             w    == [q EXCEPT !.pc = "trueUpCreate", !.fx = y, !.prov = prov]
  <2>1. n \in Entries /\ q.event \in Events
    BY <1>0 DEF OfEvent, RequestOK, BuildOK
  <2>2. prov \in Int
    BY <1>0, <2>1, ProvisionalIsInt
  <2>3. settled \in Int
    BY <1>0, <1>3, <2>1, EventsOK DEF Settled, Fx, Eur
  <2>4. Step(r, w)
    BY <1>0, <1>3 DEF Work
  <2> HIDE DEF settled, prov
  <2>5. y \in Fx /\ y.eur = settled
    BY <1>0, <2>3 DEF Fx, Eur
  <2> HIDE DEF y
  <2>6. w \in Work
    BY <1>0, <2>2, <2>5 DEF Work, Eur
  <2>7. /\ w.pc = "trueUpCreate" /\ w.fx = y /\ w.prov = prov /\ w.todo = q.todo
        /\ w.list = q.list /\ w.kept = q.kept /\ w.rows = q.rows
    BY <1>0 DEF Work
  <2> HIDE DEF w
  <2>8. req'[r] = w => RequestOK(r)'
    BY <1>0, <1>1, <2>2, <2>3, <2>5, <2>7 DEF RequestOK, BuildOK, PostOK, ExportOK, Made, Existing
  <2> QED BY <1>1, <2>4, <2>6, <2>7, <2>8, Noted
<1> QED BY <1>2, <1>3 DEF FindPosted

LEMMA CreateTrueUpStep ==
  ASSUME IInv, NEW r \in Requests, CreateTrueUp(r)
  PROVE  IInv'
<1> DEFINE q  == req[r]
           x  == [event |-> q.event, kind |-> "trueUp", status |-> "posted", job |-> NoJob]
           ls == TrueUpLines(q.fx.eur - q.prov)
<1>1. PICK n \in Entries : /\ Fresh(n)
                           /\ entries' = [entries EXCEPT ![n] = x]
                           /\ Step(r, [q EXCEPT !.pc = "lines", !.then = "trueUpEvent",
                                         !.entry = n, !.todo = ls])
  BY DEF CreateTrueUp
<1> DEFINE w == [q EXCEPT !.pc = "lines", !.then = "trueUpEvent", !.entry = n, !.todo = ls]
<1>2. q \in Work /\ q.pc = "trueUpCreate" /\ RequestOK(r) /\ "lines" \in Phases
      /\ "trueUpEvent" \in Phases /\ TypeOK
  BY WorkTypes DEF IInv, CreateTrueUp, At, Phases
<1>3. x \in Entry /\ x.status = "posted" /\ x.kind = "trueUp" /\ x.job = NoJob
  BY <1>2 DEF Entry, Work
<1>4. ~Made(n) /\ UNCHANGED <<type, status, fx, meta, cancelled, lines, files, failures>>
  BY <1>1 DEF Fresh, Made, CreateTrueUp, events
<1>5. /\ ls \in Seq(Line) /\ Len(ls) = 2 /\ ls # <<>>
      /\ \A i \in DOMAIN ls : ls[i].job = NoJob
  <2>1. q.fx.eur - q.prov \in Int
    BY <1>2 DEF RequestOK, BuildOK
  <2> QED BY <2>1, TrueUpLinesOK
<1>6. Step(r, w)
  BY <1>1
<1> HIDE DEF x, ls
<1>7. /\ entries' \in [Entries -> Entry] /\ entries'[n] = x
      /\ JournalOK' /\ MarksBacked' /\ EventShowsJournal' /\ JournalGrows
      /\ \A p \in Requests : Untouched(p)
  BY <1>1, <1>3, <1>4, EntryCreated
<1>8. TypeRest'
  BY <1>2, <1>4, <1>7 DEF TypeOK, TypeRest
<1>9. w \in Work
  BY <1>2, <1>5 DEF Work
<1>10. /\ w.pc = "lines" /\ w.entry = n /\ w.todo = ls /\ w.then = "trueUpEvent"
       /\ w.list = q.list /\ w.kept = q.kept /\ w.rows = q.rows
  BY <1>2 DEF Work
<1> HIDE DEF w
<1>11. req'[r] = w => RequestOK(r)'
  <2> SUFFICES ASSUME req'[r] = w PROVE RequestOK(r)'
    OBVIOUS
  <2>1. q.kept \subseteq Entries /\ q.list \subseteq Entries
    BY <1>2, WorkTypes
  <2>2. Made(n)'
    BY <1>3, <1>7 DEF Made
  <2>3. Len(lines'[n]) = 0
    BY <1>4 DEF IInv, JournalOK
  <2>4. Len(lines'[n]) + Len(ls) <= 4
    BY <1>5, <2>3
  <2>5. BuildOK(r)'
    BY <1>5, <1>10, <2>2, <2>4 DEF BuildOK
  <2>6. PostOK(r)'
    BY <1>10 DEF PostOK
  <2>7. ExportOK(r)'
    BY <1>2, <1>4, <1>7, <1>10, <2>1 DEF RequestOK, ExportOK, Existing, JournalGrows
  <2> QED BY <2>5, <2>6, <2>7 DEF RequestOK
<1> QED BY <1>4, <1>6, <1>7, <1>8, <1>9, <1>10, <1>11, Stepped

LEMMA TrueUpEventStep ==
  ASSUME IInv, NEW r \in Requests, TrueUpEvent(r)
  PROVE  IInv'
<1> DEFINE q == req[r]
           y == [q.fx EXCEPT !.source = "marketplace"]
           m == [prov |-> q.prov, trueUp |-> TRUE]
<1>0. q \in Work /\ TypeOK
  BY WorkTypes DEF IInv
<1>1. UNCHANGED <<type, status, cancelled, entries, lines, files, failures>> /\ Return(r)
  BY DEF TrueUpEvent, journal
<1>2. y \in Fx /\ m \in [prov : Eur, trueUp : BOOLEAN]
  BY <1>0 DEF Work, Fx
<1>3. fx' = [fx EXCEPT ![q.event] = y] /\ meta' = [meta EXCEPT ![q.event] = m]
  BY DEF TrueUpEvent
<1> HIDE DEF y, m
<1>4. fx' \in [Events -> Fx] /\ meta' \in [Events -> [prov : Eur, trueUp : BOOLEAN]]
  BY <1>0, <1>2, <1>3 DEF TypeOK
<1>5. TypeRest'
  BY <1>0, <1>1, <1>4 DEF TypeOK, TypeRest
<1> QED BY <1>1, <1>5, EventWritten

----------------------------------------------------------------------------
(* The export.                                                             *)

LEMMA StartExportStep ==
  ASSUME IInv, NEW r \in Requests, StartExport(r)
  PROVE  IInv'
<1>1. PICK p \in Periods :
        Step(r, [Idle EXCEPT !.pc = "gather",
                   !.list = {n \in InPeriod(p) : entries[n].status = "posted"}])
  BY DEF StartExport
<1> DEFINE posted == {n \in InPeriod(p) : entries[n].status = "posted"}
           w == [Idle EXCEPT !.pc = "gather", !.list = posted]
<1>2. posted \subseteq Entries /\ "gather" \in Phases /\ \A n \in posted : Made(n)
  BY DEF InPeriod, Phases, Made
<1>3. UNCHANGED <<events, journal, files>> /\ UNCHANGED entries /\ failures' \in 0..MaxFailures
  BY DEF StartExport, IInv, TypeOK, journal
<1>4. Step(r, w)
  BY <1>1
<1> HIDE DEF posted
<1>5. w \in Work
  BY <1>2, IdleIsWork DEF Work
<1>6. /\ w.pc = "gather" /\ w.todo = <<>>
      /\ w.list = posted /\ w.kept = {} /\ w.rows = {}
  BY IdleIsWork DEF Work
<1> HIDE DEF w
<1>7. req'[r] = w => RequestOK(r)'
  <2>1. DOMAIN <<>> = {}
    OBVIOUS
  <2>2. req'[r] = w => BuildOK(r)'
    BY <1>6, <2>1 DEF BuildOK
  <2>3. req'[r] = w => PostOK(r)'
    BY <1>6 DEF PostOK
  <2>4. \A n \in posted : Made(n)'
    BY <1>2, <1>3 DEF Made
  <2>5. req'[r] = w => ExportOK(r)'
    BY <1>6, <2>4 DEF ExportOK
  <2> QED BY <2>2, <2>3, <2>5 DEF RequestOK
<1> QED BY <1>3, <1>4, <1>5, <1>6, <1>7, Noted

LEMMA UnexportedOK ==
  ASSUME TypeOK, NEW n \in Entries
  PROVE  /\ Unexported(n) \subseteq LineIds
         /\ \A l \in Unexported(n) : Existing(l) /\ l[1] = n /\ LineOf(l).job = NoJob
         /\ \A i \in DOMAIN lines[n] : lines[n][i].job = NoJob => <<n, i>> \in Unexported(n)
         /\ Unexported(n) # {} => \E i \in DOMAIN lines[n] : <<n, i>> \in Unexported(n)
<1>1. DOMAIN lines[n] \subseteq 1..4
  BY DEF TypeOK
<1> QED BY <1>1 DEF Unexported, LineIds, Existing, LineOf

LEMMA GatherEntryStep ==
  ASSUME IInv, NEW r \in Requests, GatherEntry(r)
  PROVE  IInv'
<1> DEFINE q == req[r]
<1>0. q \in Work /\ q.pc = "gather" /\ RequestOK(r) /\ TypeOK
      /\ q.rows \subseteq LineIds /\ q.list \subseteq Entries /\ q.kept \subseteq Entries
  BY WorkTypes DEF IInv, GatherEntry, At
<1>1. UNCHANGED <<events, journal, files>> /\ UNCHANGED <<entries, lines, files>>
      /\ failures' \in 0..MaxFailures
  BY DEF GatherEntry, IInv, TypeOK, journal
<1>2. PICK n \in q.list :
       LET rows == q.rows \cup Unexported(n)
           left == q.list \ {n}
           kept == IF Unexported(n) = {} THEN q.kept ELSE q.kept \cup {n}
       IN  IF left = {} /\ rows = {}
           THEN Return(r)
           ELSE Step(r, [q EXCEPT !.list = left, !.rows = rows, !.kept = kept,
                           !.pc = IF left = {} THEN "job" ELSE "gather"])
  BY DEF GatherEntry
<1> DEFINE rows == q.rows \cup Unexported(n)
           left == q.list \ {n}
           kept == IF Unexported(n) = {} THEN q.kept ELSE q.kept \cup {n}
           to   == IF left = {} THEN "job" ELSE "gather"
           w    == [q EXCEPT !.list = left, !.rows = rows, !.kept = kept, !.pc = to]
<1>3. CASE Return(r)
  BY <1>1, <1>3, Returned
<1>4. CASE Step(r, w)
  <2>1. n \in Entries /\ Made(n)
    BY <1>0 DEF RequestOK, ExportOK
  <2>2. /\ left \subseteq Entries /\ rows \subseteq LineIds /\ kept \subseteq Entries
        /\ to \in {"job", "gather"} /\ to \in Phases
    BY <1>0, <2>1, UnexportedOK DEF Phases
  <2>3. \A m \in left \cup kept : Made(m)
    BY <1>0, <2>1 DEF RequestOK, ExportOK
  <2>4. \A l \in rows : Existing(l)
    BY <1>0, <2>1, UnexportedOK DEF RequestOK, ExportOK
  <2>5. \A m \in kept : \E i \in DOMAIN lines[m] : <<m, i>> \in rows
    BY <1>0, <2>1, UnexportedOK DEF RequestOK, ExportOK
  <2> HIDE DEF left, rows, kept, to
  <2>6. w \in Work
    BY <1>0, <2>2 DEF Work
  <2>7. /\ w.pc = to /\ w.todo = q.todo
        /\ w.list = left /\ w.kept = kept /\ w.rows = rows
    BY <1>0 DEF Work
  <2> HIDE DEF w
  <2>8. req'[r] = w => RequestOK(r)'
    <3> SUFFICES ASSUME req'[r] = w PROVE RequestOK(r)'
      OBVIOUS
    <3>1. BuildOK(r)'
      BY <1>0, <2>2, <2>7 DEF RequestOK, BuildOK
    <3>2. PostOK(r)'
      BY <2>2, <2>7 DEF PostOK
    <3>3. ExportOK(r)'
      BY <1>1, <2>2, <2>3, <2>4, <2>5, <2>7 DEF ExportOK, Made, Existing
    <3> QED BY <3>1, <3>2, <3>3 DEF RequestOK
  <2> QED BY <1>1, <1>4, <2>2, <2>6, <2>7, <2>8, Noted
<1> QED BY <1>2, <1>3, <1>4

LEMMA CreateJobStep ==
  ASSUME IInv, NEW r \in Requests, CreateJob(r)
  PROVE  IInv'
<1> DEFINE q == req[r]
<1>0. q \in Work /\ q.pc = "job" /\ RequestOK(r) /\ TypeOK
      /\ q.rows \subseteq LineIds /\ q.list \subseteq Entries /\ q.kept \subseteq Entries
  BY WorkTypes DEF IInv, CreateJob, At
<1>1. UNCHANGED <<type, status, fx, meta, cancelled, entries, lines, failures>>
      /\ UNCHANGED <<events, journal>>
  BY DEF CreateJob, journal, events
<1>2. CASE Return(r) /\ UNCHANGED files
  BY <1>0, <1>1, <1>2, Returned DEF TypeOK
<1>3. ASSUME NEW j \in Jobs, files[j] = {}, files' = [files EXCEPT ![j] = q.rows],
             Step(r, [q EXCEPT !.pc = "mark", !.job = j])
      PROVE  IInv'
  <2> DEFINE w == [q EXCEPT !.pc = "mark", !.job = j]
  <2>1. /\ files' \in [Jobs -> SUBSET LineIds] /\ files'[j] = q.rows
        /\ \A k \in Jobs : k # j => files'[k] = files[k]
    BY <1>0, <1>3 DEF TypeOK
  <2>2. TypeRest'
    BY <1>0, <1>1, <2>1 DEF TypeOK, TypeRest
  <2>3. JournalGrows
    BY <1>1, <1>3, <2>1 DEF JournalGrows, Made, WasPosted
  <2>4. JournalOK'
    <3>1. \A l \in q.rows : Existing(l)
      BY <1>0 DEF RequestOK, ExportOK
    <3> QED BY <1>1, <2>1, <3>1 DEF IInv, JournalOK, Made, Existing
  <2>5. MarksBacked'
    <3>1. \A k : files[k] \subseteq files'[k] \/ k \notin Jobs
      BY <2>3 DEF JournalGrows
    <3> SUFFICES ASSUME NEW n \in Entries
                 PROVE  /\ \A i \in DOMAIN lines[n] : lines[n][i].job # NoJob =>
                             <<n, i>> \in files'[lines[n][i].job]
                        /\ entries[n].job # NoJob =>
                             \E i \in DOMAIN lines[n] : <<n, i>> \in files'[entries[n].job]
      BY <1>1 DEF MarksBacked
    <3>2. \A i \in DOMAIN lines[n] : lines[n][i].job \in Jobs \cup {NoJob}
      <4>1. lines[n] \in Seq(Line)
        BY <1>0 DEF TypeOK
      <4>2. \A i \in DOMAIN lines[n] : lines[n][i] \in Line
        BY <4>1
      <4> QED BY <4>2 DEF Line
    <3>3. entries[n].job \in Jobs \cup {NoJob}
      BY <1>0 DEF TypeOK, Entry
    <3> QED BY <3>1, <3>2, <3>3 DEF IInv, MarksBacked
  <2>6. EventShowsJournal'
    BY <1>1, <2>3, EventsShown DEF IInv
  <2>7. \A p \in Requests : Untouched(p)
    BY <1>1 DEF Untouched
  <2>8. w \in Work
    <3>1. "mark" \in Phases
      BY DEF Phases
    <3> QED BY <1>0, <3>1 DEF Work
  <2>9. /\ w.pc = "mark" /\ w.todo = q.todo /\ w.job = j
        /\ w.list = q.list /\ w.kept = q.kept /\ w.rows = q.rows
    BY <1>0 DEF Work
  <2>10. Step(r, w)
    BY <1>3
  <2> HIDE DEF w
  <2>11. req'[r] = w => RequestOK(r)'
    <3> SUFFICES ASSUME req'[r] = w PROVE RequestOK(r)'
      OBVIOUS
    <3>1. BuildOK(r)'
      BY <1>0, <2>9 DEF RequestOK, BuildOK
    <3>2. PostOK(r)'
      BY <2>9 DEF PostOK
    <3>3. ExportOK(r)'
      BY <1>0, <1>1, <2>1, <2>9 DEF RequestOK, ExportOK, Made, Existing
    <3> QED BY <3>1, <3>2, <3>3 DEF RequestOK
  <2> QED BY <2>2, <2>3, <2>4, <2>5, <2>6, <2>7, <2>8, <2>9, <2>10, <2>11, Stepped
<1> QED BY <1>2, <1>3 DEF CreateJob

\* One line of an entry gets the number of a job, in place.
LEMMA LineMarked ==
  ASSUME TypeOK, NEW n \in Entries, NEW i \in DOMAIN lines[n], NEW j \in Jobs,
         lines' = [lines EXCEPT ![n][i].job = j]
  PROVE  /\ lines' \in [Entries -> Seq(Line)]
         /\ \A m \in Entries : /\ DOMAIN lines'[m] = DOMAIN lines[m]
                               /\ Len(lines'[m]) = Len(lines[m])
         /\ \A m \in Entries : \A k \in DOMAIN lines[m] :
              <<m, k>> # <<n, i>> => lines'[m][k] = lines[m][k]
         /\ lines'[n][i].job = j
<1> DEFINE s == lines[n]
           x == [s[i] EXCEPT !.job = j]
           t == [s EXCEPT ![i] = x]
<1>1. s \in Seq(Line) /\ Len(s) \in Nat /\ DOMAIN s = 1..Len(s)
  BY DEF TypeOK
<1>2. s[i] \in Line
  BY <1>1
<1>3. x \in Line /\ x.job = j
  BY <1>2 DEF Line
<1>4. lines' = [lines EXCEPT ![n] = t]
  OBVIOUS
<1> HIDE DEF x, s
<1>5. /\ t \in Seq(Line) /\ DOMAIN t = DOMAIN s /\ Len(t) = Len(s)
      /\ t[i] = x /\ \A k \in DOMAIN s : k # i => t[k] = s[k]
  <2>1. s \in [1..Len(s) -> Line] /\ i \in 1..Len(s)
    BY <1>1 DEF s
  <2>2. t \in [1..Len(s) -> Line] /\ t[i] = x /\ \A k \in DOMAIN s : k # i => t[k] = s[k]
    BY <1>1, <1>3, <2>1
  <2>3. t \in Seq(Line)
    BY <1>1, <2>2
  <2>4. Len(t) = Len(s)
    BY <1>1, <2>2, <2>3
  <2> QED BY <1>1, <2>2, <2>3, <2>4
<1> HIDE DEF t
<1>6. /\ lines' \in [Entries -> Seq(Line)] /\ lines'[n] = t
      /\ \A m \in Entries : m # n => lines'[m] = lines[m]
  BY <1>4, <1>5 DEF TypeOK
<1>7. lines[n] = s
  BY DEF s
<1> QED BY <1>3, <1>5, <1>6, <1>7

LEMMA MarkLineStep ==
  ASSUME IInv, NEW r \in Requests, MarkLine(r)
  PROVE  IInv'
<1> DEFINE q == req[r]
<1>0. q \in Work /\ q.pc = "mark" /\ RequestOK(r) /\ TypeOK /\ q.job \in Jobs
      /\ q.rows \subseteq LineIds /\ q.list \subseteq Entries /\ q.kept \subseteq Entries
  BY WorkTypes DEF IInv, MarkLine, At, RequestOK, ExportOK
<1>a. PICK j \in Jobs : j = q.job
  BY <1>0
<1>1. PICK l \in q.rows :
       LET left == q.rows \ {l}
       IN  /\ lines' = [lines EXCEPT ![l[1]][l[2]].job = q.job]
           /\ Step(r, [q EXCEPT !.rows = left,
                         !.pc = IF left = {} THEN "markEntries" ELSE "mark"])
  BY DEF MarkLine
<1>2. PICK n \in Entries, i \in 1..4 : l = <<n, i>>
  BY <1>0 DEF LineIds
<1> DEFINE left == q.rows \ {l}
           to   == IF left = {} THEN "markEntries" ELSE "mark"
           w    == [q EXCEPT !.rows = left, !.pc = to]
<1>3. i \in DOMAIN lines[n] /\ l \in files[j]
  BY <1>0, <1>a, <1>2 DEF RequestOK, ExportOK, Existing
<1>4. lines' = [lines EXCEPT ![n][i].job = j] /\ Step(r, w)
  BY <1>a, <1>1, <1>2
<1>5. /\ lines' \in [Entries -> Seq(Line)]
      /\ \A m \in Entries : /\ DOMAIN lines'[m] = DOMAIN lines[m]
                            /\ Len(lines'[m]) = Len(lines[m])
      /\ \A m \in Entries : \A k \in DOMAIN lines[m] :
           <<m, k>> # <<n, i>> => lines'[m][k] = lines[m][k]
      /\ lines'[n][i].job = j
  BY <1>0, <1>3, <1>4, LineMarked
<1>6. UNCHANGED <<type, status, fx, meta, cancelled, entries, files, failures>>
  BY DEF MarkLine, events
<1>7. TypeRest'
  BY <1>0, <1>5, <1>6 DEF TypeOK, TypeRest
<1>8. JournalGrows
  BY <1>5, <1>6 DEF JournalGrows, Made, WasPosted
<1>9. JournalOK'
  <2>1. \A m \in Entries : lines[m] = <<>> => lines'[m] = <<>>
    <3> SUFFICES ASSUME NEW m \in Entries, lines[m] = <<>> PROVE lines'[m] = <<>>
      OBVIOUS
    <3>1. lines'[m] \in Seq(Line) /\ Len(lines[m]) = 0
      BY <1>5
    <3> QED BY <1>5, <3>1, NoLines
  <2>2. \A k \in Jobs : \A x \in files[k] : Existing(x)'
    BY <1>0, <1>6, <1>8 DEF IInv, JournalOK, TypeOK, Existing, JournalGrows, LineIds
  <2> QED BY <1>6, <2>1, <2>2 DEF IInv, JournalOK, Made
<1>10. MarksBacked'
  <2> SUFFICES ASSUME NEW m \in Entries
               PROVE  /\ \A k \in DOMAIN lines'[m] : lines'[m][k].job # NoJob =>
                           <<m, k>> \in files[lines'[m][k].job]
                      /\ entries[m].job # NoJob =>
                           \E k \in DOMAIN lines'[m] : <<m, k>> \in files[entries[m].job]
    BY <1>6 DEF MarksBacked
  <2>1. /\ \A k \in DOMAIN lines[m] : lines[m][k].job # NoJob =>
             <<m, k>> \in files[lines[m][k].job]
        /\ entries[m].job # NoJob =>
             \E k \in DOMAIN lines[m] : <<m, k>> \in files[entries[m].job]
    BY DEF IInv, MarksBacked
  <2>2. ASSUME NEW k \in DOMAIN lines'[m], lines'[m][k].job # NoJob
        PROVE  <<m, k>> \in files[lines'[m][k].job]
    <3>1. CASE <<m, k>> = <<n, i>>
      BY <1>2, <1>3, <1>5, <3>1
    <3>2. CASE <<m, k>> # <<n, i>>
      BY <1>5, <2>1, <2>2, <3>2
    <3> QED BY <3>1, <3>2
  <2>3. DOMAIN lines'[m] = DOMAIN lines[m]
    BY <1>5
  <2> QED BY <2>1, <2>2, <2>3
<1>11. EventShowsJournal'
  BY <1>6, <1>8, EventsShown DEF IInv
<1>12. \A p \in Requests : Untouched(p)
  BY <1>5 DEF Untouched, IInv, RequestOK, BuildOK, Writing
<1>13. to \in {"mark", "markEntries"} /\ to \in Phases
  BY DEF Phases
<1> HIDE DEF to
<1>14. w \in Work
  BY <1>0, <1>13 DEF Work
<1>15. /\ w.pc = to /\ w.todo = q.todo /\ w.job = j
       /\ w.list = q.list /\ w.kept = q.kept /\ w.rows \subseteq q.rows
  BY <1>0, <1>a DEF Work
<1> HIDE DEF w
<1>16. req'[r] = w => RequestOK(r)'
  <2> SUFFICES ASSUME req'[r] = w PROVE RequestOK(r)'
    OBVIOUS
  <2>1. BuildOK(r)'
    BY <1>0, <1>13, <1>15 DEF RequestOK, BuildOK
  <2>2. PostOK(r)'
    BY <1>13, <1>15 DEF PostOK
  <2>3. \A x \in q.rows : Existing(x)'
    BY <1>0, <1>8 DEF RequestOK, ExportOK, Existing, JournalGrows, LineIds
  <2>4. ExportOK(r)'
    <3>1. \A m \in q.list \cup q.kept : Made(m)'
      BY <1>0, <1>8 DEF RequestOK, ExportOK, JournalGrows
    <3>2. q.rows \subseteq files[j]
          /\ \A m \in q.kept : \E k \in DOMAIN lines[m] : <<m, k>> \in files[j]
      BY <1>0, <1>a DEF RequestOK, ExportOK
    <3>3. \A m \in q.kept : \E k \in DOMAIN lines'[m] : <<m, k>> \in files'[j]
      BY <1>0, <1>5, <1>6, <3>2
    <3> QED BY <1>6, <1>13, <1>15, <2>3, <3>1, <3>2, <3>3 DEF ExportOK
  <2> QED BY <2>1, <2>2, <2>4 DEF RequestOK
<1>17. w.pc \notin {"lines", "vat"}
  BY <1>13, <1>15
<1> QED BY <1>4, <1>7, <1>8, <1>9, <1>10, <1>11, <1>12, <1>14, <1>16, <1>17, Stepped

LEMMA MarkEntryStep ==
  ASSUME IInv, NEW r \in Requests, MarkEntry(r)
  PROVE  IInv'
<1> DEFINE q == req[r]
<1>0. q \in Work /\ q.pc = "markEntries" /\ RequestOK(r) /\ TypeOK /\ q.job \in Jobs
      /\ q.rows \subseteq LineIds /\ q.list \subseteq Entries /\ q.kept \subseteq Entries
  BY WorkTypes DEF IInv, MarkEntry, At, RequestOK, ExportOK
<1>1. PICK n \in q.kept :
       LET left == q.kept \ {n}
       IN  /\ entries' = [entries EXCEPT ![n].status = "exported", ![n].job = q.job]
           /\ IF left = {} THEN Return(r) ELSE Step(r, [q EXCEPT !.kept = left])
  BY DEF MarkEntry
<1> DEFINE left == q.kept \ {n}
           x == [entries[n] EXCEPT !.status = "exported", !.job = q.job]
           w == [q EXCEPT !.kept = left]
<1>2. n \in Entries /\ Made(n) /\ entries[n] \in Entry
  BY <1>0 DEF RequestOK, ExportOK, TypeOK
<1>3. UNCHANGED <<type, status, fx, meta, cancelled, lines, files, failures>>
  BY DEF MarkEntry, events
<1>4. entries' = [entries EXCEPT ![n] = x]
  BY <1>0, <1>1, <1>2 DEF TypeOK
<1>5. /\ x \in Entry /\ x.status = "exported" /\ x.kind = entries[n].kind
      /\ x.event = entries[n].event /\ x.job = q.job
  BY <1>0, <1>2 DEF Entry
<1>6. x.job # NoJob => \E i \in DOMAIN lines[n] : <<n, i>> \in files[x.job]
  BY <1>0, <1>5 DEF RequestOK, ExportOK
<1> HIDE DEF x
<1>7. /\ entries' \in [Entries -> Entry] /\ entries'[n] = x
      /\ JournalOK' /\ MarksBacked' /\ EventShowsJournal' /\ JournalGrows
      /\ \A p \in Requests : Untouched(p)
  BY <1>2, <1>3, <1>4, <1>5, <1>6, EntryMarked
<1>8. TypeRest'
  BY <1>0, <1>3, <1>7 DEF TypeOK, TypeRest
<1>9. CASE Return(r)
  <2>1. Idle \in Work /\ Step(r, Idle) /\ Idle.pc = "idle"
    BY <1>9, IdleIsWork DEF Return
  <2>2. req'[r] = Idle => RequestOK(r)'
    BY IdleOK
  <2> QED BY <1>7, <1>8, <2>1, <2>2, Stepped
<1>10. CASE Step(r, w)
  <2>1. w \in Work
    BY <1>0 DEF Work
  <2>2. /\ w.pc = "markEntries" /\ w.todo = q.todo /\ w.job = q.job
        /\ w.list = q.list /\ w.kept \subseteq q.kept /\ w.rows = q.rows
    BY <1>0 DEF Work
  <2> HIDE DEF w
  <2>3. req'[r] = w => RequestOK(r)'
    <3> SUFFICES ASSUME req'[r] = w PROVE RequestOK(r)'
      OBVIOUS
    <3>1. BuildOK(r)'
      BY <1>0, <2>2 DEF RequestOK, BuildOK
    <3>2. PostOK(r)'
      BY <2>2 DEF PostOK
    <3>3. \A m \in w.list \cup w.kept : Made(m)'
      BY <1>0, <1>7, <2>2 DEF RequestOK, ExportOK, JournalGrows
    <3>4. ExportOK(r)'
      BY <1>0, <1>3, <2>2, <3>3 DEF RequestOK, ExportOK, Existing
    <3> QED BY <3>1, <3>2, <3>4 DEF RequestOK
  <2> QED BY <1>7, <1>8, <1>10, <2>1, <2>2, <2>3, Stepped
<1> QED BY <1>1, <1>9, <1>10

----------------------------------------------------------------------------
(* Imports and failures.                                                   *)

\* An import writes events; it makes none posted.
LEMMA ImportWrites ==
  ASSUME IInv, UNCHANGED <<entries, lines, files, req, failures>>, TypeRest',
         \A e \in Events : status'[e] = "posted" => status[e] = "posted"
  PROVE  IInv'
<1>1. /\ JournalOK' /\ MarksBacked' /\ JournalGrows
      /\ \A q \in Requests : Untouched(q)
  BY JournalKept
<1>2. EventShowsJournal'
  BY <1>1, EventsShown DEF IInv
<1>3. TypeOK'
  BY DEF IInv, TypeOK, TypeRest
<1>4. \A q \in Requests : RequestOK(q)'
  BY <1>1, OthersKept DEF IInv
<1>5. \A p, q \in Requests : Apart(p, q)'
  BY DEF IInv, Apart, Writing
<1> QED BY <1>1, <1>2, <1>3, <1>4, <1>5 DEF IInv

LEMMA RematchStep ==
  ASSUME IInv, NEW r \in Requests, Rematch(r)
  PROVE  IInv'
<1>1. UNCHANGED <<fx, meta, cancelled, entries, lines, files, req, failures>>
  BY DEF Rematch, journal
<1>2. /\ type' \in [Events -> Types] /\ status' \in [Events -> Statuses]
      /\ \A e \in Events : status'[e] = "posted" => status[e] = "posted"
  BY DEF Rematch, IInv, TypeOK, Types, Statuses
<1>3. TypeRest'
  BY <1>1, <1>2 DEF IInv, TypeOK, TypeRest
<1> QED BY <1>1, <1>2, <1>3, ImportWrites

LEMMA CancelOrderStep ==
  ASSUME IInv, NEW r \in Requests, CancelOrder(r)
  PROVE  IInv'
<1>1. UNCHANGED <<fx, entries, lines, files, req, failures>>
  BY DEF CancelOrder, journal
<1>2. /\ type' \in [Events -> Types] /\ status' \in [Events -> Statuses]
      /\ cancelled' \subseteq Events
      /\ \A e \in Events : status'[e] = "posted" => status[e] = "posted"
  BY DEF CancelOrder, IInv, TypeOK, Types, Statuses
<1>3. meta' \in [Events -> [prov : Eur, trueUp : BOOLEAN]]
  BY DEF CancelOrder, IInv, TypeOK, Eur
<1>4. TypeRest'
  BY <1>1, <1>2, <1>3 DEF IInv, TypeOK, TypeRest
<1> QED BY <1>1, <1>2, <1>4, ImportWrites

LEMMA FailStep ==
  ASSUME IInv, NEW r \in Requests, Fail(r)
  PROVE  IInv'
<1>1. failures' \in 0..MaxFailures
  BY EventsOK DEF IInv, TypeOK, Fail
<1> QED BY <1>1, Returned DEF Fail

----------------------------------------------------------------------------
(* The invariant.                                                          *)

LEMMA InitInvariant == Init => IInv
<1> SUFFICES ASSUME Init PROVE IInv
  OBVIOUS
<1>1. TypeOK
  <2>1. \A n \in Entries : entries[n] \in Entry /\ lines[n] = <<>>
    BY DEF Init, Entry
  <2>2. entries \in [Entries -> Entry] /\ lines \in [Entries -> Seq(Line)]
    BY DEF Init, Entry
  <2>3. \A n \in Entries : Len(lines[n]) <= 4
    BY <2>1
  <2>4. req \in [Requests -> Work]
    BY IdleIsWork DEF Init
  <2>5. meta \in [Events -> [prov : Eur, trueUp : BOOLEAN]]
    BY DEF Init, Eur
  <2>6. files \in [Jobs -> SUBSET LineIds] /\ failures \in 0..MaxFailures
    BY EventsOK DEF Init
  <2>7. type \in [Events -> Types] /\ fx \in [Events -> Fx] /\ cancelled \subseteq Events
        /\ status \in [Events -> Statuses]
    BY EventsOK DEF Init
  <2> QED BY <2>2, <2>3, <2>4, <2>5, <2>6, <2>7 DEF TypeOK
<1>2. JournalOK
  BY DEF Init, JournalOK, Made
<1>3. MarksBacked
  BY DEF Init, MarksBacked
<1>4. EventShowsJournal
  BY DEF Init, EventShowsJournal, FirstStatus
<1>5. ASSUME NEW r \in Requests PROVE RequestOK(r)
  <2>1. req[r] = Idle
    BY DEF Init
  <2>2. DOMAIN <<>> = {}
    OBVIOUS
  <2>3. BuildOK(r)
    BY <2>1, <2>2, IdleIsWork DEF BuildOK
  <2>4. PostOK(r)
    BY <2>1, IdleIsWork DEF PostOK
  <2>5. ExportOK(r)
    BY <2>1, IdleIsWork DEF ExportOK
  <2> QED BY <2>3, <2>4, <2>5 DEF RequestOK
<1>6. \A q, r \in Requests : Apart(q, r)
  BY IdleIsWork DEF Init, Apart, Writing
<1> QED BY <1>1, <1>2, <1>3, <1>4, <1>5, <1>6 DEF IInv

LEMMA NextInvariant == IInv /\ [Next]_vars => IInv'
<1> SUFFICES ASSUME IInv, [Next]_vars PROVE IInv'
  OBVIOUS
<1>1. ASSUME NEW r \in Requests, Build(r) PROVE IInv'
  BY <1>1, StartBuildStep, FindEntryStep, CreateEntryStep, AddLineStep, ReadVatStep,
     LinkEventStep DEF Build
<1>2. ASSUME NEW r \in Requests, Post(r) PROVE IInv'
  BY <1>2, StartPostStep, CheckBalanceStep, PostEntryStep, PostEventStep DEF Post
<1>3. ASSUME NEW r \in Requests, TrueUp(r) PROVE IInv'
  BY <1>3, StartTrueUpStep, FindPostedStep, CreateTrueUpStep, TrueUpEventStep DEF TrueUp
<1>4. ASSUME NEW r \in Requests, Export(r) PROVE IInv'
  BY <1>4, StartExportStep, GatherEntryStep, CreateJobStep, MarkLineStep, MarkEntryStep
     DEF Export
<1>5. ASSUME NEW r \in Requests, Rematch(r) \/ CancelOrder(r) \/ Fail(r) PROVE IInv'
  BY <1>5, RematchStep, CancelOrderStep, FailStep
<1>6. CASE UNCHANGED vars
  <2>1. UNCHANGED <<type, status, fx, meta, cancelled, entries, lines, files, req, failures>>
    BY <1>6 DEF vars, events, journal
  <2>2. TypeRest'
    BY <2>1 DEF IInv, TypeOK, TypeRest
  <2> QED BY <2>1, <2>2, ImportWrites
<1> QED BY <1>1, <1>2, <1>3, <1>4, <1>5, <1>6 DEF Next

\* The invariant of the journal, however builds, postings, true-ups, exports
\* and imports overlap and fail.
THEOREM Invariance == Spec => []IInv
BY InitInvariant, NextInvariant, PTL DEF Spec

\* Every variable keeps its type; no entry gets more than four lines.
THEOREM TypeCorrect == Spec => []TypeOK
<1>1. IInv => TypeOK
  BY DEF IInv
<1> QED BY <1>1, Invariance, PTL

\* AccrualDatevExportService.create marks no line that is not in the file of
\* that job, and no entry without a line there, however exports overlap.
THEOREM MarkedIsInFile == Spec => []MarksBacked
<1>1. IInv => MarksBacked
  BY DEF IInv
<1> QED BY <1>1, Invariance, PTL

\* An event that says posted has a booking that was posted, also when
\* requests overlap and fail.
THEOREM PostedIsBooked == Spec => []EventShowsJournal
<1>1. IInv => EventShowsJournal
  BY DEF IInv
<1> QED BY <1>1, Invariance, PTL

----------------------------------------------------------------------------
(* One request at a time: what it leaves for the next.                     *)

Serial == \E r : Requests = {r}

\* An event is looked up and booked by one request, so it has one booking.
BookedOnce ==
  /\ \A m, n \in Entries :
       (/\ Made(m) /\ Made(n) /\ entries[m].event = entries[n].event
        /\ entries[m].kind = "base" /\ entries[n].kind = "base") => m = n
  /\ \A r \in Requests : req[r].pc = "create" => OfEvent(req[r].event) = {}

\* Nothing failed: a true-up is recorded in the event, or is about to be.
Recording(e) == \E r \in Requests :
  /\ req[r].event = e
  /\ req[r].pc = "trueUpEvent" \/ (req[r].pc = "lines" /\ req[r].then = "trueUpEvent")

TruedUpOnce ==
  /\ \A r \in Requests : req[r].pc \in {"trueUp", "trueUpCreate"} =>
       /\ req[r].event \in Events
       /\ ~meta[req[r].event].trueUp
  /\ failures = 0 =>
       \A e \in Events : type[e] # "CANCELLATION" =>
         /\ \A m, n \in OfEvent(e) :
              (entries[m].kind = "trueUp" /\ entries[n].kind = "trueUp") => m = n
         /\ (\E n \in OfEvent(e) : entries[n].kind = "trueUp") =>
              meta[e].trueUp \/ Recording(e)

\* What a step writes besides its request.
Calm == UNCHANGED <<entries, lines, files>>

Creates(n, x) ==
  /\ ~Made(n) /\ entries' = [entries EXCEPT ![n] = x]
  /\ UNCHANGED <<lines, files>>

\* The fields a step does not assign.
Carried(r) == /\ req'[r].event = req[r].event
              /\ req'[r].list = req[r].list /\ req'[r].kept = req[r].kept
              /\ req'[r].rows = req[r].rows /\ req'[r].job = req[r].job

\* An idle request has nothing to export.
Begun(r) == req[r].pc = "idle" /\ req'[r].list = {} /\ req'[r].kept = {}
            /\ req'[r].rows = {}

LEMMA Went ==
  ASSUME TypeOK, NEW r \in Requests, NEW w, Step(r, w)
  PROVE  req'[r] = w
BY DEF TypeOK, Step

LEMMA Came ==
  ASSUME TypeOK, NEW r \in Requests, Return(r)
  PROVE  req'[r].pc = "idle" /\ req'[r].list = {} /\ req'[r].kept = {}
         /\ req'[r].rows = {}
BY Went, IdleIsWork DEF Return

\* The phases of the builder.
LEMMA BuildFlow ==
  ASSUME IInv, NEW r \in Requests
  PROVE  /\ StartBuild(r) => Calm /\ Begun(r) /\ req'[r].pc = "find"
         /\ FindEntry(r) => /\ Calm /\ req[r].pc = "find"
                            /\ \/ Return(r)
                               \/ /\ Carried(r) /\ req'[r].pc = "create"
                                  /\ OfEvent(req[r].event) = {}
         /\ CreateEntry(r) =>
              /\ req[r].pc = "create" /\ req'[r].pc = "lines" /\ Carried(r)
              /\ req'[r].then = req[r].then
              /\ \E n \in Entries :
                   /\ Creates(n, [event |-> req[r].event, kind |-> "base",
                                  status |-> "draft", job |-> NoJob])
                   /\ req'[r].entry = n
         /\ AddLine(r) =>
              /\ req[r].pc = "lines" /\ req'[r].pc \in {"lines", req[r].then}
              /\ Carried(r) /\ req'[r].then = req[r].then
              /\ req'[r].entry = req[r].entry
         /\ ReadVat(r) =>
              /\ Calm /\ req[r].pc = "vat" /\ req'[r].pc \in {"lines", "link"}
              /\ Carried(r) /\ req'[r].then = "link"
              /\ req'[r].entry = req[r].entry
         /\ LinkEvent(r) => Calm /\ req[r].pc = "link" /\ Return(r)
<1>0. TypeOK /\ req[r] \in Work
  BY WorkTypes DEF IInv
<1>1. StartBuild(r) => Calm /\ Begun(r) /\ req'[r].pc = "find"
  <2> SUFFICES ASSUME StartBuild(r) PROVE Begun(r) /\ req'[r].pc = "find"
    BY DEF StartBuild, Calm, journal
  <2>1. PICK e, ls, th :
          Step(r, [Idle EXCEPT !.pc = "find", !.event = e, !.todo = ls, !.then = th])
    BY DEF StartBuild
  <2>2. req'[r] = [Idle EXCEPT !.pc = "find", !.event = e, !.todo = ls, !.then = th]
    BY <1>0, <2>1, Went
  <2> QED BY <2>2 DEF Idle, Begun, StartBuild, At
<1>2. FindEntry(r) => /\ Calm /\ req[r].pc = "find"
                      /\ \/ Return(r)
                         \/ /\ Carried(r) /\ req'[r].pc = "create"
                            /\ OfEvent(req[r].event) = {}
  <2>1. Step(r, [req[r] EXCEPT !.pc = "create"]) => Carried(r) /\ req'[r].pc = "create"
    BY <1>0, Went DEF Work, Carried
  <2> QED BY <2>1 DEF FindEntry, Calm, journal, At
<1>3. CreateEntry(r) =>
        /\ req[r].pc = "create" /\ req'[r].pc = "lines" /\ Carried(r)
        /\ req'[r].then = req[r].then
        /\ \E n \in Entries :
             /\ Creates(n, [event |-> req[r].event, kind |-> "base",
                            status |-> "draft", job |-> NoJob])
             /\ req'[r].entry = n
  <2> SUFFICES ASSUME CreateEntry(r)
               PROVE  /\ req'[r].pc = "lines" /\ Carried(r)
                      /\ req'[r].then = req[r].then
                      /\ \E n \in Entries :
                           /\ Creates(n, [event |-> req[r].event, kind |-> "base",
                                          status |-> "draft", job |-> NoJob])
                           /\ req'[r].entry = n
    BY DEF CreateEntry, At
  <2>1. PICK n \in Entries :
          /\ Fresh(n)
          /\ entries' = [entries EXCEPT ![n] =
               [event |-> req[r].event, kind |-> "base", status |-> "draft", job |-> NoJob]]
          /\ Step(r, [req[r] EXCEPT !.pc = "lines", !.entry = n])
    BY DEF CreateEntry
  <2>2. req'[r] = [req[r] EXCEPT !.pc = "lines", !.entry = n]
    BY <1>0, <2>1, Went
  <2>3. /\ req'[r].pc = "lines" /\ req'[r].entry = n /\ Carried(r)
        /\ req'[r].then = req[r].then
    BY <1>0, <2>2 DEF Work, Carried
  <2> QED BY <2>1, <2>3 DEF Creates, Fresh, Made, CreateEntry
<1>4. AddLine(r) =>
        /\ req[r].pc = "lines" /\ req'[r].pc \in {"lines", req[r].then}
        /\ Carried(r) /\ req'[r].then = req[r].then
        /\ req'[r].entry = req[r].entry
  <2> SUFFICES ASSUME AddLine(r)
               PROVE  /\ req'[r].pc \in {"lines", req[r].then}
                      /\ Carried(r) /\ req'[r].then = req[r].then
                      /\ req'[r].entry = req[r].entry
    BY DEF AddLine, At
  <2>1. PICK rest, to : /\ Step(r, [req[r] EXCEPT !.todo = rest, !.pc = to])
                        /\ to \in {"lines", req[r].then}
    BY DEF AddLine
  <2>2. req'[r] = [req[r] EXCEPT !.todo = rest, !.pc = to]
    BY <1>0, <2>1, Went
  <2> QED BY <1>0, <2>1, <2>2 DEF Work, Carried
<1>5. ReadVat(r) =>
        /\ Calm /\ req[r].pc = "vat" /\ req'[r].pc \in {"lines", "link"}
        /\ Carried(r) /\ req'[r].then = "link"
        /\ req'[r].entry = req[r].entry
  <2> SUFFICES ASSUME ReadVat(r)
               PROVE  /\ req'[r].pc \in {"lines", "link"}
                      /\ Carried(r) /\ req'[r].then = "link"
                      /\ req'[r].entry = req[r].entry
    BY DEF ReadVat, At, Calm, journal
  <2>1. PICK extra, to : /\ Step(r, [req[r] EXCEPT !.todo = extra, !.then = "link", !.pc = to])
                         /\ to \in {"lines", "link"}
    BY DEF ReadVat
  <2>2. req'[r] = [req[r] EXCEPT !.todo = extra, !.then = "link", !.pc = to]
    BY <1>0, <2>1, Went
  <2> QED BY <1>0, <2>1, <2>2 DEF Work, Carried
<1>6. LinkEvent(r) => Calm /\ req[r].pc = "link" /\ Return(r)
  BY DEF LinkEvent, Calm, At, journal
<1> QED BY <1>1, <1>2, <1>3, <1>4, <1>5, <1>6

\* The phases of a posting.
LEMMA PostFlow ==
  ASSUME IInv, NEW r \in Requests
  PROVE  /\ StartPost(r) =>
              /\ Calm /\ Begun(r) /\ req'[r].pc = "post"
              /\ entries[req'[r].entry].status = "draft"
         /\ CheckBalance(r) =>
              /\ Calm /\ req[r].pc = "post"
              /\ \/ Return(r)
                 \/ /\ Carried(r) /\ req'[r].pc = "posting"
                    /\ req'[r].entry = req[r].entry
         /\ PostEntry(r) =>
              /\ req[r].pc = "posting" /\ req'[r].pc = "postEvent" /\ Carried(r)
         /\ PostEvent(r) => Calm /\ req[r].pc = "postEvent" /\ Return(r)
<1>0. TypeOK /\ req[r] \in Work
  BY WorkTypes DEF IInv
<1>1. StartPost(r) => /\ Calm /\ Begun(r) /\ req'[r].pc = "post"
                      /\ entries[req'[r].entry].status = "draft"
  <2> SUFFICES ASSUME StartPost(r)
               PROVE  /\ Begun(r) /\ req'[r].pc = "post"
                      /\ entries[req'[r].entry].status = "draft"
    BY DEF StartPost, Calm, journal
  <2>1. PICK n \in Entries : /\ entries[n].status = "draft"
                             /\ Step(r, [Idle EXCEPT !.pc = "post", !.entry = n])
    BY DEF StartPost
  <2>2. req'[r] = [Idle EXCEPT !.pc = "post", !.entry = n]
    BY <1>0, <2>1, Went
  <2> QED BY <2>1, <2>2 DEF Idle, Begun, StartPost, At
<1>2. CheckBalance(r) => /\ Calm /\ req[r].pc = "post"
                         /\ \/ Return(r)
                            \/ /\ Carried(r) /\ req'[r].pc = "posting"
                               /\ req'[r].entry = req[r].entry
  <2>1. Step(r, [req[r] EXCEPT !.pc = "posting"]) =>
          /\ Carried(r) /\ req'[r].pc = "posting" /\ req'[r].entry = req[r].entry
    BY <1>0, Went DEF Work, Carried
  <2> QED BY <2>1 DEF CheckBalance, Calm, journal, At
<1>3. PostEntry(r) => /\ req[r].pc = "posting" /\ req'[r].pc = "postEvent" /\ Carried(r)
  <2>1. Step(r, [req[r] EXCEPT !.pc = "postEvent"]) =>
          /\ Carried(r) /\ req'[r].pc = "postEvent"
    BY <1>0, Went DEF Work, Carried
  <2> QED BY <2>1 DEF PostEntry, At
<1>4. PostEvent(r) => Calm /\ req[r].pc = "postEvent" /\ Return(r)
  BY DEF PostEvent, Calm, At, journal
<1> QED BY <1>1, <1>2, <1>3, <1>4

\* The phases of a true-up.
LEMMA TrueUpFlow ==
  ASSUME IInv, NEW r \in Requests
  PROVE  /\ StartTrueUp(r) =>
              /\ Calm /\ Begun(r) /\ req'[r].pc = "trueUp"
              /\ req'[r].event \in Events /\ ~meta[req'[r].event].trueUp
         /\ FindPosted(r) =>
              /\ Calm /\ req[r].pc = "trueUp"
              /\ Return(r) \/ (Carried(r) /\ req'[r].pc = "trueUpCreate")
         /\ CreateTrueUp(r) =>
              /\ req[r].pc = "trueUpCreate" /\ req'[r].pc = "lines" /\ Carried(r)
              /\ req'[r].then = "trueUpEvent"
              /\ \E n \in Entries :
                   /\ Creates(n, [event |-> req[r].event, kind |-> "trueUp",
                                  status |-> "posted", job |-> NoJob])
                   /\ req'[r].entry = n
         /\ TrueUpEvent(r) => Calm /\ req[r].pc = "trueUpEvent" /\ Return(r)
<1>0. TypeOK /\ req[r] \in Work
  BY WorkTypes DEF IInv
<1>1. StartTrueUp(r) => /\ Calm /\ Begun(r) /\ req'[r].pc = "trueUp"
                        /\ req'[r].event \in Events /\ ~meta[req'[r].event].trueUp
  <2> SUFFICES ASSUME StartTrueUp(r)
               PROVE  /\ Begun(r) /\ req'[r].pc = "trueUp"
                      /\ req'[r].event \in Events /\ ~meta[req'[r].event].trueUp
    BY DEF StartTrueUp, Calm, journal
  <2>1. PICK e \in Events :
          /\ ~meta[e].trueUp
          /\ Step(r, [Idle EXCEPT !.pc = "trueUp", !.event = e, !.fx = fx[e],
                                  !.prov = meta[e].prov])
    BY DEF StartTrueUp
  <2>2. req'[r] = [Idle EXCEPT !.pc = "trueUp", !.event = e, !.fx = fx[e],
                               !.prov = meta[e].prov]
    BY <1>0, <2>1, Went
  <2>3. /\ req'[r].pc = "trueUp" /\ req'[r].event = e /\ req'[r].list = {}
        /\ req'[r].kept = {} /\ req'[r].rows = {}
    BY <2>2 DEF Idle
  <2> QED BY <2>1, <2>3 DEF Begun, StartTrueUp, At
<1>2. FindPosted(r) => /\ Calm /\ req[r].pc = "trueUp"
                       /\ Return(r) \/ (Carried(r) /\ req'[r].pc = "trueUpCreate")
  <2> SUFFICES ASSUME FindPosted(r)
               PROVE  Return(r) \/ (Carried(r) /\ req'[r].pc = "trueUpCreate")
    BY DEF FindPosted, Calm, journal, At
  <2>1. CASE Return(r)
    BY <2>1
  <2>2. ASSUME NEW n, NEW p,
               Step(r, [req[r] EXCEPT !.pc = "trueUpCreate", !.fx.eur = n, !.prov = p])
        PROVE  Carried(r) /\ req'[r].pc = "trueUpCreate"
    <3>1. req'[r] = [req[r] EXCEPT !.pc = "trueUpCreate", !.fx.eur = n, !.prov = p]
      BY <1>0, <2>2, Went
    <3> QED BY <1>0, <3>1 DEF Work, Carried
  <2> QED BY <2>1, <2>2 DEF FindPosted
<1>3. CreateTrueUp(r) =>
        /\ req[r].pc = "trueUpCreate" /\ req'[r].pc = "lines" /\ Carried(r)
        /\ req'[r].then = "trueUpEvent"
        /\ \E n \in Entries :
             /\ Creates(n, [event |-> req[r].event, kind |-> "trueUp",
                            status |-> "posted", job |-> NoJob])
             /\ req'[r].entry = n
  <2> SUFFICES ASSUME CreateTrueUp(r)
               PROVE  /\ req'[r].pc = "lines" /\ Carried(r)
                      /\ req'[r].then = "trueUpEvent"
                      /\ \E n \in Entries :
                           /\ Creates(n, [event |-> req[r].event, kind |-> "trueUp",
                                          status |-> "posted", job |-> NoJob])
                           /\ req'[r].entry = n
    BY DEF CreateTrueUp, At
  <2>1. PICK n, ls :
          /\ n \in Entries /\ Fresh(n)
          /\ entries' = [entries EXCEPT ![n] =
               [event |-> req[r].event, kind |-> "trueUp", status |-> "posted", job |-> NoJob]]
          /\ Step(r, [req[r] EXCEPT !.pc = "lines", !.then = "trueUpEvent",
                                    !.entry = n, !.todo = ls])
    BY DEF CreateTrueUp
  <2>2. req'[r] = [req[r] EXCEPT !.pc = "lines", !.then = "trueUpEvent",
                                 !.entry = n, !.todo = ls]
    BY <1>0, <2>1, Went
  <2>3. /\ req'[r].pc = "lines" /\ req'[r].entry = n /\ Carried(r)
        /\ req'[r].then = "trueUpEvent"
    BY <1>0, <2>2 DEF Work, Carried
  <2> QED BY <2>1, <2>3 DEF Creates, Fresh, Made, CreateTrueUp
<1>4. TrueUpEvent(r) => Calm /\ req[r].pc = "trueUpEvent" /\ Return(r)
  BY DEF TrueUpEvent, Calm, At, journal
<1> QED BY <1>1, <1>2, <1>3, <1>4

\* The phases of an export.
LEMMA ExportFlow ==
  ASSUME IInv, NEW r \in Requests
  PROVE  /\ StartExport(r) =>
              /\ Calm /\ req[r].pc = "idle" /\ req'[r].pc = "gather"
              /\ req'[r].kept = {} /\ req'[r].rows = {}
              /\ req'[r].list \subseteq Entries
              /\ \A n \in req'[r].list : entries[n].status = "posted"
         /\ GatherEntry(r) =>
              /\ Calm /\ req[r].pc = "gather"
              /\ \/ Return(r)
                 \/ \E n \in req[r].list :
                      /\ req'[r].list = req[r].list \ {n}
                      /\ req'[r].rows = req[r].rows \cup Unexported(n)
                      /\ req'[r].kept = IF Unexported(n) = {} THEN req[r].kept
                                        ELSE req[r].kept \cup {n}
                      /\ req'[r].pc = IF req'[r].list = {} THEN "job" ELSE "gather"
         /\ CreateJob(r) =>
              /\ UNCHANGED <<entries, lines>> /\ req[r].pc = "job"
              /\ \/ Return(r) /\ UNCHANGED files
                 \/ \E j \in Jobs :
                      /\ files[j] = {} /\ files' = [files EXCEPT ![j] = req[r].rows]
                      /\ req'[r].pc = "mark" /\ req'[r].job = j
                      /\ req'[r].list = req[r].list /\ req'[r].kept = req[r].kept
                      /\ req'[r].rows = req[r].rows
         /\ MarkLine(r) =>
              /\ UNCHANGED <<entries, files>> /\ req[r].pc = "mark"
              /\ \E l \in req[r].rows :
                   /\ lines' = [lines EXCEPT ![l[1]][l[2]].job = req[r].job]
                   /\ req'[r].rows = req[r].rows \ {l}
                   /\ req'[r].pc = IF req'[r].rows = {} THEN "markEntries" ELSE "mark"
                   /\ req'[r].list = req[r].list /\ req'[r].kept = req[r].kept
                   /\ req'[r].job = req[r].job
         /\ MarkEntry(r) =>
              /\ UNCHANGED <<lines, files>> /\ req[r].pc = "markEntries"
              /\ \E n \in req[r].kept :
                   /\ entries' = [entries EXCEPT ![n].status = "exported",
                                                 ![n].job = req[r].job]
                   /\ \/ Return(r) /\ req[r].kept = {n}
                      \/ /\ req'[r].kept = req[r].kept \ {n}
                         /\ req'[r].pc = "markEntries"
                         /\ req'[r].list = req[r].list /\ req'[r].rows = req[r].rows
                         /\ req'[r].job = req[r].job
<1>0. TypeOK /\ req[r] \in Work
  BY WorkTypes DEF IInv
<1>1. ASSUME StartExport(r)
      PROVE  /\ Calm /\ req[r].pc = "idle" /\ req'[r].pc = "gather"
             /\ req'[r].kept = {} /\ req'[r].rows = {}
             /\ req'[r].list \subseteq Entries
             /\ \A n \in req'[r].list : entries[n].status = "posted"
  <2>1. PICK p \in Periods :
          Step(r, [Idle EXCEPT !.pc = "gather",
                     !.list = {n \in InPeriod(p) : entries[n].status = "posted"}])
    BY <1>1 DEF StartExport
  <2> DEFINE list == {n \in InPeriod(p) : entries[n].status = "posted"}
  <2>2. req'[r] = [Idle EXCEPT !.pc = "gather", !.list = list]
    BY <1>0, <2>1, Went
  <2>3. list \subseteq Entries /\ \A n \in list : entries[n].status = "posted"
    BY DEF InPeriod
  <2> HIDE DEF list
  <2>4. /\ req'[r].pc = "gather" /\ req'[r].list = list
        /\ req'[r].kept = {} /\ req'[r].rows = {}
    BY <2>2 DEF Idle
  <2> QED BY <1>1, <2>3, <2>4 DEF StartExport, Calm, At, journal
<1>2. ASSUME GatherEntry(r)
      PROVE  /\ Calm /\ req[r].pc = "gather"
             /\ \/ Return(r)
                \/ \E n \in req[r].list :
                     /\ req'[r].list = req[r].list \ {n}
                     /\ req'[r].rows = req[r].rows \cup Unexported(n)
                     /\ req'[r].kept = IF Unexported(n) = {} THEN req[r].kept
                                       ELSE req[r].kept \cup {n}
                     /\ req'[r].pc = IF req'[r].list = {} THEN "job" ELSE "gather"
  <2>1. PICK n \in req[r].list :
         LET rows == req[r].rows \cup Unexported(n)
             left == req[r].list \ {n}
             kept == IF Unexported(n) = {} THEN req[r].kept ELSE req[r].kept \cup {n}
         IN  IF left = {} /\ rows = {}
             THEN Return(r)
             ELSE Step(r, [req[r] EXCEPT !.list = left, !.rows = rows, !.kept = kept,
                             !.pc = IF left = {} THEN "job" ELSE "gather"])
    BY <1>2 DEF GatherEntry
  <2> DEFINE rows == req[r].rows \cup Unexported(n)
             left == req[r].list \ {n}
             kept == IF Unexported(n) = {} THEN req[r].kept ELSE req[r].kept \cup {n}
             to   == IF left = {} THEN "job" ELSE "gather"
             w    == [req[r] EXCEPT !.list = left, !.rows = rows, !.kept = kept, !.pc = to]
  <2>2. Return(r) \/ Step(r, w)
    BY <2>1
  <2>3. to = IF left = {} THEN "job" ELSE "gather"
    OBVIOUS
  <2>4. /\ w.list = left /\ w.rows = rows /\ w.kept = kept /\ w.pc = to
    <3> HIDE DEF rows, left, kept, to
    <3> QED BY <1>0 DEF Work
  <2>5. Step(r, w) => req'[r] = w
    <3> HIDE DEF w
    <3> QED BY <1>0, Went
  <2> HIDE DEF w, to
  <2> QED BY <1>2, <2>2, <2>3, <2>4, <2>5 DEF GatherEntry, Calm, At, journal
<1>3. ASSUME CreateJob(r)
      PROVE  /\ UNCHANGED <<entries, lines>> /\ req[r].pc = "job"
             /\ \/ Return(r) /\ UNCHANGED files
                \/ \E j \in Jobs :
                     /\ files[j] = {} /\ files' = [files EXCEPT ![j] = req[r].rows]
                     /\ req'[r].pc = "mark" /\ req'[r].job = j
                     /\ req'[r].list = req[r].list /\ req'[r].kept = req[r].kept
                     /\ req'[r].rows = req[r].rows
  <2>1. ASSUME NEW j \in Jobs, Step(r, [req[r] EXCEPT !.pc = "mark", !.job = j])
        PROVE  /\ req'[r].pc = "mark" /\ req'[r].job = j
               /\ req'[r].list = req[r].list /\ req'[r].kept = req[r].kept
               /\ req'[r].rows = req[r].rows
    <3>1. req'[r] = [req[r] EXCEPT !.pc = "mark", !.job = j]
      BY <1>0, <2>1, Went
    <3> QED BY <1>0, <3>1 DEF Work
  <2> QED BY <1>3, <2>1 DEF CreateJob, At, journal
<1>4. ASSUME MarkLine(r)
      PROVE  /\ UNCHANGED <<entries, files>> /\ req[r].pc = "mark"
             /\ \E l \in req[r].rows :
                  /\ lines' = [lines EXCEPT ![l[1]][l[2]].job = req[r].job]
                  /\ req'[r].rows = req[r].rows \ {l}
                  /\ req'[r].pc = IF req'[r].rows = {} THEN "markEntries" ELSE "mark"
                  /\ req'[r].list = req[r].list /\ req'[r].kept = req[r].kept
                  /\ req'[r].job = req[r].job
  <2>1. PICK l \in req[r].rows :
         LET left == req[r].rows \ {l}
         IN  /\ lines' = [lines EXCEPT ![l[1]][l[2]].job = req[r].job]
             /\ Step(r, [req[r] EXCEPT !.rows = left,
                           !.pc = IF left = {} THEN "markEntries" ELSE "mark"])
    BY <1>4 DEF MarkLine
  <2> DEFINE left == req[r].rows \ {l}
             to   == IF left = {} THEN "markEntries" ELSE "mark"
             w    == [req[r] EXCEPT !.rows = left, !.pc = to]
  <2>2. req'[r] = w
    BY <1>0, <2>1, Went
  <2>3. /\ w.rows = left /\ w.pc = to /\ w.list = req[r].list
        /\ w.kept = req[r].kept /\ w.job = req[r].job
    <3> HIDE DEF left, to
    <3> QED BY <1>0 DEF Work
  <2>4. to = IF left = {} THEN "markEntries" ELSE "mark"
    OBVIOUS
  <2> HIDE DEF w, to
  <2> QED BY <1>4, <2>1, <2>2, <2>3, <2>4 DEF MarkLine, At
<1>5. ASSUME MarkEntry(r)
      PROVE  /\ UNCHANGED <<lines, files>> /\ req[r].pc = "markEntries"
             /\ \E n \in req[r].kept :
                  /\ entries' = [entries EXCEPT ![n].status = "exported",
                                                ![n].job = req[r].job]
                  /\ \/ Return(r) /\ req[r].kept = {n}
                     \/ /\ req'[r].kept = req[r].kept \ {n}
                        /\ req'[r].pc = "markEntries"
                        /\ req'[r].list = req[r].list /\ req'[r].rows = req[r].rows
                        /\ req'[r].job = req[r].job
  <2>1. PICK n \in req[r].kept :
         LET left == req[r].kept \ {n}
         IN  /\ entries' = [entries EXCEPT ![n].status = "exported", ![n].job = req[r].job]
             /\ IF left = {} THEN Return(r) ELSE Step(r, [req[r] EXCEPT !.kept = left])
    BY <1>5 DEF MarkEntry
  <2> DEFINE left == req[r].kept \ {n}
             w    == [req[r] EXCEPT !.kept = left]
  <2>2. CASE left = {}
    BY <1>5, <2>1, <2>2 DEF MarkEntry, At
  <2>3. CASE left # {}
    <3>1. req'[r] = w
      BY <1>0, <2>1, <2>3, Went
    <3>2. /\ w.kept = left /\ w.pc = req[r].pc /\ w.list = req[r].list
          /\ w.rows = req[r].rows /\ w.job = req[r].job
      <4> HIDE DEF left
      <4> QED BY <1>0 DEF Work
    <3> HIDE DEF w
    <3> QED BY <1>5, <2>1, <3>1, <3>2 DEF MarkEntry, At
  <2> QED BY <2>2, <2>3
<1> QED BY <1>1, <1>2, <1>3, <1>4, <1>5

----------------------------------------------------------------------------
(* One booking, and while nothing fails one true-up, for each event.       *)

\* No entry comes, goes, or changes its event or kind.
KindsKept == \A n \in Entries : /\ Made(n)' <=> Made(n)
                                /\ entries'[n].event = entries[n].event
                                /\ entries'[n].kind = entries[n].kind

LEMMA KindsKeptBy ==
  ASSUME IInv, NEW r \in Requests,
         \/ UNCHANGED entries
         \/ StartBuild(r) \/ FindEntry(r) \/ AddLine(r) \/ ReadVat(r) \/ LinkEvent(r)
         \/ Post(r)
         \/ StartTrueUp(r) \/ FindPosted(r) \/ TrueUpEvent(r)
         \/ Export(r)
  PROVE  KindsKept
<1>0. TypeOK
  BY DEF IInv
<1>1. CASE UNCHANGED entries
  BY <1>1 DEF KindsKept, Made
<1>2. CASE PostEntry(r)
  <2>1. PICK n \in Entries : n = req[r].entry /\ Made(n)
    BY <1>2 DEF IInv, RequestOK, PostOK, PostEntry, At
  <2>2. entries' = [entries EXCEPT ![n].status = "posted"]
    BY <1>2, <2>1 DEF PostEntry
  <2>3. entries[n] \in Entry
    BY <1>0 DEF TypeOK
  <2> QED BY <1>0, <2>1, <2>2, <2>3 DEF KindsKept, Made, TypeOK, Entry
<1>3. CASE MarkEntry(r)
  <2>1. PICK n \in req[r].kept :
          entries' = [entries EXCEPT ![n].status = "exported", ![n].job = req[r].job]
    BY <1>3, ExportFlow
  <2>2. n \in Entries /\ Made(n) /\ entries[n] \in Entry
    BY <1>0, WorkTypes DEF IInv, RequestOK, ExportOK, TypeOK
  <2> DEFINE x == [entries[n] EXCEPT !.status = "exported", !.job = req[r].job]
  <2>3. entries' = [entries EXCEPT ![n] = x]
    BY <1>0, <2>1, <2>2 DEF TypeOK
  <2>4. x.status = "exported" /\ x.event = entries[n].event /\ x.kind = entries[n].kind
    BY <2>2 DEF Entry
  <2> HIDE DEF x
  <2>5. /\ entries'[n] = x
        /\ \A m \in Entries : m # n => entries'[m] = entries[m]
    BY <1>0, <2>2, <2>3 DEF TypeOK
  <2> QED BY <2>2, <2>4, <2>5 DEF KindsKept, Made
<1>4. CASE ~PostEntry(r) /\ ~MarkEntry(r) /\ ~UNCHANGED entries
  <2>1. UNCHANGED entries
    BY <1>4 DEF StartBuild, FindEntry, AddLine, ReadVat, LinkEvent, Post, StartPost,
                CheckBalance, PostEvent, StartTrueUp, FindPosted, TrueUpEvent,
                Export, StartExport, GatherEntry, CreateJob, MarkLine, journal
  <2> QED BY <1>4, <2>1
<1> QED BY <1>1, <1>2, <1>3, <1>4

\* A new entry.
LEMMA Created ==
  ASSUME TypeOK, NEW n \in Entries, NEW x, Creates(n, x)
  PROVE  /\ entries'[n] = x /\ ~Made(n)
         /\ \A m \in Entries : m # n => entries'[m] = entries[m]
         /\ UNCHANGED <<lines, files>>
BY DEF TypeOK, Creates

LEMMA BookedOnceKept ==
  ASSUME Serial, IInv, BookedOnce, NEW r \in Requests, KindsKept,
         req'[r].pc # "create" \/ OfEvent(req'[r].event) = {}
  PROVE  BookedOnce'
<1>1. \A e : OfEvent(e)' = OfEvent(e)
  BY DEF KindsKept, OfEvent, Made
<1> QED BY <1>1 DEF BookedOnce, KindsKept, Serial

LEMMA BookedOnceStep ==
  ASSUME Serial, IInv, BookedOnce, [Next]_vars
  PROVE  BookedOnce'
<1>0. TypeOK
  BY DEF IInv
<1>1. CASE UNCHANGED vars
  BY <1>1 DEF vars, journal, BookedOnce, Made, OfEvent
<1>2. ASSUME NEW r \in Requests, CreateEntry(r) PROVE BookedOnce'
  <2>1. /\ req[r].pc = "create" /\ req'[r].pc = "lines"
        /\ \E n \in Entries :
             /\ Creates(n, [event |-> req[r].event, kind |-> "base",
                            status |-> "draft", job |-> NoJob])
             /\ req'[r].entry = n
    BY <1>2, BuildFlow
  <2>2. PICK n \in Entries : Creates(n, [event |-> req[r].event, kind |-> "base",
                                         status |-> "draft", job |-> NoJob])
    BY <2>1
  <2>3. /\ entries'[n].event = req[r].event /\ ~Made(n)
        /\ \A m \in Entries : m # n => entries'[m] = entries[m]
    BY <1>0, <2>2, Created
  <2>4. \A m \in Entries : Made(m) => entries[m].event # req[r].event
    BY <2>1 DEF BookedOnce, OfEvent, Made
  <2> QED BY <2>1, <2>3, <2>4 DEF BookedOnce, Made, Serial
<1>3. ASSUME NEW r \in Requests, CreateTrueUp(r) PROVE BookedOnce'
  <2>1. /\ req'[r].pc = "lines"
        /\ \E n \in Entries :
             /\ Creates(n, [event |-> req[r].event, kind |-> "trueUp",
                            status |-> "posted", job |-> NoJob])
             /\ req'[r].entry = n
    BY <1>3, TrueUpFlow
  <2>2. PICK n \in Entries : Creates(n, [event |-> req[r].event, kind |-> "trueUp",
                                         status |-> "posted", job |-> NoJob])
    BY <2>1
  <2>3. /\ entries'[n].kind = "trueUp" /\ ~Made(n)
        /\ \A m \in Entries : m # n => entries'[m] = entries[m]
    BY <1>0, <2>2, Created
  <2> QED BY <2>1, <2>3 DEF BookedOnce, Made, Serial
<1>4. ASSUME NEW r \in Requests, FindEntry(r) PROVE BookedOnce'
  <2>1. KindsKept
    BY <1>4, KindsKeptBy
  <2>2. Return(r) => req'[r].pc = "idle"
    BY <1>0, Came
  <2>3. req'[r].pc # "create" \/ OfEvent(req'[r].event) = {}
    BY <1>4, <2>2, BuildFlow DEF Carried
  <2> QED BY <2>1, <2>3, BookedOnceKept
<1>5. ASSUME NEW r \in Requests,
             StartBuild(r) \/ AddLine(r) \/ ReadVat(r) \/ LinkEvent(r)
      PROVE  BookedOnce'
  <2>1. KindsKept
    BY <1>5, KindsKeptBy
  <2>2. Return(r) => req'[r].pc = "idle"
    BY <1>0, Came
  <2>3. AddLine(r) => req[r].then \in {"vat", "link", "trueUpEvent"}
    BY DEF IInv, RequestOK, BuildOK, AddLine, At
  <2>4. req'[r].pc # "create"
    BY <1>5, <2>2, <2>3, BuildFlow
  <2> QED BY <2>1, <2>4, BookedOnceKept
<1>6. ASSUME NEW r \in Requests, Post(r) PROVE BookedOnce'
  <2>1. KindsKept
    BY <1>6, KindsKeptBy
  <2>2. Return(r) => req'[r].pc = "idle"
    BY <1>0, Came
  <2>3. req'[r].pc # "create"
    BY <1>6, <2>2, PostFlow DEF Post
  <2> QED BY <2>1, <2>3, BookedOnceKept
<1>7. ASSUME NEW r \in Requests, StartTrueUp(r) \/ FindPosted(r) \/ TrueUpEvent(r)
      PROVE  BookedOnce'
  <2>1. KindsKept
    BY <1>7, KindsKeptBy
  <2>2. Return(r) => req'[r].pc = "idle"
    BY <1>0, Came
  <2>3. req'[r].pc # "create"
    BY <1>7, <2>2, TrueUpFlow
  <2> QED BY <2>1, <2>3, BookedOnceKept
<1>8. ASSUME NEW r \in Requests, Export(r) PROVE BookedOnce'
  <2>1. KindsKept
    BY <1>8, KindsKeptBy
  <2>2. Return(r) => req'[r].pc = "idle"
    BY <1>0, Came
  <2>3. req'[r].pc # "create"
    BY <1>8, <2>2, ExportFlow DEF Export
  <2> QED BY <2>1, <2>3, BookedOnceKept
<1>9. ASSUME NEW r \in Requests, Rematch(r) \/ CancelOrder(r) PROVE BookedOnce'
  <2>1. UNCHANGED <<entries, req>>
    BY <1>9 DEF Rematch, CancelOrder, journal
  <2> QED BY <2>1 DEF BookedOnce, Made, OfEvent
<1>10. ASSUME NEW r \in Requests, Fail(r) PROVE BookedOnce'
  <2>1. UNCHANGED entries /\ req'[r].pc = "idle"
    BY <1>0, <1>10, Came DEF Fail, journal
  <2>2. KindsKept
    BY <2>1, KindsKeptBy
  <2> QED BY <2>1, <2>2, BookedOnceKept
<1> QED BY <1>1, <1>2, <1>3, <1>4, <1>5, <1>6, <1>7, <1>8, <1>9, <1>10
        DEF Next, Build, TrueUp

\* The true-ups and what the events know of them stay as they are.
LEMMA TruedUpKept ==
  ASSUME Serial, IInv, TruedUpOnce, NEW r \in Requests, KindsKept,
         UNCHANGED meta, failures' = 0 => failures = 0,
         \A e \in Events : type'[e] # "CANCELLATION" => type[e] # "CANCELLATION",
         \A e \in Events : Recording(e) => Recording(e)' \/ failures' # 0,
         req'[r].pc \in {"trueUp", "trueUpCreate"} =>
           req'[r].event \in Events /\ ~meta[req'[r].event].trueUp
  PROVE  TruedUpOnce'
<1>1. \A e : OfEvent(e)' = OfEvent(e)
  BY DEF KindsKept, OfEvent, Made
<1>2. \A e : \A n \in OfEvent(e) : entries'[n].kind = entries[n].kind
  BY DEF KindsKept, OfEvent
<1>3. \A q \in Requests : req'[q].pc \in {"trueUp", "trueUpCreate"} =>
        /\ req'[q].event \in Events
        /\ ~meta'[req'[q].event].trueUp
  BY DEF Serial
<1>4. ASSUME failures' = 0, NEW e \in Events, type'[e] # "CANCELLATION"
      PROVE  /\ \A m, n \in OfEvent(e)' :
                  (entries'[m].kind = "trueUp" /\ entries'[n].kind = "trueUp") => m = n
             /\ (\E n \in OfEvent(e)' : entries'[n].kind = "trueUp") =>
                  meta'[e].trueUp \/ Recording(e)'
  <2>1. /\ \A m, n \in OfEvent(e) :
             (entries[m].kind = "trueUp" /\ entries[n].kind = "trueUp") => m = n
        /\ (\E n \in OfEvent(e) : entries[n].kind = "trueUp") =>
             meta[e].trueUp \/ Recording(e)
    BY <1>4 DEF TruedUpOnce
  <2> QED BY <1>1, <1>2, <1>4, <2>1
<1> QED BY <1>3, <1>4 DEF TruedUpOnce

\* A request that is not writing a true-up has none to record.
LEMMA NoneRecording ==
  ASSUME Serial, NEW r \in Requests, req[r].pc \notin {"lines", "trueUpEvent"}
  PROVE  \A e : ~Recording(e)
BY DEF Serial, Recording

LEMMA TruedUpOnceStep ==
  ASSUME Serial, IInv, TruedUpOnce, [Next]_vars
  PROVE  TruedUpOnce'
<1>0. TypeOK
  BY DEF IInv
<1>1. CASE UNCHANGED vars
  BY <1>1 DEF vars, events, journal, TruedUpOnce, Recording, OfEvent
<1>2. ASSUME NEW r \in Requests,
             StartBuild(r) \/ FindEntry(r) \/ ReadVat(r) \/ LinkEvent(r)
      PROVE  TruedUpOnce'
  <2>1. KindsKept
    BY <1>2, KindsKeptBy
  <2>2. Return(r) => req'[r].pc = "idle"
    BY <1>0, Came
  <2>3. req'[r].pc \notin {"trueUp", "trueUpCreate"}
    BY <1>2, <2>2, BuildFlow
  <2>4. req[r].pc \notin {"lines", "trueUpEvent"}
    BY <1>2, BuildFlow DEF Begun
  <2>5. UNCHANGED <<type, meta, failures>>
    BY <1>2 DEF StartBuild, FindEntry, ReadVat, LinkEvent, events
  <2> QED BY <2>1, <2>3, <2>4, <2>5, NoneRecording, TruedUpKept
<1>3. ASSUME NEW r \in Requests, AddLine(r) PROVE TruedUpOnce'
  <2>1. KindsKept
    BY <1>3, KindsKeptBy
  <2>2. req[r].then \in {"vat", "link", "trueUpEvent"}
    BY <1>3 DEF IInv, RequestOK, BuildOK, AddLine, At
  <2>3. /\ req[r].pc = "lines" /\ req'[r].pc \in {"lines", req[r].then}
        /\ req'[r].event = req[r].event /\ req'[r].then = req[r].then
    BY <1>3, BuildFlow DEF Carried
  <2>4. \A e \in Events : Recording(e) => Recording(e)'
    BY <2>3 DEF Serial, Recording
  <2>5. UNCHANGED <<type, meta, failures>>
    BY <1>3 DEF AddLine, events
  <2> QED BY <2>1, <2>2, <2>3, <2>4, <2>5, TruedUpKept
<1>4. ASSUME NEW r \in Requests, Post(r) PROVE TruedUpOnce'
  <2>1. KindsKept
    BY <1>4, KindsKeptBy
  <2>2. Return(r) => req'[r].pc = "idle"
    BY <1>0, Came
  <2>3. req'[r].pc \notin {"trueUp", "trueUpCreate"}
    BY <1>4, <2>2, PostFlow DEF Post
  <2>4. req[r].pc \notin {"lines", "trueUpEvent"}
    BY <1>4, PostFlow DEF Post, Begun
  <2>5. UNCHANGED <<type, meta, failures>>
    BY <1>4 DEF Post, StartPost, CheckBalance, PostEntry, PostEvent, events
  <2> QED BY <2>1, <2>3, <2>4, <2>5, NoneRecording, TruedUpKept
<1>5. ASSUME NEW r \in Requests, Export(r) PROVE TruedUpOnce'
  <2>1. KindsKept
    BY <1>5, KindsKeptBy
  <2>2. Return(r) => req'[r].pc = "idle"
    BY <1>0, Came
  <2>3. req'[r].pc \notin {"trueUp", "trueUpCreate"}
    BY <1>5, <2>2, ExportFlow DEF Export
  <2>4. req[r].pc \notin {"lines", "trueUpEvent"}
    BY <1>5, ExportFlow DEF Export
  <2>5. UNCHANGED <<type, meta, failures>>
    BY <1>5 DEF Export, StartExport, GatherEntry, CreateJob, MarkLine, MarkEntry, events
  <2> QED BY <2>1, <2>3, <2>4, <2>5, NoneRecording, TruedUpKept
<1>6. ASSUME NEW r \in Requests, StartTrueUp(r) \/ FindPosted(r) PROVE TruedUpOnce'
  <2>1. KindsKept
    BY <1>6, KindsKeptBy
  <2>2. Return(r) => req'[r].pc = "idle"
    BY <1>0, Came
  <2>3. req'[r].pc \in {"trueUp", "trueUpCreate"} =>
          req'[r].event \in Events /\ ~meta[req'[r].event].trueUp
    BY <1>6, <2>2, TrueUpFlow DEF TruedUpOnce, Carried
  <2>4. req[r].pc \notin {"lines", "trueUpEvent"}
    BY <1>6, TrueUpFlow DEF Begun
  <2>5. UNCHANGED <<type, meta, failures>>
    BY <1>6 DEF StartTrueUp, FindPosted, events
  <2> QED BY <2>1, <2>3, <2>4, <2>5, NoneRecording, TruedUpKept
<1>7. ASSUME NEW r \in Requests, CreateEntry(r) PROVE TruedUpOnce'
  <2>1. /\ req[r].pc = "create" /\ req'[r].pc = "lines"
        /\ \E n \in Entries :
             /\ Creates(n, [event |-> req[r].event, kind |-> "base",
                            status |-> "draft", job |-> NoJob])
             /\ req'[r].entry = n
    BY <1>7, BuildFlow
  <2>2. PICK n \in Entries : Creates(n, [event |-> req[r].event, kind |-> "base",
                                         status |-> "draft", job |-> NoJob])
    BY <2>1
  <2>3. /\ entries'[n].kind = "base" /\ ~Made(n)
        /\ \A m \in Entries : m # n => entries'[m] = entries[m]
    BY <1>0, <2>2, Created
  <2>4. \A e : \A m \in OfEvent(e)' : entries'[m].kind = "trueUp" =>
          m \in OfEvent(e) /\ entries[m].kind = "trueUp"
    BY <2>3 DEF OfEvent
  <2>5. \A e : ~Recording(e)
    BY <2>1, NoneRecording
  <2>6. UNCHANGED <<type, meta, failures>>
    BY <1>7 DEF CreateEntry, events
  <2> QED BY <2>1, <2>4, <2>5, <2>6 DEF TruedUpOnce, Serial
<1>8. ASSUME NEW r \in Requests, CreateTrueUp(r) PROVE TruedUpOnce'
  <2>1. /\ req[r].pc = "trueUpCreate" /\ req'[r].pc = "lines"
        /\ req'[r].then = "trueUpEvent" /\ req'[r].event = req[r].event
        /\ \E n \in Entries :
             /\ Creates(n, [event |-> req[r].event, kind |-> "trueUp",
                            status |-> "posted", job |-> NoJob])
             /\ req'[r].entry = n
    BY <1>8, TrueUpFlow DEF Carried
  <2>2. PICK n \in Entries : Creates(n, [event |-> req[r].event, kind |-> "trueUp",
                                         status |-> "posted", job |-> NoJob])
    BY <2>1
  <2>3. /\ entries'[n].event = req[r].event /\ ~Made(n)
        /\ \A m \in Entries : m # n => entries'[m] = entries[m]
    BY <1>0, <2>2, Created
  <2>4. UNCHANGED <<type, meta, failures>>
    BY <1>8 DEF CreateTrueUp, events
  <2>5. \A e : ~Recording(e)
    BY <2>1, NoneRecording
  <2>6. req[r].event \in Events /\ ~meta[req[r].event].trueUp
    BY <2>1 DEF TruedUpOnce
  <2>7. ASSUME failures' = 0, NEW e \in Events, type'[e] # "CANCELLATION"
        PROVE  /\ \A m, k \in OfEvent(e)' :
                    (entries'[m].kind = "trueUp" /\ entries'[k].kind = "trueUp") => m = k
               /\ (\E k \in OfEvent(e)' : entries'[k].kind = "trueUp") =>
                    meta'[e].trueUp \/ Recording(e)'
    <3>1. /\ \A m, k \in OfEvent(e) :
               (entries[m].kind = "trueUp" /\ entries[k].kind = "trueUp") => m = k
          /\ (\E k \in OfEvent(e) : entries[k].kind = "trueUp") => meta[e].trueUp
      BY <2>4, <2>5, <2>7 DEF TruedUpOnce
    <3>2. \A m \in OfEvent(e)' : m # n => m \in OfEvent(e) /\ entries'[m] = entries[m]
      BY <2>3 DEF OfEvent
    <3>3. CASE e = req[r].event
      <4>1. \A k \in OfEvent(e) : entries[k].kind # "trueUp"
        BY <2>6, <3>1, <3>3
      <4>2. Recording(e)'
        BY <2>1, <3>3 DEF Recording
      <4> QED BY <3>2, <4>1, <4>2
    <3>4. CASE e # req[r].event
      <4>1. n \notin OfEvent(e)'
        BY <2>3, <3>4 DEF OfEvent
      <4> QED BY <2>4, <3>1, <3>2, <4>1
    <3> QED BY <3>3, <3>4
  <2> QED BY <2>1, <2>7 DEF TruedUpOnce, Serial
<1>9. ASSUME NEW r \in Requests, TrueUpEvent(r) PROVE TruedUpOnce'
  <2>1. KindsKept
    BY <1>9, KindsKeptBy
  <2>2. req[r].pc = "trueUpEvent" /\ req'[r].pc = "idle"
    BY <1>0, <1>9, Came, TrueUpFlow
  <2>3. /\ UNCHANGED <<type, failures>>
        /\ meta' = [meta EXCEPT ![req[r].event] = [prov |-> req[r].prov, trueUp |-> TRUE]]
    BY <1>9 DEF TrueUpEvent
  <2>4. \A e \in Events : meta[e].trueUp \/ Recording(e) => meta'[e].trueUp
    BY <1>0, <2>2, <2>3 DEF TypeOK, Serial, Recording
  <2>5. \A e : OfEvent(e)' = OfEvent(e)
    BY <2>1 DEF KindsKept, OfEvent, Made
  <2>6. \A e : \A n \in OfEvent(e) : entries'[n].kind = entries[n].kind
    BY <2>1 DEF KindsKept, OfEvent
  <2> QED BY <2>2, <2>3, <2>4, <2>5, <2>6 DEF TruedUpOnce, Serial
<1>10. ASSUME NEW r \in Requests, Rematch(r) PROVE TruedUpOnce'
  <2>1. UNCHANGED <<meta, entries, req, failures>> /\ req[r].pc = "idle"
    BY <1>10 DEF Rematch, journal, At
  <2>2. \A e \in Events : type'[e] # "CANCELLATION" => type[e] # "CANCELLATION"
    BY <1>0, <1>10 DEF Rematch, TypeOK
  <2>3. KindsKept
    BY <2>1, KindsKeptBy
  <2> QED BY <2>1, <2>2, <2>3, NoneRecording, TruedUpKept
<1>11. ASSUME NEW r \in Requests, CancelOrder(r) PROVE TruedUpOnce'
  <2>1. UNCHANGED <<entries, req, failures>> /\ req[r].pc = "idle"
    BY <1>11 DEF CancelOrder, journal, At
  <2>2. PICK e \in Events :
          /\ type' = [type EXCEPT ![e] = "CANCELLATION"]
          /\ meta' = [meta EXCEPT ![e] = [prov |-> NoEur, trueUp |-> FALSE]]
    BY <1>11 DEF CancelOrder
  <2>3. /\ type'[e] = "CANCELLATION"
        /\ \A d \in Events : d # e => type'[d] = type[d] /\ meta'[d] = meta[d]
    BY <1>0, <2>2 DEF TypeOK
  <2>4. \A d : OfEvent(d)' = OfEvent(d)
    BY <2>1 DEF OfEvent
  <2>5. \A d : ~Recording(d)
    BY <2>1, NoneRecording
  <2> QED BY <2>1, <2>3, <2>4, <2>5 DEF TruedUpOnce, Serial
<1>12. ASSUME NEW r \in Requests, Fail(r) PROVE TruedUpOnce'
  <2>1. UNCHANGED entries /\ req'[r].pc = "idle" /\ failures' # 0
    BY <1>0, <1>12, Came, EventsOK DEF Fail, journal, TypeOK
  <2> QED BY <2>1 DEF TruedUpOnce, Serial
<1> QED BY <1>1, <1>2, <1>3, <1>4, <1>5, <1>6, <1>7, <1>8, <1>9, <1>10, <1>11, <1>12
        DEF Next, Build, TrueUp

----------------------------------------------------------------------------
(* Exports of which nothing failed: what is in a file and not yet marked   *)
(* is what request r, the only one, is marking.                            *)

Marks(r) == req[r].pc \in {"mark", "markEntries"}

\* What r gathered is posted, complete and unmarked.
GatheredOK(r) ==
  LET w == req[r] IN
  /\ w.pc \in {"post", "posting"} => entries[w.entry].status = "draft"
  /\ Writing(r) => entries[w.entry].status \in {"draft", "posted"}
  /\ \A n \in w.list \cup w.kept : entries[n].status = "posted"
  /\ w.pc \in {"job", "mark", "markEntries"} => w.list = {}
  /\ w.pc \in {"gather", "job", "mark"} =>
       \A l \in w.rows : l[1] \in w.kept /\ LineOf(l).job = NoJob
  /\ w.pc \in {"gather", "job"} =>
       \A n \in w.kept : \A i \in DOMAIN lines[n] : <<n, i>> \in w.rows
  /\ Marks(r) =>
       \A n \in w.kept : \A i \in DOMAIN lines[n] : <<n, i>> \in files[w.job]

\* A row of a file is marked, line and entry, or r is about to.
RowMarked(r, j, l) ==
  /\ \/ LineOf(l).job = j
     \/ req[r].pc = "mark" /\ req[r].job = j /\ l \in req[r].rows
  /\ \/ entries[l[1]].status = "exported" /\ entries[l[1]].job = j
     \/ Marks(r) /\ req[r].job = j /\ l[1] \in req[r].kept

\* An exported entry is whole in its file; one that is not has no marks yet.
EntryWhole(r, n) ==
  /\ entries[n].status = "exported" =>
       /\ entries[n].job \in Jobs
       /\ \A i \in DOMAIN lines[n] : <<n, i>> \in files[entries[n].job]
  /\ entries[n].status \in {"draft", "posted"} =>
       \/ \A i \in DOMAIN lines[n] : lines[n][i].job = NoJob
       \/ Marks(r) /\ n \in req[r].kept

FilesOK(r) == /\ \A j \in Jobs : \A l \in files[j] : RowMarked(r, j, l)
              /\ \A n \in Entries : EntryWhole(r, n)

ExportInStep == \A r \in Requests : GatheredOK(r) /\ FilesOK(r)

SInv ==
  /\ IInv
  /\ BookedOnce
  /\ TruedUpOnce
  /\ failures = 0 => ExportInStep

LEMMA ExportInStepBy ==
  ASSUME Serial, NEW r \in Requests, GatheredOK(r)', FilesOK(r)'
  PROVE  ExportInStep'
BY DEF Serial, ExportInStep

\* A step of a request that marks nothing, and writes nothing it exports.
LEMMA FilesKept ==
  ASSUME NEW r \in Requests, FilesOK(r), ~Marks(r), Calm
  PROVE  FilesOK(r)'
<1>1. ASSUME NEW j \in Jobs, NEW l \in files'[j] PROVE RowMarked(r, j, l)'
  BY DEF FilesOK, RowMarked, Calm, LineOf, Marks
<1>2. ASSUME NEW n \in Entries PROVE EntryWhole(r, n)'
  BY DEF FilesOK, EntryWhole, Calm
<1> QED BY <1>1, <1>2 DEF FilesOK

\* A request that begins or ends something else than an export.
LEMMA NothingGathered ==
  ASSUME NEW r \in Requests,
         req'[r].list = {}, req'[r].kept = {}, req'[r].rows = {},
         req'[r].pc \in {"post", "posting"} => entries'[req'[r].entry].status = "draft",
         req'[r].pc \notin {"lines", "vat"}
  PROVE  GatheredOK(r)'
BY DEF GatheredOK, Writing, Marks

\* A request that goes on with something else than an export.
LEMMA GatheredKept ==
  ASSUME NEW r \in Requests, GatheredOK(r), Carried(r), UNCHANGED entries,
         req'[r].pc \notin {"gather", "job", "mark", "markEntries"},
         req'[r].pc \in {"post", "posting"} => entries[req'[r].entry].status = "draft",
         req'[r].pc \in {"lines", "vat"} =>
           entries[req'[r].entry].status \in {"draft", "posted"}
  PROVE  GatheredOK(r)'
BY DEF GatheredOK, Carried, Writing, Marks

LEMMA AddedLine ==
  ASSUME IInv, NEW r \in Requests, AddLine(r)
  PROVE  /\ req[r].entry \in Entries
         /\ \A m \in Entries : m # req[r].entry => lines'[m] = lines[m]
         /\ DOMAIN lines[req[r].entry] \subseteq DOMAIN lines'[req[r].entry]
         /\ \A i \in DOMAIN lines'[req[r].entry] :
              IF i \in DOMAIN lines[req[r].entry]
              THEN lines'[req[r].entry][i] = lines[req[r].entry][i]
              ELSE lines'[req[r].entry][i].job = NoJob
<1>1. PICK n \in Entries : n = req[r].entry
  BY DEF IInv, AddLine, At, RequestOK, BuildOK
<1>2. /\ req[r].todo \in Seq(Line) /\ req[r].todo # <<>>
      /\ \A i \in DOMAIN req[r].todo : req[r].todo[i].job = NoJob
  BY WorkTypes DEF IInv, AddLine, At, RequestOK, BuildOK
<1>3. PICK x \in Line : x = Head(req[r].todo) /\ x.job = NoJob
  BY <1>2, SeqTail
<1>4. lines' = [lines EXCEPT ![n] = Append(lines[n], x)]
  BY <1>1, <1>3 DEF AddLine
<1>5. lines[n] \in Seq(Line) /\ lines \in [Entries -> Seq(Line)]
  BY DEF IInv, TypeOK
<1>6. lines'[n] = Append(lines[n], x) /\ \A m \in Entries : m # n => lines'[m] = lines[m]
  BY <1>4, <1>5
<1>7. Len(lines[n]) \in Nat
  BY <1>5
<1>8. /\ DOMAIN lines[n] = 1..Len(lines[n]) /\ DOMAIN lines'[n] = 1..(Len(lines[n]) + 1)
      /\ \A i \in DOMAIN lines[n] : lines'[n][i] = lines[n][i]
      /\ lines'[n][Len(lines[n]) + 1] = x
  BY <1>5, <1>6, SeqAppend
<1> QED BY <1>1, <1>3, <1>6, <1>7, <1>8

\* A new entry is in no file and has no lines.
LEMMA CreatedInStep ==
  ASSUME IInv, NEW r \in Requests, GatheredOK(r), FilesOK(r),
         req[r].pc \in {"create", "trueUpCreate"}, req'[r].pc = "lines",
         Carried(r), NEW n \in Entries, NEW x \in Entry, Creates(n, x),
         x.status \in {"draft", "posted"}, req'[r].entry = n
  PROVE  GatheredOK(r)' /\ FilesOK(r)'
<1>0. TypeOK /\ ~Marks(r)
  BY DEF IInv, Marks
<1>1. /\ entries'[n] = x /\ ~Made(n)
      /\ \A m \in Entries : m # n => entries'[m] = entries[m]
      /\ UNCHANGED <<lines, files>>
  BY <1>0, Created
<1>2. lines[n] = <<>> /\ DOMAIN lines[n] = {}
  BY <1>1 DEF IInv, JournalOK
<1>3. GatheredOK(r)'
  <2>1. \A m \in req[r].list \cup req[r].kept : m \in Entries /\ m # n
    BY <1>0, <1>1, WorkTypes DEF IInv, RequestOK, ExportOK
  <2> QED BY <1>1, <2>1 DEF GatheredOK, Carried, Writing, Marks
<1>4. ASSUME NEW j \in Jobs, NEW l \in files'[j] PROVE RowMarked(r, j, l)'
  <2>1. l \in files[j] /\ Existing(l) /\ l[1] \in Entries
    BY <1>0, <1>1, <1>4 DEF IInv, JournalOK, TypeOK, LineIds
  <2>2. l[1] # n
    BY <1>2, <2>1 DEF Existing
  <2>3. RowMarked(r, j, l)
    BY <2>1 DEF FilesOK
  <2> QED BY <1>0, <1>1, <2>1, <2>2, <2>3 DEF RowMarked, LineOf, Marks
<1>5. ASSUME NEW m \in Entries PROVE EntryWhole(r, m)'
  <2>1. CASE m = n
    BY <1>1, <1>2, <2>1 DEF EntryWhole
  <2>2. CASE m # n
    BY <1>0, <1>1, <2>2 DEF FilesOK, EntryWhole
  <2> QED BY <2>1, <2>2
<1> QED BY <1>3, <1>4, <1>5 DEF FilesOK

LEMMA BuildInStep ==
  ASSUME IInv, NEW r \in Requests, GatheredOK(r), FilesOK(r), Build(r)
  PROVE  GatheredOK(r)' /\ FilesOK(r)'
<1>0. TypeOK
  BY DEF IInv
<1>1. CASE Calm /\ Return(r) /\ req[r].pc \in {"find", "link"}
  BY <1>0, <1>1, Came, FilesKept, NothingGathered DEF Marks
<1>2. CASE StartBuild(r)
  <2>1. Calm /\ Begun(r) /\ req'[r].pc = "find"
    BY <1>2, BuildFlow
  <2> QED BY <2>1, FilesKept, NothingGathered DEF Begun, Marks
<1>3. CASE FindEntry(r) /\ ~Return(r)
  <2>1. Calm /\ req[r].pc = "find" /\ Carried(r) /\ req'[r].pc = "create"
    BY <1>3, BuildFlow
  <2> QED BY <2>1, FilesKept, GatheredKept DEF Marks, Calm
<1>4. CASE CreateEntry(r)
  <2>1. /\ req[r].pc = "create" /\ req'[r].pc = "lines" /\ Carried(r)
        /\ \E n \in Entries :
             /\ Creates(n, [event |-> req[r].event, kind |-> "base",
                            status |-> "draft", job |-> NoJob])
             /\ req'[r].entry = n
    BY <1>4, BuildFlow
  <2>2. [event |-> req[r].event, kind |-> "base", status |-> "draft", job |-> NoJob] \in Entry
    BY <1>0, WorkTypes DEF Entry, Work
  <2> QED BY <2>1, <2>2, CreatedInStep
<1>5. CASE AddLine(r)
  <2>1. PICK n \in Entries : n = req[r].entry
    BY <1>5, AddedLine
  <2>2. /\ \A m \in Entries : m # n => lines'[m] = lines[m]
        /\ DOMAIN lines[n] \subseteq DOMAIN lines'[n]
        /\ \A i \in DOMAIN lines'[n] :
             IF i \in DOMAIN lines[n] THEN lines'[n][i] = lines[n][i]
                                      ELSE lines'[n][i].job = NoJob
    BY <1>5, <2>1, AddedLine
  <2>3. /\ req[r].pc = "lines" /\ req'[r].pc \in {"lines", req[r].then}
        /\ Carried(r) /\ req'[r].entry = n
    BY <1>5, <2>1, BuildFlow
  <2>4. req[r].then \in {"vat", "link", "trueUpEvent"}
    BY <1>5 DEF IInv, RequestOK, BuildOK, AddLine, At
  <2>5. UNCHANGED <<entries, files>> /\ entries[n].status \in {"draft", "posted"}
    BY <1>5, <2>1, <2>3 DEF AddLine, GatheredOK, Writing
  <2>6. GatheredOK(r)'
    BY <2>3, <2>4, <2>5, GatheredKept
  <2>7. ASSUME NEW j \in Jobs, NEW l \in files'[j] PROVE RowMarked(r, j, l)'
    <3>1. l \in files[j] /\ Existing(l) /\ l[1] \in Entries
      BY <1>0, <2>5, <2>7 DEF IInv, JournalOK, TypeOK, LineIds
    <3>2. LineOf(l)' = LineOf(l)
      BY <2>2, <3>1 DEF LineOf, Existing
    <3>3. RowMarked(r, j, l)
      BY <3>1 DEF FilesOK
    <3> QED BY <2>3, <2>5, <3>2, <3>3 DEF RowMarked, Marks
  <2>8. ASSUME NEW m \in Entries PROVE EntryWhole(r, m)'
    <3>1. CASE m = n
      BY <2>2, <2>3, <2>5, <3>1 DEF FilesOK, EntryWhole, Marks
    <3>2. CASE m # n
      BY <2>2, <2>3, <2>5, <3>2 DEF FilesOK, EntryWhole, Marks
    <3> QED BY <3>1, <3>2
  <2> QED BY <2>6, <2>7, <2>8 DEF FilesOK
<1>6. CASE ReadVat(r)
  <2>1. /\ Calm /\ req[r].pc = "vat" /\ req'[r].pc \in {"lines", "link"}
        /\ Carried(r) /\ req'[r].entry = req[r].entry
    BY <1>6, BuildFlow
  <2>2. entries[req[r].entry].status \in {"draft", "posted"}
    BY <2>1 DEF GatheredOK, Writing
  <2> QED BY <2>1, <2>2, FilesKept, GatheredKept DEF Marks, Calm
<1>7. FindEntry(r) /\ Return(r) => Calm /\ req[r].pc = "find"
  BY BuildFlow
<1>8. LinkEvent(r) => Calm /\ Return(r) /\ req[r].pc = "link"
  BY BuildFlow
<1> QED BY <1>1, <1>2, <1>3, <1>4, <1>5, <1>6, <1>7, <1>8 DEF Build

LEMMA TrueUpInStep ==
  ASSUME IInv, NEW r \in Requests, GatheredOK(r), FilesOK(r), TrueUp(r)
  PROVE  GatheredOK(r)' /\ FilesOK(r)'
<1>0. TypeOK
  BY DEF IInv
<1>1. CASE Calm /\ Return(r) /\ req[r].pc \in {"trueUp", "trueUpEvent"}
  BY <1>0, <1>1, Came, FilesKept, NothingGathered DEF Marks
<1>2. CASE StartTrueUp(r)
  <2>1. Calm /\ Begun(r) /\ req'[r].pc = "trueUp"
    BY <1>2, TrueUpFlow
  <2> QED BY <2>1, FilesKept, NothingGathered DEF Begun, Marks
<1>3. CASE FindPosted(r) /\ ~Return(r)
  <2>1. Calm /\ req[r].pc = "trueUp" /\ Carried(r) /\ req'[r].pc = "trueUpCreate"
    BY <1>3, TrueUpFlow
  <2> QED BY <2>1, FilesKept, GatheredKept DEF Marks, Calm
<1>4. CASE CreateTrueUp(r)
  <2>1. /\ req[r].pc = "trueUpCreate" /\ req'[r].pc = "lines" /\ Carried(r)
        /\ \E n \in Entries :
             /\ Creates(n, [event |-> req[r].event, kind |-> "trueUp",
                            status |-> "posted", job |-> NoJob])
             /\ req'[r].entry = n
    BY <1>4, TrueUpFlow
  <2>2. [event |-> req[r].event, kind |-> "trueUp", status |-> "posted", job |-> NoJob] \in Entry
    BY <1>0, WorkTypes DEF Entry, Work
  <2> QED BY <2>1, <2>2, CreatedInStep
<1>5. FindPosted(r) => Calm /\ req[r].pc = "trueUp"
  BY TrueUpFlow
<1>6. TrueUpEvent(r) => Calm /\ Return(r) /\ req[r].pc = "trueUpEvent"
  BY TrueUpFlow
<1> QED BY <1>1, <1>2, <1>3, <1>4, <1>5, <1>6 DEF TrueUp

LEMMA PostInStep ==
  ASSUME IInv, NEW r \in Requests, GatheredOK(r), FilesOK(r), Post(r)
  PROVE  GatheredOK(r)' /\ FilesOK(r)'
<1>0. TypeOK
  BY DEF IInv
<1>1. CASE Calm /\ Return(r) /\ req[r].pc \in {"post", "postEvent"}
  BY <1>0, <1>1, Came, FilesKept, NothingGathered DEF Marks
<1>2. CASE StartPost(r)
  <2>1. /\ Calm /\ Begun(r) /\ req'[r].pc = "post"
        /\ entries[req'[r].entry].status = "draft"
    BY <1>2, PostFlow
  <2> QED BY <2>1, FilesKept, NothingGathered DEF Begun, Marks, Calm
<1>3. CASE CheckBalance(r) /\ ~Return(r)
  <2>1. /\ Calm /\ req[r].pc = "post" /\ Carried(r) /\ req'[r].pc = "posting"
        /\ req'[r].entry = req[r].entry
    BY <1>3, PostFlow
  <2>2. entries[req[r].entry].status = "draft"
    BY <2>1 DEF GatheredOK
  <2> QED BY <2>1, <2>2, FilesKept, GatheredKept DEF Marks, Calm
<1>4. CASE PostEntry(r)
  <2>1. req[r].pc = "posting" /\ req'[r].pc = "postEvent" /\ Carried(r)
    BY <1>4, PostFlow
  <2>2. PICK n \in Entries : n = req[r].entry /\ entries[n].status = "draft"
    BY <2>1 DEF GatheredOK, IInv, RequestOK, PostOK
  <2>3. entries' = [entries EXCEPT ![n].status = "posted"] /\ UNCHANGED <<lines, files>>
    BY <1>4, <2>2 DEF PostEntry
  <2>4. /\ entries'[n].status = "posted"
        /\ \A m \in Entries : m # n => entries'[m] = entries[m]
    BY <1>0, <2>3 DEF TypeOK, Entry
  <2>5. \A m \in req[r].list \cup req[r].kept : m \in Entries /\ m # n
    BY <1>0, <2>2, WorkTypes DEF GatheredOK
  <2>6. GatheredOK(r)'
    BY <2>1, <2>4, <2>5 DEF GatheredOK, Carried, Writing, Marks
  <2>7. ASSUME NEW j \in Jobs, NEW l \in files'[j] PROVE RowMarked(r, j, l)'
    <3>1. l \in files[j] /\ l[1] \in Entries
      BY <1>0, <2>3, <2>7 DEF TypeOK, LineIds
    <3>2. RowMarked(r, j, l)
      BY <3>1 DEF FilesOK
    <3> QED BY <2>1, <2>2, <2>3, <2>4, <3>1, <3>2 DEF RowMarked, LineOf, Marks
  <2>8. ASSUME NEW m \in Entries PROVE EntryWhole(r, m)'
    <3>1. EntryWhole(r, m) /\ EntryWhole(r, n)
      BY DEF FilesOK
    <3>2. CASE m = n
      BY <2>1, <2>2, <2>3, <2>4, <3>1, <3>2 DEF EntryWhole, Marks
    <3>3. CASE m # n
      BY <2>1, <2>3, <2>4, <3>1, <3>3 DEF EntryWhole, Marks
    <3> QED BY <3>2, <3>3
  <2> QED BY <2>6, <2>7, <2>8 DEF FilesOK
<1>5. CheckBalance(r) => Calm /\ req[r].pc = "post"
  BY PostFlow
<1>6. PostEvent(r) => Calm /\ Return(r) /\ req[r].pc = "postEvent"
  BY PostFlow
<1> QED BY <1>1, <1>2, <1>3, <1>4, <1>5, <1>6 DEF Post

LEMMA StartExportInStep ==
  ASSUME IInv, NEW r \in Requests, GatheredOK(r), FilesOK(r), StartExport(r)
  PROVE  GatheredOK(r)' /\ FilesOK(r)'
<1>1. /\ Calm /\ req[r].pc = "idle" /\ req'[r].pc = "gather"
      /\ req'[r].kept = {} /\ req'[r].rows = {}
      /\ req'[r].list \subseteq Entries
      /\ \A n \in req'[r].list : entries[n].status = "posted"
  BY ExportFlow
<1>2. FilesOK(r)'
  BY <1>1, FilesKept DEF Marks
<1>3. GatheredOK(r)'
  BY <1>1 DEF GatheredOK, Calm, Writing, Marks
<1> QED BY <1>2, <1>3

LEMMA GatherEntryInStep ==
  ASSUME IInv, NEW r \in Requests, GatheredOK(r), FilesOK(r), GatherEntry(r)
  PROVE  GatheredOK(r)' /\ FilesOK(r)'
<1>0. TypeOK /\ req[r].list \subseteq Entries /\ req[r].kept \subseteq Entries
  BY WorkTypes DEF IInv
<1>1. Calm /\ req[r].pc = "gather"
  BY ExportFlow
<1>2. FilesOK(r)'
  BY <1>1, FilesKept DEF Marks
<1>3. CASE Return(r)
  BY <1>0, <1>2, <1>3, Came, NothingGathered
<1>4. ASSUME NEW n \in req[r].list,
             req'[r].list = req[r].list \ {n},
             req'[r].rows = req[r].rows \cup Unexported(n),
             req'[r].kept = IF Unexported(n) = {} THEN req[r].kept
                            ELSE req[r].kept \cup {n},
             req'[r].pc = IF req'[r].list = {} THEN "job" ELSE "gather"
      PROVE  GatheredOK(r)'
  <2>1. n \in Entries /\ entries[n].status = "posted"
    BY <1>0 DEF GatheredOK
  <2>2. \A i \in DOMAIN lines[n] : lines[n][i].job = NoJob
    BY <1>1, <2>1 DEF FilesOK, EntryWhole, Marks
  <2>3. /\ \A l \in Unexported(n) : l[1] = n /\ LineOf(l).job = NoJob
        /\ \A i \in DOMAIN lines[n] : <<n, i>> \in Unexported(n)
    BY <1>0, <2>1, <2>2, UnexportedOK
  <2>4. \A m \in req'[r].list \cup req'[r].kept : entries'[m].status = "posted"
    BY <1>1, <1>4, <2>1 DEF GatheredOK, Calm
  <2>5. \A l \in req'[r].rows : l[1] \in req'[r].kept /\ LineOf(l)'.job = NoJob
    <3> SUFFICES ASSUME NEW l \in req'[r].rows
                 PROVE  l[1] \in req'[r].kept /\ LineOf(l).job = NoJob
      BY <1>1 DEF Calm, LineOf
    <3>1. CASE l \in req[r].rows
      BY <1>1, <1>4, <3>1 DEF GatheredOK
    <3>2. CASE l \in Unexported(n)
      BY <1>4, <2>3, <3>2
    <3> QED BY <1>4, <3>1, <3>2
  <2>6. \A m \in req'[r].kept : \A i \in DOMAIN lines'[m] : <<m, i>> \in req'[r].rows
    <3> SUFFICES ASSUME NEW m \in req'[r].kept, NEW i \in DOMAIN lines[m]
                 PROVE  <<m, i>> \in req'[r].rows
      BY <1>1 DEF Calm
    <3>1. CASE m = n
      BY <1>4, <2>3, <3>1
    <3>2. CASE m # n
      BY <1>1, <1>4, <3>2 DEF GatheredOK
    <3> QED BY <3>1, <3>2
  <2>7. req'[r].pc \in {"gather", "job"} /\ (req'[r].pc = "job" => req'[r].list = {})
    BY <1>4
  <2> QED BY <2>4, <2>5, <2>6, <2>7 DEF GatheredOK, Writing, Marks
<1> QED BY <1>2, <1>3, <1>4, ExportFlow

LEMMA CreateJobInStep ==
  ASSUME IInv, NEW r \in Requests, GatheredOK(r), FilesOK(r), CreateJob(r)
  PROVE  GatheredOK(r)' /\ FilesOK(r)'
<1>0. TypeOK /\ req[r].rows \subseteq LineIds /\ req[r].kept \subseteq Entries
  BY WorkTypes DEF IInv
<1>1. UNCHANGED <<entries, lines>> /\ req[r].pc = "job" /\ ~Marks(r)
  BY ExportFlow DEF Marks
<1>2. CASE Return(r) /\ UNCHANGED files
  BY <1>0, <1>1, <1>2, Came, NothingGathered, FilesKept DEF Calm
<1>3. ASSUME NEW j \in Jobs, files[j] = {}, files' = [files EXCEPT ![j] = req[r].rows],
             req'[r].pc = "mark", req'[r].job = j, req'[r].list = req[r].list,
             req'[r].kept = req[r].kept, req'[r].rows = req[r].rows
      PROVE  GatheredOK(r)' /\ FilesOK(r)'
  <2>1. /\ files'[j] = req[r].rows
        /\ \A k \in Jobs : k # j => files'[k] = files[k]
    BY <1>0, <1>3 DEF TypeOK
  <2>2. GatheredOK(r)'
    BY <1>1, <1>3, <2>1 DEF GatheredOK, LineOf, Writing, Marks
  <2>3. ASSUME NEW k \in Jobs, NEW l \in files'[k] PROVE RowMarked(r, k, l)'
    <3>1. CASE k = j
      <4>1. l \in req[r].rows /\ l[1] \in req[r].kept
        BY <1>1, <2>1, <2>3, <3>1 DEF GatheredOK
      <4> QED BY <1>3, <3>1, <4>1 DEF RowMarked, Marks
    <3>2. CASE k # j
      <4>1. RowMarked(r, k, l)
        BY <2>1, <2>3, <3>2 DEF FilesOK
      <4> QED BY <1>1, <4>1 DEF RowMarked, LineOf, Marks
    <3> QED BY <3>1, <3>2
  <2>4. ASSUME NEW n \in Entries PROVE EntryWhole(r, n)'
    <3>1. EntryWhole(r, n)
      BY DEF FilesOK
    <3>2. entries[n].status = "exported" =>
            \A i \in DOMAIN lines[n] : <<n, i>> \in files'[entries[n].job]
      BY <1>3, <2>1, <3>1 DEF EntryWhole
    <3> QED BY <1>1, <3>1, <3>2 DEF EntryWhole
  <2> QED BY <2>2, <2>3, <2>4 DEF FilesOK
<1> QED BY <1>1, <1>2, <1>3, ExportFlow

LEMMA MarkLineInStep ==
  ASSUME IInv, NEW r \in Requests, GatheredOK(r), FilesOK(r), MarkLine(r)
  PROVE  GatheredOK(r)' /\ FilesOK(r)'
<1>0. TypeOK /\ req[r].rows \subseteq LineIds /\ req[r].kept \subseteq Entries
  BY WorkTypes DEF IInv
<1>1. UNCHANGED <<entries, files>> /\ req[r].pc = "mark"
  BY ExportFlow
<1>2. PICK l \in req[r].rows :
        /\ lines' = [lines EXCEPT ![l[1]][l[2]].job = req[r].job]
        /\ req'[r].rows = req[r].rows \ {l}
        /\ req'[r].pc = IF req'[r].rows = {} THEN "markEntries" ELSE "mark"
        /\ req'[r].list = req[r].list /\ req'[r].kept = req[r].kept
        /\ req'[r].job = req[r].job
  BY ExportFlow
<1>3. PICK j \in Jobs : j = req[r].job
  BY <1>1 DEF IInv, RequestOK, ExportOK
<1>4. PICK n \in Entries, i \in 1..4 : l = <<n, i>>
  BY <1>0 DEF LineIds
<1>5. /\ i \in DOMAIN lines[n] /\ l \in files[j] /\ n \in req[r].kept
      /\ LineOf(l).job = NoJob
  BY <1>1, <1>3, <1>4 DEF IInv, RequestOK, ExportOK, Existing, GatheredOK
<1>6. /\ \A m \in Entries : DOMAIN lines'[m] = DOMAIN lines[m]
      /\ \A m \in Entries : \A k \in DOMAIN lines[m] :
           <<m, k>> # <<n, i>> => lines'[m][k] = lines[m][k]
      /\ lines'[n][i].job = j
  <2>1. lines' = [lines EXCEPT ![n][i].job = j]
    BY <1>2, <1>3, <1>4
  <2> QED BY <1>0, <1>5, <2>1, LineMarked
<1>7. \A k \in LineIds : Existing(k) /\ k # l => LineOf(k)' = LineOf(k)
  BY <1>4, <1>6 DEF LineIds, Existing, LineOf
<1>8. LineOf(l)'.job = j
  BY <1>4, <1>6 DEF LineOf
<1>9. Marks(r) /\ Marks(r)'
  BY <1>1, <1>2 DEF Marks
<1>10. GatheredOK(r)'
  <2>1. \A k \in req'[r].rows : k[1] \in req'[r].kept /\ LineOf(k)'.job = NoJob
    <3> SUFFICES ASSUME NEW k \in req[r].rows, k # l
                 PROVE  k[1] \in req[r].kept /\ LineOf(k)'.job = NoJob
      BY <1>2
    <3>1. Existing(k) /\ k \in LineIds
      BY <1>0 DEF IInv, RequestOK, ExportOK
    <3> QED BY <1>1, <1>7, <3>1 DEF GatheredOK
  <2>2. \A m \in req'[r].kept : \A k \in DOMAIN lines'[m] : <<m, k>> \in files'[req'[r].job]
    BY <1>0, <1>1, <1>2, <1>6, <1>9 DEF GatheredOK
  <2>3. req'[r].pc \in {"mark", "markEntries"}
    BY <1>2
  <2> QED BY <1>1, <1>2, <2>1, <2>2, <2>3 DEF GatheredOK, Writing, Marks
<1>11. ASSUME NEW k \in Jobs, NEW x \in files'[k] PROVE RowMarked(r, k, x)'
  <2>1. /\ RowMarked(r, k, x) /\ Existing(x) /\ x \in LineIds
    BY <1>0, <1>1, <1>11 DEF FilesOK, IInv, JournalOK, TypeOK
  <2>2. \/ LineOf(x)'.job = k
        \/ req'[r].pc = "mark" /\ req'[r].job = k /\ x \in req'[r].rows
    <3>1. CASE x = l
      <4>1. k = j
        BY <1>3, <1>5, <2>1, <3>1, EventsOK DEF RowMarked
      <4> QED BY <1>8, <3>1, <4>1
    <3>2. CASE x # l
      BY <1>2, <1>7, <2>1, <3>2 DEF RowMarked
    <3> QED BY <3>1, <3>2
  <2>3. \/ entries'[x[1]].status = "exported" /\ entries'[x[1]].job = k
        \/ Marks(r)' /\ req'[r].job = k /\ x[1] \in req'[r].kept
    BY <1>1, <1>2, <1>9, <2>1 DEF RowMarked
  <2> QED BY <2>2, <2>3 DEF RowMarked
<1>12. ASSUME NEW m \in Entries PROVE EntryWhole(r, m)'
  <2>1. EntryWhole(r, m)
    BY DEF FilesOK
  <2>2. CASE m = n
    BY <1>1, <1>2, <1>5, <1>6, <1>9, <2>1, <2>2 DEF EntryWhole
  <2>3. CASE m # n
    <3>1. \A k \in DOMAIN lines[m] : lines'[m][k] = lines[m][k]
      BY <1>6, <2>3
    <3> QED BY <1>1, <1>2, <1>6, <1>9, <2>1, <3>1 DEF EntryWhole
  <2> QED BY <2>2, <2>3
<1> QED BY <1>10, <1>11, <1>12 DEF FilesOK

LEMMA MarkEntryInStep ==
  ASSUME IInv, NEW r \in Requests, GatheredOK(r), FilesOK(r), MarkEntry(r)
  PROVE  GatheredOK(r)' /\ FilesOK(r)'
<1>0. TypeOK /\ req[r].kept \subseteq Entries /\ req[r].list \subseteq Entries
  BY WorkTypes DEF IInv
<1>1. UNCHANGED <<lines, files>> /\ req[r].pc = "markEntries" /\ Marks(r)
  BY ExportFlow DEF Marks
<1>2. PICK n \in req[r].kept :
        /\ entries' = [entries EXCEPT ![n].status = "exported", ![n].job = req[r].job]
        /\ \/ Return(r) /\ req[r].kept = {n}
           \/ /\ req'[r].kept = req[r].kept \ {n}
              /\ req'[r].pc = "markEntries"
              /\ req'[r].list = req[r].list /\ req'[r].rows = req[r].rows
              /\ req'[r].job = req[r].job
  BY ExportFlow
<1>3. PICK j \in Jobs : j = req[r].job
  BY <1>1 DEF IInv, RequestOK, ExportOK
<1>4. /\ entries'[n].status = "exported" /\ entries'[n].job = j
      /\ \A m \in Entries : m # n => entries'[m] = entries[m]
  <2>1. n \in Entries /\ entries[n] \in Entry
    BY <1>0 DEF TypeOK
  <2> DEFINE x == [entries[n] EXCEPT !.status = "exported", !.job = j]
  <2>2. entries' = [entries EXCEPT ![n] = x]
    BY <1>0, <1>2, <1>3, <2>1 DEF TypeOK
  <2>3. x.status = "exported" /\ x.job = j
    BY <2>1 DEF Entry
  <2> HIDE DEF x
  <2> QED BY <1>0, <2>1, <2>2, <2>3 DEF TypeOK
<1>5. n \in Entries /\ entries[n].status = "posted"
      /\ \A i \in DOMAIN lines[n] : <<n, i>> \in files[j]
  BY <1>0, <1>1, <1>3 DEF GatheredOK
<1>6. \/ /\ req[r].kept = {n} /\ req'[r].kept = {} /\ req'[r].list = {}
         /\ req'[r].rows = {} /\ req'[r].pc = "idle"
      \/ /\ Marks(r)' /\ req'[r].job = j /\ req'[r].kept = req[r].kept \ {n}
         /\ req'[r].pc = "markEntries" /\ req'[r].list = req[r].list
  BY <1>0, <1>2, <1>3, Came DEF Marks
<1>7. GatheredOK(r)'
  <2>1. CASE req'[r].pc = "idle"
    BY <1>6, <2>1, NothingGathered
  <2>2. CASE req'[r].pc = "markEntries"
    <3>1. req'[r].kept = req[r].kept \ {n} /\ req'[r].list = req[r].list /\ req'[r].job = j
      BY <1>6, <2>2
    <3>2. \A m \in req'[r].kept : entries'[m].status = "posted"
      BY <1>0, <1>4, <3>1 DEF GatheredOK
    <3>3. req[r].list = {}
      BY <1>1 DEF GatheredOK
    <3>4. \A m \in req'[r].kept : \A i \in DOMAIN lines'[m] : <<m, i>> \in files'[j]
      BY <1>1, <1>3, <3>1 DEF GatheredOK
    <3> QED BY <2>2, <3>1, <3>2, <3>3, <3>4 DEF GatheredOK, Writing, Marks
  <2> QED BY <1>6, <2>1, <2>2
<1>8. ASSUME NEW k \in Jobs, NEW x \in files'[k] PROVE RowMarked(r, k, x)'
  <2>1. RowMarked(r, k, x) /\ x[1] \in Entries
    BY <1>0, <1>1, <1>8 DEF FilesOK, TypeOK, LineIds
  <2>2. LineOf(x)'.job = k
    BY <1>1, <2>1 DEF RowMarked, LineOf
  <2>3. CASE x[1] = n
    BY <1>3, <1>4, <1>5, <2>1, <2>2, <2>3 DEF RowMarked
  <2>4. CASE x[1] # n
    BY <1>3, <1>4, <1>6, <2>1, <2>2, <2>4 DEF RowMarked
  <2> QED BY <2>3, <2>4
<1>9. ASSUME NEW m \in Entries PROVE EntryWhole(r, m)'
  <2>1. EntryWhole(r, m)
    BY DEF FilesOK
  <2>2. CASE m = n
    BY <1>1, <1>4, <1>5, <2>2 DEF EntryWhole
  <2>3. CASE m # n
    BY <1>1, <1>4, <1>6, <2>1, <2>3 DEF EntryWhole
  <2> QED BY <2>2, <2>3
<1> QED BY <1>7, <1>8, <1>9 DEF FilesOK

LEMMA ExportInStepStep ==
  ASSUME Serial, IInv, failures = 0 => ExportInStep, [Next]_vars
  PROVE  failures' = 0 => ExportInStep'
<1>0. TypeOK
  BY DEF IInv
<1> SUFFICES ASSUME failures' = 0 PROVE ExportInStep'
  OBVIOUS
<1>1. ASSUME NEW r \in Requests, Fail(r) PROVE FALSE
  BY <1>0, <1>1, EventsOK DEF Fail, TypeOK
<1>2. failures' = failures
  <2>1. ASSUME NEW r \in Requests, Build(r) PROVE failures' = failures
    BY <2>1 DEF Build, StartBuild, FindEntry, CreateEntry, AddLine, ReadVat, LinkEvent
  <2>2. ASSUME NEW r \in Requests, Post(r) PROVE failures' = failures
    BY <2>2 DEF Post, StartPost, CheckBalance, PostEntry, PostEvent
  <2>3. ASSUME NEW r \in Requests, TrueUp(r) PROVE failures' = failures
    BY <2>3 DEF TrueUp, StartTrueUp, FindPosted, CreateTrueUp, TrueUpEvent
  <2>4. ASSUME NEW r \in Requests, Export(r) PROVE failures' = failures
    BY <2>4 DEF Export, StartExport, GatherEntry, CreateJob, MarkLine, MarkEntry
  <2>5. ASSUME NEW r \in Requests, Rematch(r) \/ CancelOrder(r) PROVE failures' = failures
    BY <2>5 DEF Rematch, CancelOrder
  <2>6. CASE UNCHANGED vars
    BY <2>6 DEF vars
  <2> QED BY <1>1, <2>1, <2>2, <2>3, <2>4, <2>5, <2>6 DEF Next
<1>3. ASSUME NEW r \in Requests PROVE GatheredOK(r) /\ FilesOK(r)
  BY <1>2 DEF ExportInStep
<1>4. ASSUME NEW r \in Requests, Build(r) \/ Post(r) \/ TrueUp(r) PROVE ExportInStep'
  BY <1>3, <1>4, BuildInStep, PostInStep, TrueUpInStep, ExportInStepBy
<1>5. ASSUME NEW r \in Requests, Export(r) PROVE ExportInStep'
  BY <1>3, <1>5, StartExportInStep, GatherEntryInStep, CreateJobInStep,
     MarkLineInStep, MarkEntryInStep, ExportInStepBy DEF Export
<1>6. ASSUME NEW r \in Requests, UNCHANGED <<entries, lines, files, req>>
      PROVE  GatheredOK(r)' /\ FilesOK(r)'
  <2>1. GatheredOK(r)'
    BY <1>3, <1>6 DEF GatheredOK, LineOf, Writing, Marks
  <2>2. ASSUME NEW j \in Jobs, NEW l \in files'[j] PROVE RowMarked(r, j, l)'
    BY <1>3, <1>6, <2>2 DEF FilesOK, RowMarked, LineOf, Marks
  <2>3. ASSUME NEW n \in Entries PROVE EntryWhole(r, n)'
    BY <1>3, <1>6 DEF FilesOK, EntryWhole, Marks
  <2> QED BY <2>1, <2>2, <2>3 DEF FilesOK
<1>7. ASSUME NEW r \in Requests, Rematch(r) \/ CancelOrder(r) PROVE ExportInStep'
  BY <1>6, <1>7 DEF Rematch, CancelOrder, journal, ExportInStep
<1>8. CASE UNCHANGED vars
  BY <1>6, <1>8 DEF vars, journal, ExportInStep
<1> QED BY <1>1, <1>4, <1>5, <1>7, <1>8 DEF Next

LEMMA SerialInit ==
  ASSUME Init
  PROVE  SInv
<1>1. BookedOnce
  BY IdleIsWork DEF Init, BookedOnce, Made
<1>2. TruedUpOnce
  BY IdleIsWork DEF Init, TruedUpOnce, OfEvent
<1>3. ExportInStep
  <2> SUFFICES ASSUME NEW r \in Requests PROVE GatheredOK(r) /\ FilesOK(r)
    BY DEF ExportInStep
  <2>1. req[r] = Idle
    BY DEF Init
  <2>2. GatheredOK(r)
    BY <2>1, IdleIsWork DEF GatheredOK, Writing, Marks
  <2>3. FilesOK(r)
    BY DEF Init, FilesOK, EntryWhole
  <2> QED BY <2>2, <2>3
<1> QED BY <1>1, <1>2, <1>3, InitInvariant DEF SInv

\* The invariant of the journal when requests follow one another: nothing is
\* booked twice, and an export without failures marks what it wrote.
THEOREM SerialInvariance ==
  ASSUME Serial
  PROVE  Spec => []SInv
<1>1. Init => SInv
  BY SerialInit
<1>2. SInv /\ [Next]_vars => SInv'
  BY NextInvariant, BookedOnceStep, TruedUpOnceStep, ExportInStepStep DEF SInv
<1> QED BY <1>1, <1>2, PTL DEF Spec

LEMMA AtMostOne ==
  ASSUME NEW S, \A x, y \in S : x = y
  PROVE  Cardinality(S) <= 1
<1>1. CASE S = {}
  BY <1>1, FS_EmptySet
<1>2. CASE S # {}
  <2>1. PICK x \in S : S = {x}
    BY <1>2
  <2>2. Cardinality({x}) = 1
    BY FS_Singleton
  <2> QED BY <2>1, <2>2
<1> QED BY <1>1, <1>2

\* AccrualJournalService.buildDraftForEvent books an event once, also when an
\* earlier request failed half way, and whatever rematching made of the event.
THEOREM BookedByOneEntry ==
  ASSUME Serial
  PROVE  Spec => []OneEntry
<1>1. SInv => OneEntry
  BY AtMostOne DEF SInv, BookedOnce, OneEntry, OfEvent, Made
<1> QED BY <1>1, SerialInvariance, PTL

\* FxTrueUpService.trueUpEvent trues an event up once, unless its order is
\* cancelled in between.
THEOREM TruedUpByOneEntry ==
  ASSUME Serial
  PROVE  Spec => []TrueUpOnce
<1>1. SInv => TrueUpOnce
  BY AtMostOne DEF SInv, TruedUpOnce, TrueUpOnce, OfEvent
<1> QED BY <1>1, SerialInvariance, PTL

\* An event is booked once and trued up once.
THEOREM EntriesOfAnEvent ==
  ASSUME Serial
  PROVE  Spec => []EntriesOnce
<1>1. OneEntry /\ TrueUpOnce => EntriesOnce
  BY DEF EntriesOnce
<1> QED BY <1>1, BookedByOneEntry, TruedUpByOneEntry, PTL

\* Between requests, what AccrualDatevExportService.create wrote into a file is
\* marked with the job of that file, and an exported entry is in it whole.
THEOREM ExportedWhole ==
  ASSUME Serial
  PROVE  Spec => []ExportComplete
<1>1. SInv => ExportComplete
  <2> SUFFICES ASSUME SInv, failures = 0, \A r \in Requests : At(r, "idle")
               PROVE  /\ \A j \in Jobs : \A l \in files[j] :
                           /\ LineOf(l).job = j
                           /\ entries[l[1]].status = "exported" /\ entries[l[1]].job = j
                      /\ \A n \in Entries : entries[n].status = "exported" =>
                           \A i \in DOMAIN lines[n] : <<n, i>> \in files[entries[n].job]
    BY DEF ExportComplete
  <2>1. PICK r \in Requests : FilesOK(r) /\ req[r].pc = "idle"
    BY DEF SInv, ExportInStep, Serial, At
  <2> QED BY <2>1 DEF FilesOK, RowMarked, EntryWhole, Marks
<1> QED BY <1>1, SerialInvariance, PTL

----------------------------------------------------------------------------
(* Sums over finite sets, by a smallest counterexample.                    *)

\* A set of numbers has a least one.
LEMMA LeastOf ==
  ASSUME NEW T \in SUBSET Nat, T # {}
  PROVE  \E m \in T : \A k \in T : m <= k
<1>1. PICK m \in T : \A k \in T : <<k, m>> \notin OpToRel(<, Nat)
  BY NatLessThanWellFounded, WFMin
<1>2. \A k \in T : ~(k < m)
  BY <1>1 DEF OpToRel
<1> QED BY <1>2

\* Of the sets that have a property one has no smaller one within it.
LEMMA SmallestOf ==
  ASSUME NEW S, IsFiniteSet(S), NEW B \in SUBSET SUBSET S, B # {}
  PROVE  \E R \in B : \A T \in SUBSET R : T # R => T \notin B
<1>1. B \subseteq FiniteSubsetsOf(S)
  BY FS_FiniteSubsetsOfFinite
<1>2. PICK R \in B : \A T \in B : <<T, R>> \notin StrictSubsetOrdering(S)
  BY <1>1, FS_StrictSubsetOrderingWellFounded, WFMin
<1>3. R \in SUBSET S
  OBVIOUS
<1> QED BY <1>2, <1>3 DEF StrictSubsetOrdering

Pick(s) == CHOOSE x \in s : TRUE

\* f adds up the numbers that w has for the members of a subset of S.
Adds(f, S, w) ==
  f = [s \in SUBSET S |-> IF s = {} THEN 0 ELSE w[Pick(s)] + f[s \ {Pick(s)}]]

LEMMA Picked == ASSUME NEW s, s # {} PROVE Pick(s) \in s
BY DEF Pick

UpTo(S, n) == {s \in SUBSET S : Cardinality(s) <= n}

\* The recursion is over ever smaller sets, so there is such a function ...
LEMMA AddsExists ==
  ASSUME NEW S, IsFiniteSet(S), NEW w
  PROVE  \E f : Adds(f, S, w)
<1> DEFINE Part(f, n) == f = [s \in UpTo(S, n) |->
                           IF s = {} THEN 0 ELSE w[Pick(s)] + f[s \ {Pick(s)}]]
           Bad == {n \in Nat : ~\E f : Part(f, n)}
<1>0. \A s \in SUBSET S : IsFiniteSet(s) /\ Cardinality(s) \in Nat
  BY FS_Subset, FS_CardinalityType
<1>1. Bad = {}
  <2> SUFFICES ASSUME Bad # {} PROVE FALSE
    OBVIOUS
  <2>1. PICK n \in Bad : \A k \in Bad : n <= k
    BY LeastOf
  <2>2. CASE n = 0
    <3>1. UpTo(S, 0) = {{}}
      BY <1>0, FS_EmptySet DEF UpTo
    <3>2. Part([s \in {{}} |-> 0], 0)
      BY <3>1
    <3> QED BY <2>1, <2>2, <3>2
  <2>3. CASE n # 0
    <3>1. n - 1 \in Nat /\ n - 1 \notin Bad
      <4>1. n \in Nat
        BY <2>1
      <4>2. n - 1 \in Nat /\ ~(n <= n - 1)
        BY <2>3, <4>1
      <4> HIDE DEF Bad
      <4> QED BY <2>1, <4>2
    <3>2. PICK f : Part(f, n - 1)
      BY <3>1
    <3> DEFINE g == [s \in UpTo(S, n) |->
                       IF s = {} THEN 0 ELSE w[Pick(s)] + f[s \ {Pick(s)}]]
    <3>3. \A s \in UpTo(S, n - 1) : g[s] = f[s] /\ s \in UpTo(S, n)
      <4>1. n \in Nat
        BY <2>1
      <4>2. \A s \in UpTo(S, n - 1) : s \in UpTo(S, n)
        BY <1>0, <4>1 DEF UpTo
      <4> QED BY <3>2, <4>2
    <3>4. ASSUME NEW s \in UpTo(S, n), s # {}
          PROVE  s \ {Pick(s)} \in UpTo(S, n - 1)
      <4>1. s \in SUBSET S /\ IsFiniteSet(s) /\ Cardinality(s) <= n /\ Pick(s) \in s
        BY <1>0, <3>4, Picked DEF UpTo
      <4>2. Cardinality(s \ {Pick(s)}) = Cardinality(s) - 1
        BY <4>1, FS_RemoveElement
      <4> QED BY <1>0, <2>1, <4>1, <4>2 DEF UpTo
    <3>5. Part(g, n)
      BY <3>3, <3>4
    <3> QED BY <2>1, <3>5
  <2> QED BY <2>2, <2>3
<1>2. Cardinality(S) \in Nat /\ UpTo(S, Cardinality(S)) = SUBSET S
  BY <1>0, FS_Subset DEF UpTo
<1>3. PICK f : Part(f, Cardinality(S))
  BY <1>1, <1>2
<1> QED BY <1>2, <1>3 DEF Adds

\* ... and whichever member is taken away first, the sum is the same.
LEMMA AddsAny ==
  ASSUME NEW S, IsFiniteSet(S), NEW w \in [S -> Int], NEW f, Adds(f, S, w)
  PROVE  /\ f[{}] = 0
         /\ \A s \in SUBSET S : f[s] \in Int
         /\ \A s \in SUBSET S : \A x \in s : f[s] = w[x] + f[s \ {x}]
<1>1. f[{}] = 0
  BY DEF Adds
<1>2. \A s \in SUBSET S : s # {} =>
        /\ Pick(s) \in s /\ w[Pick(s)] \in Int
        /\ f[s] = w[Pick(s)] + f[s \ {Pick(s)}]
  BY Picked DEF Adds
<1>3. \A s \in SUBSET S : f[s] \in Int
  <2> DEFINE Bad == {s \in SUBSET S : f[s] \notin Int}
  <2> SUFFICES ASSUME Bad # {} PROVE FALSE
    OBVIOUS
  <2>1. PICK s \in Bad : \A x \in s : s \ {x} \notin Bad
    <3>0. Bad \in SUBSET SUBSET S
      OBVIOUS
    <3> HIDE DEF Bad
    <3>1. PICK s \in Bad : \A t \in SUBSET s : t # s => t \notin Bad
      BY <3>0, SmallestOf
    <3> QED BY <3>1
  <2>2. s \in SUBSET S /\ ~(f[s] \in Int)
    BY <2>1
  <2>3. s # {}
    <3>1. 0 \in Int
      OBVIOUS
    <3> QED BY <1>1, <2>2, <3>1, Zenon
  <2>4. PICK c \in s : c = Pick(s) /\ w[c] \in Int /\ f[s] = w[c] + f[s \ {c}]
    BY <1>2, <2>2, <2>3
  <2>5. f[s \ {c}] \in Int
    <3>1. s \ {c} \in SUBSET S /\ s \ {c} \notin Bad
      BY <2>1, <2>2
    <3> QED BY <3>1
  <2>6. w[c] + f[s \ {c}] \in Int
    BY <2>4, <2>5
  <2> QED BY <2>2, <2>4, <2>6, Zenon
<1>4. \A s \in SUBSET S : \A x \in s : f[s] = w[x] + f[s \ {x}]
  <2> DEFINE Bad == {s \in SUBSET S : \E x \in s : f[s] # w[x] + f[s \ {x}]}
  <2> SUFFICES ASSUME Bad # {} PROVE FALSE
    OBVIOUS
  <2>1. PICK s \in Bad : \A x \in s : s \ {x} \notin Bad
    <3>0. Bad \in SUBSET SUBSET S
      OBVIOUS
    <3> HIDE DEF Bad
    <3>1. PICK s \in Bad : \A t \in SUBSET s : t # s => t \notin Bad
      BY <3>0, SmallestOf
    <3> QED BY <3>1
  <2>2. PICK x \in s : f[s] # w[x] + f[s \ {x}]
    BY <2>1
  <2>3. s \in SUBSET S /\ s # {}
    BY <2>2
  <2>4. PICK c \in s : c = Pick(s) /\ f[s] = w[c] + f[s \ {c}]
    BY <1>2, <2>3
  <2>5. c # x
    BY <2>2, <2>4
  <2>6. f[s \ {c}] = w[x] + f[(s \ {c}) \ {x}]
    <3>1. s \ {c} \in SUBSET S /\ s \ {c} \notin Bad /\ x \in s \ {c}
      BY <2>1, <2>2, <2>3, <2>5
    <3> QED BY <3>1
  <2>7. f[s \ {x}] = w[c] + f[(s \ {x}) \ {c}]
    <3>1. s \ {x} \in SUBSET S /\ s \ {x} \notin Bad /\ c \in s \ {x}
      BY <2>1, <2>2, <2>3, <2>5
    <3> QED BY <3>1
  <2>8. (s \ {c}) \ {x} = (s \ {x}) \ {c}
    OBVIOUS
  <2>9. w[x] \in Int /\ w[c] \in Int /\ f[(s \ {x}) \ {c}] \in Int
    BY <1>3, <2>3
  <2> DEFINE t == f[(s \ {x}) \ {c}]
  <2>10. w[c] + (w[x] + t) = w[x] + (w[c] + t)
    BY <2>9
  <2>11. f[s] = w[c] + (w[x] + t)
    BY <2>4, <2>6, <2>8
  <2> QED BY <2>2, <2>7, <2>10, <2>11
<1> QED BY <1>1, <1>3, <1>4

\* The members of R with the date and amount of l, on side z.
Like(R, d, a, s, l, z) == {k \in R : d[k] = d[l] /\ a[k] = a[l] /\ s[k] = z}

Paired(R, d, a, s) ==
  \A l \in R : Cardinality(Like(R, d, a, s, l, "S")) = Cardinality(Like(R, d, a, s, l, "H"))

\* Without two that balance each other, the rest still pairs.
LEMMA PairedWithout ==
  ASSUME NEW R, IsFiniteSet(R), NEW d, NEW a, NEW s, Paired(R, d, a, s),
         NEW l \in R, NEW k \in R, s[l] = "S", s[k] = "H", d[k] = d[l], a[k] = a[l]
  PROVE  Paired((R \ {l}) \ {k}, d, a, s)
<1> DEFINE T == (R \ {l}) \ {k}
<1> SUFFICES ASSUME NEW m \in T
             PROVE  Cardinality(Like(T, d, a, s, m, "S")) = Cardinality(Like(T, d, a, s, m, "H"))
  BY DEF Paired
<1>1. Cardinality(Like(R, d, a, s, m, "S")) = Cardinality(Like(R, d, a, s, m, "H"))
  BY DEF Paired
<1>2. CASE d[m] = d[l] /\ a[m] = a[l]
  <2>1. /\ Like(T, d, a, s, m, "S") = Like(R, d, a, s, m, "S") \ {l}
        /\ Like(T, d, a, s, m, "H") = Like(R, d, a, s, m, "H") \ {k}
        /\ l \in Like(R, d, a, s, m, "S") /\ k \in Like(R, d, a, s, m, "H")
    BY <1>2 DEF Like
  <2>2. IsFiniteSet(Like(R, d, a, s, m, "S")) /\ IsFiniteSet(Like(R, d, a, s, m, "H"))
    BY FS_Subset DEF Like
  <2>3. /\ Cardinality(Like(T, d, a, s, m, "S")) = Cardinality(Like(R, d, a, s, m, "S")) - 1
        /\ Cardinality(Like(T, d, a, s, m, "H")) = Cardinality(Like(R, d, a, s, m, "H")) - 1
    <3> HIDE DEF T
    <3>1. Cardinality(Like(T, d, a, s, m, "S")) = Cardinality(Like(R, d, a, s, m, "S")) - 1
      BY <2>1, <2>2, FS_RemoveElement
    <3>2. Cardinality(Like(T, d, a, s, m, "H")) = Cardinality(Like(R, d, a, s, m, "H")) - 1
      BY <2>1, <2>2, FS_RemoveElement
    <3> QED BY <3>1, <3>2
  <2> QED BY <1>1, <2>3
<1>3. CASE ~(d[m] = d[l] /\ a[m] = a[l])
  <2>1. /\ Like(T, d, a, s, m, "S") = Like(R, d, a, s, m, "S")
        /\ Like(T, d, a, s, m, "H") = Like(R, d, a, s, m, "H")
    BY <1>3 DEF Like
  <2> QED BY <1>1, <2>1
<1> QED BY <1>2, <1>3

LEMMA Counterpart ==
  ASSUME NEW R, IsFiniteSet(R), R # {}, NEW d, NEW a, NEW s, Paired(R, d, a, s),
         \A l \in R : s[l] \in {"S", "H"}
  PROVE  \E l, k \in R : s[l] = "S" /\ s[k] = "H" /\ d[k] = d[l] /\ a[k] = a[l]
<1>1. PICK m \in R : TRUE
  OBVIOUS
<1> DEFINE soll == Like(R, d, a, s, m, "S")
           haben == Like(R, d, a, s, m, "H")
<1>2. IsFiniteSet(soll) /\ IsFiniteSet(haben) /\ Cardinality(soll) = Cardinality(haben)
  BY FS_Subset DEF Like, Paired
<1>3. soll # {} \/ haben # {}
  BY <1>1 DEF Like
<1>4. soll # {} /\ haben # {}
  BY <1>2, <1>3, FS_EmptySet
<1> QED BY <1>4 DEF Like

\* Soll minus Haben of members that pair is nothing.
LEMMA PairedIsZero ==
  ASSUME NEW S, IsFiniteSet(S), NEW d, NEW a \in [S -> Int], NEW s \in [S -> {"S", "H"}],
         NEW w \in [S -> Int], \A l \in S : w[l] = IF s[l] = "S" THEN a[l] ELSE -a[l],
         NEW f, Adds(f, S, w), Paired(S, d, a, s)
  PROVE  f[S] = 0
<1> DEFINE Bad == {R \in SUBSET S : Paired(R, d, a, s) /\ f[R] # 0}
<1> SUFFICES ASSUME Bad # {} PROVE FALSE
  OBVIOUS
<1>1. PICK R \in Bad : \A T \in SUBSET R : T # R => T \notin Bad
  <2>0. Bad \in SUBSET SUBSET S
    OBVIOUS
  <2> HIDE DEF Bad
  <2> QED BY <2>0, SmallestOf
<1>2. R \in SUBSET S /\ IsFiniteSet(R) /\ Paired(R, d, a, s) /\ f[R] # 0 /\ R # {}
  BY <1>1, AddsAny, FS_Subset
<1>3. PICK l \in R, k \in R : s[l] = "S" /\ s[k] = "H" /\ d[k] = d[l] /\ a[k] = a[l]
  BY <1>2, Counterpart
<1> DEFINE T == (R \ {l}) \ {k}
<1>4. T \in SUBSET S /\ Paired(T, d, a, s) /\ T \subseteq R /\ T # R
  BY <1>2, <1>3, PairedWithout
<1>5. f[T] = 0
  BY <1>1, <1>4
<1>6. R \ {l} \in SUBSET S /\ k \in R \ {l}
  BY <1>2, <1>3
<1>7. f[R] = w[l] + f[R \ {l}] /\ f[R \ {l}] = w[k] + f[T]
  BY <1>2, <1>6, AddsAny
<1>8. w[l] = a[l] /\ w[k] = -a[l] /\ a[l] \in Int
  BY <1>2, <1>3
<1>9. f[R] = a[l] + (-a[l] + 0)
  BY <1>5, <1>7, <1>8
<1> QED BY <1>2, <1>8, <1>9

----------------------------------------------------------------------------
(* The rows of a file pair, so that they balance.                          *)

FilesPaired ==
  /\ \A r \in Requests : IsFiniteSet(req[r].rows)
  /\ \A j \in Jobs : IsFiniteSet(files[j]) /\ RowsPair(files[j])

\* What a row shows does not change once its line has been written.
RowsKept ==
  \A n \in Entries :
    /\ Made(n) => entries'[n].event = entries[n].event
    /\ \A i \in DOMAIN lines[n] : /\ lines'[n][i].amount = lines[n][i].amount
                                 /\ lines'[n][i].side = lines[n][i].side

LEMMA PairsKept ==
  ASSUME RowsKept, NEW rows \in SUBSET LineIds, RowsPair(rows),
         \A l \in rows : Existing(l) /\ Made(l[1])
  PROVE  RowsPair(rows)'
<1>1. ASSUME NEW l \in rows
      PROVE  /\ DateOf[entries'[l[1]].event] = DateOf[entries[l[1]].event]
             /\ lines'[l[1]][l[2]].amount = lines[l[1]][l[2]].amount
             /\ lines'[l[1]][l[2]].side = lines[l[1]][l[2]].side
  BY DEF RowsKept, LineIds, Existing
<1> DEFINE alike(l, side) == {k \in rows :
             /\ DateOf[entries[k[1]].event] = DateOf[entries[l[1]].event]
             /\ lines[k[1]][k[2]].amount = lines[l[1]][l[2]].amount
             /\ lines[k[1]][k[2]].side = side}
           alikeNow(l, side) == {k \in rows :
             /\ DateOf[entries'[k[1]].event] = DateOf[entries'[l[1]].event]
             /\ lines'[k[1]][k[2]].amount = lines'[l[1]][l[2]].amount
             /\ lines'[k[1]][k[2]].side = side}
<1>2. \A l \in rows : Cardinality(alike(l, "S")) = Cardinality(alike(l, "H"))
  BY DEF RowsPair, LineOf
<1>3. ASSUME NEW l \in rows, NEW side PROVE alikeNow(l, side) = alike(l, side)
  BY <1>1
<1>4. \A l \in rows : Cardinality(alikeNow(l, "S")) = Cardinality(alikeNow(l, "H"))
  <2> HIDE DEF alike, alikeNow
  <2> QED BY <1>2, <1>3
<1> QED BY <1>4 DEF RowsPair, LineOf

LEMMA RowsKeptBy ==
  ASSUME IInv, NEW r \in Requests,
         Build(r) \/ Post(r) \/ TrueUp(r) \/ Export(r)
  PROVE  RowsKept
<1>0. TypeOK
  BY DEF IInv
<1>1. \A n \in Entries : Made(n) => entries'[n].event = entries[n].event
  <2>1. ASSUME NEW x, NEW n \in Entries, Creates(n, x)
        PROVE  \A m \in Entries : Made(m) => entries'[m].event = entries[m].event
    BY <1>0, <2>1, Created
  <2>2. CASE CreateEntry(r)
    BY <2>1, <2>2, BuildFlow
  <2>3. CASE CreateTrueUp(r)
    BY <2>1, <2>3, TrueUpFlow
  <2>4. CASE ~CreateEntry(r) /\ ~CreateTrueUp(r)
    <3>1. \/ StartBuild(r) \/ FindEntry(r) \/ AddLine(r) \/ ReadVat(r) \/ LinkEvent(r)
          \/ Post(r)
          \/ StartTrueUp(r) \/ FindPosted(r) \/ TrueUpEvent(r)
          \/ AddLine(r) \/ Export(r)
      BY <2>4 DEF Build, TrueUp
    <3> QED BY <3>1, KindsKeptBy DEF KindsKept
  <2> QED BY <2>2, <2>3, <2>4
<1>2. CASE AddLine(r)
  BY <1>1, <1>2, AddedLine DEF RowsKept
<1>3. CASE MarkLine(r)
  <2>1. PICK l \in req[r].rows : lines' = [lines EXCEPT ![l[1]][l[2]].job = req[r].job]
    BY <1>3, ExportFlow
  <2>2. /\ req[r].rows \subseteq LineIds /\ req[r].job \in Jobs
        /\ \A k \in req[r].rows : Existing(k)
    BY <1>0, <1>3, WorkTypes DEF IInv, RequestOK, ExportOK, MarkLine, At
  <2>3. PICK n \in Entries : l[1] = n /\ l[2] \in DOMAIN lines[n]
    BY <2>2 DEF LineIds, Existing
  <2> DEFINE i == l[2]
  <2>4. lines' = [lines EXCEPT ![n][i].job = req[r].job]
    BY <2>1, <2>3
  <2>5. \A m \in Entries : \A k \in DOMAIN lines[m] :
          <<m, k>> # <<n, i>> => lines'[m][k] = lines[m][k]
    BY <1>0, <2>2, <2>4, LineMarked
  <2>6. /\ lines'[n][i].amount = lines[n][i].amount
        /\ lines'[n][i].side = lines[n][i].side
    <3> DEFINE s == lines[n]
               x == [s[i] EXCEPT !.job = req[r].job]
    <3>1. s \in Seq(Line) /\ lines \in [Entries -> Seq(Line)] /\ i \in DOMAIN s
      BY <1>0, <2>3 DEF TypeOK
    <3>2. s[i] \in Line
      BY <3>1
    <3>3. x.amount = s[i].amount /\ x.side = s[i].side
      BY <3>2 DEF Line
    <3>4. lines' = [lines EXCEPT ![n] = [s EXCEPT ![i] = x]]
      BY <2>4
    <3> HIDE DEF x
    <3>5. lines'[n] = [s EXCEPT ![i] = x]
      BY <3>1, <3>4
    <3>6. DOMAIN s = 1..Len(s) /\ s \in [1..Len(s) -> Line]
      BY <3>1
    <3>7. lines'[n][i] = x
      <4> HIDE DEF s
      <4> QED BY <3>1, <3>5, <3>6
    <3> QED BY <3>3, <3>7
  <2>7. \A m \in Entries : \A k \in DOMAIN lines[m] :
          /\ lines'[m][k].amount = lines[m][k].amount
          /\ lines'[m][k].side = lines[m][k].side
    BY <2>5, <2>6
  <2> QED BY <1>1, <2>7 DEF RowsKept
<1>4. CASE ~AddLine(r) /\ ~MarkLine(r)
  <2>1. UNCHANGED lines
    BY <1>4 DEF Build, Post, TrueUp, Export, StartBuild, FindEntry, CreateEntry, ReadVat,
       LinkEvent, StartPost, CheckBalance, PostEntry, PostEvent, StartTrueUp, FindPosted,
       CreateTrueUp, TrueUpEvent, StartExport, GatherEntry, CreateJob, MarkEntry, journal
  <2> QED BY <1>1, <2>1 DEF RowsKept
<1> QED BY <1>2, <1>3, <1>4

\* The rows of the other requests and of the files there are.
LEMMA PairedStep ==
  ASSUME IInv, FilesPaired, NEW r \in Requests,
         RowsKept, \A q \in Requests : q # r => req'[q] = req[q],
         IsFiniteSet(req'[r].rows),
         \A j \in Jobs : \/ files'[j] = files[j]
                         \/ /\ UNCHANGED <<entries, lines>>
                            /\ IsFiniteSet(files'[j]) /\ RowsPair(files'[j])
  PROVE  FilesPaired'
<1>1. \A q \in Requests : IsFiniteSet(req'[q].rows)
  BY DEF FilesPaired
<1>2. ASSUME NEW j \in Jobs PROVE IsFiniteSet(files'[j]) /\ RowsPair(files[j])'
  <2>1. CASE files'[j] = files[j]
    <3>1. IsFiniteSet(files[j]) /\ RowsPair(files[j])
      BY DEF FilesPaired
    <3>2. /\ files[j] \in SUBSET LineIds
          /\ \A l \in files[j] : Existing(l) /\ Made(l[1])
      BY DEF IInv, TypeOK, JournalOK, Existing, LineIds
    <3>3. PICK rows \in SUBSET LineIds : rows = files[j]
      BY <3>2
    <3>4. RowsPair(rows)'
      BY <3>1, <3>2, <3>3, PairsKept
    <3>5. RowsPair(files[j])'
      BY <2>1, <3>3, <3>4 DEF RowsPair, LineOf
    <3> QED BY <2>1, <3>1, <3>5
  <2>2. CASE /\ UNCHANGED <<entries, lines>>
             /\ IsFiniteSet(files'[j]) /\ RowsPair(files'[j])
    BY <2>2 DEF RowsPair, LineOf
  <2> QED BY <2>1, <2>2
<1> QED BY <1>1, <1>2 DEF FilesPaired

LEMMA UnexportedFinite ==
  ASSUME TypeOK, NEW n \in Entries
  PROVE  IsFiniteSet(Unexported(n))
<1>1. Len(lines[n]) \in Nat /\ DOMAIN lines[n] = 1..Len(lines[n])
  BY DEF TypeOK
<1> DEFINE ids == {<<n, i>> : i \in 1..Len(lines[n])}
<1>2. IsFiniteSet(1..Len(lines[n]))
  BY <1>1, FS_Interval
<1>3. [i \in 1..Len(lines[n]) |-> <<n, i>>] \in Surjection(1..Len(lines[n]), ids)
  BY DEF Surjection
<1>4. IsFiniteSet(ids)
  BY <1>2, <1>3, FS_Surjection
<1>5. Unexported(n) \in SUBSET ids
  BY <1>1 DEF Unexported
<1> QED BY <1>4, <1>5, FS_Subset

LEMMA FilesPairedStep == IInv /\ FilesPaired /\ [Next]_vars => FilesPaired'
<1> SUFFICES ASSUME IInv, FilesPaired, [Next]_vars PROVE FilesPaired'
  OBVIOUS
<1>0. TypeOK
  BY DEF IInv
<1>1. CASE UNCHANGED vars
  BY <1>1 DEF FilesPaired, RowsPair, LineOf, vars, journal, events
<1>2. ASSUME NEW r \in Requests, Rematch(r) \/ CancelOrder(r) PROVE FilesPaired'
  <2>1. UNCHANGED <<entries, lines, files, req>>
    BY <1>2 DEF Rematch, CancelOrder, journal
  <2> QED BY <2>1 DEF FilesPaired, RowsPair, LineOf
<1>3. ASSUME NEW r \in Requests, Fail(r) PROVE FilesPaired'
  <2>1. UNCHANGED <<entries, lines, files>> /\ Return(r)
    BY <1>3 DEF Fail, journal
  <2>2. RowsKept
    BY <2>1 DEF RowsKept
  <2>3. \A q \in Requests : q # r => req'[q] = req[q]
    BY <1>0, <2>1 DEF Return, Step, TypeOK
  <2>4. IsFiniteSet(req'[r].rows)
    BY <1>0, <2>1, Came, FS_EmptySet
  <2> QED BY <2>1, <2>2, <2>3, <2>4, PairedStep
<1>4. ASSUME NEW r \in Requests, Build(r) \/ Post(r) \/ TrueUp(r) \/ Export(r)
      PROVE  FilesPaired'
  <2>1. RowsKept
    BY <1>4, RowsKeptBy
  <2>2. \A q \in Requests : q # r => req'[q] = req[q]
    <3>1. \E w : Step(r, w)
      BY <1>4 DEF Return, Build, Post, TrueUp, Export, StartBuild, FindEntry, CreateEntry,
         AddLine, ReadVat, LinkEvent, StartPost, CheckBalance, PostEntry, PostEvent,
         StartTrueUp, FindPosted, CreateTrueUp, TrueUpEvent, StartExport, GatherEntry,
         CreateJob, MarkLine, MarkEntry
    <3> QED BY <1>0, <3>1 DEF Step, TypeOK
  <2>3. IsFiniteSet(req[r].rows)
    BY DEF FilesPaired
  <2>4. CASE Return(r) /\ UNCHANGED files
    BY <1>0, <2>1, <2>2, <2>4, Came, FS_EmptySet, PairedStep
  <2>5. CASE Build(r) \/ Post(r) \/ TrueUp(r)
    <3>1. UNCHANGED files
      BY <2>5 DEF Build, Post, TrueUp, StartBuild, FindEntry, CreateEntry, AddLine, ReadVat,
         LinkEvent, StartPost, CheckBalance, PostEntry, PostEvent, StartTrueUp, FindPosted,
         CreateTrueUp, TrueUpEvent
    <3>2. Return(r) \/ Carried(r) \/ Begun(r)
      <4>1. CASE Build(r)
        BY <4>1, BuildFlow DEF Build
      <4>2. CASE Post(r)
        BY <4>2, PostFlow DEF Post
      <4>3. CASE TrueUp(r)
        BY <4>3, TrueUpFlow DEF TrueUp
      <4> QED BY <2>5, <4>1, <4>2, <4>3
    <3>3. CASE Carried(r) \/ Begun(r)
      <4>1. IsFiniteSet(req'[r].rows)
        BY <2>3, <3>3, FS_EmptySet DEF Carried, Begun
      <4> QED BY <2>1, <2>2, <3>1, <4>1, PairedStep
    <3> QED BY <2>4, <3>1, <3>2, <3>3
  <2>6. CASE StartExport(r)
    BY <2>1, <2>2, <2>6, ExportFlow, FS_EmptySet, PairedStep DEF Calm
  <2>7. CASE GatherEntry(r)
    <3>1. UNCHANGED files
      BY <2>7, ExportFlow DEF Calm
    <3>2. CASE ~Return(r)
      <4>1. PICK n \in req[r].list : req'[r].rows = req[r].rows \cup Unexported(n)
        BY <2>7, <3>2, ExportFlow
      <4>2. IsFiniteSet(Unexported(n))
        BY <1>0, WorkTypes, UnexportedFinite
      <4>3. IsFiniteSet(req'[r].rows)
        BY <2>3, <4>1, <4>2, FS_Union
      <4> QED BY <2>1, <2>2, <3>1, <4>3, PairedStep
    <3> QED BY <2>4, <3>1, <3>2
  <2>8. CASE CreateJob(r)
    <3>1. CASE ~(Return(r) /\ UNCHANGED files)
      <4>1. RowsPair(req[r].rows)
        BY <2>8, <3>1 DEF CreateJob
      <4>2. PICK j \in Jobs : files' = [files EXCEPT ![j] = req[r].rows]
        BY <2>8, <3>1, ExportFlow
      <4>3. UNCHANGED <<entries, lines>> /\ req'[r].rows = req[r].rows
        BY <2>8, <3>1, ExportFlow
      <4>4. \A k \in Jobs : files'[k] = files[k] \/ files'[k] = req[r].rows
        BY <1>0, <4>2 DEF TypeOK
      <4> QED BY <2>1, <2>2, <2>3, <4>1, <4>3, <4>4, PairedStep
    <3> QED BY <2>4, <3>1
  <2>9. CASE MarkLine(r)
    <3>1. UNCHANGED files /\ \E l \in req[r].rows : req'[r].rows = req[r].rows \ {l}
      BY <2>9, ExportFlow
    <3>2. IsFiniteSet(req'[r].rows)
      BY <2>3, <3>1, FS_RemoveElement
    <3> QED BY <2>1, <2>2, <3>1, <3>2, PairedStep
  <2>10. CASE MarkEntry(r)
    <3>1. UNCHANGED files /\ (Return(r) \/ req'[r].rows = req[r].rows)
      BY <2>10, ExportFlow
    <3>2. CASE ~Return(r)
      BY <2>1, <2>2, <2>3, <3>1, <3>2, PairedStep
    <3> QED BY <2>4, <3>1, <3>2
  <2> QED BY <1>4, <2>5, <2>6, <2>7, <2>8, <2>9, <2>10 DEF Export
<1> QED BY <1>1, <1>2, <1>3, <1>4 DEF Next

LEMMA FilesPairedInit == Init => FilesPaired
BY FS_EmptySet, IdleIsWork DEF Init, FilesPaired, RowsPair

\* The rows of every export file pair up, so the code that pairs them finds a
\* gegenkonto for each; lines that are marked or added later change none.
THEOREM RowsOfFilesPair == Spec => [](\A j \in Jobs : RowsPair(files[j]))
<1>1. FilesPaired => \A j \in Jobs : RowsPair(files[j])
  BY DEF FilesPaired
<1> QED BY <1>1, Invariance, FilesPairedInit, FilesPairedStep, PTL DEF Spec

\* Pairs of equal amounts add up to nothing.
LEMMA FileAddsUp ==
  ASSUME TypeOK, JournalOK, FilesPaired, NEW j \in Jobs
  PROVE  MapThenSumSet(LAMBDA l : Signed(lines[l[1]], l[2]), files[j]) = 0
<1> DEFINE S == files[j]
           d == [l \in S |-> DateOf[entries[l[1]].event]]
           a == [l \in S |-> LineOf(l).amount]
           s == [l \in S |-> LineOf(l).side]
           w == [l \in S |-> Signed(lines[l[1]], l[2])]
<1>1. IsFiniteSet(S) /\ RowsPair(S)
  BY DEF FilesPaired
<1>2. ASSUME NEW l \in S
      PROVE  /\ LineOf(l).amount \in Int /\ LineOf(l).side \in {"S", "H"}
             /\ Signed(lines[l[1]], l[2]) = IF LineOf(l).side = "S" THEN LineOf(l).amount
                                                                    ELSE -LineOf(l).amount
  <2>1. l[1] \in Entries /\ l[2] \in DOMAIN lines[l[1]]
    BY DEF TypeOK, JournalOK, Existing, LineIds
  <2>2. lines[l[1]] \in Seq(Line)
    BY <2>1 DEF TypeOK
  <2>3. LineOf(l) \in Line
    BY <2>1, <2>2 DEF LineOf
  <2> QED BY <2>1, <2>3 DEF Line, LineOf, Signed
<1>3. a \in [S -> Int] /\ s \in [S -> {"S", "H"}] /\ w \in [S -> Int]
  <2>1. \A l \in S : Signed(lines[l[1]], l[2]) \in Int
    BY <1>2
  <2> QED BY <1>2, <2>1
<1>4. \A l \in S : w[l] = IF s[l] = "S" THEN a[l] ELSE -a[l]
  BY <1>2
<1>5. Paired(S, d, a, s)
  <2> SUFFICES ASSUME NEW l \in S
               PROVE  Cardinality(Like(S, d, a, s, l, "S")) = Cardinality(Like(S, d, a, s, l, "H"))
    BY DEF Paired
  <2> DEFINE alike(side) == {k \in S :
               /\ DateOf[entries[k[1]].event] = DateOf[entries[l[1]].event]
               /\ LineOf(k).amount = LineOf(l).amount
               /\ LineOf(k).side = side}
  <2>1. Cardinality(alike("S")) = Cardinality(alike("H"))
    BY <1>1 DEF RowsPair
  <2>2. Like(S, d, a, s, l, "S") = alike("S") /\ Like(S, d, a, s, l, "H") = alike("H")
    BY DEF Like
  <2> HIDE DEF alike
  <2> QED BY <2>1, <2>2
<1>6. ASSUME NEW f
      PROVE  Adds(f, S, w) <=>
               f = [t \in SUBSET S |-> IF t = {} THEN 0
                      ELSE LET x == CHOOSE x \in t : TRUE
                           IN  Signed(lines[x[1]], x[2]) + f[t \ {x}]]
  <2>1. ASSUME NEW t \in SUBSET S, t # {}
        PROVE  w[Pick(t)] = Signed(lines[Pick(t)[1]], Pick(t)[2])
    BY <2>1, Picked
  <2> HIDE DEF w
  <2>2. [t \in SUBSET S |-> IF t = {} THEN 0 ELSE w[Pick(t)] + f[t \ {Pick(t)}]] =
        [t \in SUBSET S |-> IF t = {} THEN 0
           ELSE LET x == Pick(t) IN Signed(lines[x[1]], x[2]) + f[t \ {x}]]
    BY <2>1
  <2> QED BY <2>2 DEF Adds, Pick
<1> DEFINE g == CHOOSE f : f = [t \in SUBSET S |-> IF t = {} THEN 0
                             ELSE LET x == CHOOSE x \in t : TRUE
                                  IN  Signed(lines[x[1]], x[2]) + f[t \ {x}]]
<1>7. Adds(g, S, w)
  <2> HIDE DEF w
  <2>1. \E f : Adds(f, S, w)
    BY <1>1, AddsExists
  <2>2. \E f : f = [t \in SUBSET S |-> IF t = {} THEN 0
                      ELSE LET x == CHOOSE x \in t : TRUE
                           IN  Signed(lines[x[1]], x[2]) + f[t \ {x}]]
    <3>1. PICK f : Adds(f, S, w)
      BY <2>1
    <3>2. f = [t \in SUBSET S |-> IF t = {} THEN 0
                 ELSE LET x == CHOOSE x \in t : TRUE
                      IN  Signed(lines[x[1]], x[2]) + f[t \ {x}]]
      BY <1>6, <3>1, Zenon
    <3> QED BY <3>2, Zenon
  <2>3. g = [t \in SUBSET S |-> IF t = {} THEN 0
                      ELSE LET x == CHOOSE x \in t : TRUE
                           IN  Signed(lines[x[1]], x[2]) + g[t \ {x}]]
    BY <2>2
  <2> HIDE DEF g
  <2> QED BY <1>6, <2>3
<1>8. g[S] = 0
  <2> HIDE DEF g, d, a, s, w
  <2> QED BY <1>1, <1>3, <1>4, <1>5, <1>7, PairedIsZero
<1>9. MapThenSumSet(LAMBDA l : Signed(lines[l[1]], l[2]), S) = g[S]
  BY Zenon DEF MapThenSumSet, MapThenFoldSet
<1> QED BY <1>8, <1>9

\* AccrualDatevExportService.create writes no file whose Soll and Haben differ,
\* also when it reads entries that are still being written, or fails.
THEOREM FilesBalance == Spec => []FilesBalanced
<1>1. IInv /\ FilesPaired => FilesBalanced
  <2> SUFFICES ASSUME IInv, FilesPaired, NEW j \in Jobs
               PROVE  MapThenSumSet(LAMBDA l : Signed(lines[l[1]], l[2]), files[j]) = 0
    BY Zenon DEF FilesBalanced, MapThenSumSet, MapThenFoldSet
  <2> QED BY FileAddsUp DEF IInv
<1> QED BY <1>1, Invariance, FilesPairedInit, FilesPairedStep, PTL DEF Spec

=============================================================================
