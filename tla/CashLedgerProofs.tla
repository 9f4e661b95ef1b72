-------------------------- MODULE CashLedgerProofs --------------------------
(***************************************************************************)
(* The cash ledger for any set of transactions, requests, batches, accounts*)
(* and duplicate groups: type correctness, the backing of the export lock, *)
(* the validity of every DATEV file, and that the ledger implements the    *)
(* abstract export lock, with any number of requests overlapping and       *)
(* failing at any call.  For requests that come one at a time, also what   *)
(* the ledger shows of an exported transaction and, if none fails, that no *)
(* transaction is in two files.                                            *)
(***************************************************************************)
EXTENDS CashLedger, TLAPS

(***************************************************************************)
(* Type correctness.                                                       *)
(***************************************************************************)
LEMMA IdleInWork == Idle \in Work
BY NonesOK DEF Idle, Work, Phases, NoRows, File, Booking

(* A request that moves on to a record of its type keeps the types.        *)
LEMMA StepKeepsType ==
  ASSUME req \in [Requests -> Work], NEW r \in Requests, NEW w \in Work,
         Step(r, w)
  PROVE  req' \in [Requests -> Work]
BY DEF Step

(* So does one that ends.                                                  *)
LEMMA ReturnKeepsType ==
  ASSUME req \in [Requests -> Work], NEW r \in Requests, Return(r)
  PROVE  req' \in [Requests -> Work]
BY IdleInWork, StepKeepsType DEF Return

(* So does one that ends or goes on with the next transaction it has to do. *)
LEMMA DoneKeepsType ==
  ASSUME req \in [Requests -> Work], NEW r \in Requests, NEW t \in Tx,
         Done(r, t)
  PROVE  req' \in [Requests -> Work]
<1> DEFINE left == req[r].todo \ {t}
<1>1. CASE left = {}
  BY <1>1, ReturnKeepsType DEF Done
<1>2. CASE left # {}
  <2> DEFINE w == [req[r] EXCEPT !.todo = left]
  <2>1. w \in Work  BY DEF Work
  <2>2. Step(r, w)  BY <1>2 DEF Done
  <2>3. QED         BY <2>1, <2>2, StepKeepsType
<1>3. QED BY <1>1, <1>2

(* The transactions and groups that a request in progress refers to.       *)
RefsOK ==
  \A r \in Requests :
    /\ req[r].pc \in {"mark", "assign", "status"} => req[r].cur \in Tx
    /\ req[r].pc \in {"claim", "mark"} => req[r].batch \in Batches
    /\ req[r].pc \in {"merge", "merged", "ignored", "keep_both"} => req[r].grp \in Groups

(* The types and references hold before any request.                       *)
LEMMA TypeInit == Init => TypeOK /\ RefsOK
<1> SUFFICES ASSUME Init PROVE TypeOK /\ RefsOK
  OBVIOUS
<1>1. TypeOK
  <2>1. PICK row \in [Tx -> UNION {Outcomes(t) : t \in Tx}] :
          /\ \A t \in Tx : row[t] \in Outcomes(t)
          /\ status = [t \in Tx |-> row[t][1]]
          /\ booking = [t \in Tx |-> row[t][2]]
          /\ system = [t \in Tx |-> row[t][3]]
    BY DEF Init
  <2>2. ASSUME NEW t \in Tx, NEW o \in Outcomes(t)
        PROVE  o[1] \in Status /\ o[2] \in Booking /\ o[3] \in BOOLEAN
    <3>1. \A res \in RuleResults : res[1] \in Status /\ res[2] \in Booking
      BY DEF RuleResults, Status, Booking
    <3>2. \A x \in {"matched"} \X Konten \X {TRUE} :
            x[1] \in Status /\ x[2] \in Booking /\ x[3] \in BOOLEAN
      BY DEF Status, Booking
    <3>3. CASE \E s \in Status : o = <<s, NoKonto, FALSE>>
      BY <3>3 DEF Booking
    <3>4. CASE \E res \in RuleResults : o = <<res[1], res[2], FALSE>>
      BY <3>1, <3>4
    <3>5. \/ \E s \in Status : o = <<s, NoKonto, FALSE>>
          \/ o \in {"matched"} \X Konten \X {TRUE}
          \/ \E res \in RuleResults : o = <<res[1], res[2], FALSE>>
      BY DEF Outcomes, Status
    <3>6. QED BY <3>2, <3>3, <3>4, <3>5
  <2>3. /\ status \in [Tx -> Status]
        /\ booking \in [Tx -> Booking]
        /\ system \in [Tx -> BOOLEAN]
    BY <2>1, <2>2
  <2>4. QED
    BY <2>3, IdleInWork DEF Init, TypeOK, File, NoRows, Booking
<1>2. RefsOK
  BY DEF Init, RefsOK, Idle
<1>3. QED BY <1>1, <1>2

(* The requests that begin keep types and references.                      *)
LEMMA TypeStart ==
  ASSUME TypeOK, RefsOK, NEW r \in Requests,
         \/ StartExport(r) \/ StartAssign(r) \/ StartSetStatus(r)
         \/ StartApplyRules(r) \/ StartReprocess(r) \/ StartResolve(r)
  PROVE  TypeOK' /\ RefsOK'
<1> USE DEF TypeOK
<1>1. ASSUME NEW w \in Work, Step(r, w), UNCHANGED <<ledger, items, files, groups>>,
             w.pc \in {"mark", "assign", "status"} => w.cur \in Tx,
             w.pc \in {"claim", "mark"} => w.batch \in Batches,
             w.pc \in {"merge", "merged", "ignored", "keep_both"} => w.grp \in Groups
      PROVE  TypeOK' /\ RefsOK'
  BY <1>1, StepKeepsType DEF RefsOK, Step, ledger
<1>2. CASE StartExport(r)
  <2>1. PICK p \in Periods, allowMatched \in BOOLEAN, blockIfOpen \in BOOLEAN :
          Step(r, [Idle EXCEPT
                !.pc = IF blockIfOpen THEN "openCheck" ELSE "create",
                !.period = p,
                !.rows = [t \in Tx |-> IF t \in Exportable(p, allowMatched)
                                       THEN booking[t] ELSE NoKonto]])
    BY <1>2 DEF StartExport
  <2> DEFINE f == [t \in Tx |-> IF t \in Exportable(p, allowMatched)
                                THEN booking[t] ELSE NoKonto]
             w == [Idle EXCEPT !.pc = IF blockIfOpen THEN "openCheck" ELSE "create",
                               !.period = p, !.rows = f]
  <2>2. f \in File
    BY DEF File, Booking
  <2>3. w \in Work
    BY <2>2, IdleInWork DEF Work, Phases, Idle
  <2>4. QED
    BY <1>1, <1>2, <2>1, <2>3 DEF StartExport, Idle
<1>3. CASE StartAssign(r) \/ StartSetStatus(r)
  <2>1. PICK t \in Tx, pc \in {"assign", "status"} :
          Step(r, [Idle EXCEPT !.pc = pc, !.cur = t])
    BY <1>3 DEF StartAssign, StartSetStatus
  <2>2. [Idle EXCEPT !.pc = pc, !.cur = t] \in Work
    BY IdleInWork DEF Work, Phases, Idle
  <2>3. QED
    BY <1>1, <1>3, <2>1, <2>2 DEF StartAssign, StartSetStatus, Idle
<1>4. ASSUME NEW todo \in SUBSET Tx, NEW wasOpen \in SUBSET Tx,
             NEW pc \in {"rules", "noRules", "reprocess"}
      PROVE  /\ [Idle EXCEPT !.pc = pc, !.todo = todo] \in Work
             /\ [Idle EXCEPT !.pc = pc, !.todo = todo, !.wasOpen = wasOpen] \in Work
  BY IdleInWork DEF Work, Phases, Idle
<1>5. CASE StartApplyRules(r)
  <2>1. PICK list \in {ReapplyDefault} \cup SUBSET Tx, hasRules \in BOOLEAN :
          LET todo == {t \in list : /\ status[t] \notin {"exported", "reviewed"}
                                    /\ t \notin Skipped
                                    /\ ~system[t]}
          IN  Step(r, IF hasRules
                      THEN [Idle EXCEPT !.pc = "rules", !.todo = todo]
                      ELSE [Idle EXCEPT !.pc = "noRules", !.todo = todo,
                              !.wasOpen = {t \in todo : status[t] = "open"}])
    BY <1>5 DEF StartApplyRules
  <2> DEFINE todo == {t \in list : /\ status[t] \notin {"exported", "reviewed"}
                                   /\ t \notin Skipped
                                   /\ ~system[t]}
             wasOpen == {t \in todo : status[t] = "open"}
             w == [Idle EXCEPT !.pc = "rules", !.todo = todo]
             v == [Idle EXCEPT !.pc = "noRules", !.todo = todo, !.wasOpen = wasOpen]
  <2>2. todo \in SUBSET Tx /\ wasOpen \in SUBSET Tx
    BY DEF ReapplyDefault
  <2>3. Step(r, w) \/ Step(r, v)
    BY <2>1
  <2>4. w \in Work /\ v \in Work
    BY <1>4, <2>2
  <2>5. w.pc = "rules" /\ v.pc = "noRules"
    BY DEF Idle
  <2> HIDE DEF w, v
  <2>6. UNCHANGED <<ledger, items, files, groups>>
    BY <1>5 DEF StartApplyRules
  <2>7. QED
    BY <1>1, <2>3, <2>4, <2>5, <2>6
<1>6. CASE StartReprocess(r)
  <2>1. PICK list \in ImportBatches :
          Step(r, [Idle EXCEPT !.pc = "reprocess",
                    !.todo = {t \in list : /\ status[t] \notin {"exported", "skipped"}
                                           /\ t \notin Skipped
                                           /\ ~system[t]}])
    BY <1>6 DEF StartReprocess
  <2> DEFINE todo == {t \in list : /\ status[t] \notin {"exported", "skipped"}
                                   /\ t \notin Skipped
                                   /\ ~system[t]}
             w == [Idle EXCEPT !.pc = "reprocess", !.todo = todo]
  <2>2. w \in Work
    BY <1>4, ConstantsOK
  <2>3. w.pc = "reprocess"
    BY DEF Idle
  <2> HIDE DEF w
  <2>4. QED
    BY <1>1, <1>6, <2>1, <2>2, <2>3 DEF StartReprocess, w
<1>7. CASE StartResolve(r)
  <2>1. PICK g \in Groups :
          \/ \E action \in {"ignored", "keep_both"} :
                Step(r, [Idle EXCEPT !.pc = action, !.grp = g])
          \/ Step(r, [Idle EXCEPT !.pc = IF g.rest = {} THEN "merged" ELSE "merge",
                                  !.grp = g, !.todo = g.rest])
    BY <1>7 DEF StartResolve
  <2>2. UNCHANGED <<ledger, items, files, groups>>
    BY <1>7 DEF StartResolve
  <2>3. CASE \E action \in {"ignored", "keep_both"} :
                Step(r, [Idle EXCEPT !.pc = action, !.grp = g])
    <3>1. PICK action \in {"ignored", "keep_both"} :
            Step(r, [Idle EXCEPT !.pc = action, !.grp = g])
      BY <2>3
    <3>2. [Idle EXCEPT !.pc = action, !.grp = g] \in Work
      BY IdleInWork DEF Work, Phases, Idle
    <3>3. QED
      BY <1>1, <2>2, <3>1, <3>2 DEF Idle
  <2>4. CASE Step(r, [Idle EXCEPT !.pc = IF g.rest = {} THEN "merged" ELSE "merge",
                                  !.grp = g, !.todo = g.rest])
    <3>1. g.rest \in SUBSET Tx
      BY ConstantsOK
    <3>2. [Idle EXCEPT !.pc = IF g.rest = {} THEN "merged" ELSE "merge",
                       !.grp = g, !.todo = g.rest] \in Work
      BY <3>1, IdleInWork DEF Work, Phases, Idle
    <3>3. QED
      BY <1>1, <2>2, <2>4, <3>2 DEF Idle
  <2>5. QED BY <2>1, <2>3, <2>4
<1>8. QED BY <1>2, <1>3, <1>5, <1>6, <1>7

(* A step that only moves one request on, or ends it, keeps the references *)
(* of every request in order.                                              *)
LEMMA RefsStep ==
  ASSUME TypeOK, RefsOK, NEW r \in Requests, NEW w \in Work, Step(r, w),
         w.pc \in {"mark", "assign", "status"} => w.cur \in Tx,
         w.pc \in {"claim", "mark"} => w.batch \in Batches,
         w.pc \in {"merge", "merged", "ignored", "keep_both"} => w.grp \in Groups
  PROVE  req' \in [Requests -> Work] /\ RefsOK'
BY StepKeepsType DEF TypeOK, RefsOK, Step

(* A request that ends refers to nothing.                                  *)
LEMMA RefsReturn ==
  ASSUME TypeOK, RefsOK, NEW r \in Requests, Return(r)
  PROVE  req' \in [Requests -> Work] /\ RefsOK'
BY IdleInWork, RefsStep DEF Return, Idle

(* One that ends or goes on refers to what it has read.                    *)
LEMMA RefsDone ==
  ASSUME TypeOK, RefsOK, NEW r \in Requests, NEW t \in Tx, Done(r, t),
         req[r].pc \in {"rules", "noRules", "reprocess"}
  PROVE  req' \in [Requests -> Work] /\ RefsOK'
<1> DEFINE left == req[r].todo \ {t}
           w == [req[r] EXCEPT !.todo = left]
<1>1. CASE left = {}
  BY <1>1, RefsReturn DEF Done
<1>2. CASE left # {}
  <2>1. w \in Work /\ w.pc = req[r].pc  BY DEF Work, TypeOK
  <2>2. Step(r, w)                       BY <1>2 DEF Done
  <2> HIDE DEF w
  <2>3. QED                              BY <2>1, <2>2, RefsStep
<1>3. QED BY <1>1, <1>2

(* The calls of an export keep types and references.                       *)
LEMMA TypeExport ==
  ASSUME TypeOK, RefsOK, NEW r \in Requests,
         \/ CheckOpen(r) \/ CreateBatch(r) \/ CreateItem(r) \/ MarkExported(r)
  PROVE  TypeOK' /\ RefsOK'
<1>1. req[r] \in Work
  BY DEF TypeOK
<1>2. CASE CheckOpen(r)
  <2> DEFINE w == [req[r] EXCEPT !.pc = "create"]
  <2>1. w \in Work /\ w.pc = "create"
    BY <1>1 DEF Work, Phases
  <2>2. Return(r) \/ Step(r, w)
    BY <1>2 DEF CheckOpen
  <2> HIDE DEF w
  <2>3. req' \in [Requests -> Work] /\ RefsOK'
    BY <2>1, <2>2, RefsReturn, RefsStep
  <2>4. QED
    BY <1>2, <2>3 DEF CheckOpen, TypeOK, ledger
<1>3. CASE CreateBatch(r)
  <2>1. CASE Return(r) /\ UNCHANGED files
    BY <1>3, <2>1, RefsReturn DEF CreateBatch, TypeOK, ledger
  <2>2. ASSUME NEW b \in Batches,
               files' = [files EXCEPT ![b] = req[r].rows],
               Step(r, [Idle EXCEPT !.pc = "claim", !.batch = b,
                                    !.todo = Rows(req[r].rows)])
        PROVE  TypeOK' /\ RefsOK'
    <3> DEFINE w == [Idle EXCEPT !.pc = "claim", !.batch = b,
                                 !.todo = Rows(req[r].rows)]
    <3>1. w \in Work /\ w.pc = "claim" /\ w.batch = b
      BY IdleInWork DEF Work, Phases, Rows, Idle
    <3>2. Step(r, w)
      BY <2>2
    <3> HIDE DEF w
    <3>3. req' \in [Requests -> Work] /\ RefsOK'
      BY <3>1, <3>2, RefsStep
    <3>4. files' \in [Batches -> File]
      BY <1>1, <2>2 DEF TypeOK, Work
    <3>5. QED
      BY <1>3, <3>3, <3>4 DEF CreateBatch, TypeOK, ledger
  <2>3. QED
    BY <1>3, <2>1, <2>2 DEF CreateBatch
<1>4. CASE CreateItem(r)
  <2>1. PICK t \in req[r].todo :
          \/ Return(r) /\ UNCHANGED items
          \/ /\ items' = [items EXCEPT ![t] = req[r].batch]
             /\ Step(r, [req[r] EXCEPT !.pc = "mark", !.cur = t])
    BY <1>4 DEF CreateItem
  <2>2. t \in Tx /\ req[r].batch \in Batches
    BY <1>1, <1>4 DEF Work, CreateItem, At, RefsOK
  <2> DEFINE w == [req[r] EXCEPT !.pc = "mark", !.cur = t]
  <2>3. w \in Work /\ w.cur = t /\ w.pc = "mark" /\ w.batch = req[r].batch
    BY <1>1, <2>2 DEF Work, Phases
  <2> HIDE DEF w
  <2>4. req' \in [Requests -> Work] /\ RefsOK'
    BY <2>1, <2>2, <2>3, RefsReturn, RefsStep DEF w
  <2>5. items' \in [Tx -> Batches \cup {NoBatch}]
    BY <2>1, <2>2 DEF TypeOK
  <2>6. QED
    BY <1>4, <2>4, <2>5 DEF CreateItem, TypeOK, ledger
<1>5. CASE MarkExported(r)
  <2> DEFINE t == req[r].cur
             left == req[r].todo \ {t}
             w == [req[r] EXCEPT !.pc = "claim", !.cur = NoTx, !.todo = left]
  <2>1. t \in Tx /\ req[r].batch \in Batches
    BY <1>5 DEF MarkExported, At, RefsOK
  <2>2. w \in Work /\ w.pc = "claim" /\ w.batch = req[r].batch
    BY <1>1 DEF Work, Phases
  <2>3. Return(r) \/ Step(r, w)
    BY <1>5 DEF MarkExported
  <2> HIDE DEF w
  <2>4. req' \in [Requests -> Work] /\ RefsOK'
    BY <2>1, <2>2, <2>3, RefsReturn, RefsStep
  <2>5. /\ status' \in [Tx -> Status]
        /\ exportedIn' \in [Tx -> Batches \cup {NoBatch}]
    BY <1>5, <2>1 DEF MarkExported, TypeOK, Status
  <2>6. QED
    BY <1>5, <2>4, <2>5 DEF MarkExported, TypeOK
<1>6. QED BY <1>2, <1>3, <1>4, <1>5

(* The writes of edits, merges and failures keep them.                     *)
LEMMA TypeEdit ==
  ASSUME TypeOK, RefsOK, NEW r \in Requests,
         \/ WriteAssign(r) \/ WriteStatus(r) \/ RemapKonto(r)
         \/ MergeDuplicate(r) \/ CloseGroup(r) \/ Fail(r)
  PROVE  TypeOK' /\ RefsOK'
<1>1. req[r] \in Work
  BY DEF TypeOK
<1>2. CASE WriteAssign(r)
  <2>1. req[r].cur \in Tx
    BY <1>2 DEF WriteAssign, At, RefsOK
  <2>2. req' \in [Requests -> Work] /\ RefsOK'
    BY <1>2, RefsReturn DEF WriteAssign
  <2>3. QED
    BY <1>2, <2>1, <2>2 DEF WriteAssign, TypeOK, Status
<1>3. CASE WriteStatus(r)
  <2>1. req[r].cur \in Tx
    BY <1>3 DEF WriteStatus, At, RefsOK
  <2>2. req' \in [Requests -> Work] /\ RefsOK'
    BY <1>3, RefsReturn DEF WriteStatus
  <2>3. QED
    BY <1>3, <2>1, <2>2 DEF WriteStatus, TypeOK, Status
<1>4. CASE RemapKonto(r)
  <2>1. booking' \in [Tx -> Booking]
    BY <1>4 DEF RemapKonto, TypeOK, Booking
  <2>2. QED
    BY <1>4, <2>1 DEF RemapKonto, TypeOK, RefsOK
<1>5. CASE MergeDuplicate(r)
  <2>1. PICK t \in req[r].todo :
          /\ status' = [status EXCEPT ![t] = "skipped"]
          /\ dupOf' = [dupOf EXCEPT ![t] = req[r].grp.keep]
          /\ Step(r, [req[r] EXCEPT !.todo = req[r].todo \ {t},
                       !.pc = IF req[r].todo \ {t} = {} THEN "merged" ELSE "merge"])
    BY <1>5 DEF MergeDuplicate
  <2> DEFINE w == [req[r] EXCEPT !.todo = req[r].todo \ {t},
                     !.pc = IF req[r].todo \ {t} = {} THEN "merged" ELSE "merge"]
  <2>2. req[r].grp \in Groups /\ t \in Tx
    BY <1>1, <1>5 DEF MergeDuplicate, At, RefsOK, Work
  <2>3. w \in Work /\ w.pc \in {"merged", "merge"} /\ w.grp = req[r].grp
    BY <1>1 DEF Work, Phases
  <2>4. Step(r, w)
    BY <2>1
  <2> HIDE DEF w
  <2>5. req' \in [Requests -> Work] /\ RefsOK'
    BY <2>2, <2>3, <2>4, RefsStep
  <2>6. /\ status' \in [Tx -> Status]
        /\ dupOf' \in [Tx -> Tx \cup {NoTx}]
    BY <2>1, <2>2, ConstantsOK DEF TypeOK, Status
  <2>7. QED
    BY <1>5, <2>5, <2>6 DEF MergeDuplicate, TypeOK
<1>6. CASE CloseGroup(r)
  <2>1. req[r].grp \in Groups
    BY <1>6 DEF CloseGroup, RefsOK
  <2>2. req' \in [Requests -> Work] /\ RefsOK'
    BY <1>6, RefsReturn DEF CloseGroup
  <2>3. QED
    BY <1>6, <2>1, <2>2 DEF CloseGroup, TypeOK, ledger
<1>7. CASE Fail(r)
  BY <1>7, RefsReturn DEF Fail, TypeOK, ledger
<1>8. QED BY <1>2, <1>3, <1>4, <1>5, <1>6, <1>7

(* The calls of reapplying the rules keep them.                            *)
LEMMA TypeReapply ==
  ASSUME TypeOK, RefsOK, NEW r \in Requests,
         \/ ReapplyClearing(r) \/ ReapplyPark(r) \/ ReapplyNoRules(r)
         \/ ReapplyHumanRules(r)
  PROVE  TypeOK' /\ RefsOK'
<1>1. req[r].todo \subseteq Tx
  BY DEF TypeOK, Work
<1>2. PICK t \in req[r].todo :
        /\ Done(r, t)
        /\ req[r].pc \in {"rules", "noRules", "reprocess"}
        /\ status' = status \/ \E s \in Status : status' = [status EXCEPT ![t] = s]
        /\ booking' = booking \/ \E k \in Booking : booking' = [booking EXCEPT ![t] = k]
        /\ system' = system \/ \E x \in BOOLEAN : system' = [system EXCEPT ![t] = x]
        /\ UNCHANGED <<exportedIn, dupOf, items, files, groups>>
  <2>1. CASE ReapplyClearing(r)
    BY <2>1 DEF ReapplyClearing, Classify, Status, Booking
  <2>2. CASE ReapplyPark(r)
    BY <2>2 DEF ReapplyPark, Classify, Status, Booking
  <2>3. CASE ReapplyNoRules(r)
    BY <2>3 DEF ReapplyNoRules, Classify, Status, Booking, At
  <2>4. CASE ReapplyHumanRules(r)
    BY <2>4 DEF ReapplyHumanRules, RuleResults, Classify, Status, Booking
  <2>5. QED BY <2>1, <2>2, <2>3, <2>4
<1>3. req' \in [Requests -> Work] /\ RefsOK'
  BY <1>1, <1>2, RefsDone
<1>4. QED
  BY <1>2, <1>3 DEF TypeOK

(* Every call of every request keeps them.                                 *)
LEMMA TypeNext == TypeOK /\ RefsOK /\ [Next]_vars => TypeOK' /\ RefsOK'
<1> SUFFICES ASSUME TypeOK, RefsOK, [Next]_vars PROVE TypeOK' /\ RefsOK'
  OBVIOUS
<1>1. CASE Next
  <2>1. PICK r \in Requests : \/ Export(r) \/ Edit(r) \/ Reapply(r) \/ Resolve(r)
                              \/ Fail(r)
    BY <1>1 DEF Next
  <2>2. QED
    BY <2>1, TypeStart, TypeExport, TypeEdit, TypeReapply
       DEF Export, Edit, Reapply, Resolve
<1>2. CASE UNCHANGED vars
  BY <1>2 DEF vars, ledger, TypeOK, RefsOK
<1>3. QED BY <1>1, <1>2

(* Every variable of the ledger and every request in progress has its type *)
(* at all times: Mongoose's enums hold, and a request never refers to a    *)
(* transaction, batch or group it has not read.                            *)
THEOREM TypeCorrect == Spec => [](TypeOK /\ RefsOK)
<1>1. Init => TypeOK /\ RefsOK
  BY TypeInit
<1>2. TypeOK /\ RefsOK /\ [Next]_vars => TypeOK' /\ RefsOK'
  BY TypeNext
<1>3. QED BY <1>1, <1>2, PTL DEF Spec

(***************************************************************************)
(* The inductive invariant.  LockBacked is not inductive by itself: that   *)
(* an export marks a transaction with the batch of its item, and that an   *)
(* item is made for a row of its file, follows from what the exports in    *)
(* progress carry.                                                         *)
(***************************************************************************)
Safe(w) ==
  /\ w.pc \in {"openCheck", "create"} => Rows(w.rows) \subseteq Bookable
  /\ w.pc \in {"claim", "mark"} => w.todo \subseteq Rows(files[w.batch])
  /\ w.pc = "mark" => items[w.cur] = w.batch

WorkOK == \A r \in Requests : Safe(req[r])

IInv == TypeOK /\ RefsOK /\ LockBacked /\ FilesValid /\ WorkOK

(* Before any request there is no batch, and no work to be safe.           *)
LEMMA IInvInit == Init => IInv
<1> SUFFICES ASSUME Init PROVE IInv
  OBVIOUS
<1>1. TypeOK /\ RefsOK
  BY TypeInit
<1>2. LockBacked
  BY DEF Init, LockBacked
<1>3. FilesValid
  BY DEF Init, FilesValid, Rows, NoRows
<1>4. WorkOK
  BY DEF Init, WorkOK, Safe, Idle
<1>5. QED BY <1>1, <1>2, <1>3, <1>4 DEF IInv

(* A step that leaves items, files and locks alone, and hands its request  *)
(* work that is safe.                                                      *)
LEMMA QuietStep ==
  ASSUME IInv, NEW r \in Requests, NEW w \in Work, Step(r, w), Safe(w),
         UNCHANGED <<items, files, exportedIn>>
  PROVE  LockBacked' /\ FilesValid' /\ WorkOK'
<1>1. LockBacked' /\ FilesValid'
  BY DEF IInv, LockBacked, FilesValid
<1>2. ASSUME NEW q \in Requests PROVE Safe(req[q])'
  <2>1. req'[q] = req[q] \/ req'[q] = w
    BY DEF Step, IInv, TypeOK
  <2>2. Safe(req[q]) /\ Safe(w)
    BY DEF IInv, WorkOK
  <2>3. QED BY <2>1, <2>2 DEF Safe
<1>3. QED BY <1>1, <1>2 DEF WorkOK

(* A request that ends has work that is safe.                              *)
LEMMA QuietReturn ==
  ASSUME IInv, NEW r \in Requests, Return(r),
         UNCHANGED <<items, files, exportedIn>>
  PROVE  LockBacked' /\ FilesValid' /\ WorkOK'
<1>1. Safe(Idle)
  BY DEF Safe, Idle
<1>2. QED BY <1>1, IdleInWork, QuietStep DEF Return

(* Outside the export a request in progress carries nothing that must stay *)
(* safe.                                                                   *)
LEMMA QuietElsewhere ==
  ASSUME IInv, NEW r \in Requests,
         \/ Edit(r) \/ Reapply(r) \/ Resolve(r) \/ Fail(r)
  PROVE  LockBacked' /\ FilesValid' /\ WorkOK'
<1>1. UNCHANGED <<items, files, exportedIn>>
  BY DEF Edit, StartAssign, WriteAssign, StartSetStatus, WriteStatus, RemapKonto,
         Reapply, StartApplyRules, StartReprocess, ReapplyClearing, ReapplyPark,
         ReapplyNoRules, ReapplyHumanRules, Resolve, StartResolve,
         MergeDuplicate, CloseGroup, Fail, ledger
<1>2. LockBacked' /\ FilesValid'
  BY <1>1 DEF IInv, LockBacked, FilesValid
<1> SUFFICES WorkOK'
  BY <1>2
<1>3. ASSUME NEW w, Step(r, w),
             w.pc \notin {"openCheck", "create", "claim", "mark"}
      PROVE  WorkOK'
  <2>1. ASSUME NEW q \in Requests PROVE Safe(req[q])'
    <3>1. req'[q] = req[q] \/ req'[q] = w
      BY <1>3 DEF Step, IInv, TypeOK
    <3>2. Safe(req[q])
      BY DEF IInv, WorkOK
    <3>3. QED BY <1>1, <1>3, <3>1, <3>2 DEF Safe
  <2>2. QED BY <2>1 DEF WorkOK
<1>4. Idle.pc = "idle"
  BY DEF Idle
<1>5. ASSUME Return(r) PROVE WorkOK'
  BY <1>3, <1>4, <1>5 DEF Return
<1>6. ASSUME NEW t, Done(r, t), req[r].pc \in {"rules", "noRules", "reprocess"}
      PROVE  WorkOK'
  <2> DEFINE w == [req[r] EXCEPT !.todo = req[r].todo \ {t}]
  <2>1. w.pc = req[r].pc
    BY DEF IInv, TypeOK, Work
  <2>2. Return(r) \/ Step(r, w)
    BY <1>6 DEF Done
  <2> HIDE DEF w
  <2>3. QED BY <1>3, <1>5, <1>6, <2>1, <2>2
<1>7. CASE Edit(r)
  <2>1. CASE StartAssign(r) \/ StartSetStatus(r)
    <3>1. PICK t \in Tx, pc \in {"assign", "status"} :
            Step(r, [Idle EXCEPT !.pc = pc, !.cur = t])
      BY <2>1 DEF StartAssign, StartSetStatus
    <3>2. [Idle EXCEPT !.pc = pc, !.cur = t].pc = pc
      BY DEF Idle
    <3>3. QED BY <1>3, <3>1, <3>2
  <2>2. CASE WriteAssign(r) \/ WriteStatus(r)
    BY <1>5, <2>2 DEF WriteAssign, WriteStatus
  <2>3. CASE RemapKonto(r)
    BY <1>1, <2>3 DEF RemapKonto, IInv, WorkOK, Safe
  <2>4. QED BY <1>7, <2>1, <2>2, <2>3 DEF Edit
<1>8. CASE Reapply(r)
  <2>1. CASE StartApplyRules(r)
    <3> DEFINE todo(list) == {t \in list : /\ status[t] \notin {"exported", "reviewed"}
                                           /\ t \notin Skipped
                                           /\ ~system[t]}
               wasOpen(list) == {t \in todo(list) : status[t] = "open"}
               w(list) == [Idle EXCEPT !.pc = "rules", !.todo = todo(list)]
               v(list) == [Idle EXCEPT !.pc = "noRules", !.todo = todo(list),
                                       !.wasOpen = wasOpen(list)]
    <3>1. PICK list \in {ReapplyDefault} \cup SUBSET Tx, hasRules \in BOOLEAN :
            Step(r, IF hasRules THEN w(list) ELSE v(list))
      BY <2>1 DEF StartApplyRules
    <3>2. w(list).pc = "rules" /\ v(list).pc = "noRules"
      BY DEF Idle
    <3>3. Step(r, w(list)) \/ Step(r, v(list))
      BY <3>1
    <3> HIDE DEF w, v
    <3>4. QED BY <1>3, <3>2, <3>3
  <2>2. CASE StartReprocess(r)
    <3> DEFINE todo(list) == {t \in list : /\ status[t] \notin {"exported", "skipped"}
                                           /\ t \notin Skipped
                                           /\ ~system[t]}
               w(list) == [Idle EXCEPT !.pc = "reprocess", !.todo = todo(list)]
    <3>1. PICK list \in ImportBatches : Step(r, w(list))
      BY <2>2 DEF StartReprocess
    <3>2. w(list).pc = "reprocess"
      BY DEF Idle
    <3> HIDE DEF w
    <3>3. QED BY <1>3, <3>1, <3>2
  <2>3. CASE \/ ReapplyClearing(r) \/ ReapplyPark(r) \/ ReapplyNoRules(r)
             \/ ReapplyHumanRules(r)
    <3>1. req[r].pc \in {"rules", "noRules", "reprocess"} /\ \E t : Done(r, t)
      BY <2>3 DEF ReapplyClearing, ReapplyPark, ReapplyNoRules,
                  ReapplyHumanRules, At
    <3>2. QED BY <1>6, <3>1
  <2>4. QED BY <1>8, <2>1, <2>2, <2>3 DEF Reapply
<1>9. CASE Resolve(r)
  <2>1. CASE StartResolve(r)
    <3>1. PICK g \in Groups :
            \/ \E action \in {"ignored", "keep_both"} :
                  Step(r, [Idle EXCEPT !.pc = action, !.grp = g])
            \/ Step(r, [Idle EXCEPT !.pc = IF g.rest = {} THEN "merged" ELSE "merge",
                                    !.grp = g, !.todo = g.rest])
      BY <2>1 DEF StartResolve
    <3> DEFINE w(pc) == [Idle EXCEPT !.pc = pc, !.grp = g]
               v(pc) == [Idle EXCEPT !.pc = pc, !.grp = g, !.todo = g.rest]
    <3>2. \A pc : w(pc).pc = pc /\ v(pc).pc = pc
      BY DEF Idle
    <3>3. \/ \E pc \in {"ignored", "keep_both"} : Step(r, w(pc))
          \/ Step(r, v(IF g.rest = {} THEN "merged" ELSE "merge"))
      BY <3>1
    <3> HIDE DEF w, v
    <3>4. QED BY <1>3, <3>2, <3>3
  <2>2. CASE MergeDuplicate(r)
    <3>1. PICK t \in req[r].todo :
            Step(r, [req[r] EXCEPT !.todo = req[r].todo \ {t},
                      !.pc = IF req[r].todo \ {t} = {} THEN "merged" ELSE "merge"])
      BY <2>2 DEF MergeDuplicate
    <3> DEFINE w == [req[r] EXCEPT !.todo = req[r].todo \ {t},
                      !.pc = IF req[r].todo \ {t} = {} THEN "merged" ELSE "merge"]
    <3>2. w.pc \in {"merged", "merge"}
      BY DEF IInv, TypeOK, Work
    <3>3. Step(r, w)
      BY <3>1
    <3> HIDE DEF w
    <3>4. QED BY <1>3, <3>2, <3>3
  <2>3. CASE CloseGroup(r)
    BY <1>5, <2>3 DEF CloseGroup
  <2>4. QED BY <1>9, <2>1, <2>2, <2>3 DEF Resolve
<1>10. CASE Fail(r)
  BY <1>5, <1>10 DEF Fail
<1>11. QED BY <1>7, <1>8, <1>9, <1>10

(* The calls of an export leave every request with work that is safe.      *)
LEMMA ExportSafe ==
  ASSUME IInv, NEW r \in Requests, Export(r)
  PROVE  LockBacked' /\ FilesValid' /\ WorkOK'
<1> USE DEF IInv
<1>1. req[r] \in Work /\ Safe(req[r])
  BY DEF TypeOK, WorkOK
<1>2. CASE StartExport(r)
  <2> DEFINE f(p, m) == [t \in Tx |-> IF t \in Exportable(p, m) THEN booking[t]
                                                              ELSE NoKonto]
             w(p, m, x) == [Idle EXCEPT !.pc = IF x THEN "openCheck" ELSE "create",
                                        !.period = p, !.rows = f(p, m)]
  <2>1. PICK p \in Periods, m \in BOOLEAN, x \in BOOLEAN : Step(r, w(p, m, x))
    BY <1>2 DEF StartExport
  <2>2. f(p, m) \in File /\ Rows(f(p, m)) \subseteq Bookable
    BY DEF TypeOK, File, Booking, Rows, Exportable
  <2>3. /\ w(p, m, x) \in Work
        /\ w(p, m, x).pc \in {"openCheck", "create"}
        /\ w(p, m, x).rows = f(p, m)
    BY <2>2, IdleInWork DEF Work, Phases, Idle
  <2> HIDE DEF w, f
  <2>4. Safe(w(p, m, x))
    BY <2>2, <2>3 DEF Safe
  <2>5. QED BY <1>2, <2>1, <2>3, <2>4, QuietStep DEF StartExport, ledger
<1>3. CASE CheckOpen(r)
  <2> DEFINE w == [req[r] EXCEPT !.pc = "create"]
  <2>1. w \in Work /\ w.pc = "create" /\ w.rows = req[r].rows
    BY <1>1 DEF Work, Phases
  <2>2. Return(r) \/ Step(r, w)
    BY <1>3 DEF CheckOpen
  <2>3. UNCHANGED <<items, files, exportedIn>>
    BY <1>3 DEF CheckOpen, ledger
  <2>4. req[r].pc = "openCheck"
    BY <1>3 DEF CheckOpen, At
  <2> HIDE DEF w
  <2>5. Safe(w)
    BY <1>1, <2>1, <2>4 DEF Safe
  <2>6. QED BY <2>1, <2>2, <2>3, <2>5, QuietStep, QuietReturn
<1>4. CASE CreateBatch(r)
  <2>1. CASE Return(r) /\ UNCHANGED files
    BY <1>4, <2>1, QuietReturn DEF CreateBatch, ledger
  <2>2. ASSUME NEW b \in Batches, RowsValid(req[r].rows), files[b] = NoRows,
               files' = [files EXCEPT ![b] = req[r].rows],
               Step(r, [Idle EXCEPT !.pc = "claim", !.batch = b,
                                    !.todo = Rows(req[r].rows)])
        PROVE  LockBacked' /\ FilesValid' /\ WorkOK'
    <3> DEFINE w == [Idle EXCEPT !.pc = "claim", !.batch = b,
                                 !.todo = Rows(req[r].rows)]
    <3>1. /\ w.pc = "claim" /\ w.batch = b /\ w.todo = Rows(req[r].rows)
          /\ req[r].pc = "create" /\ Step(r, w)
      BY <1>4, <2>2 DEF Idle, CreateBatch, At
    <3> HIDE DEF w
    <3>2. /\ files'[b] = req[r].rows
          /\ \A c \in Batches : c # b => files'[c] = files[c]
          /\ UNCHANGED <<items, exportedIn>>
      BY <1>4, <2>2 DEF TypeOK, CreateBatch, ledger
    <3>3. Rows(files[b]) = {}
      BY <2>2 DEF Rows, NoRows
    <3>4. LockBacked'
      BY <3>2, <3>3 DEF LockBacked, TypeOK
    <3>5. FilesValid'
      <4>1. \A t \in Rows(req[r].rows) :
              t \in Bookable \ ZeroAmount /\ req[r].rows[t] \notin Forbidden
        BY <1>1, <2>2, <3>1 DEF Safe, RowsValid
      <4>2. QED BY <3>2, <4>1 DEF FilesValid
    <3>6. ASSUME NEW q \in Requests PROVE Safe(req[q])'
      <4>1. CASE q = r
        <5>1. req'[q] = w
          BY <3>1, <4>1 DEF Step, TypeOK
        <5>2. QED BY <3>1, <3>2, <5>1 DEF Safe
      <4>2. CASE q # r
        <5>1. req'[q] = req[q] /\ Safe(req[q])
          BY <3>1, <4>2 DEF Step, TypeOK, WorkOK
        <5>2. req[q].pc \in {"claim", "mark"} => req[q].batch \in Batches
          BY DEF RefsOK
        <5>3. QED BY <3>2, <3>3, <5>1, <5>2 DEF Safe
      <4>3. QED BY <4>1, <4>2
    <3>7. QED BY <3>4, <3>5, <3>6 DEF WorkOK
  <2>3. QED BY <1>4, <2>1, <2>2 DEF CreateBatch
<1>5. CASE CreateItem(r)
  <2>1. CASE Return(r) /\ UNCHANGED items
    BY <1>5, <2>1, QuietReturn DEF CreateItem, ledger
  <2>2. ASSUME NEW t \in req[r].todo, items[t] = NoBatch,
               items' = [items EXCEPT ![t] = req[r].batch],
               Step(r, [req[r] EXCEPT !.pc = "mark", !.cur = t])
        PROVE  LockBacked' /\ FilesValid' /\ WorkOK'
    <3> DEFINE w == [req[r] EXCEPT !.pc = "mark", !.cur = t]
               b == req[r].batch
    <3>1. /\ w.pc = "mark" /\ w.cur = t /\ w.batch = b /\ w.todo = req[r].todo
          /\ req[r].pc = "claim" /\ Step(r, w)
      BY <1>1, <1>5, <2>2 DEF CreateItem, At, Work
    <3> HIDE DEF w
    <3>2. b \in Batches /\ t \in Tx /\ t \in Rows(files[b])
      BY <1>1, <3>1 DEF RefsOK, Safe, Work
    <3>3. /\ items'[t] = b
          /\ \A u \in Tx : u # t => items'[u] = items[u]
          /\ UNCHANGED <<files, exportedIn>>
      BY <1>5, <2>2, <3>2 DEF TypeOK, CreateItem, ledger
    <3>4. LockBacked'
      BY <2>2, <3>2, <3>3, NonesOK DEF LockBacked
    <3>5. FilesValid'
      BY <3>3 DEF FilesValid
    <3>6. ASSUME NEW q \in Requests PROVE Safe(req[q])'
      <4>1. CASE q = r
        <5>1. req'[q] = w
          BY <3>1, <4>1 DEF Step, TypeOK
        <5>2. QED BY <1>1, <3>1, <3>3, <5>1 DEF Safe
      <4>2. CASE q # r
        <5>1. req'[q] = req[q] /\ Safe(req[q])
          BY <3>1, <4>2 DEF Step, TypeOK, WorkOK
        <5>2. req[q].pc = "mark" => req[q].cur # t /\ req[q].cur \in Tx
          BY <2>2, <5>1, NonesOK DEF RefsOK, Safe
        <5>3. QED BY <3>3, <5>1, <5>2 DEF Safe
      <4>3. QED BY <4>1, <4>2
    <3>7. QED BY <3>4, <3>5, <3>6 DEF WorkOK
  <2>3. QED BY <1>5, <2>1, <2>2 DEF CreateItem
<1>6. CASE MarkExported(r)
  <2> DEFINE t == req[r].cur
             b == req[r].batch
             w == [req[r] EXCEPT !.pc = "claim", !.cur = NoTx,
                                 !.todo = req[r].todo \ {t}]
  <2>1. /\ w.pc = "claim" /\ w.batch = b /\ w.todo = req[r].todo \ {t}
        /\ req[r].pc = "mark" /\ (Return(r) \/ Step(r, w))
    BY <1>1, <1>6 DEF MarkExported, At, Work
  <2> HIDE DEF w
  <2>2. t \in Tx /\ b \in Batches /\ items[t] = b
    BY <1>1, <2>1 DEF RefsOK, Safe
  <2>3. /\ exportedIn' = [exportedIn EXCEPT ![t] = b]
        /\ UNCHANGED <<items, files>>
    BY <1>6 DEF MarkExported
  <2>4. LockBacked'
    BY <2>2, <2>3 DEF LockBacked, TypeOK
  <2>5. FilesValid'
    BY <2>3 DEF FilesValid
  <2>6. ASSUME NEW q \in Requests PROVE Safe(req[q])'
    <3>1. req'[q] = req[q] \/ req'[q] = Idle \/ req'[q] = w
      BY <2>1 DEF Step, Return, TypeOK
    <3>2. Safe(req[q])' = Safe(req'[q])
      BY <2>3 DEF Safe
    <3>3. Safe(req[q]) /\ Safe(Idle)
      BY DEF WorkOK, Safe, Idle
    <3>4. Safe(w)
      BY <1>1, <2>1 DEF Safe
    <3>5. QED BY <3>1, <3>2, <3>3, <3>4
  <2>7. QED BY <2>4, <2>5, <2>6 DEF WorkOK
<1>7. QED BY <1>2, <1>3, <1>4, <1>5, <1>6 DEF Export

(* Every call of every request keeps the invariant.                        *)
LEMMA IInvNext == IInv /\ [Next]_vars => IInv'
<1> SUFFICES ASSUME IInv, [Next]_vars PROVE IInv'
  OBVIOUS
<1>1. TypeOK' /\ RefsOK'
  BY TypeNext DEF IInv
<1>2. CASE Next
  <2>1. PICK r \in Requests : \/ Export(r) \/ Edit(r) \/ Reapply(r) \/ Resolve(r)
                              \/ Fail(r)
    BY <1>2 DEF Next
  <2>2. LockBacked' /\ FilesValid' /\ WorkOK'
    BY <2>1, ExportSafe, QuietElsewhere
  <2>3. QED BY <1>1, <2>2 DEF IInv
<1>3. CASE UNCHANGED vars
  BY <1>1, <1>3 DEF IInv, vars, ledger, LockBacked, FilesValid, WorkOK, Safe
<1>4. QED BY <1>2, <1>3

(* The inductive invariant of the cash ledger.                             *)
THEOREM Invariance == Spec => []IInv
<1>1. QED BY IInvInit, IInvNext, PTL DEF Spec

(* However exports overlap and fail, a transaction that carries an export  *)
(* lock has the ExportItem of that very batch, and the batch's file a row  *)
(* for it.                                                                 *)
THEOREM ExportLockBacked == Spec => []LockBacked
<1>1. IInv => LockBacked
  BY DEF IInv
<1>2. QED BY <1>1, Invariance, PTL

(* However edits race with an export, no DATEV file holds a row that is    *)
(* not bookable, has amount 0 or posts to a forbidden collective account.  *)
THEOREM ExportFilesValid == Spec => []FilesValid
<1>1. IInv => FilesValid
  BY DEF IInv
<1>2. QED BY <1>1, Invariance, PTL

(* Every behaviour of the ledger is one of the abstract export lock: no    *)
(* request of any kind moves or takes back a claim or a mark.              *)
THEOREM LedgerImplementsLock == Spec => ImplementsLock
<1>1. Init => Lock!Init
  BY DEF Init, Lock!Init
<1>2. IInv /\ [Next]_vars => [Lock!Next]_<<items, exportedIn>>
  <2> SUFFICES ASSUME IInv, [Next]_vars
               PROVE  [Lock!Next]_<<items, exportedIn>>
    OBVIOUS
  <2> USE DEF IInv
  <2>1. CASE UNCHANGED vars
    BY <2>1 DEF vars, ledger
  <2>2. ASSUME NEW r \in Requests, CreateItem(r)
        PROVE  [Lock!Next]_<<items, exportedIn>>
    <3>1. CASE UNCHANGED items
      BY <2>2, <3>1 DEF CreateItem, ledger
    <3>2. ASSUME NEW t \in req[r].todo, items[t] = NoBatch,
                 items' = [items EXCEPT ![t] = req[r].batch]
          PROVE  Lock!Next
      <4>1. t \in Tx /\ req[r].batch \in Batches
        BY <2>2 DEF CreateItem, At, TypeOK, Work, RefsOK
      <4>2. Lock!Claim(t, req[r].batch)
        BY <2>2, <3>2 DEF Lock!Claim, CreateItem, ledger
      <4>3. QED BY <4>1, <4>2 DEF Lock!Next
    <3>3. QED BY <2>2, <3>1, <3>2 DEF CreateItem
  <2>3. ASSUME NEW r \in Requests, MarkExported(r)
        PROVE  Lock!Next
    <3>1. req[r].cur \in Tx /\ req[r].batch \in Batches /\ items[req[r].cur] = req[r].batch
      BY <2>3 DEF MarkExported, At, RefsOK, WorkOK, Safe
    <3>2. Lock!Mark(req[r].cur)
      BY <2>3, <3>1, NonesOK DEF Lock!Mark, MarkExported
    <3>3. QED BY <3>1, <3>2 DEF Lock!Next
  <2>4. ASSUME NEW r \in Requests,
               \/ StartExport(r) \/ CheckOpen(r) \/ CreateBatch(r)
               \/ Edit(r) \/ Reapply(r) \/ Resolve(r) \/ Fail(r)
        PROVE  UNCHANGED <<items, exportedIn>>
    BY <2>4 DEF StartExport, CheckOpen, CreateBatch,
         Edit, StartAssign, WriteAssign, StartSetStatus, WriteStatus, RemapKonto,
         Reapply, StartApplyRules, StartReprocess, ReapplyClearing, ReapplyPark,
         ReapplyNoRules, ReapplyHumanRules, Resolve, StartResolve,
         MergeDuplicate, CloseGroup, Fail, ledger
  <2>5. QED BY <2>1, <2>2, <2>3, <2>4 DEF Next, Export
<1>3. QED BY <1>1, <1>2, Invariance, PTL DEF Spec, ImplementsLock, Lock!Spec

(***************************************************************************)
(* One request at a time.  What a request has read is still so when it     *)
(* writes: rows carry the booking of their transaction, and what is to be  *)
(* edited or booked again is not exported.                                 *)
(***************************************************************************)
Serial == \E r : Requests = {r}

Fresh(r) ==
  LET w == req[r] IN
  /\ w.pc \in {"openCheck", "create"} => \A t \in Rows(w.rows) : w.rows[t] = booking[t]
  /\ w.pc \in {"claim", "mark"} => \A t \in w.todo : files[w.batch][t] = booking[t]
  /\ w.pc = "mark" => w.cur \in w.todo
  /\ w.pc \in {"assign", "status"} => status[w.cur] # "exported"
  /\ w.pc \in {"rules", "noRules", "reprocess"} => \A t \in w.todo : status[t] # "exported"

ExportedKept ==
  \A t \in Tx : status[t] = "exported" =>
    exportedIn[t] \in Batches /\ booking[t] = files[exportedIn[t]][t]

SInv == IInv /\ ExportedKept /\ \A r \in Requests : Fresh(r)

(* Nothing failed either: what is in a file and not yet marked is what the *)
(* export in progress has to do, and it has not been claimed before.       *)
Pending(r) ==
  LET w == req[r] IN
  /\ w.pc \in {"openCheck", "create"} => \A t \in Rows(w.rows) : exportedIn[t] = NoBatch
  /\ w.pc \in {"claim", "mark"} => \A t \in w.todo : exportedIn[t] = NoBatch
  /\ \A b \in Batches : \A t \in Rows(files[b]) :
       \/ exportedIn[t] = b
       \/ w.pc \in {"claim", "mark"} /\ w.batch = b /\ t \in w.todo
  /\ \A t \in Tx : items[t] # NoBatch =>
       exportedIn[t] = items[t] \/ (w.pc = "mark" /\ w.cur = t)

NInv == SInv /\ \A r \in Requests : Pending(r)

(* The request after a step.                                               *)
LEMMA Went ==
  ASSUME TypeOK, NEW r \in Requests, NEW w, Step(r, w)
  PROVE  req'[r] = w
BY DEF TypeOK, Step

LEMMA WentIdle ==
  ASSUME TypeOK, NEW r \in Requests, Return(r)
  PROVE  req'[r].pc = "idle"
BY Went DEF Return, Idle

LEMMA WentOn ==
  ASSUME TypeOK, NEW r \in Requests, NEW t, Done(r, t)
  PROVE  \/ req'[r].pc = "idle"
         \/ req'[r].pc = req[r].pc /\ req'[r].todo = req[r].todo \ {t}
<1> DEFINE w == [req[r] EXCEPT !.todo = req[r].todo \ {t}]
<1>1. w.pc = req[r].pc /\ w.todo = req[r].todo \ {t}
  BY DEF TypeOK, Work
<1>2. Return(r) \/ Step(r, w)
  BY DEF Done
<1> HIDE DEF w
<1>3. QED BY <1>1, <1>2, Went, WentIdle

(* What every call of an export reads, writes and hands on.                *)
LEMMA ExportFlow ==
  ASSUME IInv, NEW r \in Requests
  PROVE  /\ StartExport(r) =>
              /\ UNCHANGED <<ledger, items, files>> /\ req[r].pc = "idle"
              /\ req'[r].pc \in {"openCheck", "create"}
              /\ \A t \in Rows(req'[r].rows) :
                   req'[r].rows[t] = booking[t] /\ exportedIn[t] = NoBatch
         /\ CheckOpen(r) =>
              /\ UNCHANGED <<ledger, items, files>> /\ req[r].pc = "openCheck"
              /\ \/ req'[r].pc = "idle"
                 \/ req'[r].pc = "create" /\ req'[r].rows = req[r].rows
         /\ CreateBatch(r) =>
              /\ UNCHANGED <<ledger, items>> /\ req[r].pc = "create"
              /\ \/ req'[r].pc = "idle" /\ UNCHANGED files
                 \/ \E b \in Batches :
                      /\ files[b] = NoRows /\ files' = [files EXCEPT ![b] = req[r].rows]
                      /\ req'[r].pc = "claim" /\ req'[r].batch = b
                      /\ req'[r].todo = Rows(req[r].rows)
         /\ CreateItem(r) =>
              /\ UNCHANGED <<ledger, files>> /\ req[r].pc = "claim"
              /\ \E t \in req[r].todo :
                   \/ items[t] # NoBatch /\ req'[r].pc = "idle" /\ UNCHANGED items
                   \/ /\ items' = [items EXCEPT ![t] = req[r].batch]
                      /\ req'[r].pc = "mark" /\ req'[r].cur = t
                      /\ req'[r].batch = req[r].batch /\ req'[r].todo = req[r].todo
         /\ MarkExported(r) =>
              /\ UNCHANGED <<booking, items, files>> /\ req[r].pc = "mark"
              /\ status' = [status EXCEPT ![req[r].cur] = "exported"]
              /\ exportedIn' = [exportedIn EXCEPT ![req[r].cur] = req[r].batch]
              /\ \/ req'[r].pc = "idle" /\ req[r].todo \subseteq {req[r].cur}
                 \/ /\ req'[r].pc = "claim" /\ req'[r].batch = req[r].batch
                    /\ req'[r].todo = req[r].todo \ {req[r].cur}
<1>0. TypeOK /\ req[r] \in Work
  BY DEF IInv, TypeOK
<1>1. ASSUME StartExport(r)
      PROVE  /\ UNCHANGED <<ledger, items, files>> /\ req[r].pc = "idle"
             /\ req'[r].pc \in {"openCheck", "create"}
             /\ \A t \in Rows(req'[r].rows) :
                  req'[r].rows[t] = booking[t] /\ exportedIn[t] = NoBatch
  <2>1. PICK p \in Periods, allowMatched \in BOOLEAN, blockIfOpen \in BOOLEAN :
          Step(r, [Idle EXCEPT
                !.pc = IF blockIfOpen THEN "openCheck" ELSE "create",
                !.period = p,
                !.rows = [t \in Tx |-> IF t \in Exportable(p, allowMatched)
                                       THEN booking[t] ELSE NoKonto]])
    BY <1>1 DEF StartExport
  <2> DEFINE f == [t \in Tx |-> IF t \in Exportable(p, allowMatched)
                                THEN booking[t] ELSE NoKonto]
             to == IF blockIfOpen THEN "openCheck" ELSE "create"
             w == [Idle EXCEPT !.pc = to, !.period = p, !.rows = f]
  <2>2. req'[r] = w
    BY <1>0, <2>1, Went
  <2>3. \A t \in Rows(f) : f[t] = booking[t] /\ exportedIn[t] = NoBatch
    BY DEF Rows, Exportable
  <2>4. to \in {"openCheck", "create"}
    OBVIOUS
  <2> HIDE DEF f, to
  <2>5. w.pc = to /\ w.rows = f
    BY DEF Idle
  <2> HIDE DEF w
  <2>6. QED BY <1>1, <2>2, <2>3, <2>4, <2>5 DEF StartExport, At
<1>2. ASSUME CheckOpen(r)
      PROVE  /\ UNCHANGED <<ledger, items, files>> /\ req[r].pc = "openCheck"
             /\ \/ req'[r].pc = "idle"
                \/ req'[r].pc = "create" /\ req'[r].rows = req[r].rows
  <2> DEFINE w == [req[r] EXCEPT !.pc = "create"]
  <2>1. w.pc = "create" /\ w.rows = req[r].rows
    BY <1>0 DEF Work
  <2>2. Return(r) \/ Step(r, w)
    BY <1>2 DEF CheckOpen
  <2> HIDE DEF w
  <2>3. QED BY <1>0, <1>2, <2>1, <2>2, Went, WentIdle DEF CheckOpen, At
<1>3. ASSUME CreateBatch(r)
      PROVE  /\ UNCHANGED <<ledger, items>> /\ req[r].pc = "create"
             /\ \/ req'[r].pc = "idle" /\ UNCHANGED files
                \/ \E b \in Batches :
                     /\ files[b] = NoRows /\ files' = [files EXCEPT ![b] = req[r].rows]
                     /\ req'[r].pc = "claim" /\ req'[r].batch = b
                     /\ req'[r].todo = Rows(req[r].rows)
  <2>1. ASSUME NEW b \in Batches,
               Step(r, [Idle EXCEPT !.pc = "claim", !.batch = b,
                                    !.todo = Rows(req[r].rows)])
        PROVE  /\ req'[r].pc = "claim" /\ req'[r].batch = b
               /\ req'[r].todo = Rows(req[r].rows)
    <3>1. req'[r] = [Idle EXCEPT !.pc = "claim", !.batch = b,
                                 !.todo = Rows(req[r].rows)]
      BY <1>0, <2>1, Went
    <3>2. QED BY <3>1 DEF Idle
  <2>2. QED BY <1>0, <1>3, <2>1, WentIdle DEF CreateBatch, At
<1>4. ASSUME CreateItem(r)
      PROVE  /\ UNCHANGED <<ledger, files>> /\ req[r].pc = "claim"
             /\ \E t \in req[r].todo :
                  \/ items[t] # NoBatch /\ req'[r].pc = "idle" /\ UNCHANGED items
                  \/ /\ items' = [items EXCEPT ![t] = req[r].batch]
                     /\ req'[r].pc = "mark" /\ req'[r].cur = t
                     /\ req'[r].batch = req[r].batch /\ req'[r].todo = req[r].todo
  <2>1. ASSUME NEW t, Step(r, [req[r] EXCEPT !.pc = "mark", !.cur = t])
        PROVE  /\ req'[r].pc = "mark" /\ req'[r].cur = t
               /\ req'[r].batch = req[r].batch /\ req'[r].todo = req[r].todo
    <3>1. req'[r] = [req[r] EXCEPT !.pc = "mark", !.cur = t]
      BY <1>0, <2>1, Went
    <3>2. QED BY <1>0, <3>1 DEF Work
  <2>2. QED BY <1>0, <1>4, <2>1, WentIdle DEF CreateItem, At
<1>5. ASSUME MarkExported(r)
      PROVE  /\ UNCHANGED <<booking, items, files>> /\ req[r].pc = "mark"
             /\ status' = [status EXCEPT ![req[r].cur] = "exported"]
             /\ exportedIn' = [exportedIn EXCEPT ![req[r].cur] = req[r].batch]
             /\ \/ req'[r].pc = "idle" /\ req[r].todo \subseteq {req[r].cur}
                \/ /\ req'[r].pc = "claim" /\ req'[r].batch = req[r].batch
                   /\ req'[r].todo = req[r].todo \ {req[r].cur}
  <2> DEFINE left == req[r].todo \ {req[r].cur}
             w == [req[r] EXCEPT !.pc = "claim", !.cur = NoTx, !.todo = left]
  <2>1. w.pc = "claim" /\ w.batch = req[r].batch /\ w.todo = left
    <3> HIDE DEF left
    <3>1. QED BY <1>0 DEF Work
  <2>2. (left = {} /\ Return(r)) \/ Step(r, w)
    BY <1>5 DEF MarkExported
  <2> HIDE DEF w
  <2>3. QED BY <1>0, <1>5, <2>1, <2>2, Went, WentIdle DEF MarkExported, At
<1>6. QED BY <1>1, <1>2, <1>3, <1>4, <1>5

(* What the other requests do to bookings and exported transactions, and   *)
(* what they hand on: nothing exported is written, but by a merge.         *)
Harmless(r) ==
  /\ UNCHANGED <<exportedIn, items, files>>
  /\ \A t \in Tx :
       \/ status'[t] = status[t] /\ booking'[t] = booking[t]
       \/ status[t] # "exported" /\ status'[t] # "exported"
       \/ status'[t] = "skipped" /\ dupOf'[t] # NoTx /\ booking'[t] = booking[t]
  /\ \/ req'[r].pc \in {"idle", "merge", "merged", "ignored", "keep_both"}
     \/ /\ req'[r].pc \in {"assign", "status"}
        /\ req'[r].cur \in Tx /\ status'[req'[r].cur] # "exported"
     \/ /\ req'[r].pc \in {"rules", "noRules", "reprocess"}
        /\ \A t \in req'[r].todo : status'[t] # "exported"

LEMMA EditHarmless ==
  ASSUME IInv, NEW r \in Requests, Fresh(r), Edit(r)
  PROVE  Harmless(r)
<1>0. TypeOK /\ RefsOK
  BY DEF IInv
<1>1. CASE StartAssign(r) \/ StartSetStatus(r)
  <2>1. PICK t \in Tx, pc \in {"assign", "status"} :
          status[t] # "exported" /\ Step(r, [Idle EXCEPT !.pc = pc, !.cur = t])
    BY <1>1 DEF StartAssign, StartSetStatus, Editable
  <2>2. req'[r] = [Idle EXCEPT !.pc = pc, !.cur = t]
    BY <1>0, <2>1, Went
  <2>3. req'[r].pc = pc /\ req'[r].cur = t
    BY <2>2 DEF Idle
  <2>4. UNCHANGED <<ledger, items, files>>
    BY <1>1 DEF StartAssign, StartSetStatus
  <2>5. QED BY <2>1, <2>3, <2>4 DEF Harmless, ledger
<1>2. CASE WriteAssign(r) \/ WriteStatus(r)
  <2>1. req[r].cur \in Tx /\ status[req[r].cur] # "exported"
    BY <1>0, <1>2 DEF WriteAssign, WriteStatus, At, RefsOK, Fresh
  <2>2. PICK s : s # "exported" /\ status' = [status EXCEPT ![req[r].cur] = s]
    BY <1>2 DEF WriteAssign, WriteStatus
  <2>3. \A t \in Tx : t # req[r].cur => booking'[t] = booking[t]
    BY <1>0, <1>2 DEF WriteAssign, WriteStatus, TypeOK
  <2>4. req'[r].pc = "idle"
    BY <1>0, <1>2, WentIdle DEF WriteAssign, WriteStatus
  <2>5. UNCHANGED <<exportedIn, items, files>>
    BY <1>2 DEF WriteAssign, WriteStatus
  <2>6. QED BY <1>0, <2>1, <2>2, <2>3, <2>4, <2>5 DEF Harmless, TypeOK
<1>3. CASE RemapKonto(r)
  <2>1. \A t \in Tx : booking'[t] = booking[t] \/ status[t] # "exported"
    BY <1>0, <1>3 DEF RemapKonto, Editable, TypeOK
  <2>2. req'[r].pc = "idle"
    BY <1>3 DEF RemapKonto, At
  <2>3. QED BY <1>3, <2>1, <2>2 DEF Harmless, RemapKonto
<1>4. QED BY <1>1, <1>2, <1>3 DEF Edit

LEMMA ReapplyHarmless ==
  ASSUME IInv, NEW r \in Requests, Fresh(r), Reapply(r)
  PROVE  Harmless(r)
<1>0. TypeOK
  BY DEF IInv
<1>1. CASE StartApplyRules(r) \/ StartReprocess(r)
  <2>1. PICK todo \in SUBSET Tx, pc \in {"rules", "noRules", "reprocess"},
             wasOpen \in SUBSET Tx :
          /\ \A t \in todo : status[t] # "exported"
          /\ \/ Step(r, [Idle EXCEPT !.pc = pc, !.todo = todo])
             \/ Step(r, [Idle EXCEPT !.pc = pc, !.todo = todo, !.wasOpen = wasOpen])
    <3>1. CASE StartApplyRules(r)
      <4>1. PICK list \in {ReapplyDefault} \cup SUBSET Tx, hasRules \in BOOLEAN :
              LET todo == {t \in list : /\ status[t] \notin {"exported", "reviewed"}
                                        /\ t \notin Skipped
                                        /\ ~system[t]}
              IN  Step(r, IF hasRules
                          THEN [Idle EXCEPT !.pc = "rules", !.todo = todo]
                          ELSE [Idle EXCEPT !.pc = "noRules", !.todo = todo,
                                  !.wasOpen = {t \in todo : status[t] = "open"}])
        BY <3>1 DEF StartApplyRules
      <4> DEFINE todo == {t \in list : /\ status[t] \notin {"exported", "reviewed"}
                                       /\ t \notin Skipped
                                       /\ ~system[t]}
                 open == {t \in todo : status[t] = "open"}
      <4>2. todo \in SUBSET Tx /\ open \in SUBSET Tx
        BY DEF ReapplyDefault
      <4>3. \A t \in todo : status[t] # "exported"
        OBVIOUS
      <4>4. \/ Step(r, [Idle EXCEPT !.pc = "rules", !.todo = todo])
            \/ Step(r, [Idle EXCEPT !.pc = "noRules", !.todo = todo, !.wasOpen = open])
        BY <4>1
      <4> HIDE DEF todo, open
      <4>5. QED BY <4>2, <4>3, <4>4
    <3>2. CASE StartReprocess(r)
      <4>1. PICK list \in ImportBatches :
              Step(r, [Idle EXCEPT !.pc = "reprocess",
                         !.todo = {t \in list : /\ status[t] \notin {"exported", "skipped"}
                                                /\ t \notin Skipped
                                                /\ ~system[t]}])
        BY <3>2 DEF StartReprocess
      <4> DEFINE todo == {t \in list : /\ status[t] \notin {"exported", "skipped"}
                                       /\ t \notin Skipped
                                       /\ ~system[t]}
      <4>2. todo \in SUBSET Tx /\ \A t \in todo : status[t] # "exported"
        BY ConstantsOK
      <4>3. Step(r, [Idle EXCEPT !.pc = "reprocess", !.todo = todo])
        BY <4>1
      <4> HIDE DEF todo
      <4>4. QED BY <4>2, <4>3
    <3>3. QED BY <1>1, <3>1, <3>2
  <2>2. req'[r].pc = pc /\ req'[r].todo = todo
    <3>1. \/ req'[r] = [Idle EXCEPT !.pc = pc, !.todo = todo]
          \/ req'[r] = [Idle EXCEPT !.pc = pc, !.todo = todo, !.wasOpen = wasOpen]
      BY <1>0, <2>1, Went
    <3>2. QED BY <3>1 DEF Idle
  <2>3. UNCHANGED <<ledger, items, files>>
    BY <1>1 DEF StartApplyRules, StartReprocess
  <2>4. QED BY <2>1, <2>2, <2>3 DEF Harmless, ledger
<1>2. CASE \/ ReapplyClearing(r) \/ ReapplyPark(r) \/ ReapplyNoRules(r)
           \/ ReapplyHumanRules(r)
  <2>1. PICK t \in req[r].todo :
          /\ Done(r, t)
          /\ req[r].pc \in {"rules", "noRules", "reprocess"}
          /\ status' = status \/ \E s : s # "exported" /\ status' = [status EXCEPT ![t] = s]
          /\ booking' = booking \/ \E k : booking' = [booking EXCEPT ![t] = k]
          /\ UNCHANGED <<exportedIn, items, files>>
    <3>1. CASE ReapplyClearing(r)
      BY <3>1 DEF ReapplyClearing, Classify
    <3>2. CASE ReapplyPark(r)
      BY <3>2 DEF ReapplyPark, Classify
    <3>3. CASE ReapplyNoRules(r)
      BY <3>3 DEF ReapplyNoRules, Classify, At
    <3>4. CASE ReapplyHumanRules(r)
      BY <3>4 DEF ReapplyHumanRules, RuleResults, Classify
    <3>5. QED BY <1>2, <3>1, <3>2, <3>3, <3>4
  <2>2. t \in Tx /\ \A u \in req[r].todo : u \in Tx /\ status[u] # "exported"
    BY <1>0, <2>1 DEF TypeOK, Work, Fresh
  <2>3. \A u \in Tx : /\ u # t => status'[u] = status[u] /\ booking'[u] = booking[u]
                      /\ status[u] # "exported" => status'[u] # "exported"
    BY <1>0, <2>1, <2>2 DEF TypeOK
  <2>4. \/ req'[r].pc = "idle"
        \/ req'[r].pc = req[r].pc /\ req'[r].todo = req[r].todo \ {t}
    BY <1>0, <2>1, WentOn
  <2>5. QED BY <2>1, <2>2, <2>3, <2>4 DEF Harmless
<1>3. QED BY <1>1, <1>2 DEF Reapply

LEMMA ResolveHarmless ==
  ASSUME IInv, NEW r \in Requests, Resolve(r) \/ Fail(r)
  PROVE  Harmless(r)
<1>0. TypeOK /\ RefsOK /\ req[r] \in Work
  BY DEF IInv, TypeOK
<1>1. CASE StartResolve(r)
  <2>1. PICK g \in Groups, pc \in {"merge", "merged", "ignored", "keep_both"},
             todo \in SUBSET Tx :
               \/ Step(r, [Idle EXCEPT !.pc = pc, !.grp = g])
               \/ Step(r, [Idle EXCEPT !.pc = pc, !.grp = g, !.todo = todo])
    BY <1>1, ConstantsOK DEF StartResolve
  <2>2. \/ req'[r] = [Idle EXCEPT !.pc = pc, !.grp = g]
        \/ req'[r] = [Idle EXCEPT !.pc = pc, !.grp = g, !.todo = todo]
    BY <1>0, <2>1, Went
  <2>3. req'[r].pc = pc
    BY <2>2 DEF Idle
  <2>4. QED BY <1>1, <2>3 DEF Harmless, StartResolve, ledger
<1>2. CASE MergeDuplicate(r)
  <2>1. PICK t \in req[r].todo :
          /\ status' = [status EXCEPT ![t] = "skipped"]
          /\ dupOf' = [dupOf EXCEPT ![t] = req[r].grp.keep]
          /\ Step(r, [req[r] EXCEPT !.todo = req[r].todo \ {t},
                       !.pc = IF req[r].todo \ {t} = {} THEN "merged" ELSE "merge"])
    BY <1>2 DEF MergeDuplicate
  <2> DEFINE left == req[r].todo \ {t}
             to == IF left = {} THEN "merged" ELSE "merge"
             w == [req[r] EXCEPT !.todo = left, !.pc = to]
  <2>2. req[r].grp \in Groups /\ t \in Tx
    BY <1>0, <1>2 DEF MergeDuplicate, At, RefsOK, Work
  <2>3. req[r].grp.keep \in Tx
    BY <2>2, ConstantsOK
  <2>4. req'[r] = w
    BY <1>0, <2>1, Went
  <2>5. to \in {"merged", "merge"}
    OBVIOUS
  <2> HIDE DEF left, to
  <2>6. w.pc = to
    BY <1>0 DEF Work
  <2> HIDE DEF w
  <2>7. req'[r].pc \in {"merged", "merge"}
    BY <2>4, <2>5, <2>6
  <2>8. \A u \in Tx : IF u = t THEN status'[u] = "skipped" /\ dupOf'[u] # NoTx
                               ELSE status'[u] = status[u]
    BY <1>0, <2>1, <2>2, <2>3, NonesOK DEF TypeOK
  <2>9. QED BY <1>2, <2>7, <2>8 DEF Harmless, MergeDuplicate
<1>3. CASE CloseGroup(r) \/ Fail(r)
  <2>1. req'[r].pc = "idle"
    BY <1>0, <1>3, WentIdle DEF CloseGroup, Fail
  <2>2. QED BY <1>3, <2>1 DEF Harmless, CloseGroup, Fail, ledger
<1>4. QED BY <1>1, <1>2, <1>3 DEF Resolve

(* Before any request nothing is exported and nothing has been read.       *)
LEMMA SInvInit == Init => SInv /\ \A r \in Requests : Pending(r)
<1> SUFFICES ASSUME Init PROVE SInv /\ \A r \in Requests : Pending(r)
  OBVIOUS
<1>1. IInv
  BY IInvInit
<1>2. \A t \in Tx : status[t] # "exported"
  <2>1. PICK row \in [Tx -> UNION {Outcomes(t) : t \in Tx}] :
          /\ \A t \in Tx : row[t] \in Outcomes(t)
          /\ status = [t \in Tx |-> row[t][1]]
    BY DEF Init
  <2>2. ASSUME NEW t \in Tx, NEW o \in Outcomes(t) PROVE o[1] # "exported"
    <3>1. \/ \E s \in Status \ {"exported"} : o = <<s, NoKonto, FALSE>>
          \/ o \in {"matched"} \X Konten \X {TRUE}
          \/ \E res \in RuleResults : o = <<res[1], res[2], FALSE>>
      BY DEF Outcomes, Status
    <3>2. \A res \in RuleResults : res[1] # "exported"
      BY DEF RuleResults
    <3>3. CASE \E s \in Status \ {"exported"} : o = <<s, NoKonto, FALSE>>
      BY <3>3
    <3>4. CASE o \in {"matched"} \X Konten \X {TRUE}
      BY <3>4
    <3>5. CASE \E res \in RuleResults : o = <<res[1], res[2], FALSE>>
      BY <3>2, <3>5
    <3>6. QED BY <3>1, <3>3, <3>4, <3>5
  <2>3. QED BY <2>1, <2>2
<1>3. \A r \in Requests : req[r].pc = "idle"
  BY DEF Init, Idle
<1>4. \A r \in Requests : Fresh(r)
  BY <1>3 DEF Fresh
<1>5. \A r \in Requests : Pending(r)
  BY <1>3 DEF Pending, Init, Rows, NoRows
<1>6. QED BY <1>1, <1>2, <1>4, <1>5 DEF SInv, ExportedKept

(* The export's calls keep what the ledger shows of an exported transaction*)
(* and hand on rows that are still so: nobody else writes in between.      *)
LEMMA ExportFresh ==
  ASSUME IInv, ExportedKept, NEW r \in Requests, Fresh(r), Export(r)
  PROVE  ExportedKept' /\ Fresh(r)'
<1>0. TypeOK /\ RefsOK /\ LockBacked /\ req[r] \in Work
  BY DEF IInv, TypeOK
<1>1. CASE StartExport(r)
  <2>1. /\ UNCHANGED <<ledger, items, files>>
        /\ req'[r].pc \in {"openCheck", "create"}
        /\ \A t \in Rows(req'[r].rows) : req'[r].rows[t] = booking[t]
    BY <1>1, ExportFlow
  <2>2. QED BY <2>1 DEF ExportedKept, Fresh, ledger, Rows
<1>2. CASE CheckOpen(r)
  <2>1. /\ UNCHANGED <<ledger, items, files>> /\ req[r].pc = "openCheck"
        /\ \/ req'[r].pc = "idle"
           \/ req'[r].pc = "create" /\ req'[r].rows = req[r].rows
    BY <1>2, ExportFlow
  <2>2. QED BY <2>1 DEF ExportedKept, Fresh, ledger, Rows
<1>3. CASE CreateBatch(r)
  <2>1. /\ UNCHANGED <<ledger, items>> /\ req[r].pc = "create"
        /\ \/ req'[r].pc = "idle" /\ UNCHANGED files
           \/ \E b \in Batches :
                /\ files[b] = NoRows /\ files' = [files EXCEPT ![b] = req[r].rows]
                /\ req'[r].pc = "claim" /\ req'[r].batch = b
                /\ req'[r].todo = Rows(req[r].rows)
    BY <1>3, ExportFlow
  <2>2. CASE req'[r].pc = "idle" /\ UNCHANGED files
    BY <2>1, <2>2 DEF ExportedKept, Fresh, ledger
  <2>3. CASE req'[r].pc = "claim"
    <3>1. PICK b \in Batches :
            /\ files[b] = NoRows /\ files' = [files EXCEPT ![b] = req[r].rows]
            /\ req'[r].batch = b /\ req'[r].todo = Rows(req[r].rows)
      BY <2>1, <2>3
    <3>2. \A t \in Tx : exportedIn[t] # b
      BY <1>0, <3>1, NonesOK DEF LockBacked, Rows, NoRows
    <3>3. ExportedKept'
      BY <1>0, <2>1, <3>1, <3>2 DEF ExportedKept, TypeOK, ledger
    <3>4. files'[b] = req[r].rows
      BY <1>0, <3>1 DEF TypeOK
    <3>5. \A t \in Rows(req[r].rows) : files'[b][t] = booking[t]
      BY <2>1, <3>4 DEF Fresh
    <3>6. QED BY <2>1, <2>3, <3>1, <3>3, <3>5 DEF Fresh, ledger
  <2>4. QED BY <2>1, <2>2, <2>3
<1>4. CASE CreateItem(r)
  <2>1. /\ UNCHANGED <<ledger, files>> /\ req[r].pc = "claim"
        /\ \E t \in req[r].todo :
             \/ req'[r].pc = "idle"
             \/ /\ req'[r].pc = "mark" /\ req'[r].cur = t
                /\ req'[r].batch = req[r].batch /\ req'[r].todo = req[r].todo
    BY <1>4, ExportFlow
  <2>2. QED BY <2>1 DEF ExportedKept, Fresh, ledger
<1>5. CASE MarkExported(r)
  <2>1. /\ UNCHANGED <<booking, items, files>> /\ req[r].pc = "mark"
        /\ status' = [status EXCEPT ![req[r].cur] = "exported"]
        /\ exportedIn' = [exportedIn EXCEPT ![req[r].cur] = req[r].batch]
        /\ \/ req'[r].pc = "idle"
           \/ /\ req'[r].pc = "claim" /\ req'[r].batch = req[r].batch
              /\ req'[r].todo = req[r].todo \ {req[r].cur}
    BY <1>5, ExportFlow
  <2>2. /\ req[r].cur \in Tx /\ req[r].batch \in Batches
        /\ files[req[r].batch][req[r].cur] = booking[req[r].cur]
    BY <1>0, <2>1 DEF RefsOK, Fresh
  <2>3. ExportedKept'
    BY <1>0, <2>1, <2>2 DEF ExportedKept, TypeOK
  <2>4. QED BY <2>1, <2>3 DEF Fresh
<1>6. QED BY <1>1, <1>2, <1>3, <1>4, <1>5 DEF Export

(* So do the others, which write nothing that is exported.                 *)
LEMMA OtherFresh ==
  ASSUME ExportedKept, NEW r \in Requests, Harmless(r)
  PROVE  ExportedKept' /\ Fresh(r)'
<1>1. ExportedKept'
  BY DEF ExportedKept, Harmless
<1>2. Fresh(r)'
  BY DEF Fresh, Harmless
<1>3. QED BY <1>1, <1>2

(* With one request, what it has read is never stale.                      *)
LEMMA SInvNext == ASSUME Serial, SInv, [Next]_vars PROVE SInv'
<1>1. IInv'
  BY IInvNext DEF SInv
<1>2. CASE UNCHANGED vars
  <2>1. ExportedKept'
    BY <1>2 DEF SInv, ExportedKept, vars, ledger
  <2>2. (\A r \in Requests : Fresh(r))'
    BY <1>2 DEF SInv, Fresh, Rows, vars, ledger
  <2>3. QED BY <1>1, <2>1, <2>2 DEF SInv
<1>3. CASE Next
  <2>1. PICK r \in Requests : Export(r) \/ Edit(r) \/ Reapply(r) \/ Resolve(r) \/ Fail(r)
    BY <1>3 DEF Next
  <2>2. Requests = {r}
    BY <2>1 DEF Serial
  <2>3. ExportedKept' /\ Fresh(r)'
    BY <2>1, ExportFresh, EditHarmless, ReapplyHarmless, ResolveHarmless,
       OtherFresh DEF SInv
  <2>4. QED BY <1>1, <2>2, <2>3 DEF SInv
<1>4. QED BY <1>2, <1>3

THEOREM SerialInvariance == ASSUME Serial PROVE Spec => []SInv
<1>1. Init => SInv
  BY SInvInit
<1>2. SInv /\ [Next]_vars => SInv'
  BY SInvNext
<1>3. QED BY <1>1, <1>2, PTL DEF Spec

(* ExportedAsBooked: with one request at a time, even one that fails at any*)
(* call, what the ledger shows for an exported transaction is what its file*)
(* says.                                                                   *)
THEOREM ExportedUnchanged == ASSUME Serial PROVE Spec => []ExportedAsBooked
<1>1. SInv => ExportedAsBooked
  BY DEF SInv, ExportedKept, ExportedAsBooked
<1>2. QED BY <1>1, SerialInvariance, PTL

(* ExportedLeftByMerge: with one request at a time, only a merge takes a   *)
(* transaction out of the status exported, and leaves it marked as the     *)
(* duplicate of another.                                                   *)
THEOREM OnlyMergeLeavesExported ==
  ASSUME Serial PROVE Spec => ExportedLeftByMerge
<1> DEFINE Left == \A t \in Tx : status[t] = "exported" /\ status'[t] # "exported"
                     => status'[t] = "skipped" /\ dupOf'[t] # NoTx
<1>1. SInv /\ [Next]_vars => [Left]_vars
  <2> SUFFICES ASSUME SInv, Next PROVE Left
    OBVIOUS
  <2>1. PICK r \in Requests : Export(r) \/ Edit(r) \/ Reapply(r) \/ Resolve(r) \/ Fail(r)
    BY DEF Next
  <2>2. CASE Export(r)
    <3>1. status' = status \/ status' = [status EXCEPT ![req[r].cur] = "exported"]
      BY <2>2 DEF Export, StartExport, CheckOpen, CreateBatch, CreateItem,
         MarkExported, ledger
    <3>2. QED BY <3>1 DEF SInv, IInv, TypeOK
  <2>3. CASE Edit(r) \/ Reapply(r) \/ Resolve(r) \/ Fail(r)
    <3>1. Harmless(r)
      BY <2>3, EditHarmless, ReapplyHarmless, ResolveHarmless DEF SInv
    <3>2. QED BY <3>1 DEF Harmless
  <2>4. QED BY <2>1, <2>2, <2>3
<1>2. QED BY <1>1, SerialInvariance, PTL DEF Spec, ExportedLeftByMerge

(* Without failures, what the export has still to claim has no item yet,   *)
(* so that no item is rejected half way.                                   *)
LEMMA ExportPending ==
  ASSUME SInv, SInv', NEW r \in Requests, Pending(r), Export(r)
  PROVE  Pending(r)'
<1>0. /\ TypeOK /\ RefsOK /\ LockBacked /\ Fresh(r) /\ req[r] \in Work
      /\ LockBacked'
  BY DEF SInv, IInv, TypeOK
<1>1. CASE StartExport(r)
  <2>1. /\ UNCHANGED <<ledger, items, files>> /\ req[r].pc = "idle"
        /\ req'[r].pc \in {"openCheck", "create"}
        /\ \A t \in Rows(req'[r].rows) : exportedIn[t] = NoBatch
    BY <1>1, ExportFlow DEF SInv
  <2>2. QED BY <2>1 DEF Pending, ledger, Rows
<1>2. CASE CheckOpen(r)
  <2>1. /\ UNCHANGED <<ledger, items, files>> /\ req[r].pc = "openCheck"
        /\ \/ req'[r].pc = "idle"
           \/ req'[r].pc = "create" /\ req'[r].rows = req[r].rows
    BY <1>2, ExportFlow DEF SInv
  <2>2. QED BY <2>1 DEF Pending, ledger, Rows
<1>3. CASE CreateBatch(r)
  <2>1. /\ UNCHANGED <<ledger, items>> /\ req[r].pc = "create"
        /\ \/ req'[r].pc = "idle" /\ UNCHANGED files
           \/ \E b \in Batches :
                /\ files[b] = NoRows /\ files' = [files EXCEPT ![b] = req[r].rows]
                /\ req'[r].pc = "claim" /\ req'[r].batch = b
                /\ req'[r].todo = Rows(req[r].rows)
    BY <1>3, ExportFlow DEF SInv
  <2>2. CASE req'[r].pc = "idle" /\ UNCHANGED files
    BY <2>1, <2>2 DEF Pending, ledger, Rows
  <2>3. CASE req'[r].pc = "claim"
    <3>1. PICK b \in Batches :
            /\ files' = [files EXCEPT ![b] = req[r].rows]
            /\ req'[r].batch = b /\ req'[r].todo = Rows(req[r].rows)
      BY <2>1, <2>3
    <3>2. \A c \in Batches : files'[c] = IF c = b THEN req[r].rows ELSE files[c]
      BY <1>0, <3>1 DEF TypeOK
    <3>3. \A t \in req'[r].todo : exportedIn'[t] = NoBatch
      BY <2>1, <3>1 DEF Pending, ledger
    <3>4. \A c \in Batches : \A t \in Rows(files'[c]) :
            exportedIn'[t] = c \/ (c = b /\ t \in req'[r].todo)
      BY <2>1, <3>1, <3>2 DEF Pending, ledger
    <3>5. \A t \in Tx : items'[t] # NoBatch => exportedIn'[t] = items'[t]
      BY <2>1 DEF Pending, ledger
    <3>6. QED BY <2>3, <3>1, <3>3, <3>4, <3>5 DEF Pending, Rows
  <2>4. QED BY <2>1, <2>2, <2>3
<1>4. CASE CreateItem(r)
  <2>1. /\ UNCHANGED <<ledger, files>> /\ req[r].pc = "claim"
        /\ \E t \in req[r].todo :
             \/ items[t] # NoBatch /\ req'[r].pc = "idle" /\ UNCHANGED items
             \/ /\ items' = [items EXCEPT ![t] = req[r].batch]
                /\ req'[r].pc = "mark" /\ req'[r].cur = t
                /\ req'[r].batch = req[r].batch /\ req'[r].todo = req[r].todo
    BY <1>4, ExportFlow DEF SInv
  <2>2. \A t \in req[r].todo : t \in Tx /\ items[t] = NoBatch
    BY <1>0, <2>1 DEF Pending, Work
  <2>3. PICK t \in req[r].todo :
          /\ items' = [items EXCEPT ![t] = req[r].batch]
          /\ req'[r].pc = "mark" /\ req'[r].cur = t
          /\ req'[r].batch = req[r].batch /\ req'[r].todo = req[r].todo
    BY <2>1, <2>2
  <2>4. \A u \in Tx : u # t => items'[u] = items[u]
    BY <1>0, <2>3 DEF TypeOK
  <2>5. QED BY <2>1, <2>3, <2>4 DEF Pending, Rows, ledger
<1>5. CASE MarkExported(r)
  <2>1. /\ UNCHANGED <<booking, items, files>> /\ req[r].pc = "mark"
        /\ exportedIn' = [exportedIn EXCEPT ![req[r].cur] = req[r].batch]
        /\ \/ req'[r].pc = "idle" /\ req[r].todo \subseteq {req[r].cur}
           \/ /\ req'[r].pc = "claim" /\ req'[r].batch = req[r].batch
              /\ req'[r].todo = req[r].todo \ {req[r].cur}
    BY <1>5, ExportFlow DEF SInv
  <2>2. /\ req[r].cur \in Tx /\ req[r].cur \in req[r].todo
        /\ req[r].batch \in Batches /\ req[r].todo \subseteq Tx
    BY <1>0, <2>1 DEF RefsOK, Fresh, Work
  <2>3. \A t \in Tx : exportedIn'[t] = IF t = req[r].cur THEN req[r].batch
                                                          ELSE exportedIn[t]
    BY <1>0, <2>1, <2>2 DEF TypeOK
  <2>4. exportedIn[req[r].cur] = NoBatch
    BY <2>1, <2>2 DEF Pending
  <2>5. req'[r].pc = "claim" => \A t \in req'[r].todo : exportedIn'[t] = NoBatch
    BY <2>1, <2>2, <2>3 DEF Pending
  <2>6. \A b \in Batches : \A t \in Rows(files[b]) :
          \/ exportedIn'[t] = b
          \/ req'[r].pc = "claim" /\ req'[r].batch = b /\ t \in req'[r].todo
    <3> SUFFICES ASSUME NEW b \in Batches, NEW t \in Rows(files[b])
                 PROVE  \/ exportedIn'[t] = b
                        \/ req'[r].pc = "claim" /\ req'[r].batch = b /\ t \in req'[r].todo
      OBVIOUS
    <3>1. t \in Tx
      BY DEF Rows
    <3>2. exportedIn[t] = b \/ (req[r].batch = b /\ t \in req[r].todo)
      BY DEF Pending
    <3>3. CASE exportedIn[t] = b
      BY <2>3, <2>4, <3>1, <3>3, NonesOK
    <3>4. CASE req[r].batch = b /\ t \in req[r].todo
      BY <2>1, <2>3, <3>1, <3>4
    <3>5. QED BY <3>2, <3>3, <3>4
  <2>7. \A t \in Tx : items[t] # NoBatch => exportedIn'[t] = items[t]
    BY <1>0, <2>1, <2>2, <2>3, NonesOK DEF Pending, LockBacked
  <2>8. QED BY <2>1, <2>5, <2>6, <2>7 DEF Pending, Rows
<1>6. QED BY <1>1, <1>2, <1>3, <1>4, <1>5 DEF Export

(* The others run when no export is in progress.                           *)
LEMMA OtherPending ==
  ASSUME NEW r \in Requests, Pending(r), Edit(r) \/ Reapply(r) \/ Resolve(r),
         Harmless(r)
  PROVE  Pending(r)'
<1>1. req[r].pc \notin {"openCheck", "create", "claim", "mark"}
  BY DEF Edit, StartAssign, WriteAssign, StartSetStatus, WriteStatus, RemapKonto,
     Reapply, StartApplyRules, StartReprocess, ReapplyClearing, ReapplyPark,
     ReapplyNoRules, ReapplyHumanRules, Resolve, StartResolve, MergeDuplicate,
     CloseGroup, At
<1>2. req'[r].pc \notin {"openCheck", "create", "claim", "mark"}
  BY DEF Harmless
<1>3. UNCHANGED <<exportedIn, items, files>>
  BY DEF Harmless
<1>4. QED BY <1>1, <1>2, <1>3 DEF Pending, Rows

LEMMA NInvNext == ASSUME Serial, ~CanFail, NInv, [Next]_vars PROVE NInv'
<1>1. SInv'
  BY SInvNext DEF NInv
<1>2. CASE UNCHANGED vars
  <2>1. (\A r \in Requests : Pending(r))'
    BY <1>2 DEF NInv, Pending, Rows, vars, ledger
  <2>2. QED BY <1>1, <2>1 DEF NInv
<1>3. CASE Next
  <2>1. PICK r \in Requests : Export(r) \/ Edit(r) \/ Reapply(r) \/ Resolve(r)
    BY <1>3 DEF Next, Fail
  <2>2. Requests = {r}
    BY <2>1 DEF Serial
  <2>3. Pending(r)'
    BY <1>1, <2>1, ExportPending, EditHarmless, ReapplyHarmless, ResolveHarmless,
       OtherPending DEF NInv, SInv
  <2>4. QED BY <1>1, <2>2, <2>3 DEF NInv
<1>4. QED BY <1>2, <1>3

(* FileOnce: with one request at a time and none failing, the export lock  *)
(* does what the README says of it: no transaction has a row in two files. *)
THEOREM ExportedOnce == ASSUME Serial, ~CanFail PROVE Spec => []FileOnce
<1>1. Init => NInv
  BY SInvInit DEF NInv
<1>2. NInv /\ [Next]_vars => NInv'
  BY NInvNext
<1>3. NInv => FileOnce
  <2> SUFFICES ASSUME NInv, NEW b \in Batches, NEW c \in Batches, b # c,
                      NEW t \in Rows(files[b]), t \in Rows(files[c])
               PROVE  FALSE
    BY DEF FileOnce
  <2>1. PICK r \in Requests : Pending(r)
    BY DEF Serial, NInv
  <2>2. \A d \in {b, c} : exportedIn[t] = d \/ (exportedIn[t] = NoBatch /\ req[r].batch = d)
    BY <2>1 DEF Pending
  <2>3. QED BY <2>2, NonesOK
<1>4. QED BY <1>1, <1>2, <1>3, PTL DEF Spec

=============================================================================
