----------------------------- MODULE CashLedger -----------------------------
(***************************************************************************)
(* The cash ledger: the Transaction documents, the requests that rewrite   *)
(* them (assign, setStatus, applyRules, reprocess, resolve a duplicate     *)
(* group, rename an account) and the DATEV export that locks them          *)
(* (DatevExportService.createExport).                                      *)
(*                                                                         *)
(* Every service method reads documents, decides, and writes them back by  *)
(* _id with findOneAndUpdate (BaseRepository.update): no version check, no *)
(* database transaction.  A request is therefore a process: one action for *)
(* each database call that another request can observe or disturb, and     *)
(* req[r] holds what the request carries from one call to the next.        *)
(*                                                                         *)
(* A booking is abstracted to its konto; NoKonto stands for a booking      *)
(* whose konto or gegenkonto is missing.  A list the code walks in an      *)
(* order the properties do not tell apart is a set.                        *)
(***************************************************************************)
CONSTANTS
  Tx,            \* the transactions imported so far
  Requests,      \* the requests that may be in progress at one time
  Batches,       \* ids for export batches (bounds how many are created)
  Konten,        \* account numbers
  Forbidden,     \* S12's forbidden collective accounts ({} when S12 is off)
  Bookable,      \* the transactions whose bookability is 'bookable',
  Skipped,       \* and 'skipped'; the others are 'balance_only'
  ZeroAmount,    \* the transactions whose amountCents is 0
  Periods,       \* export periods: what the gather and the open check select
  ImportBatches, \* the transactions of each import batch
  Groups,        \* duplicate groups: the kept transaction and the others
  CanFail,       \* whether a call may reject, or the process die, mid-request
  NoKonto, NoBatch, NoTx, NoGroup, NoPeriod

ASSUME ConstantsOK ==
  /\ Forbidden \subseteq Konten
  /\ Bookable \subseteq Tx
  /\ Skipped \subseteq Tx \ Bookable
  /\ ZeroAmount \subseteq Tx
  /\ Periods \subseteq [window : SUBSET Tx, openWindow : SUBSET Tx]
  /\ ImportBatches \subseteq SUBSET Tx
  /\ Groups \subseteq [keep : Tx, rest : SUBSET Tx]
  /\ CanFail \in BOOLEAN

ASSUME NonesOK ==
  /\ NoKonto \notin Konten
  /\ NoBatch \notin Batches
  /\ NoTx \notin Tx
  /\ NoGroup \notin Groups
  /\ NoPeriod \notin Periods

Status == {"imported", "matched", "open", "conflict", "reviewed", "skipped",
           "exported"}
Booking == Konten \cup {NoKonto}
File    == [Tx -> Booking]        \* NoKonto: the transaction has no row
NoRows  == [t \in Tx |-> NoKonto]
Rows(f) == {t \in Tx : f[t] # NoKonto}

VARIABLES
  status,        \* Transaction.status
  booking,       \* Transaction.booking
  system,        \* Transaction.systemMatched (always by S5)
  exportedIn,    \* Transaction.exportedInBatchId
  dupOf,         \* Transaction.duplicateOfId, NoTx unless isDuplicate
  items,         \* the ExportItem of a transaction: its batch (unique index)
  files,         \* ExportBatch.fileContent: the rows of each batch
  groups,        \* DuplicateGroup.status
  req            \* the requests in progress

ledger == <<status, booking, system, exportedIn, dupOf>>
vars   == <<ledger, items, files, groups, req>>

Phases == {"idle", "openCheck", "create", "claim", "mark",
           "assign", "status", "rules", "noRules", "reprocess",
           "merge", "merged", "ignored", "keep_both"}
Work == [pc : Phases, todo : SUBSET Tx, wasOpen : SUBSET Tx, rows : File,
         cur : Tx \cup {NoTx}, batch : Batches \cup {NoBatch},
         grp : Groups \cup {NoGroup}, period : Periods \cup {NoPeriod}]

Idle == [pc |-> "idle", todo |-> {}, wasOpen |-> {}, rows |-> NoRows,
         cur |-> NoTx, batch |-> NoBatch, grp |-> NoGroup,
         period |-> NoPeriod]

TypeOK ==
  /\ status \in [Tx -> Status]
  /\ booking \in [Tx -> Booking]
  /\ system \in [Tx -> BOOLEAN]
  /\ exportedIn \in [Tx -> Batches \cup {NoBatch}]
  /\ dupOf \in [Tx -> Tx \cup {NoTx}]
  /\ items \in [Tx -> Batches \cup {NoBatch}]
  /\ files \in [Batches -> File]
  /\ groups \in [Groups -> {"open", "merged", "ignored", "keep_both"}]
  /\ req \in [Requests -> Work]

(* The human rules: none matches (or only one that may not book), exactly  *)
(* one, or several.  One that matches never books a forbidden account.     *)
RuleResults == ({"open", "conflict"} \X {NoKonto})
               \cup ({"matched"} \X (Konten \ Forbidden))

(* The import creates a document for each row and classifies it before the *)
(* next: a row whose bookability is 'skipped' is created as skipped; any   *)
(* other is booked by the clearing policy, or parked, or left to the rules,*)
(* or stays imported when the import died in between.                      *)
Outcomes(t) ==
  IF t \in Skipped
  THEN {<<"skipped", NoKonto, FALSE>>}
  ELSE {<<"imported", NoKonto, FALSE>>} \cup ({"matched"} \X Konten \X {TRUE})
       \cup {<<res[1], res[2], FALSE>> : res \in RuleResults}

Init ==
  /\ \E row \in [Tx -> UNION {Outcomes(t) : t \in Tx}] :
       /\ \A t \in Tx : row[t] \in Outcomes(t)
       /\ status = [t \in Tx |-> row[t][1]]
       /\ booking = [t \in Tx |-> row[t][2]]
       /\ system = [t \in Tx |-> row[t][3]]
  /\ exportedIn = [t \in Tx |-> NoBatch]
  /\ dupOf = [t \in Tx |-> NoTx]
  /\ items = [t \in Tx |-> NoBatch]
  /\ files = [b \in Batches |-> NoRows]
  /\ groups = [g \in Groups |-> "open"]
  /\ req = [r \in Requests |-> Idle]
-----------------------------------------------------------------------------
(* Requests.                                                               *)

At(r, pc)    == req[r].pc = pc
Step(r, w)   == req' = [req EXCEPT ![r] = w]
Return(r)    == Step(r, Idle)

(* One transaction of the request's list is dealt with; the request ends   *)
(* with the last one.                                                      *)
Done(r, t) ==
  LET left == req[r].todo \ {t}
  IN  IF left = {} THEN Return(r)
                   ELSE Step(r, [req[r] EXCEPT !.todo = left])

(* A database call of the request rejects, or the process dies: what was   *)
(* written stays written and nothing resumes the request.                  *)
Fail(r) ==
  /\ CanFail
  /\ ~At(r, "idle")
  /\ Return(r)
  /\ UNCHANGED <<ledger, items, files, groups>>
-----------------------------------------------------------------------------
(* DatevExportService.createExport.                                        *)

Approved(allowMatched) ==
  {"reviewed"} \cup (IF allowMatched THEN {"matched"} ELSE {})

(* Broken: relies on the status alone to leave out what was exported.      *)
ExportableByStatus(p, allowMatched) ==
  {t \in p.window : /\ status[t] \in Approved(allowMatched)
                    /\ t \in Bookable
                    /\ booking[t] # NoKonto}

(* #gatherExportable: approved, bookable, complete, not locked.            *)
Exportable(p, allowMatched) ==
  {t \in p.window : /\ status[t] \in Approved(allowMatched)
                    /\ t \in Bookable
                    /\ exportedIn[t] = NoBatch
                    /\ booking[t] # NoKonto}

(* The company settings are read here; an administrator may have set the   *)
(* two flags to anything.  An empty selection is an error.                 *)
StartExport(r) ==
  /\ At(r, "idle")
  /\ \E p \in Periods, allowMatched, blockIfOpen \in BOOLEAN :
       LET txList == Exportable(p, allowMatched)
       IN  /\ txList # {}
           /\ Step(r, [Idle EXCEPT
                !.pc = IF blockIfOpen THEN "openCheck" ELSE "create",
                !.period = p,
                !.rows = [t \in Tx |-> IF t \in txList THEN booking[t]
                                                       ELSE NoKonto]])
  /\ UNCHANGED <<ledger, items, files, groups>>

OpenIn(p) == {t \in p.openWindow : /\ status[t] \in {"open", "conflict"}
                                   /\ t \in Bookable}

CheckOpen(r) ==
  /\ At(r, "openCheck")
  /\ IF OpenIn(req[r].period) # {}
     THEN Return(r)
     ELSE Step(r, [req[r] EXCEPT !.pc = "create"])
  /\ UNCHANGED <<ledger, items, files, groups>>

(* Broken: the forbidden collectives are not looked for.                   *)
RowsValidNoS12(f) == \A t \in Rows(f) : t \notin ZeroAmount

(* validateDatevRows: the errors that stop an export.                      *)
RowsValid(f) == \A t \in Rows(f) : t \notin ZeroAmount /\ f[t] \notin Forbidden

CreateBatch(r) ==
  /\ At(r, "create")
  /\ \/ /\ ~RowsValid(req[r].rows)
        /\ Return(r)
        /\ UNCHANGED files
     \/ /\ RowsValid(req[r].rows)
        /\ \E b \in Batches :
             /\ files[b] = NoRows
             /\ files' = [files EXCEPT ![b] = req[r].rows]
             /\ Step(r, [Idle EXCEPT !.pc = "claim", !.batch = b,
                                     !.todo = Rows(req[r].rows)])
  /\ UNCHANGED <<ledger, items, groups>>

(* Broken: no unique index on ExportItem.transactionId.                    *)
CreateItemAnyway(r) ==
  /\ At(r, "claim")
  /\ \E t \in req[r].todo :
       /\ items' = [items EXCEPT ![t] = req[r].batch]
       /\ Step(r, [req[r] EXCEPT !.pc = "mark", !.cur = t])
  /\ UNCHANGED <<ledger, files, groups>>

(* exportItems.create: the unique index on transactionId rejects a second  *)
(* item, and the error ends the request.                                   *)
CreateItem(r) ==
  /\ At(r, "claim")
  /\ \E t \in req[r].todo :
       \/ /\ items[t] # NoBatch
          /\ Return(r)
          /\ UNCHANGED items
       \/ /\ items[t] = NoBatch
          /\ items' = [items EXCEPT ![t] = req[r].batch]
          /\ Step(r, [req[r] EXCEPT !.pc = "mark", !.cur = t])
  /\ UNCHANGED <<ledger, files, groups>>

MarkExported(r) ==
  /\ At(r, "mark")
  /\ LET t == req[r].cur
         left == req[r].todo \ {t}
     IN  /\ status' = [status EXCEPT ![t] = "exported"]
         /\ exportedIn' = [exportedIn EXCEPT ![t] = req[r].batch]
         /\ IF left = {}
            THEN Return(r)
            ELSE Step(r, [req[r] EXCEPT !.pc = "claim", !.cur = NoTx,
                                        !.todo = left])
  /\ UNCHANGED <<booking, system, dupOf, items, files, groups>>
-----------------------------------------------------------------------------
(* TransactionService.assign and setStatus; bulkAssign and bulkStatus call *)
(* them one after the other and stop at the first error, which is what     *)
(* successive requests of one process do here.                             *)

Editable(t) == status[t] # "exported"

StartAssign(r) ==
  /\ At(r, "idle")
  /\ \E t \in Tx : /\ Editable(t)
                   /\ Step(r, [Idle EXCEPT !.pc = "assign", !.cur = t])
  /\ UNCHANGED <<ledger, items, files, groups>>

WriteAssign(r) ==
  /\ At(r, "assign")
  /\ \E k \in Booking :
       /\ booking' = [booking EXCEPT ![req[r].cur] = k]
       /\ status' = [status EXCEPT ![req[r].cur] = "reviewed"]
  /\ Return(r)
  /\ UNCHANGED <<system, exportedIn, dupOf, items, files, groups>>

StartSetStatus(r) ==
  /\ At(r, "idle")
  /\ \E t \in Tx : /\ Editable(t)
                   /\ Step(r, [Idle EXCEPT !.pc = "status", !.cur = t])
  /\ UNCHANGED <<ledger, items, files, groups>>

WriteStatus(r) ==
  /\ At(r, "status")
  /\ \E s \in {"open", "reviewed", "matched", "conflict", "skipped"} :
       status' = [status EXCEPT ![req[r].cur] = s]
  /\ Return(r)
  /\ UNCHANGED <<booking, system, exportedIn, dupOf, items, files, groups>>
-----------------------------------------------------------------------------
(* TransactionService.applyRules and ImportService.reprocess: a snapshot   *)
(* of the transactions, then one write for each that the snapshot does not *)
(* exempt.  What the policies and rules say of a transaction may be any of *)
(* their results, since users edit both.                                   *)

ReapplyDefault == {t \in Tx : status[t] \in {"open", "imported", "conflict",
                                             "matched"}}

(* Broken: exported transactions are not left out of the list.             *)
StartApplyRulesToAll(r) ==
  /\ At(r, "idle")
  /\ \E list \in {ReapplyDefault} \cup SUBSET Tx :
       LET todo == {t \in list : /\ status[t] # "reviewed"
                                 /\ t \notin Skipped
                                 /\ ~system[t]}
       IN  /\ todo # {}
           /\ Step(r, [Idle EXCEPT !.pc = "rules", !.todo = todo])
  /\ UNCHANGED <<ledger, items, files, groups>>

(* With ids, any transaction is read, whatever its status.                 *)
StartApplyRules(r) ==
  /\ At(r, "idle")
  /\ \E list \in {ReapplyDefault} \cup SUBSET Tx, hasRules \in BOOLEAN :
       LET todo == {t \in list : /\ status[t] \notin {"exported", "reviewed"}
                                 /\ t \notin Skipped
                                 /\ ~system[t]}
       IN  /\ todo # {}
           /\ Step(r, IF hasRules
                      THEN [Idle EXCEPT !.pc = "rules", !.todo = todo]
                      ELSE [Idle EXCEPT !.pc = "noRules", !.todo = todo,
                              !.wasOpen = {t \in todo : status[t] = "open"}])
  /\ UNCHANGED <<ledger, items, files, groups>>

(* The filter does not leave out reviewed transactions.                    *)
StartReprocess(r) ==
  /\ At(r, "idle")
  /\ \E list \in ImportBatches :
       LET todo == {t \in list : /\ status[t] \notin {"exported", "skipped"}
                                 /\ t \notin Skipped
                                 /\ ~system[t]}
       IN  /\ todo # {}
           /\ Step(r, [Idle EXCEPT !.pc = "reprocess", !.todo = todo])
  /\ UNCHANGED <<ledger, items, files, groups>>

Classify(t, s, k) ==
  /\ status' = [status EXCEPT ![t] = s]
  /\ booking' = [booking EXCEPT ![t] = k]

(* detectBankPaypalClearing matched: booked by the system.                 *)
ReapplyClearing(r) ==
  /\ req[r].pc \in {"rules", "noRules", "reprocess"}
  /\ \E t \in req[r].todo, k \in Konten :
       /\ Classify(t, "matched", k)
       /\ system' = [system EXCEPT ![t] = TRUE]
       /\ Done(r, t)
  /\ UNCHANGED <<exportedIn, dupOf, items, files, groups>>

(* A park policy: open, without a booking.  Only applyRules also clears    *)
(* systemMatched.                                                          *)
ReapplyPark(r) ==
  /\ req[r].pc \in {"rules", "noRules", "reprocess"}
  /\ \E t \in req[r].todo :
       /\ Classify(t, "open", NoKonto)
       /\ system' = IF At(r, "reprocess") THEN system
                                          ELSE [system EXCEPT ![t] = FALSE]
       /\ Done(r, t)
  /\ UNCHANGED <<exportedIn, dupOf, items, files, groups>>

(* applyRules without any enabled rule: a transaction the snapshot shows   *)
(* as open is left alone, any other is opened.                             *)
ReapplyNoRules(r) ==
  /\ At(r, "noRules")
  /\ \E t \in req[r].todo :
       /\ IF t \in req[r].wasOpen THEN UNCHANGED <<status, booking>>
                                  ELSE Classify(t, "open", NoKonto)
       /\ Done(r, t)
  /\ UNCHANGED <<system, exportedIn, dupOf, items, files, groups>>

(* One human rule matched, several, or none.                               *)
ReapplyHumanRules(r) ==
  /\ req[r].pc \in {"rules", "reprocess"}
  /\ \E t \in req[r].todo, res \in RuleResults :
       /\ Classify(t, res[1], res[2])
       /\ system' = IF At(r, "reprocess") THEN system
                                          ELSE [system EXCEPT ![t] = FALSE]
       /\ Done(r, t)
  /\ UNCHANGED <<exportedIn, dupOf, items, files, groups>>
-----------------------------------------------------------------------------
(* DuplicateService.resolve: the group is read and must be open; a merge   *)
(* skips every transaction but the first, whatever its status; last the    *)
(* group is closed.                                                        *)

StartResolve(r) ==
  /\ At(r, "idle")
  /\ \E g \in Groups :
       /\ groups[g] = "open"
       /\ \/ \E action \in {"ignored", "keep_both"} :
                Step(r, [Idle EXCEPT !.pc = action, !.grp = g])
          \/ Step(r, [Idle EXCEPT !.pc = IF g.rest = {} THEN "merged"
                                                        ELSE "merge",
                                  !.grp = g, !.todo = g.rest])
  /\ UNCHANGED <<ledger, items, files, groups>>

(* Broken: merging a transaction also releases its export lock.            *)
MergeAndUnlock(r) ==
  /\ At(r, "merge")
  /\ \E t \in req[r].todo :
       LET left == req[r].todo \ {t}
       IN  /\ status' = [status EXCEPT ![t] = "skipped"]
           /\ dupOf' = [dupOf EXCEPT ![t] = req[r].grp.keep]
           /\ exportedIn' = [exportedIn EXCEPT ![t] = NoBatch]
           /\ Step(r, [req[r] EXCEPT !.todo = left,
                        !.pc = IF left = {} THEN "merged" ELSE "merge"])
  /\ UNCHANGED <<booking, system, items, files, groups>>

MergeDuplicate(r) ==
  /\ At(r, "merge")
  /\ \E t \in req[r].todo :
       LET left == req[r].todo \ {t}
       IN  /\ status' = [status EXCEPT ![t] = "skipped"]
           /\ dupOf' = [dupOf EXCEPT ![t] = req[r].grp.keep]
           /\ Step(r, [req[r] EXCEPT !.todo = left,
                        !.pc = IF left = {} THEN "merged" ELSE "merge"])
  /\ UNCHANGED <<booking, system, exportedIn, items, files, groups>>

CloseGroup(r) ==
  /\ req[r].pc \in {"merged", "ignored", "keep_both"}
  /\ groups' = [groups EXCEPT ![req[r].grp] = req[r].pc]
  /\ Return(r)
  /\ UNCHANGED <<ledger, items, files>>
-----------------------------------------------------------------------------
(* Broken: exported transactions are renamed as well.                      *)
RemapAllKonto(r) ==
  /\ At(r, "idle")
  /\ \E from, to \in Konten : \E part \in SUBSET {t \in Tx : booking[t] = from} :
         /\ from # to
         /\ booking' = [t \in Tx |-> IF t \in part THEN to ELSE booking[t]]
  /\ UNCHANGED <<status, system, exportedIn, dupOf, items, files, groups, req>>

(* AccountService.remapKontoNumber, when an account number is edited: one  *)
(* updateMany over the transactions that are not exported.  updateMany is  *)
(* atomic for each document only, so any part of them changes in one step. *)
RemapKonto(r) ==
  /\ At(r, "idle")
  /\ \E from, to \in Konten :
       \E part \in SUBSET {t \in Tx : booking[t] = from /\ Editable(t)} :
         /\ from # to
         /\ booking' = [t \in Tx |-> IF t \in part THEN to ELSE booking[t]]
  /\ UNCHANGED <<status, system, exportedIn, dupOf, items, files, groups, req>>
-----------------------------------------------------------------------------
Export(r)  == \/ StartExport(r) \/ CheckOpen(r) \/ CreateBatch(r)
              \/ CreateItem(r) \/ MarkExported(r)
Edit(r)    == \/ StartAssign(r) \/ WriteAssign(r)
              \/ StartSetStatus(r) \/ WriteStatus(r) \/ RemapKonto(r)
Reapply(r) == \/ StartApplyRules(r) \/ StartReprocess(r) \/ ReapplyClearing(r)
              \/ ReapplyPark(r) \/ ReapplyNoRules(r) \/ ReapplyHumanRules(r)
Resolve(r) == StartResolve(r) \/ MergeDuplicate(r) \/ CloseGroup(r)

Next == \E r \in Requests : Export(r) \/ Edit(r) \/ Reapply(r) \/ Resolve(r)
                            \/ Fail(r)

Spec == Init /\ [][Next]_vars
-----------------------------------------------------------------------------
(* What holds however requests overlap and fail.                           *)

(* A transaction that points to an export batch has the ExportItem of that *)
(* very batch, and the batch's file has a row for it: the lock is never    *)
(* set by an export that lost the race for the item (createExport creates  *)
(* the item first, and a duplicate key ends it).                           *)
LockBacked ==
  \A t \in Tx : /\ exportedIn[t] # NoBatch => items[t] = exportedIn[t]
                /\ items[t] # NoBatch => t \in Rows(files[items[t]])

(* No file has a row that is not bookable, has amount 0 or posts to a      *)
(* forbidden collective, although assign accepts any account and edits     *)
(* race with the gather: the rows are validated after the snapshot, and    *)
(* the snapshot is what is written.                                        *)
FilesValid ==
  \A b \in Batches : \A t \in Rows(files[b]) :
    t \in Bookable \ ZeroAmount /\ files[b][t] \notin Forbidden

(* The export lock as the abstract module states it: claimed once, marked  *)
(* after the claim, never moved or taken back by any of the other writers. *)
Lock == INSTANCE ExportLock WITH claim <- items, mark <- exportedIn
ImplementsLock == Lock!Spec
-----------------------------------------------------------------------------
(* What holds when requests neither overlap nor fail.                      *)

(* README:149 "Unique `ExportItem.transactionId` is the export lock": what *)
(* has a row in one DATEV file never has one in another.                   *)
FileOnce ==
  \A b, c \in Batches : b # c => Rows(files[b]) \cap Rows(files[c]) = {}

(* What the ledger shows for an exported transaction is what its file      *)
(* says, through every edit, rule re-application and account renaming.     *)
ExportedAsBooked ==
  \A t \in Tx : status[t] = "exported" => booking[t] = files[exportedIn[t]][t]

(* A transaction leaves the status exported in one way only, by being      *)
(* merged into another one as its duplicate.                               *)
ExportedLeftByMerge ==
  [][\A t \in Tx : status[t] = "exported" /\ status'[t] # "exported"
                     => status'[t] = "skipped" /\ dupOf'[t] # NoTx]_vars
=============================================================================
