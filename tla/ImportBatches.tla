--------------------------- MODULE ImportBatches ---------------------------
(***************************************************************************)
(* The life of an ImportBatch, for the cash imports (ImportService, bank   *)
(* and PayPal files) and the accrual imports (JtlImportService,            *)
(* MarketplaceImportService): the hash of a file that refuses a second     *)
(* upload, superseding the hash of a failed one, the loop over the rows,   *)
(* the watchdog that fails batches without a heartbeat, and the two        *)
(* recovery operations of an administrator.                                *)
(*                                                                         *)
(* A row is stored in two writes: its document, and what the document is   *)
(* for: the classification of a cash transaction, the business event of an *)
(* accrual record.  An accrual import catches what goes wrong and marks    *)
(* its batch failed, a cash import does not; neither survives its process. *)
(***************************************************************************)
EXTENDS Integers

CONSTANTS
  Files,       \* the files users upload
  Keys,        \* identities of rows: fingerprints, sourceIdentityKeys
  Source,      \* [Files -> source]; "bank" stands for both cash sources
  FileRows,    \* [Files -> SUBSET Keys]
  Unbookable,  \* cash rows the parser marks 'skipped'
  Faulty,      \* files some rows of which do not parse
  Batches,     \* batch ids, a set of numbers (bounds how many are created)
  Uploads,     \* requests that may be in progress at one time
  MaxFailures, \* bound on rejected calls and crashes
  NoFile, NoBatch, NoKey

ASSUME FilesOK ==
  /\ Source \in [Files -> {"bank", "jtl", "marketplace"}]
  /\ FileRows \in [Files -> SUBSET Keys]
  /\ Batches \subseteq Nat
  /\ MaxFailures \in Nat
  /\ NoFile \notin Files /\ NoBatch \notin Batches /\ NoKey \notin Keys

(* Cash transactions and accrual records are stored in collections of      *)
(* their own: no row of a cash file is a row of an accrual file.           *)
ASSUME KeysApart ==
  \A f, g \in Files : FileRows[f] \cap FileRows[g] # {} =>
    (Source[f] = "bank" <=> Source[g] = "bank")

VARIABLES
  status,      \* ImportBatch.status, "none" while the id is unused
  file,        \* the file whose hash ImportBatch.fileHash is or was
  superseded,  \* whether fileHash has the suffix :superseded:
  stale,       \* in processing, no heartbeat (or update) for STALE_MINUTES
  docs,        \* the batches that stored a document for a row
  handled,     \* rows whose document is classified or has its event
  groups,      \* the duplicate groups created: sets of rows
  req,         \* the requests in progress
  watch,       \* the batches a run of the watchdog has yet to mark
  failures     \* rejected calls and crashes so far

rowDocs == <<docs, handled, groups>>
importVars == <<status, file, superseded, stale, rowDocs, req, watch, failures>>

Phases == {"idle", "supersede", "create", "rows", "store", "handle", "finish",
           "audit", "failing", "retry"}
Work == [pc : Phases, file : Files \cup {NoFile},
         batch : Batches \cup {NoBatch}, todo : SUBSET Keys,
         cur : Keys \cup {NoKey}, dups : SUBSET Keys, made : BOOLEAN]
Idle == [pc |-> "idle", file |-> NoFile, batch |-> NoBatch, todo |-> {},
         cur |-> NoKey, dups |-> {}, made |-> FALSE]

TypeOK ==
  /\ status \in [Batches -> {"none", "processing", "completed", "failed"}]
  /\ file \in [Batches -> Files \cup {NoFile}]
  /\ superseded \in [Batches -> BOOLEAN]
  /\ stale \in [Batches -> BOOLEAN]
  /\ docs \in [Keys -> SUBSET Batches]
  /\ handled \subseteq Keys
  /\ groups \subseteq SUBSET Keys
  /\ req \in [Uploads -> Work]
  /\ watch \subseteq Batches
  /\ failures \in 0..MaxFailures

ImportInit ==
  /\ status = [b \in Batches |-> "none"]
  /\ file = [b \in Batches |-> NoFile]
  /\ superseded = [b \in Batches |-> FALSE]
  /\ stale = [b \in Batches |-> FALSE]
  /\ docs = [k \in Keys |-> {}]
  /\ handled = {}
  /\ groups = {}
  /\ req = [u \in Uploads |-> Idle]
  /\ watch = {}
  /\ failures = 0
-----------------------------------------------------------------------------
At(u, pc)   == req[u].pc = pc
Step(u, w)  == req' = [req EXCEPT ![u] = w]

IsAccrual(f) == Source[f] \in {"jtl", "marketplace"}

IsAccrualBatch(b) == status[b] # "none" /\ IsAccrual(file[b])
-----------------------------------------------------------------------------
(* An upload.                                                              *)

(* findByFileHash: a batch of the same bytes that did not fail makes the   *)
(* upload answer duplicate_file, with no write at all; a failed one is to  *)
(* give up its hash.  If several have the hash, any may be found.          *)
FindFile(u) ==
  /\ At(u, "idle")
  /\ \E f \in Files :
       LET found == {b \in Batches : /\ status[b] # "none"
                                     /\ file[b] = f
                                     /\ ~superseded[b]}
       IN  \/ /\ found = {}
              /\ Step(u, [Idle EXCEPT !.pc = "create", !.file = f])
           \/ \E b \in found :
                /\ status[b] = "failed"
                /\ Step(u, [Idle EXCEPT !.pc = "supersede", !.file = f,
                                        !.batch = b])
  /\ UNCHANGED <<status, file, superseded, stale, rowDocs, watch, failures>>

Supersede(u) ==
  /\ At(u, "supersede")
  /\ superseded' = [superseded EXCEPT ![req[u].batch] = TRUE]
  /\ Step(u, [req[u] EXCEPT !.pc = "create", !.batch = NoBatch])
  /\ UNCHANGED <<status, file, stale, rowDocs, watch, failures>>

CreateBatch(u) ==
  /\ At(u, "create")
  /\ \E b \in Batches :
       /\ status[b] = "none"
       /\ \A c \in Batches : c < b => status[c] # "none"
       /\ status' = [status EXCEPT ![b] = "processing"]
       /\ file' = [file EXCEPT ![b] = req[u].file]
       /\ Step(u, [req[u] EXCEPT !.pc = "rows", !.batch = b,
                                 !.todo = FileRows[req[u].file]])
  /\ UNCHANGED <<superseded, stale, rowDocs, watch, failures>>

(* The next row, in any order (JTL sorts by record type).  Every 50th row  *)
(* of an accrual import first touches the heartbeat.  A row already stored *)
(* is a duplicate.                                                         *)
NextRow(u) ==
  /\ At(u, "rows")
  /\ \/ stale' = stale
     \/ /\ IsAccrual(req[u].file)
        /\ stale' = [stale EXCEPT ![req[u].batch] = FALSE]
  /\ \E k \in req[u].todo :
       IF docs[k] # {}
       THEN Step(u, [req[u] EXCEPT !.todo = @ \ {k},
                       !.dups = IF IsAccrual(req[u].file) THEN @ ELSE @ \cup {k}])
       ELSE Step(u, [req[u] EXCEPT !.pc = "store", !.cur = k,
                                   !.todo = @ \ {k}])
  /\ UNCHANGED <<status, file, superseded, rowDocs, watch, failures>>

(* Broken: the error is caught inside the loop, which takes the next row.  *)
RejectedRow(u) ==
  Step(u, IF /\ req[u].pc \in {"rows", "store", "handle", "finish", "audit"}
             /\ IsAccrual(req[u].file)
          THEN [req[u] EXCEPT !.pc = "rows", !.cur = NoKey] ELSE Idle)

(* A call of the request rejects.  An accrual import that has its batch    *)
(* catches it; any other request ends.                                     *)
Rejected(u) ==
  Step(u, IF /\ req[u].pc \in {"rows", "store", "handle", "finish", "audit"}
             /\ IsAccrual(req[u].file)
          THEN [req[u] EXCEPT !.pc = "failing"] ELSE Idle)

(* Broken: only a bookable cash row gets its second write.                 *)
StoreRowOnly(u) ==
  /\ At(u, "store")
  /\ LET k == req[u].cur
         made == ~IsAccrual(req[u].file) /\ k \notin Unbookable
     IN  \/ /\ docs[k] # {}
            /\ Rejected(u)
            /\ UNCHANGED docs
         \/ /\ docs' = [docs EXCEPT ![k] = @ \cup {req[u].batch}]
            /\ Step(u, IF made
                       THEN [req[u] EXCEPT !.pc = "handle", !.made = TRUE]
                       ELSE [req[u] EXCEPT !.pc = "rows", !.cur = NoKey])
  /\ UNCHANGED <<status, file, superseded, stale, handled, groups, watch,
                 failures>>

(* A row that was stored since it was looked for is rejected by the unique *)
(* index of its identity, or stored again if there is none: its partial    *)
(* filter uses $ne, which MongoDB may refuse to build.                     *)
StoreRow(u) ==
  /\ At(u, "store")
  /\ LET k == req[u].cur
         made == IsAccrual(req[u].file) \/ k \notin Unbookable
     IN  \/ /\ docs[k] # {}
            /\ Rejected(u)
            /\ UNCHANGED docs
         \/ /\ docs' = [docs EXCEPT ![k] = @ \cup {req[u].batch}]
            /\ Step(u, IF made
                       THEN [req[u] EXCEPT !.pc = "handle", !.made = TRUE]
                       ELSE [req[u] EXCEPT !.pc = "rows", !.cur = NoKey])
  /\ UNCHANGED <<status, file, superseded, stale, handled, groups, watch,
                 failures>>

(* The cash transaction is classified; the accrual record gets its event,  *)
(* unless there is one already, and the events of its order are rematched. *)
HandleRow(u) ==
  /\ At(u, "handle")
  /\ handled' = handled \cup {req[u].cur}
  /\ Step(u, [req[u] EXCEPT !.pc = "rows", !.cur = NoKey])
  /\ UNCHANGED <<status, file, superseded, stale, docs, groups, watch, failures>>

(* A cash import puts all its duplicates into one group.                   *)
EndRows(u) ==
  /\ At(u, "rows")
  /\ req[u].todo = {}
  /\ groups' = IF req[u].dups = {}
               THEN groups ELSE groups \cup {req[u].dups}
  /\ Step(u, [req[u] EXCEPT !.pc = "finish"])
  /\ UNCHANGED <<status, file, superseded, stale, docs, handled, watch, failures>>

(* The outcome overwrites whatever the status has become.  An accrual      *)
(* import then still writes its audit entry, and a failure of that marks   *)
(* the batch failed.                                                       *)
Finish(u) ==
  /\ At(u, "finish")
  /\ LET f == req[u].file
         outcome == IF ~IsAccrual(f) /\ f \in Faulty /\ ~req[u].made
                    THEN "failed" ELSE "completed"
     IN  /\ status' = [status EXCEPT ![req[u].batch] = outcome]
         /\ Step(u, IF IsAccrual(f) THEN [req[u] EXCEPT !.pc = "audit"] ELSE Idle)
  /\ stale' = [stale EXCEPT ![req[u].batch] = FALSE]
  /\ UNCHANGED <<file, superseded, rowDocs, watch, failures>>

Audit(u) ==
  /\ At(u, "audit")
  /\ Step(u, Idle)
  /\ UNCHANGED <<status, file, superseded, stale, rowDocs, watch, failures>>

(* markBatchFailed, for an import that failed or an administrator.         *)
MarkFailed(u) ==
  /\ At(u, "failing")
  /\ status' = [status EXCEPT ![req[u].batch] = "failed"]
  /\ stale' = [stale EXCEPT ![req[u].batch] = FALSE]
  /\ Step(u, Idle)
  /\ UNCHANGED <<file, superseded, rowDocs, watch, failures>>
-----------------------------------------------------------------------------
(* An administrator's recovery.                                            *)

(* failAccrualBatch: the status is checked, and then written.              *)
FailAccrualBatch(u) ==
  /\ At(u, "idle")
  /\ \E b \in Batches : /\ status[b] = "processing"
                        /\ IsAccrualBatch(b)
                        /\ Step(u, [Idle EXCEPT !.pc = "failing", !.batch = b])
  /\ UNCHANGED <<status, file, superseded, stale, rowDocs, watch, failures>>

(* retryAccrualBatch: frees the hash; the file must be uploaded again.     *)
RetryAccrualBatch(u) ==
  /\ At(u, "idle")
  /\ \E b \in Batches : /\ status[b] = "failed"
                        /\ IsAccrualBatch(b)
                        /\ Step(u, [Idle EXCEPT !.pc = "retry", !.batch = b])
  /\ UNCHANGED <<status, file, superseded, stale, rowDocs, watch, failures>>

SupersedeRetried(u) ==
  /\ At(u, "retry")
  /\ superseded' = [superseded EXCEPT ![req[u].batch] = TRUE]
  /\ Step(u, Idle)
  /\ UNCHANGED <<status, file, stale, rowDocs, watch, failures>>
-----------------------------------------------------------------------------
(* The watchdog: a cron job, every five minutes.                           *)

(* STALE_MINUTES pass without a heartbeat, whether the import is slow or   *)
(* dead.                                                                   *)
Age(b) ==
  /\ status[b] = "processing"
  /\ ~stale[b]
  /\ stale' = [stale EXCEPT ![b] = TRUE]
  /\ UNCHANGED <<status, file, superseded, rowDocs, req, watch, failures>>

WatchScan ==
  /\ watch = {}
  /\ watch' = {b \in Batches : status[b] = "processing" /\ stale[b]}
  /\ watch' # {}
  /\ UNCHANGED <<status, file, superseded, stale, rowDocs, req, failures>>

(* Broken: the watchdog fails the batches of JTL imports only.             *)
WatchMarkJtl ==
  /\ \E b \in watch :
       /\ watch' = watch \ {b}
       /\ IF Source[file[b]] = "jtl"
          THEN /\ status' = [status EXCEPT ![b] = "failed"]
               /\ stale' = [stale EXCEPT ![b] = FALSE]
          ELSE UNCHANGED <<status, stale>>
  /\ UNCHANGED <<file, superseded, rowDocs, req, failures>>

WatchMark ==
  /\ \E b \in watch :
       /\ watch' = watch \ {b}
       /\ IF IsAccrual(file[b])
          THEN /\ status' = [status EXCEPT ![b] = "failed"]
               /\ stale' = [stale EXCEPT ![b] = FALSE]
          ELSE UNCHANGED <<status, stale>>
  /\ UNCHANGED <<file, superseded, rowDocs, req, failures>>
-----------------------------------------------------------------------------
(* A database call rejects, or the whole process dies; bounded.            *)

Reject(u) ==
  /\ failures < MaxFailures
  /\ ~At(u, "idle")
  /\ failures' = failures + 1
  /\ Rejected(u)
  /\ UNCHANGED <<status, file, superseded, stale, rowDocs, watch>>

Crash ==
  /\ failures < MaxFailures
  /\ failures' = failures + 1
  /\ req' = [u \in Uploads |-> Idle]
  /\ watch' = {}
  /\ UNCHANGED <<status, file, superseded, stale, rowDocs>>

Proceed(u) == \/ Supersede(u) \/ CreateBatch(u) \/ NextRow(u) \/ StoreRow(u)
              \/ HandleRow(u) \/ EndRows(u) \/ Finish(u) \/ Audit(u)
              \/ MarkFailed(u) \/ SupersedeRetried(u)

ImportNext == \/ \E u \in Uploads : \/ FindFile(u) \/ FailAccrualBatch(u)
                              \/ RetryAccrualBatch(u) \/ Proceed(u) \/ Reject(u)
        \/ \E b \in Batches : Age(b)
        \/ WatchScan \/ WatchMark \/ Crash

(* The event loop resumes every request, time passes, and cron runs the    *)
(* watchdog again and again.                                               *)
Fairness == /\ \A u \in Uploads : WF_importVars(Proceed(u))
            /\ \A b \in Batches : WF_importVars(Age(b))
            /\ WF_importVars(WatchScan) /\ WF_importVars(WatchMark)

ImportSpec == ImportInit /\ [][ImportNext]_importVars /\ Fairness
-----------------------------------------------------------------------------
(* Whatever uploads overlap, fail, time out or are retried, a batch that   *)
(* says completed has a document for every row of its file: no row is      *)
(* given up on the way (the loops of the import services).                 *)
CompletedStored ==
  \A b \in Batches : status[b] = "completed" =>
    \A k \in FileRows[file[b]] : docs[k] # {}

(* As long as no call fails, a stored accrual record has its event, or the *)
(* request that stored it is just about to create it, although another     *)
(* upload may by then have counted the row as a duplicate and completed.   *)
EventsFollow ==
  failures = 0 =>
    \A f \in Files : \A k \in FileRows[f] :
      IsAccrual(f) /\ docs[k] # {} /\ k \notin handled =>
        \E u \in Uploads : At(u, "handle") /\ req[u].cur = k

(* README:121 "Stuck processing -> fail + optional watchdog TIMEOUT": with *)
(* the watchdog running, no accrual batch stays in processing for ever,    *)
(* even if its process died.                                               *)
AccrualSettles ==
  \A b \in Batches :
    (IsAccrualBatch(b) /\ status[b] = "processing") ~> (status[b] # "processing")
=============================================================================
