# Automated accounting and DATEV pre-booking: a TLA+ model

This directory specifies, model-checks and proves properties of the backend in
`src/`: an Express and MongoDB service that imports bank, PayPal, JTL and
marketplace files, classifies and books what they contain, and writes DATEV
files for the tax adviser. The specification is translated from the TypeScript;
where a document or a comment says something else, the difference is a
*finding* (see the end).

## The system

The database is the only shared memory. Every service method reads documents,
decides, and writes them back by `_id` with `findOneAndUpdate`
(`repositories/base.repository.ts`). No write asks whether the document is still
the one that was read, no two writes share a transaction, and a request that
rejects or whose process dies leaves behind what it had written. The hard
behaviours all come from this: what one request reads may be stale when it
writes; a sequence of writes may stop anywhere; and a few unique indexes are the
only thing that stops two requests from doing the same work. Redis holds what may
be lost (caches, one-time codes, the primary copy of refresh tokens) and answers
"nothing there" when it is away.

| Component | State | Operations | Works with |
| --- | --- | --- | --- |
| Cash transactions (`transaction.service.ts`) | `Transaction`: status, booking, systemMatched, exportedInBatchId | assign, setStatus and bulk forms, applyRules | rules, settings; the export locks them |
| Cash DATEV export (`datevExport.service.ts`) | `ExportBatch` (the file), `ExportItem` (unique per transaction) | preview, validate, createExport, download | reads and marks transactions |
| Duplicates (`duplicate.service.ts`) | `DuplicateGroup` | resolve: merge, ignored, keep_both | writes transactions |
| Cash import (`import.service.ts`) | `ImportBatch`, transactions, groups | importBank, importPaypal, reprocess, failAccrualBatch, retryAccrualBatch | parsers, rule engine, policies |
| Bank, PayPal and marketplace parsers (`helpers/accounting`) | none (pure) | text to rows | both imports |
| Rule engine, system policies | none (pure) | verdict of a payment | import, reprocess, applyRules |
| Rules, suggestions (`rule`, `suggestion`) | `Rule` with its version, `RuleSuggestion` | CRUD, reorder, analyze, accept, reject | imports, applyRules |
| Settings (`settings.service.ts`) | `SystemPolicy`, company settings, a 5 s cache per process | read, update, reset, sync | imports, applyRules, exports |
| Accounts (`account.service.ts`) | `Account` | CRUD, seed, renumbering | rewrites policies, rules and bookings |
| Accrual imports (`jtlImport`, `marketplaceImport`) | `ImportBatch`, `JtlRecord`, `MarketplaceTxn` | importJtl, importMarketplace | matching, row by row |
| Import watchdog (`importWatchdog.job.ts`) | none | fails batches without a heartbeat | cron, every 5 minutes |
| Matching (`matching.service.ts`) | `BusinessEvent`, `Evidence` | upsert from a marketplace row or JTL record, rematchByOrderId | called by both importers; opens and closes exceptions |
| Accrual journal (`accrualJournal.service.ts`) | `JournalEntry`, `JournalLine`, event status | buildDraftForEvent, post, bulk forms | account mapping, fee VAT |
| FX (`fx.service.ts`, `fxTrueUp.service.ts`) | event fx and metadata, true-up entries | resolve, trueUpEvent, trueUpPeriod | journal |
| Accrual DATEV export (`accrualDatevExport.service.ts`) | `AccrualDatevExportJob`, marks on lines and entries | preview, validate, create, download | journal |
| Exceptions, inbox (`exception`, `inbox`) | `AccountingException` | create, resolve, resolveOpenForOrder; getInbox | matching, FX |
| Payouts (`payoutReconciliation.service.ts`) | event status and metadata | overview, list, manualMatch | events, transactions |
| Reports (`reconciliation`, `accrualReport`, `feeVat`) | none | summary, trial balance, ledger; overview, coverage, reconciliation with JTL, VAT preview | transactions, events |
| Authentication (`auth`, `token`, `otp`) | `RefreshToken`, Redis keys, code attempts, failed logins and the lock | login, rotate, revoke, forgot, verify, reset | Redis and MongoDB |
| Users (`user.service.ts`, cache middleware) | `User`, two response caches | profile and lists, updates, deactivation | Redis |
| Server, Redis client (`server.ts`, `config/redis.ts`) | the process | start, readiness probe, shutdown | everything |
| Queues, cron, sockets, events | BullMQ jobs, schedules | retry, fan-out | started and stopped by the server |
| Controllers, routes, middleware, DI, seeders, scripts | none | wiring | everything |

What makes each of them correct:

* *Cash ledger and export.* What went into a DATEV file is locked: once, by the
  batch whose file shows it; its booking does not change; no file holds a row
  that may not be exported; an export leaves nothing half done.
* *Imports.* A batch that says completed has stored every row; every stored
  accrual record gets its event; a batch does not stay in processing.
* *Reading and classifying.* However files overlap, a payment is in the books once
  and with its amount; the three pipelines that classify it decide alike; both
  ends of a transfer are booked against each other.
* *Matching.* What an order becomes does not depend on which file is imported
  first: a cancelled Amazon order is void, an invoiced order is a sale, an event
  that waits is shown to somebody.
* *Journal.* An event is booked once, and trued up once; what is posted balances;
  every file balances; marks and files agree.
* *Reports.* Trial balance, ledger, overview, export and reconciliation count the
  same documents by different queries, and must agree.
* *Rules and settings.* A version names one content of a rule; a suggestion
  becomes one rule; a policy that was changed is in force after the life of the
  cache; a renumbering reaches everything that names the account.
* *Sessions.* A token that was replaced is not accepted beside its successor; a
  revocation of all tokens reaches all of them; lock and failed attempts agree;
  a code is tried a bounded number of times.
* *Process.* A shutdown ends, and cuts no request short; the Redis client
  recovers or is switched off; what a cache answers has a bounded age.

`PROJECT.json` lists every component with its status, and under `hazards` the
forty places in the code where these are hard to test.

## Modules

```
ExportLock <--refines-- CashLedger      <-- MCCashLedger, CashLedgerProofs
                        ImportBatches   <-- MCImportBatches, BookkeepingProofs
                        AccrualMatching <-- MCAccrualMatching, AccrualMatchingProofs
                        AccrualJournal  <-- MCAccrualJournal, AccrualJournalProofs

Statements <-- Classification <-- CashBooks <--\
           <-- MarketFiles    <-- Market    <-- MarketReports <-- Bookkeeping <-- MCBookkeeping,
                                                                                 BookkeepingProofs

RuleBook   <-- Settings <-- MCSettings, SettingsProofs
Server     <-- Profiles <-- MCProfiles, ProfilesProofs
RefreshTokens           <-- MCRefreshTokens, RefreshTokensProofs
Credentials             <-- MCCredentials, CredentialsProofs
```

There are two families. The first is about *interleaving*: a request is a
process, a record `req[r]` with a program counter and the values the request
carries from one call to the next. Each call that another request can observe or
disturb is one action, named for what it does (`StartAssign`, `WriteAssign`); a
check that reads and returns early is the guard or an alternative of the action
that reads. `Fail` (or `Abort`, `Reject` and `Crash`) ends a request between any
two calls. Contents are abstract: a rule's verdict, a file's rows are chosen
freely.

The second, `Statements` to `Bookkeeping`, is about *contents*: files are
sequences of tokens and are really parsed, payments really classified, events
really matched, amounts really added up, and a command is one step. What the one
family chooses freely the other computes.

Operators whose comment starts with *Broken:* are variants of the definition
below them with a plausible bug: each property is shown to catch the one listed
with it under `mutants`.

### ExportLock and CashLedger

`ExportLock` is the abstract promise: a transaction is *claimed* for one batch
and later *marked* with the same batch, and neither is ever taken back.

`CashLedger` has the fields of `Transaction` that an export or an edit depends on
(`status`, `booking`, `system`, `exportedIn`, `dupOf`), the unique `items`, the
`files` of the batches and the duplicate `groups`.

| Code | Actions |
| --- | --- |
| `createExport` | `StartExport` (settings, gather), `CheckOpen`, `CreateBatch` (validation, batch and file), `CreateItem` and `MarkExported` for each row |
| `assign`, `setStatus` | `StartAssign`/`WriteAssign`, `StartSetStatus`/`WriteStatus` |
| `applyRules`, `reprocess` | `StartApplyRules`, `StartReprocess` (the snapshot), then one of `ReapplyClearing`, `ReapplyPark`, `ReapplyNoRules`, `ReapplyHumanRules` for each transaction |
| `DuplicateService.resolve` | `StartResolve`, `MergeDuplicate`, `CloseGroup` |
| `AccountService.remapKontoNumber` | `RemapKonto`: any part of the documents of one `updateMany` |

A booking is its konto; `NoKonto` stands for a missing konto or gegenkonto.
What the rules and policies say of a transaction is chosen freely from their
possible results, because users edit both between any two calls; so are the
export flags of the company settings. Amounts are only zero or not
(`ZeroAmount`), dates only what a period selects (`Periods`, with the window of
the gather and the shorter one of the open check).

### ImportBatches

The life of an import batch: `FindFile` (the hash of the bytes), `Supersede`,
`CreateBatch`, then for each row `NextRow` (heartbeat, duplicate check),
`StoreRow`, `HandleRow` (classification, or business event), and `EndRows`,
`Finish`, `Audit`. An accrual import catches an error and marks its batch
(`MarkFailed`); a cash import does not. `FailAccrualBatch`, `RetryAccrualBatch`
and `SupersedeRetried` are the administrator's recovery, `Age`, `WatchScan`,
`WatchMark` the watchdog.

The unique indexes on `sourceIdentityKey` and on fingerprints are partial, with
`{ isDeleted: { $ne: true } }`, an expression MongoDB may refuse to build an
index for. `StoreRow` therefore allows both outcomes of storing a row twice.

### AccrualMatching

For each row of a marketplace report and each JTL record: `StartRow` (or
`SkipRow`, a known key), `Store`, the reads of the upsert (`LookMp`; `LookJtl`
and `FindMp`), `CreateEvent`, `Link`, `OpenException`; then `rematchByOrderId`:
`ReadAmazon`, `ReadJtl`, `ReadMp`, and either `VoidEvent` for each event of a
cancelled order or `ReadEvent` and `PatchEvent` for each event of a matched one,
and `Resolve`. `StartManual` and `ManualMatch` are the manual match of a payout.
`Resolve` closes the exceptions of an order in one step; the code closes them
one by one, which only matters to a failure in between, and after one nothing is
claimed. `overlap` records whether two requests were ever in progress together:
most properties of matching are for imports that follow one another, since
overlapping ones are known to break them (see the findings).

### AccrualJournal

`Build` (`StartBuild`, `FindEntry`, `CreateEntry`, `AddLine`, `ReadVat`,
`LinkEvent`), `Post` (`StartPost`, `CheckBalance`, `PostEntry`, `PostEvent`),
`TrueUp` (`StartTrueUp`, `FindPosted`, `CreateTrueUp`, `TrueUpEvent`, with
`AddLine`), `Export` (`StartExport`, `GatherEntry`, `CreateJob`, `MarkLine`,
`MarkEntry`). Amounts are integers here, because balance is the point. Beside
them the imports change the events: `Rematch` and `CancelOrder` are one step
each. The status `exception` of an event and the status `suggested` of a
transaction are declared in the code but never written, and so do not occur.

A refusal that leaves no trace (no clearing account configured, no forbidden
collectives, `provisionalFxEnabled` off) is not an action: the request just
does not start.

### Statements, Classification, CashBooks

`Statements` translates `csv.util.ts`, `bank-parser.ts` and `paypal-parser.ts`. A
file is a sequence of lines, a line a sequence of words and separators;
`ParseCsv` goes through it with the quoting of the code, `DetectDelimiter`
counts, `PickColumn` knows the aliases. What is inside a word matters only to
`ParseAmountToCents` and `ParseGermanDate`, for which the instance gives the parts
of each word. `BankFingerprint` and `PaypalFingerprint` are the identities of a
payment, `BalanceMatches` the chain of Guthaben.

`Classification` has the system policies (`IsBankPaypalTransfer`, `NeedsHuman`,
`IsMarketplacePayout`) and the rule engine (`ConditionMatches`, `RuleMatches`,
`ApplyHumanRules`). Regular expressions are patterns of words.

`CashBooks` has the commands: `UploadStatement`, `Reprocess`, `ApplyRules`,
`ChangeConfig`, `Assign`, `SetStatus`, `CreateExport`. The three pipelines
`ImportVerdict`, `ReprocessVerdict` and `ApplyVerdict` are three passages of the
code and are translated one by one. `Exclusions`, `Refused` and `DatevRow` are the
preview and the rows of an export; `Summary`, `TrialBalance`, `AccountLedger`,
`AccountOverview` the reports; `DryRun` the trial of a rule. The settings
`allowMatchedWithoutReview` and `blockExportIfOpen` are constants; the run has both
set, the theorems hold for either value.

### MarketFiles, Market, MarketReports

`MarketFiles` has the parsers of the Amazon, Back Market and Refurbed reports and
of JTL's CSV and worksheets, with the detection of the kind of report. `Market`
stores their rows (`StoreRecords` in the three passes of the import: sales, then
invoices, then the rest), resolves rates (`EcbRate`, `Resolve`) and matches
(`UpsertFromLine`, `UpsertFromRecord`, `Rematch`). The documents are one record
and an import is a function of it, so that the same files can be replayed in
another order. `MarketReports` has `Overview`, `Decisions`, `PeriodCoverage`,
`Abgleich`, `ExpectedVsActual`, `Candidates`, `FeePreview` and `Inbox`.

`Bookkeeping` composes both books. The names of the specification of
`ImportBatches` begin with `Import`, so that one module can prove about both, which
are two views of an upload. `Payments` and `Deeds` of the instance say what
really happened, and which files show it.

### RuleBook, Settings

Every operation reads a document and writes it later, without a version check:
`StartEditRule`/`WriteRule`, `StartAccept`/`CreateSuggested`/`MarkAccepted`,
`StartUpdatePolicies`/`WritePolicy`/`InvalidatePolicyCache`/`SyncCompany`. Only
the save of a renumbering compares the version of the policy (`SavePolicy`).
`StartRenumber` to `RemapContra` are the writes of `remapKontoNumber`. The cache
is filled by a read that may have started before an update (`ReadConfig`,
`FillCache`), and a clock says how long it is used.

### RefreshTokens, Credentials

`RefreshTokens`: a token has two keys in Redis and a document in MongoDB; login,
rotation, logout, revocation of all and the deletion of a user are sequences of
calls to both. `ScanPage` is one page of a SCAN, which promises only that a key
that was there all the time is on some page. `keyPrefix` is whether `REDIS_KEY_PREFIX`
is set, as it is by default; it is chosen initially and every run covers both, because
the client leaves it out of the pattern of a SCAN. `Credentials`: failed and successful
logins, resets and changes of a password save the user document under optimistic
concurrency (`Patched`), codes are in Redis or, when it is away, in memory. A
reset goes on to `RevokeAll`, which rejects without Redis although the password has
been saved, and then `InvalidateOtp` does not run.

### Server, Profiles

`Server` is `start` and `shutdown` of `server.ts` as two tasks of one event loop,
which a signal may interleave anyhow, and the Redis client of `config/redis.ts`
with its reconnects. `Profiles` extends it with what a process does: reads of
users through the two caches, the writes that invalidate them, readiness probes.
`process.exit` takes everything in memory with it.

## Runs

| Run | Instance | What it shows |
| --- | --- | --- |
| `cash_serial` | 3 transactions, one of them kept for the balance only, 2 batches, 1 request, no failure | no transaction in two files, exported bookings equal their file, the status exported is left only by a merge |
| `cash_overlap` | 1 transaction, 2 batches, 3 requests, any call may fail | lock, item and file agree; files are valid; the ledger implements `ExportLock` |
| `cash_file_once` | 1 transaction, 2 exports | **violated**: two files with the same row |
| `import_batches` | a bank and a marketplace file, 2 requests, 2 batches, 1 failure, watchdog | completed means stored, records get their events, no accrual batch stays in processing |
| `accrual_matching` | an Amazon order (two reports, settlement, invoice) and a Back Market order (report, payout, JTL order), 1 request, 1 failure | whatever the order of import: no sale without its invoice, cancelled is void and stays void, an invoice is recognised, a waiting event has its exception |
| `accrual_journal` | an order and a fee, 3 entries, 2 jobs, 1 request, 1 failure | one booking per event, which the event shows, one true-up, a marked line is not exported again |
| `accrual_journal_overlap` | a sale, 2 entries, 2 jobs, 2 requests, 1 failure | files balance, every mark has its row |
| `bookkeeping` | 4 statements, 8 reports, 3 sets of rules, 4 commands | each payment and each row in the books once, the balance of a statement recognised, the three pipelines agree, clearing comes to nothing, order of marketplace files irrelevant, the reports of both books agree, nothing escapes the office, an export leaves the summary balanced |
| `policies` | 2 accounts, 2 slots, 3 rules, 1 suggestion, 2 requests of 4, 1 fault | versions tell edits apart, one rule per suggestion, the cache is bounded, a renumbering reaches rules and policy |
| `refresh_tokens` | 1 user, 3 tokens, 2 requests of 4, 1 fault | a successor replaces its token; a revocation reaches every document and, without a key prefix, every key |
| `credentials` | 2 codes, 2 requests of 6, limits of 1 or 2, 1 fault | lock and attempts agree, codes are bounded |
| `lifecycle` | 2 requests, 1 write, 2 reads or probes, 5 ticks, 1 fault | shutdown ends and drains, Redis returns, age of answers is bounded |

*Why these bounds.* An anomaly between overlapping requests needs two of them,
and where a third can profit from what two left behind (a lost claim, a stale
item) there are three. Two batches or jobs are needed for "in two files", two
transactions for a list that is cut off in the middle, two events for one that
is skipped while another is booked. Requests of one process at a time explore
every *sequence* of operations, which is where ordering properties live, so those
runs have the richer data. One failure may come between any two calls, and the
rest of the behaviour, retries included, follows it; more failures only repeat
the interruption, except in `cash_overlap`, where they are unlimited. `MaxStarts`
lets a request follow two that overlapped: four for rules and tokens, six for
credentials, where a limit of two must be reached and passed. Batch, job and
entry ids run out by design (`Batches`, `Jobs`, `Entries`).

`bookkeeping` has the variety in its files instead: payments that differ in one
word, overlapping statements, two delimiters, quoted cells, two currencies,
excluded types, fees, both ends of two transfers, a marketplace payout; orders
that are invoiced, cancelled and shipped, settlements before and after, fees that
occur in two reports, two formats of JTL, a foreign currency, a line without an order.
Four commands are two uploads on each side, or an upload, a correction, an export
and another run of the rules. `lifecycle` has times to live of one tick: what
counts is that the two caches have a life each.

Runs whose requests, ids or files are used up switch off the deadlock check: the
system then has nothing left to do.

In `accrual_matching` no row is an `invoice_correction`, a `sale` record, a
refund or an adjustment, although the definitions treat them; they differ from
the rows present only in the type their event gets.

*Symmetry* is used for batches, jobs, requests, codes and tokens, and never in a
run that checks liveness.

*Fairness.* In `ImportBatches`, for `AccrualSettles`: `Proceed(u)` is weakly fair
because the event loop resumes a pending promise; `Age(b)` because time passes;
`WatchScan` and `WatchMark` because cron starts the watchdog every five minutes
(`cron/index.ts:134`). New uploads and administrators are under no obligation.
Failures are bounded, but a crash does lose its requests: what ends a batch then
is the watchdog alone. In `Profiles`, for `ShutdownEnds` and `RedisReturns`: `Boot`
because `start` awaits calls that return or time out; `ForceExit` because a timer
fires; `Retry \/ Reconnect` because the Redis client keeps trying by itself.
Shutdown's own steps are *not* fair: a worker, a socket or a request may hang,
and only the timer ends it. Nor has Redis to come back.

## Proofs

Each component of the first family has a module of proofs; that of `ImportBatches`
is `BookkeepingProofs`, which also proves about the second family. In all of them the
theorem holds for any sets of requests, documents and ids and any bounds, and rests
on the assumptions named in the component's module, which TLC evaluates in its
run. None of the properties is inductive by itself: it speaks of documents, and
says nothing of what a request has read and is about to write. Each inductive
invariant adds, for every value of the program counter, what the request knows at
that call, and each proof shows that the other requests' calls leave that true.
TLC checked every one of them as an invariant before it was proved.

Some hold only while requests do not overlap, and would be false otherwise: that
is the subject of several findings. For them there are two kinds of hypothesis.
Either the property itself has the premise (a ghost `overlap`, `calm` or `clean`
says of which requests it speaks), and the theorem has no other; or the theorem
assumes `Serial`, that there is one request. A request that has returned starts
again, so `Serial` still admits every sequence of operations, and of failures
between any two of their calls; it is what the run with one request checks.

| Module | Theorem | Property | Hypothesis |
| --- | --- | --- | --- |
| `CashLedgerProofs` | `ExportLockBacked` | `LockBacked` | |
| | `ExportFilesValid` | `FilesValid` | |
| | `LedgerImplementsLock` | `ImplementsLock` | |
| | `ExportedUnchanged` | `ExportedAsBooked` | `Serial` |
| | `OnlyMergeLeavesExported` | `ExportedLeftByMerge` | `Serial` |
| | `ExportedOnce` | `FileOnce` | `Serial`, `~CanFail` |
| `BookkeepingProofs` | `ExportsBalance` | `ExportBalances` | |
| | `ReportsOfTheBooksAgree` | `BooksAgree` | |
| | `PipelinesSettle` | `ReapplySettled` | |
| | `PaymentsOnce` | `EveryPaymentOnce` | `PrintsTell(print)` |
| | `TransfersClear` | `ClearingNets` | `PrintsTell(print)`, `TransfersTell(print, clearing)` |
| | `RowsOnce` | `EveryRowOnce` | `RowsTell(key)` |
| | `RecordsOnce` | `EveryRecordOnce`, both of these | `PrintsTell(print)`, `RowsTell(key)` |
| | `ReportsOfTheAccrualsAgree` | `ReportsAgree` | `ReportsRead` |
| | `CompletedHasAll` | `CompletedStored` | |
| | `EventPerRecord` | `EventsFollow` | |
| `AccrualMatchingProofs` | `NoSaleWithoutInvoice` | `SalesInvoiced` | |
| | `VoidForever` | `VoidStays` | |
| | `CancelledOrdersVoid` | `CancelledIsVoid` | `OneReportRow` |
| | `InvoicesRecognised` | `InvoiceRecognised` | `OneReportRow` |
| | `WaitingShown` | `WaitingIsOpen` | `OneReportRow` |
| `AccrualJournalProofs` | `MarkedIsInFile` | `MarksBacked` | |
| | `PostedIsBooked` | `EventShowsJournal` | |
| | `BookedByOneEntry` | `OneEntry` | `Serial` |
| | `TruedUpByOneEntry` | `TrueUpOnce` | `Serial` |
| | `EntriesOfAnEvent` | `EntriesOnce`, both of these | `Serial` |
| | `ExportedWhole` | `ExportComplete` | `Serial` |
| | `FilesBalance` | `FilesBalanced` | |
| `SettingsProofs` | `VersionsAscend` | `VersionsTraceable` | |
| | `OneRuleEach` | `RulePerSuggestion` | |
| | `CacheAge` | `CacheBounded` | |
| | `RenumberingComplete` | `RenumberingReaches` | |
| `RefreshTokensProofs` | `OneTokenPerSession` | `SuccessorReplaces` | |
| | `RevocationComplete` | `RevokedAll` | (Redis half: no key prefix, in the property) |
| `CredentialsProofs` | `LockAgrees` | `LockedAtLimit` | `LockMax >= 2` |
| | `CodesBounded` | `OtpBounded` | |
| `ProfilesProofs` | `StalenessBounded` | `StaleBounded` | |
| | `DrainedAtExit` | `RequestsDrained` | |

Every module also proves `TypeCorrect` (`TypeOK`); in `BookkeepingProofs` that is
`ImportsTyped` for the imports, and for the books `WellFormed`, whose invariant
`BooksOK` says what the documents are.

### CashLedgerProofs

Assumptions: `ConstantsOK` and `NonesOK`, that the sets are of the right kind and
the "none" values are not members of them.

`LockBacked` says that a marked transaction has the item of its batch, but a mark
is written by a request in the phase `mark`, and nothing says yet that this
request has won the item. The inductive invariant adds `WorkOK`, what a request in
each phase of an export carries: while it is checking or creating, rows that are
bookable; in `claim`, a batch whose file has every row still to do; in `mark`, a
transaction whose item is of this batch. `IInv` is
`TypeOK /\ RefsOK /\ LockBacked /\ FilesValid /\ WorkOK`. Its preservation
(`IInvNext`) has one step for each action of an export; every other action
leaves items and files alone and starts or continues a request about which
`WorkOK` says nothing (`QuietStep`, `QuietReturn`, `QuietElsewhere`). Files never change
once they have rows, which is why a claim stays backed while others write.
`LedgerImplementsLock` then follows step by step: `CreateItem` is `Claim`,
`MarkExported` is `Mark`, and everything else stutters.

For one request at a time `SInv` adds `Fresh`: what it has read is still so when it
writes, so the rows of a file carry the bookings of their transactions, and what
is to be edited is not exported. That needs no success of any call. `FileOnce`
does: an export that fails leaves a file whose rows the next export takes again
(`cash_file_once` shows the same for two that overlap). `NInv` adds `Pending`: what is in a
file and not marked is what the export in progress still has to do.

### BookkeepingProofs

Assumptions: `CashAssumption`, `RowsAssumption` and `FoundAssumption` (the tables
of parsed rows and verdicts are what the parsers and the rule engine compute),
`RatesAssumption` (a rate is a positive number of 1/10000 of a euro), and
for the imports `FilesOK` and `KeysApart`, that no row of a bank file has the key
of a row of an accrual file; they are kept in different collections.

The reports are sums, and a sum over a set is a fold, about which there is no
induction. The lemmas on sums (a sum without one element, of two functions, over two
parts, of what pairs off) are therefore shown by a smallest counterexample: among
the subsets of a finite set for which one fails there would be one of least
cardinality, and taking an element out of it gives a smaller one. Recursive
functions over the rows of a file are treated in the same way, by the first row
after which something is no longer so.

`BooksOK` (`WellFormed`) says that every transaction has a row read from a file, a
policy or nobody that decided it, and a booking that has a side or is none. With
it `ExportsBalance` is a matter of the gather and the summary, and
`ReportsOfTheBooksAgree` one of sums: a trial balance is the ledger split by side.
`PipelinesSettle` needs `Trusted` besides: what a machine decided is one of the
verdicts (`Verdicts`) that the policy it was decided under gives on its row, and on
each of these the other pipelines come to the same.

`PrintsTell(print)`: the rows parsed from a statement are those of the payments it
shows, one each, `print` being the payment's fingerprint under each policy, with its
cents. `PaymentsStored` says that the books hold just the prints of the payments
shown, so the two counts and sums are the same by a bijection. `TransfersTell`
adds that both ends of a transfer are recognised under each policy, that they come
to nothing together, and that neither rule nor policy books anything else there;
`ClearingNets` follows by pairing the ends. `RowsTell(key)` says of the reports what
`PrintsTell` says of the statements, and that an invoice has a number of its own; in `RowsStored` the documents are those of
the deeds reported, and `SameRows` that matching touches events, links and
exceptions but no amount and no key. These three are hypotheses of the theorems and
not assumptions of the module: that fingerprints and keys tell apart what is
different is what the code's definitions of them achieve. TLC evaluates each to
true for the files of the instance.

`ReportsOfTheAccrualsAgree` is proved from `OfficeOK`, which is inductive given
`ReportsRead` (`OfficeNext`). `Documents` says that each event has its amounts and
comes from an uploaded file, and `BatchesKnown` what kind a batch of a file is; so a
source with events has a batch in the period, and the sums that the services make
are of the same numbers. That a waiting event has its exception is `Awaited`, and it
is not inductive alone: matching may come upon a stored order row of a shipped order
that has no invoice, and let its event wait without raising anything. So `Awaited`
promises the exception to such a row and not only to such an event, and `Linked`
says that an event that waits is linked by a row of its own order. An upload is a fold
over its rows; the lemmas `LinesInStep` and `RecordsInStep` go along it by the first
row after which the books would be out of step, and below them there is one lemma for
each thing that storing or matching a row does (`NewLineInStep`,
`UpsertedRecordInStep`, `RewrittenInStep`, `ClosedInStep`).

`ReportsRead` is a hypothesis about the reports: the rows are whole, as the parsers
leave them, a marketplace's row names the shop its report is of, the report is one of
orders or of payments, and no marketplace's row has the id of a record of JTL. With such
an id the row's event may be taken for a duplicate, and its order then waits
without being missed. TLC evaluates it to true for the reports of the instance.

Of the imports, `CompletedStored` says of a batch what its upload knew when it finished. `WorkOK`
says that an upload is about its own batch and file, and `Accounts` that each row
of the file is stored, still to do, or the one about to be stored. Documents are
never deleted (`Kept`), so the account stays right whoever else stores rows.
The watchdog and the administrator may fail or supersede the batch meanwhile;
only its own upload sets it to completed. `EventsFollow` is inductive given
`IInv` (`EventsNext`): what stores a row of an accrual file goes on to its event, unless a
call fails; `KeysApart` says that the file it is storing is then an accrual file.

### AccrualMatchingProofs

Assumption: `RowsOK`, that the sets of rows are what they should be and the
"none" values are not members of them.

`SalesInvoiced`: a request decides a sale from JTL records it read some calls
earlier (`req[i].jtl`), for the event of a row it read still earlier
(`req[i].todo`, `req[i].cur`), and nothing says yet that those records are still
stored, or that the event is of their order. `IInv` is `TypeOK /\ SalesInvoiced`
and `Carry(req[i])` of every request, which says so. The step that makes it
inductive is `Grows`: no call deletes a row or an event, so what a request has read
of them stays true while others write (`CarryStays`), and a sale keeps its invoice.
One lemma stands for each call or group of calls (`IInvNext` puts them together),
and `MpEventOK`, `JtlEventOK` and `PatchedOK` say of the three decisions of the
code that each makes a sale only from an invoice.

Type and status of an event do not only grow, so the other properties speak of
executions in which no two requests were in progress together (`~overlap`).
`VInv` adds that a void event is a cancellation (that of a JTL record one of an
order which Amazon reports cancelled), and that what the only request has read is
still so (`FreshOK`); this alone gives `VoidStays`, whatever fails. `NInv` adds `Whole`, which holds while
nothing has failed: for every stored row, what is true of its event, its link and
its exception, or else that the request in progress is just about to make it so
(`Settling`, `Closing`, `Doing`). From the store of a row until its order has been
read for matching nothing is promised of the order's other rows, and that is
where a failure leaves them.

`OneReportRow`: an Amazon order and a marketplace order with the same order id
have the same key. `amazon-order-parser.ts` makes the key of an order report's
row from the order id, so a second report's row is a duplicate, and no other
marketplace uses Amazon's ids. Two stored rows of one order are then the same, and
a shipped one cannot make another's event wait for an invoice without an exception
of its own.

### AccrualJournalProofs

Assumption: `EventsOK`.

`FilesBalanced` is a sum over the rows of a file. `RowsOfFilesPair` shows that what
the code checks before it writes a file (`RowsPair`) is still so of the file at any
later time, whatever overlaps; such a sum is nothing, again by a smallest
counterexample, from which a row and its counterpart are taken out.

`IInv` holds whatever overlaps and fails: lines being written are of an entry that
no other request writes (`Apart`), and are not marked; the rows an export carries
are existing lines, and in `mark` they are in the file of its job; a request about
to say "posted" of an event has an entry that is posted. For one request at a time
`SInv` adds `BookedOnce`, that a request in `create` has found no entry of its event,
`TruedUpOnce`, that a true-up entry is recorded in its event or about to be, and,
while nothing failed, `ExportInStep`: a row of a file is marked, line and entry,
or the request is about to mark it, and an exported entry is in its file whole.
`OneEntry` needs no success of any call.

### SettingsProofs

Assumptions: `BookAssumption`, `SettingsAssumption`, and `DocumentAssumption` and
`AccountAssumption`: the documents that are there at the beginning are documents, a
seeded rule has a source that is not the id of a suggestion, "none" is no document.
`Legacy` is not the default account of its slot (3220 and 3349 in
`migrateLegacyInventoryKonto`).

For the cache the invariant dates what is known of the policy: `Fresh(p, t)` says
that `p` is the stored policy or was replaced at `t` or later. A read that began
at `t` fills the cache with something fresh at `t`, whatever was written since.
`CleanAlone` says that an edit which nobody overlapped is the only one of its rule,
`SourcesOK` that a rule which came from a suggestion is the one that accepted it or is
being marked so. `AccountWork` follows a renumbering call by call: the slots of the
policy, then the konto of the rules, then their other account.

### RefreshTokensProofs

Assumptions: `BoundsAssumption`, `NoneAssumption`.

Two requests meet in the invariant here (`Pair`): they generate different tokens,
neither generates one that the other set out to revoke, and a revocation that is
*clean* (it had Redis throughout) has only clean company. `Scan` is the loop
invariant of the revocation: of the tokens it set out to revoke, those still alive
are in the index, and on the last page among the keys not yet dropped. This half
holds where keys have no prefix; with one there is no page, and only `DocsRevoked`,
which asks neither for Redis nor for its prefix, is left of the revocation. `Deleted`
and `Fresh` give `SuccessorReplaces`: the token presented is gone before another
one is stored, and one being generated is in nobody's hands.

### CredentialsProofs

Assumptions: `LimitsAssumption`, `BoundsAssumption`, `NoneAssumption`. With a
lock limit of one, which `config/env.ts` admits, `LockAgrees` would be false: the first
failure after a lock has run out sets the counter to one and the lock to none
(a finding).

A request writes what it computed from a copy of the user, and only the paths it
changed. `DocOK` says what such a copy is worth: it agrees with itself, is not newer
than the document stored, and if it has its version, differs from it at most by a
successful login, which clears the counter without a new version
(`findOneAndUpdate`). `PhaseOK` adds that a login compares only with a copy whose
lock has run out. `DocStays` shows that no move of the stored user (`Moves`: none, a
new version, or cleared) spoils a copy, and `PatchedAgrees` that a failed attempt
written over such a document leaves lock, end and counter in agreement, path by
path.

For the codes `OtpInv` adds `CodesOK`, about codes whose requests do not overlap
(`calm`): such a code is in Redis or in memory and not in both, in neither before
it is generated and after it was accepted, and its entry has counted every wrong
try but one that is about to be written.

### ProfilesProofs

Assumptions: `ServerAssumption`, `ProfilesAssumption`.

`StaleBounded` is about answers; what goes into them came from a cache, which was
filled by another request. `Ages` gives each of these its own bound.
`NotOlder(c, got, t, d)` says of version `got`, with the times `c` of the writes, that
the write which replaced it came no earlier than `t - d`; `d` is nothing for what
was just loaded, one time to live for what the service answers, both for what the
route does, and `t` the time the request began, or the end of a cache entry.
`Shifted` exchanges one against the other, and `Appended` is why a write spoils no
bound: what was the newest version until now is replaced now.

`RequestsDrained` needs `Calm`, where a shutdown that found the server started has
got to. Nothing but it changes `listening`; once that is off no request begins, and
after `SocketsClosed` or `HttpClosed` none is in flight.

### Only model-checked

* Liveness: `AccrualSettles`, `ShutdownEnds`, `RedisReturns`. Liveness under
  fairness and `ENABLED` are out of the prover's reach.
* Of `Bookkeeping`, `BalanceKept`, `OrderIrrelevant` and `SalesInBoth`. The first is
  about a chain of balances through parsed text; the second replays whole uploads
  by a fold over sets of files; the third rests on the days and shops of the
  instance's files, and is not true of any others.

## What the properties leave out

Several properties carry a premise, because the code promises no more:

* `EventsFollow`, `TrueUpOnce`, `RulePerSuggestion` speak of calls that do not
  fail; `OneEntry`, `InvoiceRecognised`, `CancelledIsVoid`, `VoidStays`,
  `RenumberingReaches`, `VersionsTraceable`, `OtpBounded` of requests that do not
  overlap (a ghost such as `overlap` or `calm` says which do). The modules contain
  the other executions, and what happens in them is among the findings.
* The documents of `RevokedAll` are revoked in every configuration; that the keys
  are gone from Redis needs Redis to answer and keys without a prefix. The default
  has one (`'aa:'`): there the SCAN finds nothing and the tokens stay, which
  TLC shows within seconds when `~keyPrefix` is taken out of the property. `SuccessorReplaces` needs Redis to answer throughout the rotation.
* `ExportBalances` compares export and summary over the days both see, and
  `FiguresAgree` the services where the same query is meant.

## Not modelled

* The layout of DATEV, HTML, PDF and mail output: formats, covered by the
  repository's fixtures.
* The reading of `.xlsx` and PDF containers; of a workbook, only which sheet is taken.
* List limits (5000 transactions, 10000 lines, 200 stale batches): instances of
  that size are out of reach.
* Batch counters, audit entries, history: written beside what is modelled, and
  read by no guard.
* CRUD over one document that is read only at the moment of use (clearing
  configuration, tax codes, notifications), exceptions resolved by hand.
* Registration, verification of e-mail addresses, the blacklist of access tokens;
  hashes and signatures, which are external.
* Queues: nothing in the code enqueues a job, and the retries are BullMQ's. Socket
  rooms and the event bus only fan out.
* Controllers, routes, validation, DI, seeders and scripts: wiring and tools.

## Plan

1. `CashLedger` with `ExportLock`, `ImportBatches`, `AccrualMatching`,
   `AccrualJournal`, `RefreshTokens`, `Credentials`, `RuleBook` with `Settings`,
   `Server` with `Profiles`: modelled, checked and proved, but for what the end of
   "Proofs" lists.
2. `Statements` to `Bookkeeping`: modelled, checked and for the most part proved. What
   the parsers compute from a text stays with TLC.
3. The abstract order of matching (a function from the set of stored rows to the
   events) with `AccrualMatching` shown to reach it whenever imports follow one
   another; `Market.Rematch` is a candidate for that function, and the invariant
   `Whole` of `AccrualMatchingProofs` most of the proof.
4. An abstract session (a set of tokens that are good, of which a rotation
   exchanges one) which `RefreshTokens` implements while Redis answers.

## Findings

The violated run and the differences met while reading, with the lines on both
sides, are in `PROJECT.json` under `findings`. In short:

* Two overlapping cash exports, or two accrual exports, write the same rows into
  two files; the unique `ExportItem` comes after the file.
* A duplicate merge takes an exported transaction out of the status exported, and
  its booking can then be changed. Reprocessing a batch undoes reviewed decisions.
* The open check, the gather and the summary disagree about the last day; the
  account overview and the trial balance about debit and credit.
* A re-uploaded file does not create the events the failed import left out.
* A draft whose event has become void is posted, and its event leaves void.
* An Amazon order with an invoice becomes two sales.
* A later order report never updates a known order.
* The exception for an invoice without a marketplace row is closed by the request
  that opens it.
* Overlapping imports of one order overwrite each other's events.
* True-up, fee VAT and journal disagree about the side of the clearing account; a
  refund without a rate is trued up by the wrong amount; a cancellation forgets
  a true-up.
* Record ids with the index of a row store a row twice; ids without one drop the
  second of two equal lines.
* Equal times in a newest-first PayPal statement give a false difference.
* The Amazon/JTL reconciliation compares JTL with itself; two services expect
  different payouts when the clearing lines cancel out.
* With a lock limit of one, the failure after an expired lock does not lock.
* A scan ignores the key prefix, so with the default prefix logging out everywhere
  leaves every refresh token usable, and caches are not invalidated by pattern; a
  renumbering does not empty the policy cache.
* Texts of a PayPal payment are passed under names the system policies do not read.
* A graceful shutdown always ends with an error once Socket.IO has closed the server.
