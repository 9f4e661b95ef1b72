----------------------------- MODULE CashBooks ------------------------------
(***************************************************************************)
(* The cash books, from the uploaded statements to the reports:            *)
(* ImportService.#processImport and reprocess, TransactionService's        *)
(* applyRules, assign and setStatus, what a DATEV export selects, and      *)
(* ReconciliationService.                                                  *)
(*                                                                         *)
(* Each command is one step here: what commands do to each other when they *)
(* overlap is the subject of CashLedger, which abstracts from the contents *)
(* this module is about.  The three pipelines that classify a transaction  *)
(* are three passages of the code and are translated one by one.           *)
(***************************************************************************)
EXTENDS Classification

CONSTANTS
  CashFiles,   \* uploads of bank and PayPal statements
  Contents,    \* the tokens of every file
  SourceOf,    \* which of the two endpoints a cash file is sent to
  Configs,     \* the rules and the policy there may be, by a name: [rules, policy]
  InForce,     \* bound: the name of those in force at the beginning
  Assigned,    \* bound: the pairs of accounts that humans assign
  Marks,       \* bound: the states that humans set
  Periods,     \* bound: the periods of exports and reports, [from, to]
  AllowMatchedWithoutReview,
  BlockExportIfOpen,
  MaxSteps,    \* bound: commands
  Parse,       \* what is read of each file under each policy, and
  Found        \* what each policy and its rules find in a row: FoundAssumption

ASSUME CashAssumption ==
  /\ SourceOf \in [CashFiles -> {"bank", "paypal"}] /\ MaxSteps \in Nat
  /\ InForce \in DOMAIN Configs /\ Null \notin DOMAIN Configs
  /\ \A c \in DOMAIN Configs :
       /\ IsFiniteSet(Configs[c].rules)
       /\ Configs[c].policy.accounts.privateInventory # Null  \* it has a default
  /\ Today \in Int /\ \A p \in Periods : p.from \in Int /\ p.to \in Int

\* Files and policies do not change, so that what they say of each other is
\* found once and for all.
ParseStatement(f, policy) ==
  IF SourceOf[f] = "bank" THEN ParseBankCsv(Contents[f]) ELSE ParsePaypalCsv(Contents[f], policy)

ParseAll ==
  [f \in CashFiles |-> [c \in DOMAIN Configs |-> ParseStatement(f, Configs[c].policy)]]

ASSUME ParseAssumption == Parse = ParseAll

AllRows == UNION {Range(Parse[f][c].rows) : f \in CashFiles, c \in DOMAIN Configs}

\* A row without a date or an amount is one of the errors.
ASSUME RowsAssumption ==
  /\ \A f \in CashFiles, c \in DOMAIN Configs : Parse[f][c].rows \in Seq(AllRows)
  /\ \A r \in AllRows : r.cents \in Int /\ r.day \in Int /\ r.time \in Nat

\* testDryRun: the rules that fit the text and the date of a transaction,
\* whatever policy comes first.
DryRun(row, rules) == {r.id : r \in {x \in rules : RuleMatches(row, x, row.day)}}

FindIn(row, rules, policy) ==
  [transfer |-> IsBankPaypalTransfer(row, policy),
   parked |-> IsMarketplacePayout(row, policy) \/ NeedsHuman(row, policy),
   dry |-> DryRun(row, rules),
   rules |-> [day \in {Today, row.day} |-> ApplyHumanRules(row, rules, policy, day)]]

FindAll ==
  [c \in DOMAIN Configs |->
    [r \in AllRows |-> FindIn(r, Configs[c].rules, Configs[c].policy)]]

ASSUME FoundAssumption == Found = FindAll

VARIABLES
  txs,      \* the Transaction documents by fingerprint
  batches,  \* the ImportBatch documents of the statements, in order
  config,   \* the name of the rules and the policy in force
  steps

cash == <<txs, batches, config>>

CashInit ==
  /\ txs = <<>>
  /\ batches = <<>>
  /\ config = InForce
  /\ steps = 0

Command == steps < MaxSteps /\ steps' = steps + 1

\* A machine's verdict, with the rules it was found by.
Decided(tx, verdict) ==
  IF verdict = tx THEN tx
  ELSE [tx EXCEPT !.status = verdict.status, !.booking = verdict.booking,
                  !.ruleIds = verdict.ruleIds, !.system = verdict.system, !.by = config]

Count(t, P(_)) == Cardinality({f \in DOMAIN t : P(t[f])})

----------------------------------------------------------------------------
(* The three pipelines.                                                    *)

Rules == Configs[config].rules
Policy == Configs[config].policy

SystemVerdict(row) ==
  [status |-> "matched", ruleIds |-> {}, system |-> TRUE,
   booking |-> ClearingBooking(row, Policy)]

\* On import.  The rules are asked without the booking date, so their validity
\* is that of today.
Import(row, found) ==
  CASE row.bookability = "skipped" -> Unmatched("skipped")
    [] row.bookability # "skipped" /\ found.transfer -> SystemVerdict(row)
    [] OTHER -> IF found.parked THEN Unmatched("open")
                ELSE AdjustInventory(found.rules[Today], row.source, Policy)

ImportVerdict(row) == Import(row, Found[config][row])

\* Broken: the inventory account keeps the contra account of its rule.
ReprocessRaw(row, found) == found.rules[Today]

\* Reprocessing a batch, also without the date.
ReprocessByRules(row, found) == AdjustInventory(found.rules[Today], row.source, Policy)

Reprocessed(row, found) ==
  IF found.transfer THEN SystemVerdict(row)
  ELSE IF found.parked THEN Unmatched("open") ELSE ReprocessByRules(row, found)

ReprocessVerdict(tx) == Reprocessed(tx.row, Found[config][tx.row])

\* Applying the rules again, on the booking date.  Without any rule an open
\* transaction is not written.
Reapplied(tx, row, found) ==
  IF found.transfer THEN SystemVerdict(row)
  ELSE IF found.parked THEN Unmatched("open")
  ELSE IF {r \in Rules : r.enabled} = {}
  THEN IF tx.status = "open" THEN tx ELSE Unmatched("open")
  ELSE AdjustInventory(found.rules[row.day], row.source, Policy)

ApplyVerdict(tx) == Reapplied(tx, tx.row, Found[config][tx.row])

----------------------------------------------------------------------------
(* The commands.                                                           *)

\* findByFileHash: a batch that failed gives its hash up to the next upload.
Current(f) == {i \in DOMAIN batches : batches[i].file = f /\ batches[i].status # "failed"}

Created(row, batch, verdict) ==
  [row |-> row, batch |-> batch, by |-> config, status |-> verdict.status,
   booking |-> verdict.booking, ruleIds |-> verdict.ruleIds, system |-> verdict.system]

Stored(known, row, batch) ==
  IF row.fingerprint \in DOMAIN known THEN known
  ELSE [f \in DOMAIN known \cup {row.fingerprint} |->
          IF f \in DOMAIN known THEN known[f] ELSE Created(row, batch, ImportVerdict(row))]

StoreTransactions(rows, batch) ==
  LET known[i \in 0..Len(rows)] == IF i = 0 THEN txs ELSE Stored(known[i - 1], rows[i], batch)
  IN known[Len(rows)]

\* The batch of a file, and the transactions that were created for it.
ImportBatch(f, parsed, mine) ==
  LET Of(status) == Count(mine, LAMBDA t : t.status = status)
      created == Cardinality(DOMAIN mine) - Of("skipped")
  IN [file |-> f, rows |-> Len(parsed.rows), created |-> created, skipped |-> Of("skipped"),
      matched |-> Of("matched"), open |-> Of("open"), conflict |-> Of("conflict"),
      guthaben |-> parsed.matched, duplicates |-> Len(parsed.rows) - Cardinality(DOMAIN mine),
      status |-> IF parsed.errors > 0 /\ created = 0 THEN "failed" ELSE "completed"]

UploadStatement(f) ==
  /\ Command
  /\ Current(f) = {}
  /\ txs' = StoreTransactions(Parse[f][config].rows, Len(batches) + 1)
  /\ batches' = Append(batches,
       ImportBatch(f, Parse[f][config], Restrict(txs', DOMAIN txs' \ DOMAIN txs)))
  /\ UNCHANGED config

\* Each transaction has its turn; no verdict depends on another transaction.
Reclassify(selected, Verdict(_)) ==
  txs' = [f \in DOMAIN txs |->
            IF f \in selected THEN Decided(txs[f], Verdict(txs[f])) ELSE txs[f]]

Reprocess(b) ==
  /\ Command
  /\ LET found == {f \in DOMAIN txs : /\ txs[f].batch = b
                                      /\ txs[f].status \notin {"exported", "skipped"}
                                      /\ txs[f].row.bookability # "skipped"}
     IN /\ Reclassify({f \in found : ~txs[f].system}, ReprocessVerdict)
        /\ batches' = [batches EXCEPT
             ![b].matched = Cardinality({f \in found : txs[f].system \/ txs'[f].status = "matched"}),
             ![b].open = Cardinality({f \in found : ~txs[f].system /\ txs'[f].status = "open"}),
             ![b].conflict = Cardinality({f \in found : ~txs[f].system /\ txs'[f].status = "conflict"})]
  /\ UNCHANGED config

\* ids = {}: every transaction in one of the default states.
ApplyRules(ids) ==
  /\ Command
  /\ LET found == IF ids # {} THEN ids
                  ELSE {f \in DOMAIN txs :
                          txs[f].status \in {"open", "imported", "conflict", "matched", "suggested"}}
     IN Reclassify({f \in found : /\ txs[f].status \notin {"exported", "reviewed"}
                                  /\ txs[f].row.bookability # "skipped"
                                  /\ ~txs[f].system}, ApplyVerdict)
  /\ UNCHANGED <<batches, config>>

\* RuleBook and Settings: what happens to a rule or to the policy.
ChangeConfig(c) ==
  /\ Command
  /\ config # c
  /\ config' = c
  /\ UNCHANGED <<txs, batches>>

Assign(f, pair) ==
  /\ Command
  /\ txs[f].status # "exported"
  /\ txs' = [txs EXCEPT ![f].status = "reviewed", ![f].by = Null,
       ![f].booking = [konto |-> pair[1], gegenkonto |-> pair[2], side |-> SideOf(txs[f].row)]]
  /\ UNCHANGED <<batches, config>>

SetStatus(f, status) ==
  /\ Command
  /\ txs[f].status \notin {"exported", status}
  /\ txs' = [txs EXCEPT ![f].status = status, ![f].by = Null]
  /\ UNCHANGED <<batches, config>>

\* Days are compared from the first moment of the first to the last moment of
\* the last day; the open check and the summary end when the last day begins.
Within(row, period) == row.day \in period.from..period.to
WithinStart(row, period) ==
  row.day >= period.from /\ row.day * 1440 + row.time <= period.to * 1440

Complete(tx) == tx.booking.konto # Null /\ tx.booking.gegenkonto # Null
Approved == {"reviewed"} \cup (IF AllowMatchedWithoutReview THEN {"matched"} ELSE {})
Bookable(tx) == tx.row.bookability = "bookable"

Exportable(period) ==
  {f \in DOMAIN txs : /\ Within(txs[f].row, period) /\ Bookable(txs[f])
                      /\ txs[f].status \in Approved /\ Complete(txs[f])}

\* toDatevRows: the amount without its sign, which the side of the konto stands
\* for.  Texts, dates and the header of the file are left out.
AbsCents(row) == IF row.cents < 0 THEN -row.cents ELSE row.cents

DatevRow(tx) ==
  [umsatz |-> AbsCents(tx.row), side |-> tx.booking.side,
   konto |-> tx.booking.konto, gegenkonto |-> tx.booking.gegenkonto]

\* validateDatevRows has an error for the row of a payment.
Refused(f) ==
  LET row == DatevRow(txs[f]) IN
  \/ row.umsatz = 0
  \/ \E k \in {row.konto, row.gegenkonto} : k = Null \/ IsForbidden(k, Policy)

\* preview: how many bookable payments of the period are not in the export,
\* and why.
Exclusions(period) ==
  LET all == {f \in DOMAIN txs : Within(txs[f].row, period) /\ Bookable(txs[f])}
      Number(S) == Cardinality({f \in all : txs[f].status \in S})
      judged == Approved \cup {"exported"}
  IN [inPeriodBookable |-> Cardinality(all),
      eligible |-> Cardinality(Exportable(period)),
      alreadyExported |-> Number({"exported"}),
      openOrConflict |-> Number({"open", "conflict"}),
      notApproved |-> Cardinality({f \in all : txs[f].status \notin judged}),
      incompleteBooking |-> Cardinality({f \in all : /\ txs[f].status \in Approved
                                                     /\ ~Complete(txs[f])})]

CreateExport(period) ==
  /\ Command
  /\ Exportable(period) # {}
  /\ BlockExportIfOpen => ~\E f \in DOMAIN txs :
       WithinStart(txs[f].row, period) /\ Bookable(txs[f]) /\ txs[f].status \in {"open", "conflict"}
  /\ \A f \in Exportable(period) : ~Refused(f)
  /\ txs' = [f \in DOMAIN txs |-> IF f \in Exportable(period)
                                  THEN [txs[f] EXCEPT !.status = "exported"] ELSE txs[f]]
  /\ UNCHANGED <<batches, config>>

CashStep ==
  \/ \E f \in CashFiles : UploadStatement(f)
  \/ \E b \in DOMAIN batches : Reprocess(b)
  \/ \E ids \in {{}, DOMAIN txs} : ApplyRules(ids)
  \/ \E c \in DOMAIN Configs : ChangeConfig(c)
  \/ \E f \in DOMAIN txs : \/ \E pair \in Assigned : Assign(f, pair)
                           \/ \E s \in Marks : SetStatus(f, s)
  \/ \E p \in Periods : CreateExport(p)

----------------------------------------------------------------------------
(* The reports.                                                            *)

OtherSide(side) == IF side = "S" THEN "H" ELSE "S"

InBooks(period) ==
  {f \in DOMAIN txs : /\ Within(txs[f].row, period) /\ Bookable(txs[f])
                      /\ txs[f].status # "skipped" /\ Complete(txs[f])}

\* accountTrialBalance: a payment counts at its konto and at its gegenkonto.
TrialBalance(number, side, period) ==
  LET At(b, s, n, row) == IF b = number /\ s = side THEN AbsCents(row) ELSE 0 IN
  SumFunction([f \in InBooks(period) |->
    LET b == txs[f].booking IN
      At(b.konto, b.side, number, txs[f].row)
        + At(b.gegenkonto, OtherSide(b.side), number, txs[f].row)])

\* accountOverview: the payments under their konto, by the sign of the amount.
AccountOverview(number, period) ==
  LET of == {f \in DOMAIN txs : /\ WithinStart(txs[f].row, period) /\ Bookable(txs[f])
                                /\ txs[f].booking.konto = number
                                /\ txs[f].status \in {"matched", "reviewed", "exported"}}
  IN [count |-> Cardinality(of),
      debit |-> SumFunction([f \in {g \in of : txs[g].row.cents < 0} |-> txs[f].row.cents]),
      credit |-> SumFunction([f \in {g \in of : txs[g].row.cents > 0} |-> txs[f].row.cents])]

\* The totals the batch of an export records: a row counts at both accounts.
TotalsByAccount(exported, number) ==
  LET At(n, row) == IF n = number THEN row.umsatz ELSE 0
      Both(row) == At(row.konto, row) + At(row.gegenkonto, row)
  IN SumFunction([f \in exported |-> Both(DatevRow(txs[f]))])

\* Broken: every line on the side of the booking.
SideOfBooking(b, number) == b.side

\* sideForAccount: the konto first.
SideForAccount(b, number) == IF b.konto = number THEN b.side ELSE OtherSide(b.side)

\* accountLedger, line by line.
AccountLedger(number, side, period) ==
  LET of == {f \in InBooks(period) :
               /\ number \in {txs[f].booking.konto, txs[f].booking.gegenkonto}
               /\ SideForAccount(txs[f].booking, number) = side}
  IN SumFunction([f \in of |-> AbsCents(txs[f].row)])

\* Broken: also what PayPal's excluded types have moved.
AllWithin(period) == {f \in DOMAIN txs : WithinStart(txs[f].row, period)}

Summarised(period) == {f \in DOMAIN txs : WithinStart(txs[f].row, period) /\ Bookable(txs[f])}

\* summary: the sums of what is imported and what is exported are compared.
Summary(period) ==
  LET in == Summarised(period)
      Cents(set) == SumFunction([f \in set |-> txs[f].row.cents])
  IN [missing |-> Cardinality({f \in in : txs[f].status \notin {"exported", "skipped"}}),
      status |-> IF in = {} THEN "pending"
                 ELSE IF /\ Cents(in) = Cents({f \in in : txs[f].status = "exported"})
                         /\ \A f \in in : txs[f].status \notin {"open", "conflict"}
                 THEN "balanced" ELSE "unbalanced"]

=============================================================================
