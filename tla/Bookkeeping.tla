----------------------------- MODULE Bookkeeping -----------------------------
(***************************************************************************)
(* The office at work: statements and reports are uploaded, classified,    *)
(* matched, corrected, exported and reported on, whatever the order.       *)
(***************************************************************************)
EXTENDS MarketReports

CONSTANTS
  Payments,   \* what really happened: for every payment its cents, and the
              \* files that show it
  TwoEnds,    \* the pairs of payments that are the two ends of a transfer
  Deeds,      \* what really happened on the marketplaces, likewise
  Treatments  \* bound: what humans choose for the fees

vars == <<txs, batches, config, market, steps>>

Init ==
  /\ CashInit
  /\ market = NoMarket

MarketStep ==
  \/ \E f \in DOMAIN Reports : UploadReport(f)
  \/ \E i \in DOMAIN market.events :
       \/ market.events[i].type = "FEE" /\ \E t \in Treatments : SetTreatment(i, t)
       \/ \E f \in Candidates(i) : MatchPayout(i, f)

Next ==
  \/ CashStep /\ UNCHANGED market
  \/ Command /\ MarketStep /\ UNCHANGED cash

Spec == Init /\ [][Next]_vars

----------------------------------------------------------------------------

\* A batch that failed has stored what could be read, too.
Uploaded == {batches[i].file : i \in DOMAIN batches}
Shown == {p \in DOMAIN Payments : Payments[p].files \cap Uploaded # {}}

Reported == {d \in DOMAIN Deeds : Deeds[d].files \cap DOMAIN market.batches # {}}

\* However the statements overlap, and in whatever order they come, each
\* payment they show is in the books once and with its amount: the fingerprints
\* tell apart what is different and nothing else.
EveryPaymentOnce ==
  /\ Cardinality(DOMAIN txs) = Cardinality(Shown)
  /\ SumFunction([f \in DOMAIN txs |-> txs[f].row.cents]) = SumFunction([p \in Shown |-> Payments[p].cents])

\* The same for the reports: each row of a marketplace or of JTL is known by its
\* key, whatever the shop, the kind and the order of the rows.
EveryRowOnce ==
  /\ Cardinality(DOMAIN market.lines) + Cardinality(DOMAIN market.records) = Cardinality(Reported)
  /\ SumFunction([k \in DOMAIN market.lines |-> market.lines[k].cents])
       + SumFunction([k \in DOMAIN market.records |-> market.records[k].cents])
       = SumFunction([d \in Reported |-> Deeds[d].cents])

\* Both books hold what the uploaded files show, once.
EveryRecordOnce == EveryPaymentOnce /\ EveryRowOnce

\* A statement that is consistent is found to be: its balance agrees, and the
\* types the policy excludes stay out of the books.
BalanceKept ==
  /\ \A i \in DOMAIN batches : batches[i].guthaben \in {Null, TRUE}
  /\ \A f \in DOMAIN txs : txs[f].row.bookability # "balance_only"

\* A rule that fits books nothing where an account of it is missing or barred.
BooksNothing(row, rule) == rule.id \in DryRun(row, {rule}) /\ OneRule(row, rule, Policy).ruleIds = {}

\* Decided again by either pipeline, or tried out, it is the same.
SettledBy(tx, found) ==
  LET Same(v) == v.status = tx.status /\ v.booking = tx.booking /\ v.ruleIds = tx.ruleIds
  IN /\ Same(Reprocessed(tx.row, found)) /\ Same(Reapplied(tx, tx.row, found))
     /\ ~found.transfer /\ ~found.parked =>
          \/ tx.ruleIds = found.dry
          \/ tx.ruleIds = {} /\ \E r \in Rules : BooksNothing(tx.row, r) /\ found.dry = {r.id}

\* The three pipelines agree: what a machine decided by the rules and policy
\* in force is decided in the same way when it is decided again, wherever a
\* rule's validity today is that on the booking date; and unless a policy comes
\* first, by the rules whose dry run shows it, save the one that books nothing.
ReapplySettled ==
  \A f \in DOMAIN txs :
    LET tx == txs[f]
    IN /\ tx.by = config
       /\ tx.row.bookability # "skipped"
       /\ tx.status # "exported"
       /\ \A r \in Rules : RuleActive(r, Today) <=> RuleActive(r, tx.row.day)
       => SettledBy(tx, Found[config][tx.row])

\* The clearing account is empty once both statements of every transfer have
\* been read and nobody has corrected what the machine booked.
ClearingNets ==
  LET clearing == Policy.accounts.clearing
      always == [from |-> 0, to |-> Today]
  IN /\ \A t \in TwoEnds : t[1] \in Shown <=> t[2] \in Shown
     /\ \A f \in DOMAIN txs : txs[f].by # Null
     => TrialBalance(clearing, "S", always) = TrialBalance(clearing, "H", always)

Numbers == UNION {{txs[f].booking.konto, txs[f].booking.gegenkonto} : f \in DOMAIN txs}

\* Cents moved in an account, by the overview and by the next export.
Moved(n, p) ==
  LET o == AccountOverview(n, p)
  IN {o.credit - o.debit, TotalsByAccount(Exportable(p), n)}

\* The reports agree: the trial balance has in every account what the ledger
\* lists for it, and debits as much as it credits; it has moved in an account
\* at least what the overview shows there and an export would record, as long
\* as no payment has been given a konto alone; and the preview of an export
\* gives one reason for every payment that is not in it.
BooksAgree ==
  \A p \in Periods :
    /\ SumFunction([n \in Numbers |-> TrialBalance(n, "S", p)]) =
         SumFunction([n \in Numbers |-> TrialBalance(n, "H", p)])
    /\ (\A f \in InBooks(p) : txs[f].booking.konto # txs[f].booking.gegenkonto) =>
         \A n \in Numbers, s \in {"S", "H"} : TrialBalance(n, s, p) = AccountLedger(n, s, p)
    /\ (\A f \in DOMAIN txs : txs[f].booking.gegenkonto = Null => txs[f].booking.konto = Null) =>
         \A n \in Numbers \ {Null} :
           LET both == TrialBalance(n, "S", p) + TrialBalance(n, "H", p) IN
           \A cents \in Moved(n, p) : cents <= both
    /\ LET x == Exclusions(p) IN
         x.inPeriodBookable = x.eligible + x.alreadyExported + x.notApproved + x.incompleteBooking

\* An export leaves the summary of its period balanced, unless the day it
\* ends, a payment set aside, or one not fit to be exported is in the way.
ExportBalances ==
  [][\A p \in Periods :
       /\ CreateExport(p)
       /\ \A f \in DOMAIN txs : Within(txs[f].row, p) /\ Bookable(txs[f]) =>
            WithinStart(txs[f].row, p) /\ f \in Exportable(p)
       => Summary(p)'.status = "balanced" /\ Summary(p)'.missing = 0]_vars

\* What the files say of each row, uploaded in one order.
Outcome(m) ==
  {<<e.source, e.id, e.type, e.status>> : e \in {x \in Values(m.events) : x.linked = Null}}

Replay == [files \in SUBSET DOMAIN Reports |->
  FoldSet(LAMBDA f, m : ImportFile(m, f, TRUE), NoMarket, files)]

\* What an event is, and how it stands, depends on the files that have been
\* uploaded and not on their order: whichever of a marketplace's line and JTL's
\* record comes last, both are recognised, cancelled or left to wait as they
\* would have been.
OrderIrrelevant ==
  LET replayed == Replay[DOMAIN market.batches]
  IN /\ Cardinality(DOMAIN market.events) = Cardinality(DOMAIN replayed.events)
     /\ Outcome(market) \subseteq Outcome(replayed)

\* The accrual services agree on what they count: the payout a marketplace
\* owes is the same in the overview and in the reconciliation unless the
\* latter has only sales to go by, and the fees are those of the VAT preview
\* unless some are void or refunded.
FiguresAgree ==
  \A p \in Periods, mp \in MARKETPLACES :
    LET overview == Overview(mp, p)
        payout == ExpectedVsActual(mp, p)
        fees == EventsWhere(p, LAMBDA e : e.type = "FEE" /\ e.marketplace = mp)
    IN /\ payout.actual = overview.actual
       /\ ~payout.fallback => payout.expected = overview.expected
       /\ payout.status = "reconciled" /\ ~payout.fallback => overview.difference = 0
       /\ (\A i \in fees : market.events[i].status # "void" /\ EventCents(i) <= 0) =>
            FeePreview(mp, p).net = -overview.fees

\* Nothing escapes the office: in a period that lasts until today no source is
\* called missing that has events in it (of Amazon, not both kinds of report),
\* and what waits for an invoice is listed in the inbox together with an
\* exception of its order, and is an open decision of the overview.
NothingEscapes ==
  \A p \in Periods :
    /\ Today \in p.from..p.to =>
         LET gaps == PeriodCoverage(p).gaps
             Missing(e) == \/ e.source = "jtl" /\ "jtl" \in gaps
                           \/ e.source # "jtl" /\ e.marketplace \in gaps
                           \/ /\ e.source # "jtl" /\ e.marketplace = "amazon"
                              /\ {"amazon order", "amazon financial"} \subseteq gaps
         IN EventsWhere(p, Missing) = {}
    /\ Today \in p.from..p.to =>
         LET inbox == Inbox(p)
             about == {x.order : x \in inbox.exceptions}
         IN \A i \in inbox.pending :
              market.events[i].status = "invoice_pending" => market.events[i].order \in about
    /\ Decisions(p).invoicePending > 0 => Decisions(p).openExceptions > 0

\* The reports of the accruals agree with each other, and with the inbox.
ReportsAgree == FiguresAgree /\ NothingEscapes

\* No order is said to be Amazon's alone while a sale of it is in the books.
SalesInBoth ==
  \A p \in Periods :
    Today \in p.from..p.to =>
      EventsWhere(p, LAMBDA e : /\ e.type = "SALE" /\ e.status # "void"
                                /\ Upper(e.order) \in Abgleich(p).amazonOnly) = {}

=============================================================================
