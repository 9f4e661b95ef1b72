---------------------------- MODULE MarketReports ----------------------------
(***************************************************************************)
(* The accrual reports over the documents of both books:                   *)
(* AccrualReportService, PayoutReconciliationService and FeeVatService.    *)
(* Three services read the same events, each with a query of its own.      *)
(***************************************************************************)
EXTENDS CashBooks, Market

CONSTANT FeeVat  \* what the clearing configuration says of a marketplace's fees

MARKETPLACES == {"amazon", "backmarket", "refurbed", "kaufland"}

\* centsOf: euros where they are known, else the amount as it is.
EventCents(i) == LET e == market.events[i] IN IF e.eur # Null THEN e.eur ELSE e.cents

SumCents(set) == SumFunction([i \in set |-> EventCents(i)])

InPeriod(i, period) == market.events[i].day \in period.from..period.to

EventsWhere(period, P(_)) ==
  {i \in DOMAIN market.events : InPeriod(i, period) /\ P(market.events[i])}

EventsOf(mp, type, period) ==
  EventsWhere(period, LAMBDA e : e.marketplace = mp /\ e.type = type /\ e.status # "void")

----------------------------------------------------------------------------
(* AccrualReportService.                                                   *)

Overview(mp, period) ==
  LET Sum(type) == SumCents(EventsOf(mp, type, period))
      expected == Sum("SETTLEMENT") + Sum("FEE") + Sum("REFUND") + Sum("ADJUSTMENT")
  IN [sales |-> Sum("SALE"), fees |-> Sum("FEE"), expected |-> expected, actual |-> Sum("PAYOUT"),
      difference |-> expected - Sum("PAYOUT"), net |-> Sum("SALE") + Sum("REFUND")]

\* What waits for a human is counted whatever the period.
Decisions(period) ==
  [cancellations |-> Cardinality(EventsWhere(period, LAMBDA e : e.type = "CANCELLATION")),
   invoicePending |-> Cardinality({i \in DOMAIN market.events :
                                     market.events[i].status = "invoice_pending"}),
   openExceptions |-> Cardinality(market.exceptions),
   unclassifiedCash |-> Count(txs, LAMBDA tx : tx.status = "open"),
   classifiedExpenses |-> Count(txs, LAMBDA tx : /\ tx.status \in {"matched", "reviewed", "exported"}
                                                 /\ tx.booking.konto \notin {Null, "1201", "1203", "1361"})]

\* A batch counts in the period that its rows begin in or it was made in.
Covered(period) ==
  {f \in DOMAIN market.batches : LET b == market.batches[f] IN
     \/ b.begins # Null /\ b.begins \in period.from..period.to
     \/ Today \in period.from..period.to}

\* The gap of a period without booked journal lines is left out: the journal
\* is that of AccrualJournal. Open exceptions count whatever their day.
PeriodCoverage(period) ==
  LET Batches(channels, kinds) ==
        Cardinality({f \in Covered(period) : /\ Reports[f].channel \in channels
                                             /\ market.batches[f].kind \in kinds})
      any == {"order", "financial"}
  IN [jtlEvents |-> Cardinality(EventsWhere(period, LAMBDA e : e.source = "jtl")),
      events |-> [mp \in MARKETPLACES \ {"kaufland"} |->
                    Cardinality(EventsWhere(period, LAMBDA e : e.marketplace = mp))],
      exceptionsOpen |-> Cardinality(market.exceptions),
      gaps |-> (IF Batches({"jtl", "xlsx"}, {"jtl"}) = 0 THEN {"jtl"} ELSE {})
                 \cup (IF Batches({"amazon"}, {"order"}) = 0 THEN {"amazon order"} ELSE {})
                 \cup (IF Batches({"amazon"}, {"financial"}) = 0 THEN {"amazon financial"} ELSE {})
                 \cup {mp \in {"backmarket", "refurbed"} : Batches({mp}, any) = 0}]

\* InboxService.getInbox: exceptions by the day they were opened, events by
\* their own.
Inbox(period) ==
  [exceptions |-> IF Today \in period.from..period.to THEN market.exceptions ELSE {},
   pending |-> EventsWhere(period, LAMBDA e : e.status \in {"pending_match", "exception",
                                                            "invoice_pending"}),
   invoicePending |-> Cardinality(EventsWhere(period, LAMBDA e : e.status = "invoice_pending"))]

\* Broken: of JTL's events only the orders, not the sales.
AbgleichOfOrders(period) ==
  LET Of(P(_)) == {Upper(market.events[i].order) : i \in EventsWhere(period,
                     LAMBDA e : /\ e.marketplace = "amazon" /\ e.status # "void" /\ e.order # <<>>
                                /\ P(e))}
      amazon == Of(LAMBDA e : e.type \in {"ORDER_CREATED", "SALE", "CANCELLATION"})
      jtl == Of(LAMBDA e : e.source = "jtl" /\ e.type = "ORDER_CREATED")
  IN [orders |-> amazon, matched |-> amazon \cap jtl, amazonOnly |-> amazon \ jtl,
      jtlOnly |-> jtl \ amazon]

\* amazonJtlAbgleich: orders with an event of Amazon's kinds, and with one of
\* JTL's; both look at the events of the marketplace Amazon.
Abgleich(period) ==
  LET Amazon(e) == e.marketplace = "amazon" /\ e.status # "void" /\ e.order # <<>>
      Orders(set) == {Upper(market.events[i].order) : i \in set}
      amazon == Orders(EventsWhere(period, LAMBDA e :
                  Amazon(e) /\ e.type \in {"ORDER_CREATED", "SALE", "CANCELLATION"}))
      jtl == Orders(EventsWhere(period, LAMBDA e : Amazon(e) /\ e.source = "jtl"))
  IN [orders |-> amazon, matched |-> amazon \cap jtl, amazonOnly |-> amazon \ jtl,
      jtlOnly |-> jtl \ amazon]

----------------------------------------------------------------------------
(* PayoutReconciliationService.                                            *)

\* Broken: adjustments are not expected to be paid.
ExpectedUnadjusted(mp, period) ==
  LET Sum(type) == SumCents(EventsOf(mp, type, period))
      clearing == Sum("SETTLEMENT") + Sum("FEE") + Sum("REFUND")
  IN [expected |-> IF clearing # 0 THEN clearing ELSE Sum("SALE") + Sum("REFUND") + Sum("FEE"),
      fallback |-> clearing = 0, actual |-> Sum("PAYOUT"), status |-> "open"]

\* The sales are what is expected where the marketplace has settled nothing.
ExpectedVsActual(mp, period) ==
  LET Sum(type) == SumCents(EventsOf(mp, type, period))
      clearing == Sum("SETTLEMENT") + Sum("FEE") + Sum("REFUND") + Sum("ADJUSTMENT")
      net == Sum("SALE") + Sum("REFUND") + Sum("FEE") + Sum("ADJUSTMENT")
      expected == IF clearing # 0 THEN clearing ELSE net
      actual == Sum("PAYOUT")
      any == \E type \in {"SALE", "REFUND", "FEE", "SETTLEMENT", "PAYOUT"} :
               EventsOf(mp, type, period) # {}
  IN [expected |-> expected, fallback |-> clearing = 0, actual |-> actual,
      status |-> IF ~any THEN "no_data"
                 ELSE IF expected = actual /\ actual # 0 THEN "reconciled"
                 ELSE IF expected = 0 /\ actual = 0 THEN "zero" ELSE "open"]

\* list: the payments that a payout may be.
Candidates(i) == {f \in DOMAIN txs : txs[f].row.cents - EventCents(i) \in -100..100}

----------------------------------------------------------------------------
(* Fees and their VAT.                                                     *)

DEFAULT_FEE_VAT ==
  LET reverse == [treatment |-> "reverse_charge_13b", rate |-> 19, input |-> "1577", output |-> "1787"]
  IN [mp \in MARKETPLACES |->
       CASE mp = "amazon" -> [treatment |-> "input_vat_de", rate |-> 19, input |-> "1576", output |-> Null]
         [] mp \in {"backmarket", "refurbed"} -> reverse
         [] mp = "kaufland" -> [reverse EXCEPT !.treatment = "none"]]

Magnitude(cents) == IF cents < 0 THEN -cents ELSE cents

VatCentsFromNet(net, rate) == (Magnitude(net) * rate + 50) \div 100

ResolveFeeVatConfig(mp, override) ==
  LET base == IF mp \in MARKETPLACES THEN DEFAULT_FEE_VAT[mp] ELSE DEFAULT_FEE_VAT["kaufland"]
      merged == IF mp \in DOMAIN FeeVat THEN FeeVat[mp] @@ base ELSE base
  IN IF override = "auto" THEN merged ELSE [merged EXCEPT !.treatment = override]

\* Lines of a fee's tax: <<account, side, cents>>.
BuildFeeVatExtraLines(net, mp, override, clearing) ==
  LET cfg == ResolveFeeVatConfig(mp, override)
      vat == VatCentsFromNet(net, cfg.rate)
      Lines2(contra) == [treatment |-> cfg.treatment, vat |-> vat,
                         lines |-> {<<cfg.input, "S", vat>>, <<contra, "H", vat>>}]
  IN IF vat > 0 /\ cfg.treatment = "reverse_charge_13b" /\ cfg.output # Null THEN Lines2(cfg.output)
     ELSE IF vat > 0 /\ cfg.treatment = "input_vat_de" THEN Lines2(clearing)
     ELSE [treatment |-> cfg.treatment, vat |-> 0, lines |-> {}]

\* previewMonth: the fees of a marketplace under the treatment of the first, or
\* of one of the first.
FeePreview(mp, period) ==
  LET fees == EventsWhere(period, LAMBDA e : e.type = "FEE" /\ e.marketplace = mp)
      Extra(i) == BuildFeeVatExtraLines(EventCents(i), mp, market.events[i].treatment, "1400")
      first == {i \in fees : \A j \in fees : market.events[i].day <= market.events[j].day}
  IN [count |-> Cardinality(fees),
      treatment |-> {Extra(i).treatment : i \in first},
      net |-> SumFunction([i \in fees |-> Magnitude(EventCents(i))]),
      vat |-> SumFunction([i \in fees |-> Extra(i).vat])]

=============================================================================
