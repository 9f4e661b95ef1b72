------------------------------- MODULE Market -------------------------------
(***************************************************************************)
(* The accrual books, from the uploaded reports to the accrual reports:    *)
(* MarketplaceImportService, JtlImportService, MatchingService, FxService, *)
(* and AccrualReportService, PayoutReconciliationService, FeeVatService.   *)
(*                                                                         *)
(* An upload is one step.  What uploads do to each other when they overlap *)
(* is the subject of AccrualMatching and ImportBatches, which abstract     *)
(* from the contents that this module is about.  The documents are one     *)
(* record, market, and what an upload makes of it is a function of it, so  *)
(* that the uploads of some files can be replayed in another order.        *)
(***************************************************************************)
EXTENDS MarketFiles

CONSTANTS
  Reports,  \* the files, by name: [channel, report, content]
  Reading,  \* what is read in each of them: see ReadAssumption
  Rates     \* ECB rates, 1/10000 of a euro: <<currency, day>> -> rate

ASSUME RatesAssumption == \A x \in DOMAIN Rates : Rates[x] \in Nat \ {0}

ResolveReportKind(f) ==
  CASE f.report # "auto" -> f.report
    [] f.report = "auto" /\ f.channel = "amazon" -> DetectAmazonReportType(f.content)
    [] f.report = "auto" /\ f.channel = "backmarket" -> DetectBackMarketReportType(f.content)
    [] f.report = "auto" /\ f.channel = "refurbed" -> "financial"

ReadReports == [f \in DOMAIN Reports |->
  LET report == Reports[f] IN
    CASE report.channel = "xlsx" -> ParseJtlXlsx(report.content)
      [] report.channel = "jtl" -> ParseJtlCsv(report.content)
      [] OTHER -> ParseMarketplace(report.channel, ResolveReportKind(report), report.content)]

ASSUME ReadAssumption == Reading = ReadReports

VARIABLE market

\* Documents are kept by their keys: no report depends on the order in which
\* they were made.
NoMarket == [lines |-> <<>>, records |-> <<>>, events |-> <<>>, exceptions |-> {}, batches |-> <<>>]

----------------------------------------------------------------------------
(* Currencies.                                                             *)

\* The rate of the day or of one of the eleven days before, if the service
\* can be reached.
EcbRate(currency, day, online) ==
  LET quoted == {d \in day - 11..day : <<currency, d>> \in DOMAIN Rates}
  IN IF currency = <<"eur">> THEN 10000
     ELSE IF ~online \/ quoted = {} THEN Null ELSE Rates[<<currency, Max(quoted)>>]

\* FxService.resolve, where no marketplace gives a rate.
Resolve(row, eur, online) ==
  LET rate == EcbRate(row.currency, IF row.day = Null THEN Today ELSE row.day, online)
  IN IF row.currency # <<"eur">> /\ eur # Null THEN eur
     ELSE IF row.currency = <<"eur">> THEN row.cents
     ELSE IF rate = Null THEN Null ELSE (row.cents * rate + 5000) \div 10000

----------------------------------------------------------------------------
(* Matching.                                                               *)

\* Broken: an id has one row, whatever its kind.
KeyOfId(line) == <<line.marketplace, line.id>>

BuildMarketplaceTxnKey(line) == <<line.marketplace, line.id, line.kind>>

Values(docs) == {docs[k] : k \in DOMAIN docs}
Saved(docs, key, doc) == [k \in DOMAIN docs \cup {key} |-> IF k = key THEN doc ELSE docs[k]]

\* An order is looked for by the text that is stored.
LinesOf(m, order) == {l \in Values(m.lines) : order # <<>> /\ l.order = order}
RecordsOf(m, order) == {r \in Values(m.records) : order # <<>> /\ r.order = order}
IsInvoice(r) == r.kind \in {"invoice", "sale"}

AmazonStatus(m, order) ==
  LET rows == {l \in LinesOf(m, order) : l.marketplace = "amazon" /\ l.kind = "order"}
  IN [cancelled |-> \E l \in rows : l.cancelled, shipped |-> \E l \in rows : l.shipped]

MarketplaceTxnToEventType(kind) ==
  CASE kind = "order" -> "ORDER_CREATED"
    [] kind = "fee" -> "FEE"
    [] kind = "refund" -> "REFUND"
    [] kind = "settlement" -> "SETTLEMENT"
    [] kind = "payout" -> "PAYOUT"
    [] kind \in {"adjustment", "unknown"} -> "ADJUSTMENT"

JtlRecordToEventType(kind, matched) ==
  CASE kind = "order" -> "ORDER_CREATED"
    [] kind = "invoice_correction" -> "CANCELLATION"
    [] kind \in {"invoice", "sale"} -> IF matched THEN "SALE" ELSE "ORDER_CREATED"

\* Exceptions of one kind for one order, event or row are one here.
Raise(m, kind, order, about) ==
  [m EXCEPT !.exceptions = @ \cup {[kind |-> kind, order |-> order, about |-> about]}]

RaiseIf(condition, m, kind, order, about) ==
  IF condition THEN Raise(m, kind, order, about) ELSE m

\* Broken: those of every order.
ResolveOpen(m, order) ==
  [m EXCEPT !.exceptions = {x \in @ :
     x.kind \notin {"MISSING_INVOICE", "MISSING_JTL_ORDER", "UNMATCHED_MARKETPLACE_EVENT"}}]

ResolveOpenForOrder(m, order) ==
  [m EXCEPT !.exceptions = {x \in @ : \/ x.order # order
     \/ x.kind \notin {"MISSING_INVOICE", "MISSING_JTL_ORDER", "UNMATCHED_MARKETPLACE_EVENT"}}]

Event(type, source, row, order, status, eur) ==
  [type |-> type, source |-> source, marketplace |-> row.marketplace, id |-> row.id,
   order |-> order, day |-> IF row.day = Null THEN Today ELSE row.day, cents |-> row.cents, eur |-> eur, currency |-> row.currency,
   status |-> status, treatment |-> "auto", linked |-> Null]

CreateEvent(m, key, event) == [m EXCEPT !.events = Saved(@, key, event)]

\* upsertEventFromMarketplaceTxn, for a line just stored.
UpsertFromLine(m, line) ==
  LET key == BuildMarketplaceTxnKey(line)
      first == IF line.cancelled /\ line.kind = "order" THEN "CANCELLATION"
               ELSE MarketplaceTxnToEventType(line.kind)
      id == <<first, line.marketplace, line.order, line.id>>
      jtl == RecordsOf(m, line.order)
      invoiced == \E r \in jtl : IsInvoice(r)
      waits == first = "ORDER_CREATED" /\ line.shipped /\ ~invoiced
      type == IF first = "ORDER_CREATED" /\ line.shipped /\ invoiced THEN "SALE" ELSE first
      status == IF line.cancelled THEN "void"
                ELSE IF waits THEN "invoice_pending"
                ELSE IF jtl # {} THEN "matched"
                ELSE IF line.order # <<>> THEN "pending_match" ELSE "draft"
      created == [CreateEvent(m, id, Event(type, "marketplace", line, line.order, status, line.eur))
                    EXCEPT !.lines[key].event = id]
      missed == RaiseIf(waits, created, "MISSING_INVOICE", line.order, line.id)
      alone == RaiseIf(type = "ORDER_CREATED" /\ ~waits /\ jtl = {} /\ line.order # <<>>,
                       missed, "MISSING_JTL_ORDER", line.order, line.id)
  IN IF id \in DOMAIN m.events THEN Raise(m, "DUPLICATE_SOURCE_RECORD", <<>>, line.id)
     ELSE RaiseIf(line.currency # <<"eur">> /\ line.eur \in {Null, 0}, alone, "FX_REVIEW", line.order, line.id)

\* upsertEventFromJtlRecord: Amazon is asked first whether it cancelled.
UpsertFromRecord(m, record, key, online) ==
  LET order == Upper(record.order)
      eur == Resolve(record, Null, online)
      matched == LinesOf(m, order) # {}
      type == JtlRecordToEventType(record.kind, matched)
      id == <<type, record.marketplace, order, record.id>>
      blocked == <<"CANCELLATION", record.marketplace, order, <<"jtl-cancel-blocked", record.id>>>>
      status == IF matched THEN "matched" ELSE IF order # <<>> THEN "pending_match" ELSE "draft"
      Linked(k, e) == [CreateEvent(m, k, e) EXCEPT !.records[key].event = k]
      created == Linked(id, Event(type, "jtl", record, order, status, eur))
      m1 == RaiseIf(eur = Null, created, "FX_REVIEW", order, record.id)
      m2 == RaiseIf(record.review, m1, "VAT_REVIEW", order, record.id)
      m3 == RaiseIf(record.kind = "invoice_correction" /\ record.related # <<>>,
                    m2, "FEE_INVOICE_MISMATCH", order, record.id)
      m4 == RaiseIf(record.channel # <<>> /\ record.marketplace = Null /\ ~record.review,
                    m3, "UNKNOWN_TRANSACTION_TYPE", order, record.id)
  IN IF AmazonStatus(m, order).cancelled
     THEN IF blocked \in DOMAIN m.events THEN m
          ELSE LET amazon == IF record.marketplace = Null
                             THEN [record EXCEPT !.marketplace = "amazon"] ELSE record
               IN Linked(blocked, Event("CANCELLATION", "jtl", amazon, order, "void", eur))
     ELSE IF id \in DOMAIN m.events THEN Raise(m, "DUPLICATE_SOURCE_RECORD", <<>>, record.id)
     ELSE RaiseIf(~matched /\ order # <<>>, m4, "UNMATCHED_MARKETPLACE_EVENT", order, record.id)

\* What becomes of the event of a JTL record, and of that of a line, when the
\* order has both.
MatchedRecord(event, record, invoiced) ==
  [event EXCEPT !.status = "matched",
     !.type = IF @ = "ORDER_CREATED" /\ record.kind # "order" /\ invoiced THEN "SALE" ELSE @]

MatchedLine(event, line, shipped, invoiced) ==
  LET orders == event.type \notin {"SETTLEMENT", "PAYOUT"}
                  /\ (event.type = "ORDER_CREATED" \/ event.status = "invoice_pending")
  IN IF event.type = "CANCELLATION" \/ event.status = "void" THEN event
     ELSE IF orders /\ invoiced THEN [event EXCEPT !.status = "matched", !.type = "SALE"]
     ELSE IF orders /\ (shipped \/ line.shipped)
     THEN [event EXCEPT !.status = "invoice_pending", !.type = "ORDER_CREATED"]
     ELSE [event EXCEPT !.status = "matched"]

\* rematchByOrderId
Rematch(m, text) ==
  LET order == Upper(text)
      amazon == AmazonStatus(m, order)
      jtl == RecordsOf(m, order)
      mp == LinesOf(m, order)
      invoiced == \E r \in jtl : IsInvoice(r)
      Patched(i, e) ==
        IF \E r \in jtl : r.event = i
        THEN MatchedRecord(e, CHOOSE r \in jtl : r.event = i, invoiced)
        ELSE IF \E l \in mp : l.event = i
        THEN MatchedLine(e, CHOOSE l \in mp : l.event = i, amazon.shipped, invoiced)
        ELSE e
  IN IF amazon.cancelled
     THEN ResolveOpenForOrder(
            [m EXCEPT !.events = [i \in DOMAIN @ |->
               IF \E d \in jtl \cup mp : d.event = i
               THEN [@[i] EXCEPT !.type = "CANCELLATION", !.status = "void"] ELSE @[i]]], order)
     ELSE LET patched == IF jtl = {} \/ mp = {} THEN m
                         ELSE [m EXCEPT !.events = [i \in DOMAIN @ |-> Patched(i, @[i])]]
          IN IF invoiced THEN ResolveOpenForOrder(patched, order) ELSE patched

\* Broken: a row is not matched with what came before it.
Alone(m, order) == m

RematchIf(m, order) == IF order = <<>> THEN m ELSE Rematch(m, order)

----------------------------------------------------------------------------
(* Uploads.                                                                *)

\* The document of a row: it has no event yet.
Unlinked(row) == [x \in DOMAIN row \cup {"event"} |-> IF x = "event" THEN <<>> ELSE row[x]]

\* The row of a marketplace report, if it is not known.
ImportLine(m, line, online) ==
  LET key == BuildMarketplaceTxnKey(line)
      stored == [line EXCEPT !.eur = Resolve(line, line.eur, online)]
      new == [m EXCEPT !.lines = Saved(@, key, Unlinked(stored))]
  IN IF key \in DOMAIN m.lines THEN m ELSE RematchIf(UpsertFromLine(new, stored), line.order)

\* Where a JTL row names no shop, another row of the order may: first of the
\* file, then of those stored.
Shopped(m, shops, row) ==
  LET order == Upper(row.order)
      prior == {r \in RecordsOf(m, order) : r.marketplace # Null}
      Named(shop) == [row EXCEPT !.marketplace = shop.marketplace, !.channel = OrElse(@, shop.channel)]
  IN IF order = <<>> \/ row.marketplace # Null \/ row.review THEN row
     ELSE IF order \in DOMAIN shops THEN Named(shops[order])
     ELSE IF prior # {} THEN Named(CHOOSE r \in prior : TRUE) ELSE row

ImportRecord(m, shops, read, online) ==
  LET row == Shopped(m, shops, read)
      key == <<row.id, row.kind>>
      same == {r \in Values(m.records) : r.number = row.number}
      taxes == {r.tax : r \in same} \ {<<>>}
      new == [m EXCEPT !.records = Saved(@, key, Unlinked(row))]
  IN IF row.number # <<>> /\ IsInvoice(row) /\ same # {}
     THEN RaiseIf(row.tax # <<>> /\ taxes # {} /\ row.tax \notin taxes,
                  m, "MULTIPLE_TAX_CODES", row.order, row.id)
     ELSE IF key \in DOMAIN m.records THEN m
     ELSE RematchIf(UpsertFromRecord(new, row, key, online), row.order)

RecordRank(kind) == CASE kind = "order" -> 0 [] kind \in {"invoice", "sale"} -> 1
                      [] kind = "invoice_correction" -> 2

\* The last row with a shop counts for its order.
ShopByOrder(rows) ==
  FoldLeft(LAMBDA shops, r : IF r.order = <<>> \/ r.marketplace = Null THEN shops
                             ELSE Saved(shops, Upper(r.order), r), <<>>, rows)

IsJtl(f) == Reports[f].channel \in {"jtl", "xlsx"}

\* periodStart: the first day of the rows.
Begins(rows) ==
  LET days == {rows[i].day : i \in DOMAIN rows} \ {Null} IN IF days = {} THEN Null ELSE Min(days)

StoreLines(m, rows, online) ==
  LET after[i \in 0..Len(rows)] ==
        IF i = 0 THEN m ELSE ImportLine(after[i - 1], rows[i], online)
  IN after[Len(rows)]

StoreRank(m, rows, rank, shops, online) ==
  LET after[i \in 0..Len(rows)] ==
        IF i = 0 THEN m
        ELSE IF RecordRank(rows[i].kind) # rank THEN after[i - 1]
        ELSE ImportRecord(after[i - 1], shops, rows[i], online)
  IN after[Len(rows)]

\* Orders, then invoices, then corrections, each as they are in the file.
StoreRecords(m, rows, shops, online) ==
  LET after[n \in 0..3] ==
        IF n = 0 THEN m ELSE StoreRank(after[n - 1], rows, n - 1, shops, online)
  IN after[3]

StoreRows(m, f, rows, online) ==
  IF IsJtl(f) THEN StoreRecords(m, rows, ShopByOrder(rows), online)
  ELSE StoreLines(m, rows, online)

\* A file is known by its hash; a workbook in which nothing is found is
\* refused before there is a batch.
ImportRows(m, f, rows, online) ==
  IF f \in DOMAIN m.batches \/ (Reports[f].channel = "xlsx" /\ rows = <<>>) THEN m
  ELSE [StoreRows(m, f, rows, online) EXCEPT !.batches =
          Saved(@, f, [begins |-> Begins(rows), rows |-> Len(rows),
                     kind |-> IF IsJtl(f) THEN "jtl" ELSE ResolveReportKind(Reports[f])])]

ImportFile(m, f, online) == ImportRows(m, f, Reading[f].rows, online)

UploadReport(f) ==
  \E online \in BOOLEAN : market' = ImportFile(market, f, online)

\* PATCH of a business event: the treatment of its fee.
SetTreatment(i, treatment) ==
  /\ market.events[i].treatment # treatment
  /\ market' = [market EXCEPT !.events[i].treatment = treatment]

\* manualMatch: a human finds the payment of a payout.
MatchPayout(i, payment) ==
  /\ market.events[i].type = "PAYOUT"
  /\ market.events[i].linked # payment
  /\ market' = [market EXCEPT !.events[i].status = "matched", !.events[i].linked = payment]

=============================================================================
