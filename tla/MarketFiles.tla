----------------------------- MODULE MarketFiles -----------------------------
(***************************************************************************)
(* What the program reads in the reports of the marketplaces and in the    *)
(* exports of JTL: helpers/accounting/accrual, the parsers and the maps    *)
(* they use.  Files and texts are as in Statements.                        *)
(***************************************************************************)
EXTENDS Statements

CONSTANTS
  PartsOf,   \* of words in lower case, the shorter ones that they contain
  AmazonIds  \* the words with the shape of an Amazon order id

Parts(text) ==
  UNION {{w} \cup (IF w \in DOMAIN PartsOf THEN PartsOf[w] ELSE {}) : w \in Range(Lower(text))}

Has(text, pieces) == Parts(text) \cap pieces # {}

\* The first kind of which the text has a piece.
FirstKind(text, kinds, default) ==
  LET i == SelectInSeq(kinds, LAMBDA k : Has(text, k[2]))
  IN IF i = 0 THEN default ELSE kinds[i][1]

----------------------------------------------------------------------------
(* Kinds of rows.                                                          *)

AmazonKind(type) ==
  IF Lower(type) = <<"andere">> THEN "adjustment"
  ELSE FirstKind(type,
    <<<<"fee", {"gebuehr", "fee"}>>,
      <<"refund", {"erstatt", "refund"}>>,
      <<"payout", {"uebertrag", "auszahl", "transfer", "payout"}>>,
      <<"adjustment", {"nicht verfuegbarer", "saldo", "korrektur", "anpass", "adjust"}>>,
      <<"settlement", {"bezahlung", "bestellung", "order"}>>>>, "unknown")

BackMarketKind(key) ==
  IF \/ Has(key, {"sales_fees", "payment_fees", "ccbm_fees", "dp_adjustment_fee"})
     \/ Has(key, {"fee"}) /\ ~Has(key, {"refund"})
  THEN "fee"
  ELSE IF Has(key, {"sales"}) /\ ~Has(key, {"fee"}) THEN "settlement"
  ELSE FirstKind(key, <<<<"adjustment", {"adjust"}>>, <<"payout", {"payout"}>>,
                        <<"refund", {"refund"}>>, <<"fee", {"monthly_fees"}>>>>, "unknown")

RefurbedKind(type) ==
  LET revenue == Has(type, {"revenue"}) IN
  IF Has(type, {"commission"}) THEN "fee"
  ELSE IF revenue /\ Has(type, {"discount"}) THEN "adjustment"
  ELSE IF revenue /\ Has(type, {"reversal"}) THEN "refund"
  ELSE IF Lower(type) = <<"revenue">> THEN "settlement"
  ELSE FirstKind(type, <<<<"fee", {"fee"}>>, <<"refund", {"refund", "reversal"}>>,
                         <<"payout", {"payout", "transfer"}>>, <<"settlement", {"sale"}>>>>, "unknown")

NamesAny(content, words) == \E i \in DOMAIN content : Has(content[i], words)

DetectAmazonReportType(content) ==
  IF NamesAny(content, {"amazon-order-id", "order-status", "merchant-order-id", "purchase-date"})
  THEN "order" ELSE "financial"

DetectBackMarketReportType(content) ==
  IF NamesAny(content, {"order_state", "orderline_state", "date_shipping", "order_price"})
  THEN "order" ELSE "financial"

----------------------------------------------------------------------------
(* Marketplace reports.                                                    *)

NormalizedMarketplaceLine ==
  [marketplace |-> "amazon", kind |-> "order", id |-> <<>>, order |-> <<>>, day |-> 0,
   currency |-> <<"eur">>, cents |-> 0, eur |-> Null, cancelled |-> FALSE, shipped |-> FALSE]

\* A table with the number of each row below its header.
Numbered(table) == [i \in 1..Len(table) - 1 |-> <<i, table[i + 1]>>]

IsAmazonOrderId(text) == Len(text) = 1 /\ text[1] \in AmazonIds

AmazonLine(header, n, cols) ==
  LET Pick(names) == PickColumn(header, cols, names)
      date == Pick(<<"datum", "date", "buchungsdatum">>)
      type == Pick(<<"transaktionstyp", "transaction type", "type">>)
      txn == Pick(<<"transaktionsnummer", "transaction id", "bestellnummer", "order id">>)
      cents == ParseAmountToCents(Pick(<<"summe (eur)", "summe", "amount", "betrag", "gesamt",
                                         "artikelpreise gesamt">>))
      currency == Lower(OrElse(Pick(<<"waehrung", "currency", "wkz">>), <<"eur">>))
      eur == ParseAmountToCents(Pick(<<"summe (eur)", "betrag (eur)", "eur">>))
  IN IF ParseGermanDate(date) = Null \/ cents = Null THEN Null
     ELSE [NormalizedMarketplaceLine EXCEPT
             !.kind = AmazonKind(type), !.id = <<"amazon", OrElse(txn, <<"row">>), type, date>>,
             !.order = IF IsAmazonOrderId(txn) THEN txn ELSE <<>>,
             !.day = ParseGermanDate(date), !.currency = currency, !.cents = cents,
             !.eur = IF eur = Null /\ currency = <<"eur">> THEN cents ELSE eur]

AmazonOrderRow(header, cols) ==
  LET Pick(names) == PickColumn(header, cols, names)
      order == Pick(<<"amazon-order-id", "amazon order id", "bestellnummer", "order-id", "order id">>)
      status == Pick(<<"order-status", "order status", "status">>)
      day == ParseGermanDate(Pick(<<"purchase-date", "purchase date", "last-updated-date", "datum">>))
      cents == ParseAmountToCents(Pick(<<"item-price", "item price", "item-price-tax">>))
  IN IF order = <<>> \/ day = Null THEN Null
     ELSE [order |-> order, day |-> day, cents |-> IF cents = Null THEN 0 ELSE cents,
           currency |-> Lower(OrElse(Pick(<<"currency", "waehrung">>), <<"eur">>)),
           cancelled |-> Has(status, {"cancel"}), shipped |-> Has(status, {"ship", "complete"})]

\* The items of an order are one line; one cancelled item cancels the order.
AmazonOrder(order, items) ==
  LET Some(P(_)) == \E i \in DOMAIN items : P(items[i])
      cancelled == Some(LAMBDA r : r.cancelled)
      cents == FoldLeft(LAMBDA s, r : IF r.cancelled THEN s ELSE s + r.cents, 0, items)
      first == CHOOSE i \in DOMAIN items : \A j \in DOMAIN items : items[i].day <= items[j].day
  IN [NormalizedMarketplaceLine EXCEPT
        !.id = <<"amazon-order", order>>, !.order = order, !.day = items[first].day,
        !.currency = items[1].currency, !.cents = cents, !.cancelled = cancelled,
        !.eur = IF items[1].currency = <<"eur">> THEN cents ELSE Null,
        !.shipped = Some(LAMBDA r : r.shipped) /\ ~cancelled]

ByOrder(rows, orders) ==
  [i \in DOMAIN orders |-> AmazonOrder(orders[i], SelectSeq(rows, LAMBDA r : r.order = orders[i]))]

Grouped(read) ==
  [errors |-> read.errors,
   rows |-> ByOrder(read.rows, Distinct([i \in DOMAIN read.rows |-> read.rows[i].order]))]

AmazonOrders(table) ==
  Grouped(ReadRows(Below(table, 1), LAMBDA cols : AmazonOrderRow(table[1], cols)))

DayOrToday(text) == LET day == ParseGermanDate(text) IN IF day = Null THEN Today ELSE day

BackMarketLine(header, n, cols) ==
  LET Pick(names) == PickColumn(header, cols, names)
      order == Pick(<<"order_id", "order id", "orderid">>)
      key == Pick(<<"invoice_key", "invoice key", "type">>)
      cents == ParseAmountToCents(Pick(<<"amount", "betrag", "value", "total">>))
  IN IF cents = Null THEN Null
     ELSE [NormalizedMarketplaceLine EXCEPT
             !.marketplace = "backmarket", !.kind = BackMarketKind(key), !.order = order,
             !.id = <<"backmarket", OrElse(order, <<"row">>), key, n>>,
             !.day = DayOrToday(Pick(<<"date", "datum", "invoice_date">>)), !.cents = cents,
             !.currency = Lower(OrElse(Pick(<<"currency", "waehrung">>), <<"sek">>))]

\* "0001-01-01" is no day of shipping.
BackMarketOrder(header, cols) ==
  LET Pick(names) == PickColumn(header, cols, names)
      order == Pick(<<"order_id", "order id", "orderid">>)
      shipped == Pick(<<"date_shipping", "shipping_date">>) \notin {<<>>, <<"0001-01-01">>}
      cents == ParseAmountToCents(Pick(<<"order_price", "orderline_price", "amount", "total">>))
  IN IF cents = Null THEN Null
     ELSE [NormalizedMarketplaceLine EXCEPT
             !.marketplace = "backmarket", !.id = <<"bm-order", order>>, !.order = order,
             !.day = DayOrToday(Pick(<<"date_creation", "date_payment", "date_modification", "date">>)),
             !.currency = Lower(OrElse(Pick(<<"currency", "waehrung">>), <<"eur">>)), !.cents = cents,
             !.cancelled = Pick(<<"canceled_by", "cancelled_by">>) # <<>> /\ ~shipped]

\* The first row of each order; rows of no order are passed over.
BackMarketOrders(table) ==
  LET OrderAt(i) == PickColumn(table[1], table[i], <<"order_id", "order id", "orderid">>)
      firsts == {i \in 2..Len(table) : OrderAt(i) # <<>> /\ \A j \in 2..i - 1 : OrderAt(j) # OrderAt(i)}
  IN ReadRows(SelectSeq(Numbered(table), LAMBDA row : row[1] + 1 \in firsts),
              LAMBDA row : BackMarketOrder(table[1], row[2]))

RefurbedLine(header, n, cols) ==
  LET Pick(names) == PickColumn(header, cols, names)
      txn == Pick(<<"transaction_id", "transaction id", "id">>)
      order == Pick(<<"order_id", "order id">>)
      cents == ParseAmountToCents(Pick(<<"amount", "betrag", "value", "total">>))
  IN IF cents = Null THEN Null
     ELSE [NormalizedMarketplaceLine EXCEPT
             !.marketplace = "refurbed", !.order = order, !.cents = cents,
             !.kind = RefurbedKind(Pick(<<"type", "transaction_type", "description">>)),
             !.id = <<"refurbed", txn, IF txn = <<>> THEN <<order, n>> ELSE <<>>>>,
             !.day = DayOrToday(Pick(<<"date", "datum", "created_at", "transaction_at", "order_at">>)),
             !.currency = Lower(OrElse(Pick(<<"currency", "waehrung", "amount_currency">>), <<"eur">>))]

Lines(table, Read(_, _, _)) ==
  ReadRows(Numbered(table), LAMBDA row : Read(table[1], row[1], row[2]))

\* getMarketplaceParser
MarketplaceParser(channel, kind, table) ==
  CASE channel = "amazon" /\ kind = "order" -> AmazonOrders(table)
    [] channel = "amazon" /\ kind # "order" -> Lines(table, AmazonLine)
    [] channel = "backmarket" /\ kind = "order" -> BackMarketOrders(table)
    [] channel = "backmarket" /\ kind # "order" -> Lines(table, BackMarketLine)
    [] channel = "refurbed" -> Lines(table, RefurbedLine)

Empty == [rows |-> <<>>, errors |-> 1]

ParseLines(channel, kind, table) ==
  IF Len(table) < 2 THEN Empty ELSE MarketplaceParser(channel, kind, table)

ParseMarketplace(channel, kind, content) ==
  ParseLines(channel, kind, ParseCsv(content, DetectDelimiter(content)))

----------------------------------------------------------------------------
(* JTL.                                                                    *)

DetectRecordType(text) ==
  FirstKind(text, <<<<"invoice_correction", {"korrektur", "correction", "storno"}>>,
                    <<"invoice", {"rechnung", "invoice"}>>,
                    <<"order", {"auftrag", "order"}>>>>, "sale")

IsJtlChannelReview(shop) == Lower(shop) \in {<<"pruefen">>, <<"prufen">>}

ShopAliases ==
  <<<<"amazon", {"amazon", "amzn"}>>, <<"backmarket", {"backmarket", "back market"}>>,
    <<"refurbed", {"refurbed"}>>, <<"kaufland", {"kaufland", "buyback"}>>>>

MapJtlShopToMarketplace(shop) ==
  IF shop = <<>> \/ IsJtlChannelReview(shop) THEN Null ELSE FirstKind(shop, ShopAliases, Null)

ResolveJtlMarketplace(shop, external) ==
  IF IsJtlChannelReview(shop) THEN Null
  ELSE IF MapJtlShopToMarketplace(shop) # Null THEN MapJtlShopToMarketplace(shop)
  ELSE IF IsAmazonOrderId(external) THEN "amazon" ELSE Null

JtlRow(header, n, cols) ==
  LET Pick(names) == PickColumn(header, cols, names)
      invoice == Pick(<<"rechnungsnummer", "invoice", "invoice_number", "rechnung">>)
      credit == Pick(<<"gutschriftsnummer", "gutschrift">>)
      number == OrElse(invoice, credit)
      related == Pick(<<"bezug rechnungsnummer", "bezug_rechnungsnummer", "original_invoice",
                        "originalrechnung">>)
      order == Pick(<<"auftragsnummer", "order_id", "order", "bestellnummer">>)
      external == Pick(<<"marketplace_order_id", "marktplatz_bestellnummer", "amazon_bestellnummer",
                         "externe_bestellnummer", "externe_belegnummer", "external_order_id",
                         "externe belegnummer", "externe bestellnummer">>)
      shop == PickFirstNonEmpty(header, cols,
                <<"shop", "marktplatz", "kanal", "channel", "verkaufskanal", "plattform">>)
      type == Pick(<<"typ", "type", "belegtyp">>)
      invoiced == ParseGermanDate(Pick(<<"rechnungsdatum", "invoice_date", "erstelldatum_rechnung",
                                         "erstelldatum rechnung", "erstelldatum", "datum">>))
      ordered == ParseGermanDate(Pick(<<"auftragsdatum", "order_date", "erstelldatum_bestellung",
                                        "erstelldatum bestellung">>))
      gross == ParseAmountToCents(Pick(<<"brutto", "gross", "gesamt", "gesamtbetrag", "brutto-vk">>))
      net == ParseAmountToCents(Pick(<<"netto", "net", "net_amount">>))
  IN [kind |-> CASE type # <<>> -> DetectRecordType(type)
                 [] type = <<>> /\ (credit # <<>> \/ related # <<>>) -> "invoice_correction"
                 [] type = <<>> /\ credit = <<>> /\ related = <<>> ->
                      IF invoice # <<>> THEN "invoice"
                      ELSE IF order # <<>> \/ external # <<>> THEN "order" ELSE "sale",
      id |-> IF number # <<>> THEN <<"jtl", number, <<>>, 0>>
             ELSE IF external # <<>> /\ order # <<>> THEN <<"jtl", order, external, n>>
             ELSE IF order # <<>> THEN <<"jtl", order, <<>>, 0>> ELSE <<"jtl", <<>>, <<>>, n>>,
      number |-> number, related |-> related, order |-> external,
      marketplace |-> ResolveJtlMarketplace(shop, external), channel |-> shop,
      review |-> IsJtlChannelReview(shop), tax |-> Pick(<<"steuerschluessel">>),
      day |-> IF invoiced # Null THEN invoiced ELSE ordered,
      cents |-> IF gross # Null THEN gross ELSE IF net # Null THEN net ELSE 0,
      currency |-> Lower(OrElse(Pick(<<"waehrung", "currency", "auftragswaehrung">>), <<"eur">>))]

ParseJtlTable(table) == IF Len(table) < 2 THEN Empty ELSE Lines(table, JtlRow)

ParseJtlCsv(content) == ParseJtlTable(ParseCsv(content, DetectDelimiter(content)))

WorksheetLooksLikeJtl(header) ==
  \E i \in DOMAIN header :
    Has(header[i], {"rechnungsnummer", "gutschriftsnummer", "auftragsnummer", "bestellnummer",
                    "externe belegnummer"})

\* A workbook is the sequence of its sheets.
ParseJtlXlsx(sheets) ==
  LET i == SelectInSeq(sheets, LAMBDA s : /\ ~Has(s.name, {"hinweis", "regel"})
                                          /\ Len(s.table) >= 2
                                          /\ WorksheetLooksLikeJtl(s.table[1]))
  IN IF i = 0 THEN Empty ELSE ParseJtlTable(sheets[i].table)

=============================================================================
