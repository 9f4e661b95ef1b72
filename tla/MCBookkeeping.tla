---------------------------- MODULE MCBookkeeping ----------------------------
(* Two bank statements and two of PayPal, each pair with a payment in both,   *)
(* and eight reports of marketplaces and JTL, of which some overlap.          *)
EXTENDS Bookkeeping

CONSTANTS bank1, bank2, paypal1, paypal2, none

Day1 == DayNumber(2024, 3, 1)
MCToday == Day1 + 4
MCSourceOf == [f \in CashFiles |-> IF f \in {bank1, bank2} THEN "bank" ELSE "paypal"]

Eur(neg, whole, cents) == [neg |-> neg, whole |-> whole, cents |-> cents, group |-> "", point |-> ","]
MCAmountOf ==
  [w \in {"50,00", "60,00", "30,00", "5,00", "105,00", "163,00", "113,00", "73,00", "103,00"} |->
     CASE w = "50,00" -> Eur(FALSE, 50, 0)   [] w = "60,00" -> Eur(FALSE, 60, 0)
       [] w = "30,00" -> Eur(FALSE, 30, 0)   [] w = "5,00" -> Eur(FALSE, 5, 0)
       [] w = "105,00" -> Eur(FALSE, 105, 0) [] w = "163,00" -> Eur(FALSE, 163, 0)
       [] w = "113,00" -> Eur(FALSE, 113, 0) [] w = "73,00" -> Eur(FALSE, 73, 0)
       [] w = "103,00" -> Eur(FALSE, 103, 0)] @@
  [w \in {"-10,00", "-1.234,00", "-30,00", "-20,00", "-2,00", "-50,00", "-40,00"} |->
     CASE w = "-10,00" -> Eur(TRUE, 10, 0)   [] w = "-30,00" -> Eur(TRUE, 30, 0)
       [] w = "-20,00" -> Eur(TRUE, 20, 0)   [] w = "-2,00" -> Eur(TRUE, 2, 0)
       [] w = "-50,00" -> Eur(TRUE, 50, 0)   [] w = "-40,00" -> Eur(TRUE, 40, 0)
       [] w = "-1.234,00" -> [Eur(TRUE, 1234, 0) EXCEPT !.group = "."]]
MCDateOf == [w \in {"01.03.", "02.03.", "03.03.", "04.03."} |->
  [y |-> 2024, m |-> 3,
   d |-> CASE w = "01.03." -> 1 [] w = "02.03." -> 2 [] w = "03.03." -> 3 [] w = "04.03." -> 4]]
MCTimeOf == [w \in {"08:00", "09:00"} |-> IF w = "08:00" THEN 480 ELSE 540]
MCLowerOf == [w \in {"PayPal", "Amazon", "PS5", "PlayStation", "Xbox", "iPhone", "MacBook", "EUR",
                   "Shipped"} |->
  CASE w = "PayPal" -> "paypal" [] w = "Amazon" -> "amazon" [] w = "PS5" -> "ps5"
    [] w = "PlayStation" -> "playstation" [] w = "Xbox" -> "xbox" [] w = "iPhone" -> "iphone"
    [] w = "MacBook" -> "macbook" [] w = "EUR" -> "eur" [] w = "Shipped" -> "shipped"]

\* The lines of the bank's statements.
Out == <<"buchungstag", ";", "betrag", ";", "waehrung", ";", "name", ";", "verwendungszweck">>
B1 == <<"02.03.", ";", "50,00", ";", ";", "PayPal", "europe", ";", "abbuchung", "von",
  "paypal">>
B2 == <<"02.03.", ";", "-10,00", ";", "EUR", ";", "dhl", ";", "paket", "eins">>
B3 == <<"02.03.", ";", "-10,00", ";", "EUR", ";", "dhl", ";", "paket", "zwei">>
B4 == <<"03.03.", ";", "-1.234,00", ";", "EUR", ";", "laden", ";", Quote, "PS5", ";", "konsole",
  Quote>>
B5 == <<"03.03.", ";", "50,00", ";", "EUR", ";", "Amazon", "payments", ";", "auszahlung">>
B6 == <<"04.03.", ";", "-30,00", ";", "EUR", ";", "PayPal", "europe", ";", "lastschrift">>
B7 == <<"04.03.", ";", "-20,00", ";", "EUR", ";", "kunde", ";", "erstattung">>
B8 == <<"04.03.", ";", "-20,00", ";", "usd", ";", "dhl", ";", "paket">>

\* PayPal's, the newest first.
Columns == <<"datum", ",", "uhrzeit", ",", "name", ",", "typ", ",", "waehrung", ",", "brutto",
  ",", "gebuehr", ",", "guthaben", ",", "transaktionscode", ",", "betreff">>
P1 == <<"01.03.", ",", "08:00", ",", ",", "rueckbuchung", "allgemeiner", "einbehaltung", ",",
  "EUR", ",", "5,00", ",", ",", "105,00", ",", "t1", ",">>
P2 == <<"01.03.", ",", "09:00", ",", "kunde", ",", "zahlung", ",", "EUR", ",", "60,00", ",",
  "-2,00", ",", "163,00", ",", ",">>
P3 == <<"02.03.", ",", "09:00", ",", ",", "abbuchung", "auf", "bankkonto", ",", "EUR", ",",
  "-50,00", ",", ",", "113,00", ",", "t3", ",">>
P4 == <<"03.03.", ",", "09:00", ",", "laden", ",", "zahlung", ",", "EUR", ",", "-40,00", ",",
  ",", "73,00", ",", "t4", ",", "PS5">>
P5 == <<"04.03.", ",", "09:00", ",", ",", "bankgutschrift", ",", "EUR", ",", "30,00", ",", ",",
  "103,00", ",", "t5", ",">>

MCContents == [f \in CashFiles |->
  CASE f = bank1 -> <<Out, B1, B2, B3, B4>>
    [] f = bank2 -> <<Out, B7, B8, B6, B5, B3>>
    [] f = paypal1 -> <<Columns, P3, P2, P1>>
    [] f = paypal2 -> <<Columns, P5, P4, P3>>]

MCPayments == [p \in {"b1", "b2", "b3", "b4", "b5", "b6", "b7", "p1", "p2", "p3", "p4", "p5"} |->
  CASE p = "b1" -> [cents |-> 5000, files |-> {bank1}]
    [] p = "b2" -> [cents |-> -1000, files |-> {bank1}]
    [] p = "b3" -> [cents |-> -1000, files |-> {bank1, bank2}]
    [] p = "b4" -> [cents |-> -123400, files |-> {bank1}]
    [] p = "b5" -> [cents |-> 5000, files |-> {bank2}]
    [] p = "b6" -> [cents |-> -3000, files |-> {bank2}]
    [] p = "b7" -> [cents |-> -2000, files |-> {bank2}]
    [] p = "p1" -> [cents |-> 500, files |-> {paypal1}]
    [] p = "p2" -> [cents |-> 6000, files |-> {paypal1}]
    [] p = "p3" -> [cents |-> -5000, files |-> {paypal1, paypal2}]
    [] p = "p4" -> [cents |-> -4000, files |-> {paypal2}]
    [] p = "p5" -> [cents |-> 3000, files |-> {paypal2}]]
MCTwoEnds == {<<"b1", "p3">>, <<"b6", "p5">>}

Shipping == [id |-> "shipping", enabled |-> TRUE, logic |-> "and", from |-> none, to |-> none,
  conditions |-> {[field |-> "counterpartyName", operator |-> "contains", value |-> <<"dhl">>,
                   caseSensitive |-> FALSE]},
  konto |-> "4910", gegenkonto |-> none, mapped |-> TRUE]
Small == [Shipping EXCEPT !.id = "small", !.logic = "or", !.to = Day1 + 3,
  !.conditions = {[field |-> "amountCents", operator |-> "between", value |-> <<-1500, 0>>,
                   caseSensitive |-> FALSE]}]
MCConfigs == [c \in {"none", "two", "three"} |->
  [policy |-> DefaultPolicy,
   rules |-> CASE c = "none" -> {}
               [] c = "two" -> {Shipping, InventorySeedRule(DefaultPolicy)}
               [] c = "three" -> {Shipping, Small, InventorySeedRule(DefaultPolicy)}]]
MCAssigned == {<<"4910", "1201">>, <<"4910", none>>, <<"1201", "1201">>}
MCPeriods == {[from |-> Day1, to |-> Day1 + 1], [from |-> Day1, to |-> MCToday]}

----------------------------------------------------------------------------
(* The marketplaces: o1 is shipped and invoiced, o2 cancelled, o3 shipped.    *)

MCAmazonIds == {"o1", "o2", "o3"}
MCPartsOf ==
  [w \in {"amazon-order-id", "order-status", "order_id", "order_state", "bestellung", "gebuehren",
          "uebertrag", "saldoausgleich", "erstattung", "shipped", "cancelled", "sales_fees",
          "revenue commission", "auftrag", "rechnungsnummer", "externe belegnummer"} |->
     CASE w = "order_id" -> {"order"}
       [] w = "order_state" -> {"order"}
       [] w = "amazon-order-id" -> {"order"}
       [] w = "order-status" -> {"order"}
       [] w = "bestellung" -> {"bestellung"}
       [] w = "gebuehren" -> {"gebuehr"}
       [] w = "uebertrag" -> {"uebertrag"}
       [] w = "saldoausgleich" -> {"saldo"}
       [] w = "erstattung" -> {"erstatt"}
       [] w = "shipped" -> {"ship"}
       [] w = "cancelled" -> {"cancel"}
       [] w = "sales_fees" -> {"sales", "fee"}
       [] w = "revenue commission" -> {"revenue", "commission"}
       [] w = "auftrag" -> {"auftrag"}
       [] w = "rechnungsnummer" -> {"rechnung"}
       [] w = "externe belegnummer" -> {"belegnummer"}]

OrderColumns == <<"amazon-order-id", Tab, "order-status", Tab, "purchase-date", Tab, "item-price", Tab, "currency">>
Order(o, status, price) == <<o, Tab, status, Tab, "01.03.", Tab, price, Tab, "EUR">>
MoneyColumns == <<"datum", ";", "transaktionstyp", ";", "transaktionsnummer", ";", "summe (eur)">>
Move(txn, type, cents) == <<"02.03.", ";", type, ";", txn, ";", cents>>
FeeO1 == Move("o1", "gebuehren", "-10,00")
AmazonOrdersFile ==
  <<OrderColumns, Order("o1", "Shipped", "30,00"), Order("o2", "cancelled", "50,00"),
    Order("o1", "Shipped", "30,00")>>
LaterOrdersFile ==
  <<OrderColumns, Order("o3", "Shipped", "50,00"), Order("o2", "cancelled", "50,00")>>
AmazonMoneyFile ==
  <<MoneyColumns, Move("o1", "bestellung", "60,00"), FeeO1, Move("u1", "uebertrag", "50,00"),
    Move("o2", "erstattung", "-20,00")>>
LaterMoneyFile ==
  <<MoneyColumns, FeeO1, Move("y", "saldoausgleich", "-2,00"), Move("o3", "bestellung", "50,00"),
    Move("x", "saldoausgleich", "-40,00")>>
BackMarketFile ==
  <<<<"order_id", ",", "invoice_key", ",", "amount", ",", "currency", ",", "date">>,
    <<"m1", ",", "sales", ",", "105,00", ",", "sek", ",", "03.03.">>,
    <<"m1", ",", "sales_fees", ",", "-10,00", ",", "sek", ",", "03.03.">>>>
RefurbedFile ==
  <<<<"transaction_id", ";", "type", ";", "order_id", ";", "amount", ";", "date">>,
    <<"r1", ";", "revenue", ";", "q1", ";", "73,00", ";", "03.03.">>,
    <<"r1", ";", "revenue commission", ";", "q1", ";", "-2,00", ";", "03.03.">>>>
JtlColumns ==
  <<"rechnungsnummer", ";", "auftragsnummer", ";", "externe belegnummer", ";", 
    "shop", ";", "rechnungsdatum", ";", "brutto", ";", "steuerschluessel">>
Invoice(number, order, shop, gross) ==
  number \o <<";", "a", ";", order, ";">> \o shop \o <<";", "03.03.", ";", gross, ";", "3">>
JtlFile ==
  <<JtlColumns, Invoice(<<"i1">>, "o1", <<"Amazon">>, "60,00"), Invoice(<<"i2">>, "o2", <<>>, "50,00"),
    Invoice(<<>>, "m1", <<"backmarket">>, "103,00")>>

\* A sheet has its cells apart.
SheetColumns == <<<<"rechnungsnummer">>, <<"auftragsnummer">>, <<"externe belegnummer">>, 
  <<"shop">>, <<"rechnungsdatum">>, <<"brutto">>, <<"steuerschluessel">>>>
Row(number, order, shop, gross) ==
  <<<<number>>, <<"a">>, <<order>>, <<shop>>, <<"03.03.">>, <<gross>>, <<"3">>>>
JtlSheets ==
  <<[name |-> <<"hinweis">>, table |-> <<>>],
    [name |-> <<"export">>,
     table |-> <<SheetColumns, Row("i1", "o1", "Amazon", "60,00"), Row("i3", "m1", "backmarket", "103,00"),
                 Row("i4", "q1", "refurbed", "73,00")>>]>>

File(channel, content) == [channel |-> channel, report |-> "auto", content |-> content]
MCReports ==
  [f \in {"AO1", "AO2", "AM1", "AM2", "BM", "RF", "JC", "JX"} |->
     CASE f = "AO1" -> File("amazon", AmazonOrdersFile)
       [] f = "AO2" -> File("amazon", LaterOrdersFile)
       [] f = "AM1" -> File("amazon", AmazonMoneyFile)
       [] f = "AM2" -> [File("amazon", LaterMoneyFile) EXCEPT !.report = "financial"]
       [] f = "BM" -> File("backmarket", BackMarketFile)
       [] f = "RF" -> File("refurbed", RefurbedFile)
       [] f = "JC" -> File("jtl", JtlFile)
       [] f = "JX" -> File("xlsx", JtlSheets)]

Deed(cents, files) == [cents |-> cents, files |-> files]
MCDeeds ==
  <<Deed(6000, {"AO1"}), Deed(0, {"AO1", "AO2"}), Deed(5000, {"AO2"}),
    Deed(6000, {"AM1"}), Deed(-1000, {"AM1", "AM2"}), Deed(5000, {"AM1"}), Deed(-2000, {"AM1"}),
    Deed(-200, {"AM2"}), Deed(5000, {"AM2"}), Deed(-4000, {"AM2"}),
    Deed(10500, {"BM"}), Deed(-1000, {"BM"}), Deed(7300, {"RF"}), Deed(-200, {"RF"}),
    Deed(6000, {"JC", "JX"}), Deed(5000, {"JC"}), Deed(10300, {"JC"}), Deed(10300, {"JX"}), Deed(7300, {"JX"})>>
MCRates == (<<<<"sek">>, Day1>> :> 900)
MCFeeVat == "refurbed" :> [rate |-> 7]

MCParse == ParseAll
MCFound == FindAll
MCReading == ReadReports
=============================================================================
