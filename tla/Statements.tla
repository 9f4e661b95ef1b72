----------------------------- MODULE Statements -----------------------------
(***************************************************************************)
(* What the program reads in the bank's and PayPal's files:                *)
(* helpers/accounting/csv.util.ts, bank-parser.ts and paypal-parser.ts.    *)
(*                                                                         *)
(* A file is a sequence of lines, a line one of tokens: the separators,    *)
(* and words.  A cell, and any other text, is a sequence of words; a       *)
(* header's name is one word, and so is a doubled quote inside a quoted    *)
(* cell.  What a word looks like matters only where the code looks into    *)
(* it: AmountOf, DateOf and TimeOf take words apart.                       *)
(***************************************************************************)
EXTENDS Integers, SequencesExt

CONSTANTS
  Null,
  LowerOf,   \* of the words with capital letters, the same in lower case
  Symbols,   \* the words of which normalizePurpose leaves nothing
  AmountOf,  \* [neg, whole, cents, group, point] of a word that is an amount
  DateOf,    \* [y, m, d], or [serial], of a word that is a date
  TimeOf,    \* minutes of a word that is a time of day
  Today      \* the day on which the files are read

ASSUME TextsAssumption ==
  /\ \A w \in DOMAIN AmountOf : AmountOf[w].group \in {"", ".", ","} /\ AmountOf[w].cents < 100
  /\ \A w \in DOMAIN TimeOf : TimeOf[w] < 1440

NewLine == "\n"
Tab == "\t"
Quote == "\""

Lower(text) == [i \in DOMAIN text |->
  IF text[i] \in DOMAIN LowerOf THEN LowerOf[text[i]] ELSE text[i]]

\* text.includes(words)
Includes(text, words) ==
  words = <<>> \/ \E i \in DOMAIN text :
    i + Len(words) - 1 <= Len(text) /\ SubSeq(text, i, i + Len(words) - 1) = words

\* text.toUpperCase(), of words that have but one form with capital letters
Upper(text) == [i \in DOMAIN text |->
  IF \E w \in DOMAIN LowerOf : LowerOf[w] = text[i]
  THEN CHOOSE w \in DOMAIN LowerOf : LowerOf[w] = text[i] ELSE text[i]]

OrElse(text, other) == IF text = <<>> THEN other ELSE text

----------------------------------------------------------------------------
(* Amounts and dates.                                                      *)

\* The digits as parseFloat gets them: with both separators the dots go and
\* the comma becomes the point, so 1,234.56 is 1.23456; one separator alone is
\* taken for the decimal point, so 1.234 is 1.234.
CentsOf(a) ==
  LET high == a.whole \div 1000
      low == a.whole % 1000
  IN IF a.group = "" \/ (a.group = "." /\ a.point = ",")
     THEN a.whole * 100 + a.cents
     ELSE IF a.point = "" THEN high * 100 + (low + 5) \div 10
     ELSE high * 100 + (low * 100 + a.cents + 500) \div 1000

ParseAmountToCents(cell) ==
  IF Len(cell) = 1 /\ cell[1] \in DOMAIN AmountOf
  THEN LET a == AmountOf[cell[1]] IN IF a.neg THEN -CentsOf(a) ELSE CentsOf(a)
  ELSE Null

\* Days since 1899-12-30, as Excel counts them.
DayNumber(y, m, d) ==
  LET c == IF m <= 2 THEN y - 1 ELSE y
  IN 365 * c + c \div 4 - c \div 100 + c \div 400
       + (153 * ((m + 9) % 12) + 2) \div 5 + d - 1 - 693899

ParseGermanDate(cell) ==
  IF Len(cell) # 1 \/ cell[1] \notin DOMAIN DateOf THEN Null
  ELSE LET date == DateOf[cell[1]] IN
       IF "serial" \notin DOMAIN date THEN DayNumber(date.y, date.m, date.d)
       ELSE IF date.serial \in 20000..80000 THEN date.serial
       ELSE DayNumber(date.serial, 1, 1)  \* new Date of five digits is a year

----------------------------------------------------------------------------
(* Tables.                                                                 *)

DetectDelimiter(content) ==
  LET lines == SelectSeq(content, LAMBDA l : l # <<>>)
      Count(c) == IF lines = <<>> THEN 0 ELSE Len(SelectSeq(lines[1], LAMBDA x : x = c))
  IN IF Count(Tab) > 0 /\ Count(Tab) >= Count(";") /\ Count(Tab) >= Count(",") THEN Tab
     ELSE IF Count(";") >= Count(",") THEN ";" ELSE ","

Characters(content) == FlattenSeq([i \in DOMAIN content |-> Append(content[i], NewLine)])

\* A doubled quote is a word, so that a quote always opens or closes; inside
\* quotes the end of a line is one of the characters of the cell.
Quoted(text, i) == Cardinality({j \in 1..i : text[j] = Quote}) % 2 = 1

\* The places of the separators, of the beginning and of the end.
Ends(text, separators) ==
  <<0>> \o SelectSeq([i \in DOMAIN text |-> i], LAMBDA i : text[i] \in separators /\ ~Quoted(text, i))
        \o <<Len(text) + 1>>

\* What is between two neighbours among them.
Pieces(ends, Piece(_, _)) == [k \in 1..Len(ends) - 1 |-> Piece(ends[k], ends[k + 1])]

ParseCsv(content, delim) ==
  LET text == Characters(content)
      cells == Ends(text, {delim, NewLine})
      Cell(from, to) == SelectSeq(SubSeq(text, from + 1, to - 1), LAMBDA ch : ch # Quote)
      Row(from, to) == Pieces(SelectSeq(cells, LAMBDA i : i \in from..to), Cell)
  IN SelectSeq(Pieces(Ends(text, {NewLine}), Row), LAMBDA r : \E i \in DOMAIN r : r[i] # <<>>)

\* headerIndexMap keeps the last column of a name; 0 if there is none.
ColumnOf(header, name) == SelectLastInSeq(header, LAMBDA h : Lower(h) = <<name>>)

\* The first of the names that the header has, even if its cell is blank.
PickColumn(header, row, names) ==
  LET i == SelectInSeq(names, LAMBDA a : ColumnOf(header, a) \in DOMAIN row)
  IN IF i = 0 THEN <<>> ELSE row[ColumnOf(header, names[i])]

PickFirstNonEmpty(header, row, names) ==
  LET i == SelectInSeq(names, LAMBDA a : ColumnOf(header, a) \in DOMAIN row
                                           /\ row[ColumnOf(header, a)] # <<>>)
  IN IF i = 0 THEN <<>> ELSE row[ColumnOf(header, names[i])]

Mentions(row, word) == \E i \in DOMAIN row : Includes(Lower(row[i]), <<word>>)

\* The first of the first n rows that looks like a header, else the first.
HeaderIndex(table, n, IsHeader(_)) ==
  LET i == SelectInSeq(SubSeq(table, 1, IF n < Len(table) THEN n ELSE Len(table)), IsHeader)
  IN IF i = 0 THEN 1 ELSE i

Below(table, i) == SubSeq(table, i + 1, Len(table))

\* One row at a time, Null for a row that goes to the errors.
ReadRows(body, Read(_)) ==
  LET read == [i \in DOMAIN body |-> Read(body[i])]
      rows == SelectSeq(read, LAMBDA r : r # Null)
  IN [rows |-> rows, errors |-> Len(body) - Len(rows)]

NormalizePurpose(text) == SelectSeq(Lower(text), LAMBDA w : w \notin Symbols)

----------------------------------------------------------------------------
(* The bank's file.                                                        *)

\* Broken: the purpose is left out.
BankFingerprintShort(row) == <<"bank", row.day, row.cents, Lower(row.iban), Lower(row.name)>>

BankFingerprint(row) ==
  <<"bank", row.day, row.cents, Lower(row.iban), Lower(row.name), NormalizePurpose(row.purpose)>>

ParsedRow == [source |-> "bank", day |-> 0, time |-> 0, cents |-> 0, name |-> <<>>,
  iban |-> <<>>, email |-> <<>>, purpose |-> <<>>, article |-> <<>>, subject |-> <<>>,
  note |-> <<>>, raw |-> <<>>, type |-> <<>>, fee |-> Null, balance |-> Null,
  bookability |-> "bookable", fingerprint |-> <<>>]

BankRow(header, cols) ==
  LET Pick(names) == PickColumn(header, cols, names)
      day == ParseGermanDate(Pick(<<"buchungstag", "buchungsdatum", "datum", "date", "wertstellung">>))
      cents == ParseAmountToCents(Pick(<<"betrag", "umsatz", "amount">>))
      currency == OrElse(Pick(<<"waehrung", "currency">>), <<"eur">>)
      name == Pick(<<"name zahlungsbeteiligter", "empfaenger", "auftraggeber", "name", "counterparty">>)
      purpose == Pick(<<"verwendungszweck", "buchungstext", "purpose", "description">>)
      row == [ParsedRow EXCEPT
                !.day = day, !.cents = cents, !.name = name, !.purpose = purpose,
                !.iban = Pick(<<"iban", "iban zahlungsbeteiligter", "konto/iban", "kontonummer/iban">>),
                !.raw = Pick(<<"buchungstext", "umsatzart", "vorgang">>) \o purpose \o name]
  IN IF day = Null \/ cents = Null \/ Lower(currency) # <<"eur">> THEN Null
     ELSE [row EXCEPT !.fingerprint = BankFingerprint(row)]

IsBankHeader(row) ==
  \/ Mentions(row, "buchungstag")
  \/ Mentions(row, "valuta")
  \/ Mentions(row, "betrag") /\ Mentions(row, "verwendungszweck")

ParseBankCsv(content) ==
  LET table == ParseCsv(content, ";")
      h == HeaderIndex(table, 15, IsBankHeader)
  IN IF Len(table) < 2 THEN [rows |-> <<>>, errors |-> 1, matched |-> Null]
     ELSE [matched |-> Null] @@ ReadRows(Below(table, h), LAMBDA r : BankRow(table[h], r))

----------------------------------------------------------------------------
(* PayPal's file.                                                          *)

PaypalFingerprint(code, fallback) == IF code # <<>> THEN <<"paypal", code>> ELSE <<"paypal", "fallback", fallback>>

IsExcludedType(type, policy) == \E t \in policy.paypalExcludeTypes : Lower(type) = Lower(t)

\* Without a list in the policy its default applies: Classification!DefaultPolicy.
Distinct(texts) == FoldLeft(LAMBDA kept, t : IF t = <<>> \/ Contains(kept, t) THEN kept
                                              ELSE Append(kept, t), <<>>, texts)

PaypalRow(header, cols, policy) ==
  LET Pick(names) == PickColumn(header, cols, names)
      First(names) == PickFirstNonEmpty(header, cols, names)
      gross == ParseAmountToCents(Pick(<<"brutto", "gross", "betrag", "amount">>))
      euro == ParseAmountToCents(Pick(<<"brutto in euro", "gross in euro">>))
      foreign == Lower(OrElse(Pick(<<"waehrung", "currency">>), <<"eur">>)) # <<"eur">>
      cents == IF foreign THEN euro ELSE gross
      date == Pick(<<"datum", "date">>)
      time == Pick(<<"uhrzeit", "time">>)
      name == Pick(<<"name", "name des kaeufers", "absender", "empfaenger">>)
      type == Pick(<<"typ", "type">>)
      article == First(<<"artikelbezeichnung", "article title">>)
      subject == First(<<"betreff", "subject">>)
      note == First(<<"hinweis", "note">>)
      purpose == FlattenSeq(Distinct(<<article, subject, note>>))
      code == Pick(<<"transaktionscode", "transaction id", "transactionid">>)
  IN IF ParseGermanDate(date) = Null \/ cents = Null THEN Null
     ELSE [ParsedRow EXCEPT
             !.source = "paypal", !.day = ParseGermanDate(date), !.cents = cents,
             !.time = IF Len(time) = 1 /\ time[1] \in DOMAIN TimeOf THEN TimeOf[time[1]] ELSE 0,
             !.name = name, !.type = type, !.article = article, !.subject = subject, !.note = note,
             !.email = Pick(<<"absender e-mail-adresse", "empfaenger e-mail-adresse",
                              "from email address", "to email address", "e-mail">>),
             !.purpose = OrElse(purpose, type), !.raw = type \o purpose,
             !.fee = ParseAmountToCents(Pick(<<"gebuehr", "fee">>)),
             !.balance = ParseAmountToCents(Pick(<<"guthaben", "balance", "available balance">>)),
             !.fingerprint = PaypalFingerprint(code, <<date, cents, name, type>>),
             !.bookability = IF policy.enabled.s1ExcludePaypalTypes /\ IsExcludedType(type, policy)
                             THEN "skipped" ELSE "bookable"]

\* Broken: the fee is forgotten.
GrossDelta(row) == row.cents

RowDelta(row) == row.cents + (IF row.fee = Null THEN 0 ELSE row.fee)

Moment(row) == row.day * 1440 + row.time

\* Of rows of one time the first in the file is both the newest and the oldest.
Newest(rows) ==
  CHOOSE i \in DOMAIN rows : \A j \in DOMAIN rows :
    Moment(rows[j]) < Moment(rows[i]) \/ (Moment(rows[j]) = Moment(rows[i]) /\ i <= j)
Oldest(rows) ==
  CHOOSE i \in DOMAIN rows : \A j \in DOMAIN rows :
    Moment(rows[j]) > Moment(rows[i]) \/ (Moment(rows[j]) = Moment(rows[i]) /\ i <= j)

\* The balance of the newest row is to be that before the oldest one plus what
\* every row has moved.
Agrees(rows, newest, oldest) ==
  LET expected == IF newest.balance # Null THEN newest.balance ELSE rows[1].balance
  IN IF oldest.balance = Null \/ expected = Null THEN Null
     ELSE oldest.balance - RowDelta(oldest)
            + FoldLeft(LAMBDA s, r : s + RowDelta(r), 0, rows) = expected

BalanceMatches(rows) ==
  IF rows = <<>> THEN Null ELSE Agrees(rows, rows[Newest(rows)], rows[Oldest(rows)])

Demoted(rows, matched, policy) ==
  [i \in DOMAIN rows |->
    IF policy.enabled.s2GuthabenIntegrity /\ matched = FALSE /\ rows[i].bookability = "skipped"
    THEN [rows[i] EXCEPT !.bookability = "balance_only"] ELSE rows[i]]

\* Tables with fewer than five columns are read again with semicolons.
Wider(comma, semicolon) ==
  IF Len(comma) < 2 \/ Len(comma[1]) >= 5 THEN comma
  ELSE IF Len(semicolon) > Len(comma) THEN semicolon
  ELSE IF semicolon # <<>> /\ Len(semicolon[1]) >= Len(comma[1]) THEN semicolon ELSE comma

PaypalTable(content) == Wider(ParseCsv(content, ","), ParseCsv(content, ";"))

IsPaypalHeader(row) ==
  \/ Mentions(row, "datum") /\ \E w \in {"brutto", "netto", "betrag"} : Mentions(row, w)
  \/ Mentions(row, "date") /\ Mentions(row, "gross")

CheckBalance(read, matched, policy) ==
  [rows |-> Demoted(read.rows, matched, policy), errors |-> read.errors, matched |-> matched]

ReadPaypal(table, header, policy) ==
  ReadRows(Below(table, header), LAMBDA r : PaypalRow(table[header], r, policy))

PaypalRows(table, policy) == ReadPaypal(table, HeaderIndex(table, 10, IsPaypalHeader), policy)

Balanced(read, policy) == CheckBalance(read, BalanceMatches(read.rows), policy)

ParseTable(table, policy) ==
  IF Len(table) < 2 THEN [rows |-> <<>>, errors |-> 1, matched |-> Null]
  ELSE Balanced(PaypalRows(table, policy), policy)

ParsePaypalCsv(content, policy) == ParseTable(PaypalTable(content), policy)

=============================================================================
