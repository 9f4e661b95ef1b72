--------------------------- MODULE Classification ---------------------------
(***************************************************************************)
(* How a transaction is classified: the system policies S1 to S15          *)
(* (helpers/accounting/system-policies.ts and their defaults) and the      *)
(* engine for human rules (rule-engine.ts).                                *)
(*                                                                         *)
(* A regular expression is a pattern: the words to be found, with "*" for  *)
(* a gap.  Rules and conditions are sets, since no order decides.          *)
(***************************************************************************)
EXTENDS Statements

CONSTANT BrokenPatterns  \* the texts that are no regular expression

Finds(pattern, text) ==
  LET gap == SelectInSeq(pattern, LAMBDA w : w = "*") IN
  IF gap = 0 THEN Includes(text, pattern)
  ELSE \E i \in 0..Len(text) :
         /\ Includes(SubSeq(text, 1, i), SubSeq(pattern, 1, gap - 1))
         /\ Includes(SubSeq(text, i + 1, Len(text)), SubSeq(pattern, gap + 1, Len(pattern)))

\* compilePatterns drops what is blank or does not compile, and ignores case.
AnyFinds(patterns, text) ==
  \E p \in patterns \ (BrokenPatterns \cup {<<>>}) : Finds(Lower(p), Lower(text))

----------------------------------------------------------------------------
(* System policies.                                                        *)

DefaultPolicy == [
  accounts |-> [bank |-> "1201", paypal |-> "1203", clearing |-> "1361",
                privateInventory |-> "3349", forbiddenCollectives |-> {"10001", "70002"}],
  enabled |-> [s1ExcludePaypalTypes |-> TRUE, s2GuthabenIntegrity |-> TRUE,
               s5BankPaypalClearing |-> TRUE, s9MarketplacePark |-> TRUE,
               s10CommercialVatPark |-> TRUE, s11OwnerRelatedPark |-> TRUE,
               s12ForbiddenCollectives |-> TRUE, s15Inventory |-> TRUE],
  paypalExcludeTypes |-> {<<"rueckbuchung", "allgemeiner", "einbehaltung">>,
                          <<"einbehaltung", "fuer", "offene", "autorisierung">>,
                          <<"rueckbuchung", "von", "ach-gutschrift">>,
                          <<"rueckbuchung", "von", "ach-abbuchung">>},
  marketplacePatterns |-> {<<"amazon", "payments">>, <<"amazon", "marketplace">>, <<"amzn">>,
                           <<"refurbed">>, <<"back", "market">>, <<"kaufland">>, <<"ebay">>,
                           <<"paypal", "marketplace">>},
  bankPaypalCounterpartyPatterns |-> {<<"paypal">>},
  bankPaypalPurposePatterns |-> {<<"bankgutschrift">>, <<"ueberweisung", "als", "zahlungsquelle">>,
                                 <<"abbuchung", "von", "paypal">>, <<"paypal", "*", "transfer">>,
                                 <<"transfer", "*", "paypal">>, <<"geld", "senden">>,
                                 <<"allgemeine", "abbuchung">>, <<"allgemeine", "gutschrift">>},
  paypalBankTransferTypePatterns |-> {<<"bankgutschrift">>, <<"ueberweisung", "als", "zahlungsquelle">>,
                                      <<"abbuchung", "auf", "bankkonto">>, <<"transfer", "to", "bank">>,
                                      <<"bank", "transfer">>},
  ownerRelatedPatterns |-> {<<"privatentnahme">>, <<"privateinlage">>, <<"eigentuemer">>,
                            <<"gesellschafter">>, <<"inhaber">>, <<"eigenkapital">>},
  commercialVatHints |-> {<<"ust-id">>, <<"umsatzsteuer">>, <<"mwst">>, <<"vat", "id">>, <<"rechnung", "nr">>},
  inventoryKeywords |-> {<<"PS5">>, <<"PlayStation">>, <<"Xbox">>, <<"iPhone">>, <<"MacBook">>}]

NoBooking == [konto |-> Null, gegenkonto |-> Null, side |-> Null]
Unmatched(status) == [status |-> status, booking |-> NoBooking, system |-> FALSE, ruleIds |-> {}]

\* Soll for money that leaves.
SideOf(row) == IF row.cents < 0 THEN "S" ELSE "H"

DefaultGegenkonto(source, policy) ==
  IF source = "paypal" THEN policy.accounts.paypal ELSE policy.accounts.bank

IsForbidden(konto, policy) ==
  policy.enabled.s12ForbiddenCollectives /\ konto \in policy.accounts.forbiddenCollectives

Described(row) == row.name \o row.purpose \o row.raw

\* S9.  Subject and note are looked for in fields no caller sets.
IsMarketplacePayout(row, policy) ==
  /\ policy.enabled.s9MarketplacePark
  /\ AnyFinds(policy.marketplacePatterns, Described(row) \o row.article)

\* Broken: the type of PayPal's row is not asked for.
IsNamedTransfer(row, policy) ==
  /\ policy.enabled.s5BankPaypalClearing
  /\ \/ AnyFinds(policy.bankPaypalPurposePatterns, Described(row))
     \/ row.source = "bank" /\ AnyFinds(policy.bankPaypalCounterpartyPatterns, row.name)

\* S5: of PayPal's own rows also those with these words in lower case.
IsBankPaypalTransfer(row, policy) ==
  LET hay == Described(row) \o row.type
      Has(w) == Includes(hay, <<w>>)
  IN /\ policy.enabled.s5BankPaypalClearing
     /\ \/ AnyFinds(policy.bankPaypalPurposePatterns, hay)
        \/ row.source = "bank" /\ AnyFinds(policy.bankPaypalCounterpartyPatterns, row.name)
        \/ /\ row.source = "paypal"
           /\ \/ AnyFinds(policy.paypalBankTransferTypePatterns, row.type)
              \/ Has("paypal") /\ Has("bank") /\ (Has("gutschrift") \/ Has("abbuchung"))

ClearingBooking(row, policy) ==
  [konto |-> policy.accounts.clearing,
   gegenkonto |-> DefaultGegenkonto(row.source, policy),
   side |-> SideOf(row)]

RefundWords == {<<"rueckzahlung">>, <<"erstattung">>, <<"refund">>, <<"chargeback">>, <<"rueckbuchung">>}

\* Refunds, S11 and S10.
NeedsHuman(row, policy) ==
  LET hay == Described(row) \o row.article \o row.type IN
  \/ \E w \in RefundWords : Includes(Lower(hay), w)
  \/ policy.enabled.s11OwnerRelatedPark /\ AnyFinds(policy.ownerRelatedPatterns, hay)
  \/ policy.enabled.s10CommercialVatPark /\ AnyFinds(policy.commercialVatHints, hay)

----------------------------------------------------------------------------
(* Human rules.                                                            *)

FieldText(row, field) ==
  CASE field = "purpose" -> row.purpose \o row.article \o row.subject \o row.note
    [] field = "counterpartyName" -> row.name
    [] field = "counterpartyIban" -> row.iban
    [] field = "counterpartyEmail" -> row.email
    [] field = "source" -> <<row.source>>
    [] field = "txnType" -> row.type
    [] field = "direction" -> <<IF row.cents < 0 THEN "out" ELSE "in">>
    [] field = "rawDescription" -> row.raw
    [] field = "article" -> row.article
    [] field = "paypalSubject" -> row.subject
    [] field = "paypalNote" -> row.note
    [] OTHER -> <<>>

MatchText(text, words, operator, caseSensitive) ==
  LET hay == IF caseSensitive THEN text ELSE Lower(text)
      needle == IF caseSensitive THEN words ELSE Lower(words)
  IN CASE operator = "contains" -> Includes(hay, needle)
       [] operator \in {"not_contains", "does_not_contain"} -> ~Includes(hay, needle)
       [] operator = "starts_with" -> IsPrefix(needle, hay)
       [] operator = "ends_with" -> IsSuffix(needle, hay)
       [] operator \in {"exact", "eq"} -> hay = needle
       [] operator = "regex" -> words \notin BrokenPatterns /\ Finds(needle, hay)
       [] OTHER -> FALSE

AmountMatches(amount, operator, value) ==
  CASE operator = "eq" -> amount = value
    [] operator = "lt" -> amount < value
    [] operator = "lte" -> amount <= value
    [] operator = "gt" -> amount > value
    [] operator = "gte" -> amount >= value
    [] operator = "between" -> value[1] <= amount /\ amount <= value[2]
    [] OTHER -> FALSE

ConditionMatches(row, c) ==
  LET text == FieldText(row, c.field)
      whole == c.field \in {"source", "direction", "txnType"}
  IN CASE c.operator \in {"is_empty", "is_null"} -> c.field # "amountCents" /\ text = <<>>
       [] c.operator = "is_not_empty" -> c.field = "amountCents" \/ text # <<>>
       [] c.operator = "is_negative" -> row.cents < 0
       [] c.operator = "is_positive" -> row.cents > 0
       [] OTHER ->
            IF c.field = "amountCents" THEN AmountMatches(row.cents, c.operator, c.value)
            ELSE IF c.operator = "any_of"
            THEN \E v \in c.value :
                   MatchText(text, v, IF whole THEN "exact" ELSE "contains", c.caseSensitive)
            ELSE IF c.operator = "all_of" /\ ~whole
            THEN \A v \in c.value : MatchText(text, v, "contains", c.caseSensitive)
            ELSE MatchText(text, c.value, c.operator, c.caseSensitive)

RuleActive(rule, day) ==
  (rule.from # Null => rule.from <= day) /\ (rule.to # Null => day <= rule.to)

RuleMatches(row, rule, day) ==
  /\ rule.enabled
  /\ RuleActive(rule, day)
  /\ rule.conditions # {}
  /\ IF rule.logic = "or" THEN \E c \in rule.conditions : ConditionMatches(row, c)
     ELSE \A c \in rule.conditions : ConditionMatches(row, c)

OneRule(row, rule, policy) ==
  LET contra == IF rule.mapped \/ rule.gegenkonto = Null
                THEN DefaultGegenkonto(row.source, policy) ELSE rule.gegenkonto
  IN IF \E k \in {rule.konto, contra} : k = Null \/ IsForbidden(k, policy)
     THEN Unmatched("open")
     ELSE [status |-> "matched", ruleIds |-> {rule.id}, system |-> FALSE,
           booking |-> [konto |-> rule.konto, gegenkonto |-> contra, side |-> SideOf(row)]]

ApplyHumanRules(row, rules, policy, day) ==
  LET matched == {r \in rules : RuleMatches(row, r, day)} IN
  IF matched = {} THEN Unmatched("open")
  ELSE IF Cardinality(matched) >= 2
  THEN [Unmatched("conflict") EXCEPT !.ruleIds = {r.id : r \in matched}]
  ELSE OneRule(row, CHOOSE r \in matched : TRUE, policy)

\* S15: purchases of goods are paid from the account the payment came from.
AdjustInventory(verdict, source, policy) ==
  IF policy.enabled.s15Inventory /\ verdict.booking.konto = policy.accounts.privateInventory
  THEN [verdict EXCEPT !.booking.gegenkonto = DefaultGegenkonto(source, policy)]
  ELSE verdict

\* The rule that seedOptional adds: Settings!CreateSeed.
InventorySeedRule(policy) ==
  [id |-> "seed", enabled |-> TRUE, logic |-> "and", from |-> Null, to |-> Null,
   conditions |-> {[field |-> "rawDescription", operator |-> "any_of",
                    value |-> policy.inventoryKeywords, caseSensitive |-> FALSE],
                   [field |-> "amountCents", operator |-> "is_negative",
                    value |-> Null, caseSensitive |-> FALSE]},
   konto |-> policy.accounts.privateInventory, gegenkonto |-> policy.accounts.bank,
   mapped |-> FALSE]

=============================================================================
