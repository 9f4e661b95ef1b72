------------------------------ MODULE RuleBook ------------------------------
(***************************************************************************)
(* The rules a human writes and the suggestions they are made from:        *)
(* services/accounting/rule.service.ts and suggestion.service.ts.          *)
(*                                                                         *)
(* Every operation reads and then writes, without a version check between. *)
(* A request is the record req[r]: pc names the call it makes next.        *)
(* Settings extends this module with what rules share with the policies.   *)
(***************************************************************************)
EXTENDS Naturals, Sequences

CONSTANTS
  Requests, None,
  Konten,       \* account numbers
  Entered,      \* bound: those among them that users enter
  RuleIds, SuggestionIds,
  FirstRules,   \* the rules there are initially
  Signatures,   \* what a cluster of similar bookings has in common
  Collectives,  \* 10001 and 70002
  MaxStarts,    \* bound: requests started
  MaxFaults     \* bound: rejected calls and restarts

ASSUME BookAssumption ==
  /\ MaxStarts \in Nat /\ MaxFaults \in Nat
  /\ Collectives \subseteq Konten /\ Entered \subseteq Konten
  /\ None \notin Konten \cup RuleIds \cup SuggestionIds \cup Signatures

VARIABLES
  rules,        \* the Rule documents
  suggestions,  \* the RuleSuggestion documents
  req,          \* what each request does next, with its local variables
  starts, faults,
  calm,         \* ghost: no two requests overlapped and nothing failed
  edited        \* ghost: the versions given to each rule by edits that no
                \* other edit of the rule overlapped

book == <<rules, suggestions, edited>>

Idle == [pc |-> "idle", id |-> None, konto |-> None, contra |-> None, number |-> 0,
         copy |-> None, clean |-> TRUE]

RuleDoc == [konto: Konten, gegenkonto: Konten \cup {None}, version: Nat \ {0},
            deleted: BOOLEAN, source: {"manual", "seed"} \cup SuggestionIds]

SuggestionDoc == [signature: Signatures, konto: Konten, gegenkonto: Konten \cup {None},
                  rule: RuleIds \cup {None}, status: {"pending", "accepted", "rejected"}]

\* What analyses find becomes a rule by a suggestion only: initially there are
\* rules of users and of the seeder.  A document is not the absence of one.
ASSUME DocumentAssumption ==
  /\ FirstRules \in [RuleIds -> RuleDoc \cup {None}]
  /\ \A k \in RuleIds : FirstRules[k] # None => FirstRules[k].source \in {"manual", "seed"}
  /\ SuggestionIds \cap {"manual", "seed"} = {}
  /\ None \notin RuleDoc /\ None \notin SuggestionDoc

BookInit ==
  /\ rules = FirstRules
  /\ suggestions = [s \in SuggestionIds |-> None]
  /\ req = [r \in Requests |-> Idle]
  /\ starts = 0
  /\ faults = 0
  /\ calm = TRUE
  /\ edited = [k \in RuleIds |-> <<>>]

BookTypeOK ==
  /\ \A k \in RuleIds : rules[k] # None => rules[k] \in RuleDoc
  /\ \A s \in SuggestionIds : suggestions[s] # None => suggestions[s] \in SuggestionDoc
  /\ starts \in 0..MaxStarts /\ faults \in 0..MaxFaults

At(r, pc) == req[r].pc = pc
Goto(r, pc) == req' = [req EXCEPT ![r] = IF pc = "idle" THEN Idle ELSE [@ EXCEPT !.pc = pc]]

\* A request comes in and is now at the call q.pc.
Arrive(r) ==
  /\ At(r, "idle")
  /\ starts < MaxStarts
  /\ starts' = starts + 1
  /\ calm' = (calm /\ \A o \in Requests : At(o, "idle"))
  /\ UNCHANGED faults

Begin(r, q) == Arrive(r) /\ req' = [req EXCEPT ![r] = q]

\* A request of one write, or one whose reads decide nothing about its write.
Single(r) == Arrive(r) /\ UNCHANGED req

Proceed == UNCHANGED <<starts, faults, calm>>

Live(k) == rules[k] # None /\ ~rules[k].deleted

\* this.rules.create under an unused id.
Create(k, konto, gegenkonto, source) ==
  /\ rules[k] = None
  /\ rules' = [rules EXCEPT ![k] =
       [konto |-> konto, gegenkonto |-> gegenkonto, version |-> 1,
        deleted |-> FALSE, source |-> source]]

----------------------------------------------------------------------------
(* Rules.                                                                  *)

\* None as gegenkonto: useMappedPaymentAccount, or a number outside Konten.
\* The numbers are not looked up among the accounts.
CreateRule(r, k, konto, gegenkonto) ==
  /\ Single(r)
  /\ Create(k, konto, gegenkonto, "manual")
  /\ UNCHANGED <<suggestions, edited>>

\* update, enable, disable: the version is read here ...
EditsOf(k) == {r \in Requests : At(r, "writeRule") /\ req[r].id = k}

StartEditRule(r, k) ==
  /\ Live(k)
  /\ Arrive(r)
  /\ req' = [o \in Requests |->
       IF o = r THEN [Idle EXCEPT !.pc = "writeRule", !.id = k,
                                  !.number = rules[k].version, !.clean = EditsOf(k) = {}]
       ELSE IF o \in EditsOf(k) THEN [req[o] EXCEPT !.clean = FALSE] ELSE req[o]]
  /\ UNCHANGED book

\* Broken: an edit that leaves the version alone.
SameVersion(r) == req[r].number

\* ... and its successor written there, if the rule has not been deleted.
NextVersion(r) == req[r].number + 1

WriteRule(r, konto) ==
  /\ At(r, "writeRule")
  /\ LET k == req[r].id IN
     IF rules[k].deleted THEN UNCHANGED <<rules, edited>>
     ELSE /\ rules' = [rules EXCEPT ![k].version = NextVersion(r), ![k].konto = konto]
          /\ edited' = IF req[r].clean
                       THEN [edited EXCEPT ![k] = Append(@, NextVersion(r))] ELSE edited
  /\ Goto(r, "idle")
  /\ Proceed
  /\ UNCHANGED suggestions

RemoveRule(r, k) ==
  /\ Live(k)
  /\ Single(r)
  /\ rules' = [rules EXCEPT ![k].deleted = TRUE]
  /\ UNCHANGED <<suggestions, edited>>

----------------------------------------------------------------------------
(* Suggestions.                                                            *)

Open(g) == \E s \in SuggestionIds :
  suggestions[s] # None /\ suggestions[s].signature = g
    /\ suggestions[s].status \in {"pending", "accepted"}

\* One cluster of analyzePatterns: the accounts of the first booking in it.
StartAnalyze(r, g, konto, gegenkonto) ==
  /\ ~Open(g)
  /\ Begin(r, [Idle EXCEPT !.pc = "propose", !.id = g, !.konto = konto,
                           !.contra = gegenkonto])
  /\ UNCHANGED book

\* One cluster of seedFromLexofficeDatev; parseLexofficeDatev drops lines of
\* a collective account.
StartLexoffice(r, g, konto, gegenkonto) ==
  /\ ~Open(g)
  /\ Collectives \cap {konto, gegenkonto} = {}
  /\ Begin(r, [Idle EXCEPT !.pc = "propose", !.id = g, !.konto = konto,
                           !.contra = gegenkonto])
  /\ UNCHANGED book

Propose(r, s) ==
  /\ At(r, "propose")
  /\ suggestions[s] = None
  /\ suggestions' = [suggestions EXCEPT ![s] =
       [signature |-> req[r].id, konto |-> req[r].konto, gegenkonto |-> req[r].contra,
        rule |-> None, status |-> "pending"]]
  /\ Goto(r, "idle")
  /\ Proceed
  /\ UNCHANGED <<rules, edited>>

\* Broken: an accepted suggestion may be accepted again.
NotRejected(s) == suggestions[s] # None /\ suggestions[s].status # "rejected"

Pending(s) == suggestions[s] # None /\ suggestions[s].status = "pending"

StartAccept(r, s) ==
  /\ Pending(s)
  /\ Begin(r, [Idle EXCEPT !.pc = "createSuggested", !.id = s])
  /\ UNCHANGED book

CreateSuggested(r, k) ==
  /\ At(r, "createSuggested")
  /\ LET s == suggestions[req[r].id] IN Create(k, s.konto, s.gegenkonto, req[r].id)
  /\ req' = [req EXCEPT ![r].pc = "markAccepted", ![r].konto = k]
  /\ Proceed
  /\ UNCHANGED <<suggestions, edited>>

MarkAccepted(r) ==
  /\ At(r, "markAccepted")
  /\ suggestions' = [suggestions EXCEPT ![req[r].id].status = "accepted",
                                        ![req[r].id].rule = req[r].konto]
  /\ Goto(r, "idle")
  /\ Proceed
  /\ UNCHANGED <<rules, edited>>

StartReject(r, s) ==
  /\ Pending(s)
  /\ Begin(r, [Idle EXCEPT !.pc = "markRejected", !.id = s])
  /\ UNCHANGED book

MarkRejected(r) ==
  /\ At(r, "markRejected")
  /\ suggestions' = [suggestions EXCEPT ![req[r].id].status = "rejected"]
  /\ Goto(r, "idle")
  /\ Proceed
  /\ UNCHANGED <<rules, edited>>

----------------------------------------------------------------------------

BookStep(r) ==
  \/ \E k \in RuleIds, konto \in Entered : CreateRule(r, k, konto, None)
  \/ \E k \in RuleIds, konto, gegenkonto \in Entered : CreateRule(r, k, konto, gegenkonto)
  \/ \E k \in RuleIds : StartEditRule(r, k) \/ RemoveRule(r, k) \/ CreateSuggested(r, k)
  \/ \E konto \in Entered : WriteRule(r, konto)
  \/ \E g \in Signatures, konto, gegenkonto \in Entered :
       StartAnalyze(r, g, konto, gegenkonto) \/ StartLexoffice(r, g, konto, gegenkonto)
  \/ \E s \in SuggestionIds : Propose(r, s) \/ StartAccept(r, s) \/ StartReject(r, s)
  \/ MarkAccepted(r) \/ MarkRejected(r)

----------------------------------------------------------------------------
(* Properties.                                                             *)

\* "Editing never rewrites historical postings - only bump version for
\* traceability": the edits of a rule that no other edit overlapped all have
\* versions of their own, in order, even when others did overlap and the
\* version of the rule went back in between.
VersionsTraceable ==
  \A k \in RuleIds : \A i, j \in DOMAIN edited[k] : i < j => edited[k][i] < edited[k][j]

\* A suggestion becomes at most one rule, and a rule that came from one is
\* the rule of an accepted suggestion, whatever sequence of analyses, accepts,
\* rejections, edits and removals led there, when none overlapped or failed.
RulePerSuggestion ==
  (calm /\ \A r \in Requests : At(r, "idle")) =>
    \A k \in RuleIds, s \in SuggestionIds :
      (rules[k] # None /\ rules[k].source = s) =>
        suggestions[s].status = "accepted" /\ suggestions[s].rule = k

============================================================================
