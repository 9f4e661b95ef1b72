--------------------------- MODULE SettingsProofs ---------------------------
(***************************************************************************)
(* Rules, suggestions, policies and their cache, and the chart of accounts *)
(* for any number of overlapping requests: type correctness, the versions  *)
(* of edited rules, one rule per suggestion, the age of a cached policy,   *)
(* and that a renumbering reaches everything.                              *)
(***************************************************************************)
EXTENDS Settings, TLAPS

Ids == {None, "seed", "reset", "show"} \cup Slots \cup RuleIds \cup SuggestionIds
         \cup AccountIds \cup Signatures

PCs == {"idle", "writeRule", "propose", "createSuggested", "markAccepted", "markRejected",
        "readConfig", "fillCache", "writePolicy", "invalidate", "syncCompany", "findSeed",
        "createSeed", "createAccount", "deleteAccount"} \cup
       {"checkNumber", "renumber", "remapPolicy", "savePolicy", "remapRules", "remapContra"}

Work == [pc: PCs, id: Ids, konto: Konten \cup RuleIds \cup {None},
         contra: Konten \cup {None}, number: Nat \cup Konten, copy: Policy \cup {None}, clean: BOOLEAN]

Renumbering == {"checkNumber", "renumber", "remapPolicy", "savePolicy", "remapRules",
                "remapContra"}

(***************************************************************************)
(* A policy that was read no earlier than t: if it has been overwritten,   *)
(* then not before t.                                                      *)
(***************************************************************************)
Fresh(p, t) ==
  /\ p.rev <= policy.rev
  /\ p.rev < policy.rev => writtenAt[p.rev + 1] >= t

(***************************************************************************)
(* What a request knows at the call it makes next.                         *)
(***************************************************************************)
RuleWork(w) ==
  /\ w.pc = "writeRule" =>
       /\ w.id \in RuleIds /\ rules[w.id] # None /\ w.number \in Nat
       /\ \A i \in DOMAIN edited[w.id] : edited[w.id][i] <= w.number
  /\ w.pc = "propose" => w.id \in Signatures /\ w.konto \in Konten
  /\ w.pc \in {"createSuggested", "markAccepted", "markRejected"} =>
       /\ w.id \in SuggestionIds /\ suggestions[w.id] # None
       /\ calm => suggestions[w.id].status = "pending"
  /\ w.pc = "markAccepted" => w.konto \in RuleIds

PolicyWork(w) ==
  /\ w.pc \in {"readConfig", "fillCache"} => w.number \in Nat /\ w.number <= clock
  /\ w.pc = "fillCache" => w.copy \in Policy /\ Fresh(w.copy, w.number)
  /\ w.pc \in {"writePolicy", "invalidate"} =>
       w.copy \in Policy \/ (w.copy = None /\ w.id = None)
  /\ w.pc = "syncCompany" => w.copy \in Policy
  /\ w.pc \in {"findSeed", "createSeed", "createAccount"} => w.konto \in Konten

AccountWork(w) ==
  /\ w.pc \in Renumbering => w.konto \in Konten /\ w.konto # w.number
  /\ w.pc \in {"checkNumber", "renumber"} => w.id \in AccountIds
  /\ w.pc = "savePolicy" =>
       /\ w.copy \in Policy
       /\ calm => w.copy.ver = policy.ver
       /\ \A s \in Slots : w.copy.slots[s] # w.number
  /\ w.pc \in {"remapRules", "remapContra"} /\ calm =>
       \A s \in Slots : policy.slots[s] # w.number
  /\ w.pc = "remapContra" /\ calm =>
       \A k \in RuleIds : Live(k) => rules[k].konto # w.number

WorkOK(w) == RuleWork(w) /\ PolicyWork(w) /\ AccountWork(w)

(***************************************************************************)
(* What is stored: the types, the versions given to a rule, and the times  *)
(* of the writes of the policy.                                            *)
(***************************************************************************)
BookOK ==
  /\ rules \in [RuleIds -> RuleDoc \cup {None}]
  /\ suggestions \in [SuggestionIds -> SuggestionDoc \cup {None}]
  /\ edited \in [RuleIds -> Seq(Nat)]

VersionsOK ==
  \A k \in RuleIds : \A i \in DOMAIN edited[k] :
    rules[k] # None /\ edited[k][i] <= rules[k].version

PolicyOK ==
  /\ policy \in Policy /\ clock \in 0..MaxClock
  /\ writtenAt \in Seq(Nat) /\ Len(writtenAt) = policy.rev
  /\ \A i \in 1..Len(writtenAt) : writtenAt[i] <= clock

CacheOK ==
  cache # None => /\ cache \in [policy: Policy, at: Nat]
                  /\ cache.at <= clock /\ Fresh(cache.policy, cache.at)

AccountsOK ==
  /\ company \in [Synced -> Konten]
  /\ accounts \in [AccountIds -> Account \cup {None}]

CountersOK == starts \in 0..MaxStarts /\ faults \in 0..MaxFaults /\ calm \in BOOLEAN

(***************************************************************************)
(* An edit that no other overlapped is the only one of its rule; while all *)
(* is calm, one request runs at a time; and a rule that came from a        *)
(* suggestion is the one that accepted it, or is being marked so.          *)
(***************************************************************************)
CleanAlone ==
  \A r, q \in Requests :
    At(r, "writeRule") /\ At(q, "writeRule") /\ req[r].id = req[q].id /\ req[r].clean => r = q

CalmAlone == calm => \A r, q \in Requests : r = q \/ At(r, "idle") \/ At(q, "idle")

Accepted(k, s) ==
  /\ suggestions[s] # None
  /\ \/ suggestions[s].status = "accepted" /\ suggestions[s].rule = k
     \/ \E r \in Requests : At(r, "markAccepted") /\ req[r].id = s /\ req[r].konto = k

SourcesOK ==
  calm => \A k \in RuleIds : \A s \in SuggestionIds :
            rules[k] # None /\ rules[k].source = s => Accepted(k, s)

StoreOK == BookOK /\ VersionsOK /\ PolicyOK /\ CacheOK /\ AccountsOK /\ CountersOK

IInv ==
  /\ StoreOK
  /\ req \in [Requests -> Work]
  /\ \A r \in Requests : WorkOK(req[r])
  /\ VersionsTraceable
  /\ CleanAlone /\ CalmAlone /\ SourcesOK

----------------------------------------------------------------------------

(* The idle record is one a request can hold, and needs nothing.           *)
LEMMA IdleIsWork ==
  /\ Idle \in Work /\ Idle.pc = "idle"
  /\ Idle.id = None /\ Idle.konto = None /\ Idle.number = 0 /\ Idle.copy = None
<1>1. /\ "idle" \in PCs /\ None \in Ids /\ None \in Konten \cup RuleIds \cup {None}
      /\ None \in Konten \cup {None} /\ 0 \in Nat \cup Konten /\ None \in Policy \cup {None} /\ TRUE \in BOOLEAN
  BY DEF Ids, PCs
<1>2. Idle \in Work
  BY <1>1, Zenon DEF Idle, Work
<1>3. QED BY <1>2 DEF Idle

LEMMA IdleOK ==
  ASSUME NEW r \in Requests, req'[r].pc = "idle"
  PROVE  WorkOK(req[r])'
BY DEF WorkOK, RuleWork, PolicyWork, AccountWork, Renumbering

(* No request but r may still believe that all is calm.                    *)
TurnOf(r) == calm' => calm /\ \A q \in Requests \ {r} : At(q, "idle")

LEMMA ArriveTurn ==
  ASSUME IInv, NEW r \in Requests, Arrive(r)
  PROVE  TurnOf(r) /\ CountersOK' /\ At(r, "idle")
<1>1. starts' \in 0..MaxStarts
  BY BookAssumption DEF Arrive, IInv, StoreOK, CountersOK
<1>2. calm' \in BOOLEAN /\ faults' = faults
  BY DEF Arrive, IInv, StoreOK, CountersOK
<1>3. QED BY <1>1, <1>2 DEF Arrive, TurnOf, IInv, StoreOK, CountersOK

LEMMA ProceedTurn ==
  ASSUME IInv, NEW r \in Requests, ~At(r, "idle"), Proceed
  PROVE  TurnOf(r) /\ CountersOK'
BY DEF Proceed, TurnOf, IInv, StoreOK, CountersOK, CalmAlone

LEMMA FaultTurn ==
  ASSUME IInv, Fault, starts' = starts
  PROVE  calm' = FALSE /\ CountersOK'
<1>1. faults' \in 0..MaxFaults
  BY BookAssumption DEF Fault, IInv, StoreOK, CountersOK
<1>2. QED BY <1>1 DEF Fault, IInv, StoreOK, CountersOK

(* What others may rely on while r takes a step: nothing vanishes, no      *)
(* version is given to a rule they edit, and the policy is overwritten at  *)
(* its time if at all.                                                     *)
PolicyMoves ==
  \/ policy' = policy /\ writtenAt' = writtenAt
  \/ policy'.rev = policy.rev + 1 /\ writtenAt' = Append(writtenAt, clock)

Rest(r) ==
  /\ \A k \in RuleIds : rules[k] # None => rules'[k] # None
  /\ \A s \in SuggestionIds : suggestions[s] # None => suggestions'[s] # None
  /\ \A q \in Requests \ {r} : At(q, "writeRule") => edited'[req[q].id] = edited[req[q].id]
  /\ clock' = clock
  /\ PolicyMoves

(* A copy of the policy stays as fresh as it was when it was made.         *)
LEMMA FreshKept ==
  ASSUME PolicyOK, PolicyMoves, NEW p \in Policy, NEW t \in Nat, t <= clock, Fresh(p, t)
  PROVE  /\ p.rev <= policy'.rev
         /\ p.rev < policy'.rev => writtenAt'[p.rev + 1] >= t
<1>1. p.rev \in Nat /\ policy.rev \in Nat /\ clock \in Nat
  BY SettingsAssumption DEF PolicyOK, Policy
<1>2. CASE policy' = policy /\ writtenAt' = writtenAt
  BY <1>2 DEF Fresh
<1>3. CASE policy'.rev = policy.rev + 1 /\ writtenAt' = Append(writtenAt, clock)
  <2>1. CASE p.rev = policy.rev
    <3>1. writtenAt'[p.rev + 1] = clock
      BY <1>1, <1>3, <2>1 DEF PolicyOK
    <3>2. QED BY <1>1, <1>3, <2>1, <3>1
  <2>2. CASE p.rev < policy.rev
    <3>1. p.rev + 1 \in 1..Len(writtenAt)
      BY <1>1, <2>2 DEF PolicyOK
    <3>2. writtenAt'[p.rev + 1] = writtenAt[p.rev + 1]
      BY <1>1, <1>3, <3>1 DEF PolicyOK
    <3>3. QED BY <1>1, <1>3, <2>2, <3>2 DEF Fresh
  <2>3. QED BY <1>1, <2>1, <2>2 DEF Fresh
<1>4. QED BY <1>2, <1>3 DEF PolicyMoves

(* A request that a step leaves alone keeps what it knows.                 *)
LEMMA OthersKept ==
  ASSUME IInv, NEW r \in Requests, TurnOf(r), Rest(r),
         NEW q \in Requests \ {r}, req'[q] = req[q]
  PROVE  WorkOK(req[q])'
<1>1. WorkOK(req[q]) /\ (calm' => req[q].pc = "idle") /\ PolicyOK
  BY DEF IInv, TurnOf, At, StoreOK
<1>2. RuleWork(req[q])'
  BY <1>1 DEF WorkOK, RuleWork, Rest, At
<1>3. PolicyWork(req[q])'
  <2>1. req[q].pc = "fillCache" => Fresh(req[q].copy, req[q].number)'
    <3> SUFFICES ASSUME req[q].pc = "fillCache" PROVE Fresh(req[q].copy, req[q].number)'
      OBVIOUS
    <3>1. /\ req[q].copy \in Policy /\ req[q].number \in Nat /\ req[q].number <= clock
          /\ Fresh(req[q].copy, req[q].number)
      BY <1>1 DEF WorkOK, PolicyWork
    <3>2. PolicyMoves
      BY DEF Rest
    <3>3. /\ req[q].copy.rev <= policy'.rev
          /\ req[q].copy.rev < policy'.rev => writtenAt'[req[q].copy.rev + 1] >= req[q].number
      BY <1>1, <3>1, <3>2, FreshKept
    <3>4. QED BY <3>3 DEF Fresh
  <2>2. QED BY <1>1, <2>1 DEF WorkOK, PolicyWork, Rest
<1>4. AccountWork(req[q])'
  BY <1>1 DEF WorkOK, AccountWork, Renumbering
<1>5. QED BY <1>2, <1>3, <1>4 DEF WorkOK

(* A step of one request.                                                  *)
LEMMA OneStep ==
  ASSUME IInv, NEW r \in Requests, req' \in [Requests -> Work],
         \A q \in Requests \ {r} : req'[q] = req[q],
         req'[r].pc # "writeRule", WorkOK(req[r])', TurnOf(r), Rest(r),
         StoreOK', VersionsTraceable', SourcesOK'
  PROVE  IInv'
<1>1. \A q \in Requests : WorkOK(req[q])'
  BY OthersKept
<1>2. CleanAlone'
  BY DEF IInv, CleanAlone, At
<1>3. CalmAlone'
  BY DEF TurnOf, CalmAlone, At
<1>4. QED BY <1>1, <1>2, <1>3 DEF IInv

(* A step that writes neither rules, suggestions nor the policy.           *)
LEMMA QuietStep ==
  ASSUME IInv, NEW r \in Requests, req' \in [Requests -> Work],
         \A q \in Requests \ {r} : req'[q] = req[q],
         req'[r].pc # "writeRule", WorkOK(req[r])', TurnOf(r), ~At(r, "markAccepted"),
         UNCHANGED <<book, policy, clock, writtenAt>>, CacheOK', AccountsOK', CountersOK'
  PROVE  IInv'
<1>1. Rest(r)
  BY DEF Rest, PolicyMoves, book
<1>2. StoreOK'
  BY DEF IInv, StoreOK, BookOK, VersionsOK, PolicyOK, book
<1>3. VersionsTraceable'
  BY DEF IInv, VersionsTraceable, book
<1>4. SourcesOK'
  <2>1. ASSUME NEW k \in RuleIds, NEW s \in SuggestionIds, Accepted(k, s)
        PROVE  Accepted(k, s)'
    BY <2>1 DEF Accepted, At, book
  <2>2. QED BY <2>1 DEF IInv, SourcesOK, TurnOf, book
<1>5. QED BY <1>1, <1>2, <1>3, <1>4, OneStep

LEMMA SettingsSame ==
  ASSUME IInv, UNCHANGED settings
  PROVE  CacheOK' /\ AccountsOK' /\ UNCHANGED <<policy, cache, company, accounts, clock, writtenAt>>
BY DEF settings, IInv, StoreOK, CacheOK, AccountsOK, Fresh

(* A request comes in.                                                     *)
LEMMA Beginning ==
  ASSUME IInv, NEW r \in Requests, NEW w \in Work, Begin(r, w), UNCHANGED <<book, settings>>,
         w.pc # "writeRule", req'[r] = w => WorkOK(req[r])'
  PROVE  IInv'
<1>1. Arrive(r) /\ req' = [req EXCEPT ![r] = w]
  BY DEF Begin
<1>2. /\ req' \in [Requests -> Work] /\ req'[r] = w
      /\ \A q \in Requests \ {r} : req'[q] = req[q]
  BY <1>1 DEF IInv
<1>3. TurnOf(r) /\ CountersOK' /\ ~At(r, "markAccepted")
  BY <1>1, ArriveTurn DEF At
<1>4. QED BY <1>2, <1>3, SettingsSame, QuietStep

(* A request that goes on keeps what it carries, one that ends drops it.   *)
LEMMA Going ==
  ASSUME IInv, NEW r \in Requests, NEW pc \in PCs, Goto(r, pc)
  PROVE  /\ req' \in [Requests -> Work]
         /\ \A q \in Requests \ {r} : req'[q] = req[q]
         /\ req'[r].pc = pc
         /\ pc # "idle" =>
              /\ req'[r].id = req[r].id /\ req'[r].konto = req[r].konto
              /\ req'[r].number = req[r].number /\ req'[r].copy = req[r].copy
<1>1. req \in [Requests -> Work]
  BY DEF IInv
<1>2. CASE pc = "idle"
  <2>1. req' = [req EXCEPT ![r] = Idle]
    BY <1>2 DEF Goto
  <2>2. QED BY <1>1, <1>2, <2>1, IdleIsWork
<1>3. CASE pc # "idle"
  <2> DEFINE w == [req[r] EXCEPT !.pc = pc]
  <2>1. w \in Work /\ w.pc = pc /\ w.id = req[r].id
    BY <1>1 DEF Work
  <2>2. /\ w.konto = req[r].konto
        /\ w.number = req[r].number /\ w.copy = req[r].copy
    BY <1>1 DEF Work
  <2>3. req' = [req EXCEPT ![r] = w]
    BY <1>3 DEF Goto
  <2> HIDE DEF w
  <2>4. QED BY <1>1, <2>1, <2>2, <2>3
<1>4. QED BY <1>2, <1>3

(* A request goes to its next call, or ends, and has written nothing.      *)
LEMMA QuietGoing ==
  ASSUME IInv, NEW r \in Requests, NEW pc \in PCs, Goto(r, pc), Proceed,
         ~At(r, "idle"), ~At(r, "markAccepted"), pc # "writeRule",
         UNCHANGED <<book, policy, clock, writtenAt>>, CacheOK', AccountsOK',
         WorkOK(req[r])'
  PROVE  IInv'
BY Going, ProceedTurn, QuietStep

----------------------------------------------------------------------------
(* Rules.                                                                  *)

(* A step that writes rules, but no versions.                              *)
LEMMA RulesStep ==
  ASSUME IInv, NEW r \in Requests, req' \in [Requests -> Work],
         \A q \in Requests \ {r} : req'[q] = req[q],
         req'[r].pc # "writeRule", WorkOK(req[r])', TurnOf(r), CountersOK',
         UNCHANGED <<suggestions, edited, settings>>,
         rules' \in [RuleIds -> RuleDoc \cup {None}],
         \A k \in RuleIds : rules[k] # None =>
           rules'[k] # None /\ rules'[k].version = rules[k].version,
         SourcesOK'
  PROVE  IInv'
<1>1. Rest(r)
  BY DEF Rest, PolicyMoves, settings
<1>2. StoreOK'
  BY SettingsSame DEF IInv, StoreOK, BookOK, VersionsOK, PolicyOK, settings
<1>3. VersionsTraceable'
  BY DEF IInv, VersionsTraceable
<1>4. QED BY <1>1, <1>2, <1>3, OneStep

(* No rule comes to be of a suggestion.                                    *)
LEMMA SourcesSame ==
  ASSUME IInv, NEW r \in Requests, TurnOf(r), ~At(r, "markAccepted"),
         suggestions' = suggestions, \A q \in Requests \ {r} : req'[q] = req[q],
         \A k \in RuleIds : rules'[k] # None /\ rules'[k].source \in SuggestionIds =>
           rules[k] # None /\ rules[k].source = rules'[k].source
  PROVE  SourcesOK'
<1>1. ASSUME NEW k \in RuleIds, NEW s \in SuggestionIds, Accepted(k, s)
      PROVE  Accepted(k, s)'
  BY <1>1 DEF Accepted, At
<1>2. QED BY <1>1 DEF IInv, SourcesOK, TurnOf

(* What a new rule is, and that the other rules stay.                      *)
LEMMA Created ==
  ASSUME IInv, NEW k \in RuleIds, NEW konto \in Konten, NEW g \in Konten \cup {None},
         NEW source \in {"manual", "seed"} \cup SuggestionIds, Create(k, konto, g, source)
  PROVE  /\ rules' \in [RuleIds -> RuleDoc \cup {None}]
         /\ rules[k] = None /\ rules'[k] # None /\ rules'[k].source = source
         /\ \A i \in RuleIds \ {k} : rules'[i] = rules[i]
         /\ \A i \in RuleIds : rules[i] # None =>
              rules'[i] # None /\ rules'[i].version = rules[i].version
<1> DEFINE d == [konto |-> konto, gegenkonto |-> g, version |-> 1,
                 deleted |-> FALSE, source |-> source]
<1>1. d \in RuleDoc /\ d.source = source
  BY DEF RuleDoc
<1>2. d # None
  BY <1>1, DocumentAssumption
<1>3. rules[k] = None /\ rules' = [rules EXCEPT ![k] = d]
  BY DEF Create
<1> HIDE DEF d
<1>4. QED BY <1>1, <1>2, <1>3 DEF IInv, StoreOK, BookOK

(* The seeder's rule, and a rule a user enters.                            *)
LEMMA CreateRuleStep ==
  ASSUME IInv, NEW r \in Requests, NEW k \in RuleIds, NEW konto \in Konten,
         NEW g \in Konten \cup {None}, CreateRule(r, k, konto, g), UNCHANGED settings
  PROVE  IInv'
<1>1. Arrive(r) /\ req' = req /\ Create(k, konto, g, "manual")
      /\ UNCHANGED <<suggestions, edited>>
  BY DEF CreateRule, Single
<1>2. TurnOf(r) /\ CountersOK' /\ At(r, "idle")
  BY <1>1, ArriveTurn
<1>3. WorkOK(req[r])' /\ req'[r].pc = "idle"
  BY <1>1, <1>2, IdleOK DEF At
<1>4. SourcesOK'
  BY <1>1, <1>2, Created, SourcesSame, DocumentAssumption DEF At
<1>5. QED BY <1>1, <1>2, <1>3, <1>4, Created, RulesStep DEF IInv

LEMMA CreateSeedStep ==
  ASSUME IInv, NEW r \in Requests, NEW k \in RuleIds, CreateSeed(r, k)
  PROVE  IInv'
<1>1. /\ At(r, "createSeed") /\ Create(k, req[r].konto, req[r].contra, "seed")
      /\ Goto(r, "idle") /\ Proceed /\ UNCHANGED <<suggestions, edited, settings>>
      /\ req[r].konto \in Konten /\ req[r].contra \in Konten \cup {None}
  BY DEF CreateSeed, At, IInv, Work, WorkOK, PolicyWork
<1>2. TurnOf(r) /\ CountersOK'
  BY <1>1, ProceedTurn DEF At
<1>3. /\ req' \in [Requests -> Work] /\ req'[r].pc = "idle"
      /\ \A q \in Requests \ {r} : req'[q] = req[q]
  BY <1>1, Going, IdleIsWork DEF Work
<1>4. WorkOK(req[r])'
  BY <1>3, IdleOK
<1>5. SourcesOK'
  <2>1. rules'[k].source = "seed" /\ \A i \in RuleIds \ {k} : rules'[i] = rules[i]
    BY <1>1, Created
  <2>2. \A i \in RuleIds : rules'[i] # None /\ rules'[i].source \in SuggestionIds =>
          rules[i] # None /\ rules[i].source = rules'[i].source
    BY <2>1, DocumentAssumption
  <2>3. QED BY <1>1, <1>2, <1>3, <2>2, SourcesSame DEF At
<1>6. QED BY <1>1, <1>2, <1>3, <1>4, <1>5, Created, RulesStep

(* A rule is deleted.                                                      *)
LEMMA RemoveRuleStep ==
  ASSUME IInv, NEW r \in Requests, NEW k \in RuleIds, RemoveRule(r, k), UNCHANGED settings
  PROVE  IInv'
<1>1. /\ Arrive(r) /\ req' = req /\ rules[k] # None
      /\ rules' = [rules EXCEPT ![k].deleted = TRUE] /\ UNCHANGED <<suggestions, edited>>
  BY DEF RemoveRule, Single, Live
<1>2. TurnOf(r) /\ CountersOK' /\ At(r, "idle")
  BY <1>1, ArriveTurn
<1>3. WorkOK(req[r])' /\ req'[r].pc = "idle"
  BY <1>1, <1>2, IdleOK DEF At
<1> DEFINE d == [rules[k] EXCEPT !.deleted = TRUE]
<1>4. rules[k] \in RuleDoc
  BY <1>1 DEF IInv, StoreOK, BookOK
<1>5. d \in RuleDoc /\ d.version = rules[k].version /\ d.source = rules[k].source
  BY <1>4 DEF RuleDoc
<1>6. rules' = [rules EXCEPT ![k] = d] /\ d # None
  BY <1>1, <1>5, DocumentAssumption
<1> HIDE DEF d
<1>7. /\ rules' \in [RuleIds -> RuleDoc \cup {None}]
      /\ rules'[k] = d /\ \A i \in RuleIds \ {k} : rules'[i] = rules[i]
  BY <1>5, <1>6 DEF IInv, StoreOK, BookOK
<1>8. SourcesOK'
  BY <1>1, <1>2, <1>5, <1>7, SourcesSame DEF At
<1>9. \A i \in RuleIds : rules[i] # None =>
        rules'[i] # None /\ rules'[i].version = rules[i].version
  BY <1>5, <1>6, <1>7
<1>10. QED BY <1>1, <1>2, <1>3, <1>7, <1>8, <1>9, RulesStep DEF IInv

(* An edit reads the version of the rule; edits it overlaps are not clean  *)
(* any more.                                                               *)
LEMMA StartEditStep ==
  ASSUME IInv, NEW r \in Requests, NEW k \in RuleIds, StartEditRule(r, k), UNCHANGED settings
  PROVE  IInv'
<1> DEFINE c == (EditsOf(k) = {})
           n == rules[k].version
           w == [Idle EXCEPT !.pc = "writeRule", !.id = k, !.number = n, !.clean = c]
<1>1. /\ Arrive(r) /\ Live(k) /\ UNCHANGED book
      /\ req' = [o \in Requests |->
           IF o = r THEN w
           ELSE IF o \in EditsOf(k) THEN [req[o] EXCEPT !.clean = FALSE] ELSE req[o]]
  BY DEF StartEditRule
<1>2. TurnOf(r) /\ CountersOK' /\ At(r, "idle")
  BY <1>1, ArriveTurn
<1>3. rules[k] \in RuleDoc /\ rules[k] # None /\ n \in Nat /\ c \in BOOLEAN
  BY <1>1 DEF Live, IInv, StoreOK, BookOK, RuleDoc
<1>4. w \in Work
  <2>1. k \in Ids /\ n \in Nat \cup Konten /\ "writeRule" \in PCs
    BY <1>3 DEF Ids, PCs
  <2> HIDE DEF c, n
  <2>2. QED BY <1>3, <2>1, IdleIsWork DEF Work
<1>5. w.pc = "writeRule" /\ w.id = k /\ w.number = n
  BY <1>3 DEF Idle
<1>6. w.clean = c
  BY <1>3 DEF Idle
<1> HIDE DEF w, c, n
<1>7. ASSUME NEW o \in Requests \ {r}
      PROVE  /\ req'[o] \in Work /\ req'[o].pc = req[o].pc /\ req'[o].id = req[o].id
             /\ req'[o].number = req[o].number /\ req'[o].konto = req[o].konto
             /\ req'[o].copy = req[o].copy
             /\ req'[o].clean => req[o].clean /\ o \notin EditsOf(k)
  <2>1. req[o] \in Work
    BY DEF IInv
  <2>2. CASE o \in EditsOf(k)
    <3>1. req'[o] = [req[o] EXCEPT !.clean = FALSE]
      BY <1>1, <2>2
    <3>2. req'[o] \in Work /\ req'[o].pc = req[o].pc /\ req'[o].id = req[o].id
      BY <2>1, <3>1 DEF Work
    <3>3. req'[o].number = req[o].number /\ req'[o].konto = req[o].konto
          /\ req'[o].copy = req[o].copy
      BY <2>1, <3>1 DEF Work
    <3>4. req'[o].clean = FALSE
      BY <2>1, <3>1 DEF Work
    <3>5. QED BY <3>2, <3>3, <3>4
  <2>3. CASE o \notin EditsOf(k)
    BY <1>1, <2>1, <2>3
  <2>4. QED BY <2>2, <2>3
<1>8. req'[r] = w /\ req' \in [Requests -> Work]
  <2>1. req'[r] = w
    BY <1>1
  <2>2. \A o \in Requests : req'[o] \in Work
    BY <1>4, <1>7, <2>1
  <2>3. QED BY <1>1, <2>1, <2>2
<1>9. StoreOK' /\ VersionsTraceable'
  BY <1>1, <1>2, SettingsSame
     DEF IInv, StoreOK, BookOK, VersionsOK, PolicyOK, VersionsTraceable, book, settings
<1>10. ASSUME NEW o \in Requests PROVE WorkOK(req[o])'
  <2>1. CASE o = r
    <3>1. \A i \in DOMAIN edited[k] : edited[k][i] <= n
      BY DEF IInv, StoreOK, VersionsOK, n
    <3>2. RuleWork(req[r])'
      BY <1>1, <1>3, <1>5, <1>8, <3>1 DEF RuleWork, book
    <3>3. QED BY <1>5, <1>8, <2>1, <3>2 DEF WorkOK, PolicyWork, AccountWork, Renumbering
  <2>2. CASE o # r
    <3>1. WorkOK(req[o]) /\ (calm' => req[o].pc = "idle")
      BY <1>2, <2>2 DEF IInv, TurnOf, At
    <3>2. RuleWork(req[o])'
      BY <1>1, <1>7, <2>2, <3>1 DEF WorkOK, RuleWork, book
    <3>3. PolicyWork(req[o])'
      BY <1>7, <2>2, <3>1 DEF WorkOK, PolicyWork, Fresh, settings
    <3>4. AccountWork(req[o])'
      BY <1>7, <2>2, <3>1 DEF WorkOK, AccountWork, Renumbering
    <3>5. QED BY <3>2, <3>3, <3>4 DEF WorkOK
  <2>3. QED BY <2>1, <2>2
<1>11. CleanAlone'
  <2> SUFFICES ASSUME NEW o \in Requests, NEW q \in Requests,
                      req'[o].pc = "writeRule", req'[q].pc = "writeRule",
                      req'[o].id = req'[q].id, req'[o].clean
               PROVE  o = q
    BY DEF CleanAlone, At
  <2>1. CASE o = r
    <3>1. SUFFICES ASSUME q # r PROVE FALSE
      BY <2>1
    <3>2. q \in EditsOf(k)
      BY <1>5, <1>7, <1>8, <2>1, <3>1 DEF EditsOf, At
    <3>3. QED BY <1>6, <1>8, <2>1, <3>2 DEF c
  <2>2. CASE o # r /\ q = r
    BY <1>5, <1>7, <1>8, <2>2 DEF EditsOf, At
  <2>3. CASE o # r /\ q # r
    BY <1>7, <2>3 DEF IInv, CleanAlone, At
  <2>4. QED BY <2>1, <2>2, <2>3
<1>12. CalmAlone'
  BY <1>2, <1>7 DEF TurnOf, CalmAlone, At
<1>13. SourcesOK'
  <2>1. ASSUME calm', NEW i \in RuleIds, NEW s \in SuggestionIds, Accepted(i, s)
        PROVE  Accepted(i, s)'
    BY <1>1, <1>2, <2>1 DEF Accepted, At, TurnOf, book
  <2>2. QED BY <1>1, <1>2, <2>1 DEF IInv, SourcesOK, TurnOf, book
<1>14. QED BY <1>8, <1>9, <1>10, <1>11, <1>12, <1>13 DEF IInv

(* Appending a version leaves those before it.                             *)
LEMMA Appended ==
  ASSUME NEW v \in Seq(Nat), NEW n \in Nat
  PROVE  /\ Len(v) \in Nat /\ DOMAIN v = 1..Len(v) /\ DOMAIN Append(v, n) = 1..(Len(v) + 1)
         /\ Append(v, n)[Len(v) + 1] = n
         /\ \A i \in 1..Len(v) : Append(v, n)[i] = v[i]
OBVIOUS

(* An edit is written: its version is above every one given before.        *)
LEMMA WriteRuleStep ==
  ASSUME IInv, NEW r \in Requests, NEW konto \in Konten, WriteRule(r, konto),
         UNCHANGED settings
  PROVE  IInv'
<1> DEFINE k == req[r].id
           n == req[r].number + 1
<1>1. /\ At(r, "writeRule") /\ Goto(r, "idle") /\ Proceed /\ suggestions' = suggestions
      /\ k \in RuleIds /\ rules[k] # None /\ req[r].number \in Nat
      /\ \A i \in DOMAIN edited[k] : edited[k][i] <= req[r].number
  BY DEF WriteRule, At, IInv, WorkOK, RuleWork
<1>2. /\ req' \in [Requests -> Work] /\ req'[r].pc = "idle"
      /\ \A q \in Requests \ {r} : req'[q] = req[q]
  BY <1>1, Going, IdleIsWork DEF Work
<1>3. TurnOf(r) /\ CountersOK' /\ ~At(r, "markAccepted") /\ WorkOK(req[r])'
  BY <1>1, <1>2, ProceedTurn, IdleOK DEF At
<1>4. CASE rules[k].deleted
  <2>1. UNCHANGED <<rules, edited>>
    BY <1>4 DEF WriteRule
  <2>2. QED BY <1>1, <1>2, <1>3, <2>1, SettingsSame, QuietStep DEF book
<1>5. CASE ~rules[k].deleted
  <2>1. /\ rules' = [rules EXCEPT ![k].version = n, ![k].konto = konto]
        /\ edited' = IF req[r].clean
                     THEN [edited EXCEPT ![k] = Append(@, n)] ELSE edited
    BY <1>5 DEF WriteRule, NextVersion
  <2> DEFINE d == [rules[k] EXCEPT !.version = n, !.konto = konto]
  <2>2. rules[k] \in RuleDoc /\ n \in Nat \ {0} /\ edited[k] \in Seq(Nat)
    BY <1>1 DEF IInv, StoreOK, BookOK
  <2> HIDE DEF n
  <2>3. d \in RuleDoc /\ d.version = n /\ d.source = rules[k].source
    BY <2>2 DEF RuleDoc
  <2>4. rules' = [rules EXCEPT ![k] = d] /\ d # None
    BY <1>1, <2>1, <2>2, <2>3, DocumentAssumption DEF IInv, StoreOK, BookOK
  <2> HIDE DEF d
  <2>5. /\ rules' \in [RuleIds -> RuleDoc \cup {None}]
        /\ rules'[k] = d /\ \A i \in RuleIds \ {k} : rules'[i] = rules[i]
    BY <1>1, <2>3, <2>4 DEF IInv, StoreOK, BookOK
  <2>6. /\ edited' \in [RuleIds -> Seq(Nat)]
        /\ \A i \in RuleIds \ {k} : edited'[i] = edited[i]
        /\ ~req[r].clean => edited'[k] = edited[k]
        /\ req[r].clean => edited'[k] = Append(edited[k], n)
    BY <1>1, <2>1, <2>2 DEF IInv, StoreOK, BookOK
  <2>7. \A i \in DOMAIN edited[k] : edited[k][i] \in Nat /\ edited[k][i] < n
    BY <1>1, <2>2 DEF n
  <2>8. (\A i \in DOMAIN edited'[k] : edited'[k][i] <= n)
        /\ (\A i, j \in DOMAIN edited'[k] : i < j => edited'[k][i] < edited'[k][j])
    <3>1. \A i, j \in DOMAIN edited[k] : i < j => edited[k][i] < edited[k][j]
      BY <1>1 DEF IInv, VersionsTraceable
    <3>2. CASE ~req[r].clean
      BY <2>2, <2>6, <2>7, <3>1, <3>2
    <3>3. CASE req[r].clean
      <4> DEFINE m == Len(edited[k])
      <4>1. /\ m \in Nat /\ DOMAIN edited[k] = 1..m /\ DOMAIN edited'[k] = 1..(m + 1)
            /\ edited'[k][m + 1] = n
            /\ \A i \in 1..m : edited'[k][i] = edited[k][i]
        <5>1. edited[k] \in Seq(Nat) /\ n \in Nat /\ edited'[k] = Append(edited[k], n)
          BY <2>2, <2>6, <3>3
        <5>2. QED BY <5>1, Appended
      <4> HIDE DEF m
      <4>2. \A i \in DOMAIN edited'[k] : edited'[k][i] <= n
        BY <2>2, <2>7, <4>1
      <4>3. \A i, j \in DOMAIN edited'[k] : i < j => edited'[k][i] < edited'[k][j]
        <5> SUFFICES ASSUME NEW i \in 1..(m + 1), NEW j \in 1..(m + 1), i < j
                     PROVE  edited'[k][i] < edited'[k][j]
          BY <4>1
        <5>1. CASE j = m + 1
          BY <2>7, <4>1, <5>1
        <5>2. CASE j # m + 1
          BY <3>1, <4>1, <5>2
        <5>3. QED BY <5>1, <5>2
      <4>4. QED BY <4>2, <4>3
    <3>4. QED BY <3>2, <3>3
  <2>9. VersionsTraceable'
    BY <2>6, <2>8 DEF IInv, VersionsTraceable
  <2>10. StoreOK'
    <3>1. BookOK'
      BY <1>1, <2>5, <2>6 DEF IInv, StoreOK, BookOK
    <3>2. VersionsOK'
      BY <1>1, <2>3, <2>4, <2>5, <2>6, <2>8 DEF IInv, StoreOK, VersionsOK
    <3>3. QED BY <1>3, <3>1, <3>2, SettingsSame DEF IInv, StoreOK, PolicyOK
  <2>11. Rest(r)
    <3>1. ASSUME NEW q \in Requests \ {r}, At(q, "writeRule")
          PROVE  edited'[req[q].id] = edited[req[q].id]
      <4>1. req[q].id \in RuleIds
        BY <3>1 DEF IInv, WorkOK, RuleWork, At
      <4>2. req[q].id = k => ~req[r].clean
        BY <1>1, <3>1 DEF IInv, CleanAlone
      <4>3. QED BY <2>6, <4>1, <4>2
    <3>2. QED BY <1>1, <2>4, <2>5, <3>1 DEF Rest, PolicyMoves, settings
  <2>12. SourcesOK'
    <3>1. \A i \in RuleIds : rules'[i] # None /\ rules'[i].source \in SuggestionIds =>
            rules[i] # None /\ rules[i].source = rules'[i].source
      BY <1>1, <2>3, <2>5
    <3>2. QED BY <1>1, <1>2, <1>3, <3>1, SourcesSame
  <2>13. QED BY <1>2, <1>3, <2>9, <2>10, <2>11, <2>12, OneStep
<1>6. QED BY <1>4, <1>5

(* Moving a field of the rules that are not deleted leaves the others.     *)
MovedRules(r) ==
  /\ rules' \in [RuleIds -> RuleDoc \cup {None}]
  /\ \A k \in RuleIds : rules[k] = None => rules'[k] = None
  /\ \A k \in RuleIds : rules[k] # None =>
       /\ rules'[k] # None /\ rules'[k].version = rules[k].version
       /\ rules'[k].source = rules[k].source /\ rules'[k].deleted = rules[k].deleted

LEMMA KontoMoved ==
  ASSUME IInv, NEW r \in Requests, req[r].konto \in Konten,
         rules' = [k \in RuleIds |->
                     IF Live(k) THEN [rules[k] EXCEPT !.konto = Moved(r, @)] ELSE rules[k]]
  PROVE  /\ MovedRules(r)
         /\ \A k \in RuleIds : Live(k) => rules'[k].konto = Moved(r, rules[k].konto)
<1>1. ASSUME NEW k \in RuleIds, rules[k] # None, ~rules[k].deleted
      PROVE  /\ rules'[k] \in RuleDoc /\ rules'[k] # None
             /\ rules'[k].version = rules[k].version /\ rules'[k].source = rules[k].source
             /\ rules'[k].deleted = rules[k].deleted
             /\ rules'[k].konto = Moved(r, rules[k].konto)
  <2> DEFINE m == Moved(r, rules[k].konto)
             d == [rules[k] EXCEPT !.konto = m]
  <2>1. rules'[k] = d
    BY <1>1 DEF Live
  <2>2. rules[k] \in RuleDoc
    BY <1>1 DEF IInv, StoreOK, BookOK
  <2>3. m \in Konten
    BY <2>2 DEF Moved, RuleDoc
  <2> HIDE DEF m
  <2>4. d \in RuleDoc /\ d.version = rules[k].version /\ d.source = rules[k].source
    BY <2>2, <2>3 DEF RuleDoc
  <2>5. d.deleted = rules[k].deleted /\ d.konto = m
    BY <2>2 DEF RuleDoc
  <2>6. QED BY <2>1, <2>4, <2>5, DocumentAssumption DEF m
<1>2. ASSUME NEW k \in RuleIds, rules[k] = None \/ rules[k].deleted
      PROVE  rules'[k] = rules[k]
  BY <1>2 DEF Live
<1>3. rules' \in [RuleIds -> RuleDoc \cup {None}]
  <2>1. \A k \in RuleIds : rules'[k] \in RuleDoc \cup {None}
    BY <1>1, <1>2 DEF IInv, StoreOK, BookOK
  <2>2. QED BY <2>1
<1>4. QED BY <1>1, <1>2, <1>3 DEF MovedRules, Live

LEMMA GegenkontoMoved ==
  ASSUME IInv, NEW r \in Requests, req[r].konto \in Konten,
         rules' = [k \in RuleIds |->
                     IF Live(k) THEN [rules[k] EXCEPT !.gegenkonto = Moved(r, @)] ELSE rules[k]]
  PROVE  /\ MovedRules(r)
         /\ \A k \in RuleIds : Live(k) =>
              /\ rules'[k].gegenkonto = Moved(r, rules[k].gegenkonto)
              /\ rules'[k].konto = rules[k].konto
<1>1. ASSUME NEW k \in RuleIds, rules[k] # None, ~rules[k].deleted
      PROVE  /\ rules'[k] \in RuleDoc /\ rules'[k] # None
             /\ rules'[k].version = rules[k].version /\ rules'[k].source = rules[k].source
             /\ rules'[k].deleted = rules[k].deleted
             /\ rules'[k].gegenkonto = Moved(r, rules[k].gegenkonto)
             /\ rules'[k].konto = rules[k].konto
  <2> DEFINE m == Moved(r, rules[k].gegenkonto)
             d == [rules[k] EXCEPT !.gegenkonto = m]
  <2>1. rules'[k] = d
    BY <1>1 DEF Live
  <2>2. rules[k] \in RuleDoc
    BY <1>1 DEF IInv, StoreOK, BookOK
  <2>3. m \in Konten \cup {None}
    BY <2>2 DEF Moved, RuleDoc
  <2> HIDE DEF m
  <2>4. d \in RuleDoc /\ d.version = rules[k].version /\ d.source = rules[k].source
    BY <2>2, <2>3 DEF RuleDoc
  <2>5. d.deleted = rules[k].deleted /\ d.konto = rules[k].konto /\ d.gegenkonto = m
    BY <2>2 DEF RuleDoc
  <2>6. QED BY <2>1, <2>4, <2>5, DocumentAssumption DEF m
<1>2. ASSUME NEW k \in RuleIds, rules[k] = None \/ rules[k].deleted
      PROVE  rules'[k] = rules[k]
  BY <1>2 DEF Live
<1>3. rules' \in [RuleIds -> RuleDoc \cup {None}]
  <2>1. \A k \in RuleIds : rules'[k] \in RuleDoc \cup {None}
    BY <1>1, <1>2 DEF IInv, StoreOK, BookOK
  <2>2. QED BY <2>1
<1>4. QED BY <1>1, <1>2, <1>3 DEF MovedRules, Live

(* A renumbering moves the rules: their konto, then their gegenkonto.      *)
LEMMA MoveStep ==
  ASSUME IInv, NEW r \in Requests, NEW pc \in PCs, Goto(r, pc), Proceed, MovedRules(r),
         At(r, "remapRules") \/ At(r, "remapContra"), pc # "writeRule",
         UNCHANGED <<suggestions, edited, settings>>, WorkOK(req[r])'
  PROVE  IInv'
<1>1. /\ req' \in [Requests -> Work] /\ req'[r].pc = pc
      /\ \A q \in Requests \ {r} : req'[q] = req[q]
  BY Going
<1>2. TurnOf(r) /\ CountersOK' /\ ~At(r, "markAccepted")
  BY ProceedTurn DEF At
<1>3. SourcesOK'
  BY <1>1, <1>2, SourcesSame DEF MovedRules
<1>4. QED BY <1>1, <1>2, <1>3, RulesStep DEF MovedRules

LEMMA RemapRulesStep ==
  ASSUME IInv, NEW r \in Requests, RemapRules(r) \/ RemapContra(r)
  PROVE  IInv'
<1>1. /\ At(r, "remapRules") \/ At(r, "remapContra")
      /\ Proceed /\ UNCHANGED <<suggestions, edited, settings>>
      /\ req[r].konto \in Konten /\ req[r].konto # req[r].number
  BY DEF RemapRules, RemapContra, At, IInv, WorkOK, AccountWork, Renumbering
<1>2. "idle" \in PCs /\ "remapContra" \in PCs
  BY DEF PCs
<1>3. CASE RemapRules(r)
  <2>1. /\ Goto(r, "remapContra") /\ MovedRules(r)
        /\ \A k \in RuleIds : Live(k) => rules'[k].konto = Moved(r, rules[k].konto)
    BY <1>1, <1>3, KontoMoved DEF RemapRules
  <2>2. /\ req'[r].pc = "remapContra" /\ req'[r].konto = req[r].konto
        /\ req'[r].number = req[r].number
    BY <1>2, <2>1, Going
  <2>3. calm => \A s \in Slots : policy.slots[s] # req[r].number
    BY <1>3 DEF RemapRules, At, IInv, WorkOK, AccountWork
  <2>4. \A k \in RuleIds : Live(k)' => rules'[k].konto # req[r].number
    BY <1>1, <2>1 DEF MovedRules, Live, Moved
  <2>5. AccountWork(req[r])'
    BY <1>1, <2>2, <2>3, <2>4 DEF AccountWork, Renumbering, Proceed, settings
  <2>6. WorkOK(req[r])'
    BY <2>2, <2>5 DEF WorkOK, RuleWork, PolicyWork
  <2>7. QED BY <1>1, <1>2, <2>1, <2>6, MoveStep
<1>4. CASE RemapContra(r)
  <2>1. Goto(r, "idle") /\ MovedRules(r)
    BY <1>1, <1>4, GegenkontoMoved DEF RemapContra
  <2>2. WorkOK(req[r])'
    BY <1>2, <2>1, Going, IdleOK
  <2>3. QED BY <1>1, <1>2, <2>1, <2>2, MoveStep
<1>5. QED BY <1>3, <1>4

----------------------------------------------------------------------------
(* Suggestions.                                                            *)

(* The suggestion is pending, so it has no rule yet, and gets one.         *)
LEMMA CreateSuggestedStep ==
  ASSUME IInv, NEW r \in Requests, NEW k \in RuleIds, CreateSuggested(r, k),
         UNCHANGED settings
  PROVE  IInv'
<1> DEFINE s == req[r].id
           w == [req[r] EXCEPT !.pc = "markAccepted", !.konto = k]
<1>1. /\ At(r, "createSuggested") /\ Create(k, suggestions[s].konto, suggestions[s].gegenkonto, s)
      /\ Proceed /\ UNCHANGED <<suggestions, edited, settings>>
      /\ s \in SuggestionIds /\ suggestions[s] # None
      /\ calm => suggestions[s].status = "pending"
  BY DEF CreateSuggested, At, IInv, WorkOK, RuleWork
<1>2. /\ req[r] \in Work /\ suggestions[s].konto \in Konten
      /\ suggestions[s].gegenkonto \in Konten \cup {None}
  BY <1>1 DEF IInv, StoreOK, BookOK, SuggestionDoc
<1>3. w \in Work /\ w.pc = "markAccepted" /\ w.id = s /\ w.konto = k
  BY <1>2 DEF Work, PCs
<1>4. req' = [req EXCEPT ![r] = w]
  BY <1>2 DEF CreateSuggested, IInv
<1> HIDE DEF w
<1>5. /\ req' \in [Requests -> Work] /\ req'[r] = w
      /\ \A q \in Requests \ {r} : req'[q] = req[q]
  BY <1>3, <1>4 DEF IInv
<1>6. TurnOf(r) /\ CountersOK'
  BY <1>1, ProceedTurn DEF At
<1>7. WorkOK(req[r])'
  BY <1>1, <1>3, <1>5
     DEF WorkOK, RuleWork, PolicyWork, AccountWork, Renumbering, Proceed
<1>8. /\ rules' \in [RuleIds -> RuleDoc \cup {None}]
      /\ rules'[k].source = s /\ \A i \in RuleIds \ {k} : rules'[i] = rules[i]
      /\ \A i \in RuleIds : rules[i] # None =>
           rules'[i] # None /\ rules'[i].version = rules[i].version
  BY <1>1, <1>2, Created
<1>9. SourcesOK'
  <2> SUFFICES ASSUME calm', NEW i \in RuleIds, NEW t \in SuggestionIds,
                      rules'[i] # None, rules'[i].source = t
               PROVE  Accepted(i, t)'
    BY DEF SourcesOK
  <2>1. CASE i = k
    BY <1>1, <1>3, <1>5, <1>8, <2>1 DEF Accepted, At
  <2>2. CASE i # k
    <3>1. Accepted(i, t)
      BY <1>6, <1>8, <2>2 DEF TurnOf, IInv, SourcesOK
    <3>2. QED BY <1>1, <1>5, <3>1 DEF Accepted, At
  <2>3. QED BY <2>1, <2>2
<1>10. QED BY <1>1, <1>3, <1>5, <1>6, <1>7, <1>8, <1>9, RulesStep

(* A step that writes a suggestion.                                        *)
LEMMA SuggestionStep ==
  ASSUME IInv, NEW r \in Requests, Goto(r, "idle"), Proceed, ~At(r, "idle"),
         UNCHANGED <<rules, edited, settings>>,
         NEW s \in SuggestionIds, NEW d \in SuggestionDoc,
         suggestions' = [suggestions EXCEPT ![s] = d],
         \A k \in RuleIds : calm /\ rules[k] # None /\ rules[k].source = s =>
           d.status = "accepted" /\ d.rule = k,
         \A k \in RuleIds, t \in SuggestionIds : calm /\ t # s /\ Accepted(k, t) =>
           suggestions[t].status = "accepted" /\ suggestions[t].rule = k
  PROVE  IInv'
<1>1. /\ req' \in [Requests -> Work] /\ req'[r].pc = "idle"
      /\ \A q \in Requests \ {r} : req'[q] = req[q]
  BY Going, IdleIsWork DEF Work
<1>2. TurnOf(r) /\ CountersOK' /\ WorkOK(req[r])'
  BY <1>1, ProceedTurn, IdleOK
<1>3. d # None
  BY DocumentAssumption
<1>4. /\ suggestions' \in [SuggestionIds -> SuggestionDoc \cup {None}]
      /\ suggestions'[s] = d
      /\ \A t \in SuggestionIds \ {s} : suggestions'[t] = suggestions[t]
  BY DEF IInv, StoreOK, BookOK
<1>5. Rest(r)
  BY <1>3, <1>4 DEF Rest, PolicyMoves, settings
<1>6. StoreOK'
  BY <1>2, <1>4, SettingsSame DEF IInv, StoreOK, BookOK, VersionsOK, PolicyOK, settings
<1>7. VersionsTraceable'
  BY DEF IInv, VersionsTraceable
<1>8. SourcesOK'
  <2> SUFFICES ASSUME calm', NEW k \in RuleIds, NEW t \in SuggestionIds,
                      rules[k] # None, rules[k].source = t
               PROVE  Accepted(k, t)'
    BY DEF SourcesOK
  <2>1. CASE t = s
    BY <1>2, <1>3, <1>4, <2>1 DEF TurnOf, Accepted
  <2>2. CASE t # s
    BY <1>2, <1>4, <2>2 DEF TurnOf, Accepted, IInv, SourcesOK
  <2>3. QED BY <2>1, <2>2
<1>9. QED BY <1>1, <1>2, <1>5, <1>6, <1>7, <1>8, OneStep

(* While all is calm and r is at work, no other request marks a suggestion *)
(* accepted.                                                               *)
LEMMA NoOtherMarks ==
  ASSUME IInv, calm, NEW r \in Requests, ~At(r, "idle"),
         NEW k \in RuleIds, NEW t \in SuggestionIds, Accepted(k, t)
  PROVE  \/ suggestions[t].status = "accepted" /\ suggestions[t].rule = k
         \/ At(r, "markAccepted") /\ req[r].id = t /\ req[r].konto = k
BY DEF IInv, CalmAlone, Accepted, At

LEMMA SuggestionsStep ==
  ASSUME IInv, NEW r \in Requests, UNCHANGED settings,
         (\E s \in SuggestionIds : Propose(r, s)) \/ MarkAccepted(r) \/ MarkRejected(r)
  PROVE  IInv'
<1>1. ASSUME NEW s \in SuggestionIds, Propose(r, s) PROVE IInv'
  <2> DEFINE d == [signature |-> req[r].id, konto |-> req[r].konto,
                   gegenkonto |-> req[r].contra, rule |-> None, status |-> "pending"]
  <2>1. /\ At(r, "propose") /\ Goto(r, "idle") /\ Proceed /\ UNCHANGED <<rules, edited>>
        /\ suggestions[s] = None /\ suggestions' = [suggestions EXCEPT ![s] = d]
        /\ req[r].id \in Signatures /\ req[r].konto \in Konten
        /\ req[r].contra \in Konten \cup {None}
    BY <1>1 DEF Propose, At, IInv, Work, WorkOK, RuleWork
  <2>2. d \in SuggestionDoc
    BY <2>1 DEF SuggestionDoc
  <2> HIDE DEF d
  <2>3. \A k \in RuleIds, t \in SuggestionIds : calm /\ t # s /\ Accepted(k, t) =>
          suggestions[t].status = "accepted" /\ suggestions[t].rule = k
    BY <2>1, NoOtherMarks DEF At
  <2>4. \A k \in RuleIds : calm /\ rules[k] # None /\ rules[k].source = s =>
          d.status = "accepted" /\ d.rule = k
    BY <2>1 DEF IInv, SourcesOK, Accepted
  <2>5. ~At(r, "idle")
    BY <2>1 DEF At
  <2>6. QED BY <2>1, <2>2, <2>3, <2>4, <2>5, SuggestionStep
<1>2. CASE MarkAccepted(r)
  <2> DEFINE s == req[r].id
             k == req[r].konto
             d == [suggestions[s] EXCEPT !.status = "accepted", !.rule = k]
  <2>1. /\ At(r, "markAccepted") /\ Goto(r, "idle") /\ Proceed /\ UNCHANGED <<rules, edited>>
        /\ s \in SuggestionIds /\ suggestions[s] # None /\ k \in RuleIds
        /\ calm => suggestions[s].status = "pending"
    BY <1>2 DEF MarkAccepted, At, IInv, WorkOK, RuleWork
  <2>2. suggestions[s] \in SuggestionDoc
    BY <2>1 DEF IInv, StoreOK, BookOK
  <2>3. d \in SuggestionDoc /\ d.status = "accepted" /\ d.rule = k
    BY <2>1, <2>2 DEF SuggestionDoc
  <2>4. suggestions' = [suggestions EXCEPT ![s] = d]
    BY <1>2, <2>1, <2>2 DEF MarkAccepted, IInv, StoreOK, BookOK
  <2> HIDE DEF d
  <2>5. \A i \in RuleIds, t \in SuggestionIds : calm /\ t # s /\ Accepted(i, t) =>
          suggestions[t].status = "accepted" /\ suggestions[t].rule = i
    BY <2>1, NoOtherMarks DEF At
  <2>6. ASSUME calm, NEW i \in RuleIds, rules[i] # None, rules[i].source = s PROVE i = k
    <3>1. Accepted(i, s)
      BY <2>1, <2>6 DEF IInv, SourcesOK
    <3>2. QED BY <2>1, <2>6, <3>1, NoOtherMarks DEF At
  <2> HIDE DEF s, k
  <2>7. ~At(r, "idle")
    BY <2>1 DEF At
  <2>8. QED BY <2>1, <2>3, <2>4, <2>5, <2>6, <2>7, SuggestionStep
<1>3. CASE MarkRejected(r)
  <2> DEFINE s == req[r].id
             d == [suggestions[s] EXCEPT !.status = "rejected"]
  <2>1. /\ At(r, "markRejected") /\ Goto(r, "idle") /\ Proceed /\ UNCHANGED <<rules, edited>>
        /\ s \in SuggestionIds /\ suggestions[s] # None
        /\ calm => suggestions[s].status = "pending"
    BY <1>3 DEF MarkRejected, At, IInv, WorkOK, RuleWork
  <2>2. suggestions[s] \in SuggestionDoc
    BY <2>1 DEF IInv, StoreOK, BookOK
  <2>3. d \in SuggestionDoc
    BY <2>2 DEF SuggestionDoc
  <2>4. suggestions' = [suggestions EXCEPT ![s] = d]
    BY <1>3, <2>1, <2>2 DEF MarkRejected, IInv, StoreOK, BookOK
  <2> HIDE DEF d
  <2>5. \A k \in RuleIds, t \in SuggestionIds : calm /\ t # s /\ Accepted(k, t) =>
          suggestions[t].status = "accepted" /\ suggestions[t].rule = k
    BY <2>1, NoOtherMarks DEF At
  <2>6. \A k \in RuleIds : calm /\ rules[k] # None /\ rules[k].source = s =>
          d.status = "accepted" /\ d.rule = k
    <3>1. ASSUME calm, NEW k \in RuleIds PROVE ~Accepted(k, s)
      BY <2>1, <3>1, NoOtherMarks DEF At
    <3>2. QED BY <2>1, <3>1 DEF IInv, SourcesOK
  <2> HIDE DEF s
  <2>7. ~At(r, "idle")
    BY <2>1 DEF At
  <2>8. QED BY <2>1, <2>3, <2>4, <2>5, <2>6, <2>7, SuggestionStep
<1>4. QED BY <1>1, <1>2, <1>3

(* A cluster is proposed, a pending suggestion accepted or rejected.       *)
LEMMA StartSuggestion ==
  ASSUME IInv, NEW r \in Requests, UNCHANGED settings,
         \/ \E g \in Signatures, konto, gegenkonto \in Entered :
              StartAnalyze(r, g, konto, gegenkonto) \/ StartLexoffice(r, g, konto, gegenkonto)
         \/ \E s \in SuggestionIds : StartAccept(r, s) \/ StartReject(r, s)
  PROVE  IInv'
<1>1. ASSUME NEW g \in Signatures, NEW konto \in Entered, NEW c \in Entered,
             StartAnalyze(r, g, konto, c) \/ StartLexoffice(r, g, konto, c)
      PROVE  IInv'
  <2> DEFINE w == [Idle EXCEPT !.pc = "propose", !.id = g, !.konto = konto, !.contra = c]
  <2>1. Begin(r, w) /\ UNCHANGED <<book, settings>>
    BY <1>1 DEF StartAnalyze, StartLexoffice
  <2>2. konto \in Konten /\ c \in Konten /\ g \in Ids /\ "propose" \in PCs
    BY BookAssumption DEF Ids, PCs
  <2>3. w \in Work /\ w.pc = "propose" /\ w.id = g /\ w.konto = konto
    BY <2>2, IdleIsWork DEF Work
  <2> HIDE DEF w
  <2>4. req'[r] = w => WorkOK(req[r])'
    BY <2>2, <2>3 DEF WorkOK, RuleWork, PolicyWork, AccountWork, Renumbering
  <2>5. QED BY <2>1, <2>3, <2>4, Beginning
<1>2. ASSUME NEW s \in SuggestionIds, NEW pc \in {"createSuggested", "markRejected"},
             Pending(s), Begin(r, [Idle EXCEPT !.pc = pc, !.id = s]), UNCHANGED book
      PROVE  IInv'
  <2> DEFINE w == [Idle EXCEPT !.pc = pc, !.id = s]
  <2>1. s \in Ids /\ pc \in PCs
    BY DEF Ids, PCs
  <2>2. w \in Work /\ w.pc = pc /\ w.id = s
    BY <2>1, IdleIsWork DEF Work
  <2>3. Begin(r, w)
    BY <1>2
  <2> HIDE DEF w
  <2>4. req'[r] = w => WorkOK(req[r])'
    BY <1>2, <2>2 DEF WorkOK, RuleWork, PolicyWork, AccountWork, Renumbering, Pending, book
  <2>5. QED BY <1>2, <2>2, <2>3, <2>4, Beginning
<1>3. QED BY <1>1, <1>2 DEF StartAccept, StartReject

----------------------------------------------------------------------------
(* The policy and its cache.                                               *)

(* The seeder goes on with the accounts of the policy it was given.        *)
LEMMA SeedingWork ==
  ASSUME NEW p \in Policy
  PROVE  Seeding(p) \in Work /\ Seeding(p).pc = "findSeed" /\ Seeding(p).konto \in Konten
<1>1. p.slots[Inventory] \in Konten /\ p.slots[Bank] \in Konten /\ "findSeed" \in PCs
  BY SettingsAssumption DEF Policy, PCs
<1>2. QED BY <1>1, IdleIsWork DEF Seeding, Work

(* A policy is looked for, or with a slot of the account entered.          *)
LEMMA StartPolicy ==
  ASSUME IInv, NEW r \in Requests,
         \/ StartReadConfig(r) \/ StartSeedOptional(r)
         \/ \E s \in Slots, n \in Entered : StartUpdatePolicies(r, s, n)
         \/ StartUpdatePolicies(r, None, None)
         \/ StartResetPolicies(r) \/ StartShowPolicies(r)
  PROVE  IInv'
<1>1. clock \in Nat /\ policy \in Policy
  BY SettingsAssumption DEF IInv, StoreOK, PolicyOK
<1>2. ASSUME NEW i \in {None, "seed"},
             Begin(r, [Idle EXCEPT !.pc = "readConfig", !.id = i, !.number = clock]),
             UNCHANGED <<book, settings>>
      PROVE  IInv'
  <2> DEFINE w == [Idle EXCEPT !.pc = "readConfig", !.id = i, !.number = clock]
  <2>1. i \in Ids /\ "readConfig" \in PCs
    BY DEF Ids, PCs
  <2>2. w \in Work /\ w.pc = "readConfig" /\ w.number = clock
    BY <1>1, <2>1, IdleIsWork DEF Work
  <2>3. Begin(r, w)
    BY <1>2
  <2> HIDE DEF w
  <2>4. req'[r] = w => WorkOK(req[r])'
    BY <1>1, <1>2, <2>2
       DEF WorkOK, RuleWork, PolicyWork, AccountWork, Renumbering, settings
  <2>5. QED BY <1>2, <2>2, <2>3, <2>4, Beginning
<1>3. ASSUME NEW i \in {None, "reset", "show"} \cup Slots, NEW c \in Policy \cup {None},
             c = None => i = None,
             Begin(r, [Idle EXCEPT !.pc = "writePolicy", !.id = i, !.copy = c]),
             UNCHANGED <<book, settings>>
      PROVE  IInv'
  <2> DEFINE w == [Idle EXCEPT !.pc = "writePolicy", !.id = i, !.copy = c]
  <2>1. i \in Ids /\ "writePolicy" \in PCs
    BY DEF Ids, PCs
  <2>2. w \in Work /\ w.pc = "writePolicy" /\ w.id = i /\ w.copy = c
    BY <2>1, IdleIsWork DEF Work
  <2>3. Begin(r, w)
    BY <1>3
  <2> HIDE DEF w
  <2>4. req'[r] = w => WorkOK(req[r])'
    BY <1>3, <2>2 DEF WorkOK, RuleWork, PolicyWork, AccountWork, Renumbering
  <2>5. QED BY <1>3, <2>2, <2>3, <2>4, Beginning
<1>4. CASE StartReadConfig(r)
  <2>1. [Idle EXCEPT !.pc = "readConfig", !.number = clock]
          = [Idle EXCEPT !.pc = "readConfig", !.id = None, !.number = clock]
    BY IdleIsWork DEF Idle
  <2>2. QED BY <1>2, <1>4, <2>1 DEF StartReadConfig
<1>5. CASE StartSeedOptional(r)
  <2>1. CASE ~Hit
    BY <1>2, <1>5, <2>1 DEF StartSeedOptional
  <2>2. CASE Hit
    <3> DEFINE w == Seeding(cache.policy)
    <3>1. Begin(r, w) /\ UNCHANGED <<book, settings>>
      BY <1>5, <2>2 DEF StartSeedOptional
    <3>2. cache.policy \in Policy
      BY <2>2 DEF Hit, IInv, StoreOK, CacheOK
    <3>3. w \in Work /\ w.pc = "findSeed" /\ w.konto \in Konten
      BY <3>2, SeedingWork
    <3> HIDE DEF w
    <3>4. req'[r] = w => WorkOK(req[r])'
      BY <3>3 DEF WorkOK, RuleWork, PolicyWork, AccountWork, Renumbering
    <3>5. QED BY <3>1, <3>3, <3>4, Beginning
  <2>3. QED BY <2>1, <2>2
<1>6. ASSUME NEW s \in Slots, NEW n \in Konten
      PROVE  [policy EXCEPT !.slots[s] = n] \in Policy
  BY <1>1, <1>6 DEF Policy
<1>7. ASSUME NEW s \in Slots, NEW n \in Entered, StartUpdatePolicies(r, s, n) PROVE IInv'
  <2> DEFINE c == IF s = None THEN None ELSE [policy EXCEPT !.slots[s] = n]
  <2>1. c \in Policy \cup {None}
    BY <1>6, BookAssumption
  <2>2. c = None => s = None
    BY <1>6, BookAssumption, AccountAssumption
  <2>3. QED BY <1>3, <1>7, <2>1, <2>2 DEF StartUpdatePolicies
<1>8. CASE StartUpdatePolicies(r, None, None)
  BY <1>3, <1>8 DEF StartUpdatePolicies
<1>9. CASE StartResetPolicies(r)
  <2> DEFINE c == [policy EXCEPT !.slots = DefaultSlots]
  <2>1. c \in Policy
    BY <1>1, SettingsAssumption DEF Policy
  <2>2. QED BY <1>3, <1>9, <2>1, AccountAssumption DEF StartResetPolicies
<1>10. CASE StartShowPolicies(r)
  <2> DEFINE c == [policy EXCEPT !.slots[Inventory] = DefaultSlots[Inventory]]
  <2>1. c \in Policy
    BY <1>6, SettingsAssumption
  <2>2. QED BY <1>3, <1>10, <2>1, AccountAssumption DEF StartShowPolicies
<1>11. QED BY <1>4, <1>5, <1>7, <1>8, <1>9, <1>10

(* The policy is read, and the copy goes into the cache.                   *)
LEMMA ReadConfigStep ==
  ASSUME IInv, NEW r \in Requests, ReadConfig(r)
  PROVE  IInv'
<1> DEFINE w == [req[r] EXCEPT !.pc = "fillCache", !.copy = policy]
<1>1. /\ req[r] \in Work /\ policy \in Policy /\ At(r, "readConfig")
      /\ req[r].number \in Nat /\ req[r].number <= clock
  BY DEF ReadConfig, At, IInv, StoreOK, PolicyOK, WorkOK, PolicyWork
<1>2. w \in Work /\ w.pc = "fillCache" /\ w.number = req[r].number
  BY <1>1 DEF Work, PCs
<1>3. w.copy = policy
  BY <1>1 DEF Work
<1>4. req' = [req EXCEPT ![r] = w]
  BY <1>1 DEF ReadConfig, IInv
<1> HIDE DEF w
<1>5. /\ req' \in [Requests -> Work] /\ req'[r] = w
      /\ \A q \in Requests \ {r} : req'[q] = req[q]
  BY <1>2, <1>4 DEF IInv
<1>6. TurnOf(r) /\ CountersOK' /\ UNCHANGED <<book, settings>> /\ ~At(r, "markAccepted")
  BY <1>1, ProceedTurn DEF ReadConfig, At
<1>7. Fresh(policy, req[r].number)
  BY <1>1 DEF Fresh, Policy
<1>8. WorkOK(req[r])'
  BY <1>1, <1>2, <1>3, <1>5, <1>6, <1>7
     DEF WorkOK, RuleWork, PolicyWork, AccountWork, Renumbering, Fresh, settings
<1>9. QED BY <1>2, <1>5, <1>6, <1>8, SettingsSame, QuietStep

LEMMA FillCacheStep ==
  ASSUME IInv, NEW r \in Requests, FillCache(r)
  PROVE  IInv'
<1> DEFINE w == IF req[r].id = "seed" THEN Seeding(req[r].copy) ELSE Idle
<1>1. /\ At(r, "fillCache") /\ req[r].copy \in Policy
      /\ req[r].number \in Nat /\ req[r].number <= clock /\ Fresh(req[r].copy, req[r].number)
  BY DEF FillCache, At, IInv, WorkOK, PolicyWork
<1>2. req' = [req EXCEPT ![r] = w]
  BY DEF FillCache, Goto
<1>3. w \in Work /\ (w.pc = "idle" \/ (w.pc = "findSeed" /\ w.konto \in Konten))
  BY <1>1, IdleIsWork, SeedingWork
<1> HIDE DEF w
<1>5. /\ req' \in [Requests -> Work] /\ req'[r] = w
      /\ \A q \in Requests \ {r} : req'[q] = req[q]
  BY <1>2, <1>3 DEF IInv
<1>6. /\ TurnOf(r) /\ CountersOK' /\ ~At(r, "markAccepted")
      /\ UNCHANGED <<book, policy, company, accounts, clock, writtenAt>>
  BY <1>1, ProceedTurn DEF FillCache, At
<1>7. WorkOK(req[r])'
  BY <1>3, <1>5 DEF WorkOK, RuleWork, PolicyWork, AccountWork, Renumbering
<1>8. CacheOK'
  BY <1>1, <1>6 DEF FillCache, CachedAt, CacheOK, Fresh
<1>9. AccountsOK'
  BY <1>6 DEF IInv, StoreOK, AccountsOK
<1>10. QED BY <1>3, <1>5, <1>6, <1>7, <1>8, <1>9, QuietStep

(* The policy is written: what was read before is fresh still.             *)
LEMMA StoreStep ==
  ASSUME IInv, NEW r \in Requests, NEW pc \in PCs, Goto(r, pc), Proceed,
         ~At(r, "idle"), ~At(r, "markAccepted"), pc # "writeRule",
         NEW slots \in [Slots -> Konten], NEW ver \in Nat, Store(slots, ver),
         UNCHANGED <<book, cache, company, accounts, clock>>, WorkOK(req[r])'
  PROVE  IInv'
<1>1. /\ req' \in [Requests -> Work] /\ req'[r].pc = pc
      /\ \A q \in Requests \ {r} : req'[q] = req[q]
  BY Going
<1>2. TurnOf(r) /\ CountersOK'
  BY ProceedTurn
<1>3. PolicyOK /\ policy.rev \in Nat /\ clock \in Nat
  BY SettingsAssumption DEF IInv, StoreOK, PolicyOK, Policy
<1>4. /\ policy' \in Policy /\ policy'.rev = policy.rev + 1
      /\ writtenAt' = Append(writtenAt, clock)
  BY <1>3 DEF Store, Policy
<1>5. PolicyMoves
  BY <1>4 DEF PolicyMoves
<1>6. PolicyOK'
  <2>1. /\ Len(writtenAt) \in Nat
        /\ Len(writtenAt') = Len(writtenAt) + 1 /\ writtenAt' \in Seq(Nat)
        /\ writtenAt'[Len(writtenAt) + 1] = clock
        /\ \A i \in 1..Len(writtenAt) : writtenAt'[i] = writtenAt[i]
    <3>1. writtenAt \in Seq(Nat)
      BY <1>3 DEF PolicyOK
    <3>2. QED BY <1>3, <1>4, <3>1, Appended
  <2>2. ASSUME NEW i \in 1..Len(writtenAt') PROVE writtenAt'[i] <= clock
    <3>1. CASE i = Len(writtenAt) + 1
      BY <1>3, <2>1, <3>1
    <3>2. CASE i # Len(writtenAt) + 1
      <4>1. i \in 1..Len(writtenAt)
        BY <2>1, <3>2
      <4>2. QED BY <1>3, <2>1, <4>1 DEF PolicyOK
    <3>3. QED BY <3>1, <3>2
  <2>3. QED BY <1>3, <1>4, <2>1, <2>2 DEF PolicyOK
<1>7. CacheOK'
  <2> SUFFICES ASSUME cache # None
               PROVE  Fresh(cache.policy, cache.at)'
    BY DEF IInv, StoreOK, CacheOK
  <2>1. cache.policy \in Policy /\ cache.at \in Nat /\ cache.at <= clock
        /\ Fresh(cache.policy, cache.at)
    BY DEF IInv, StoreOK, CacheOK
  <2>2. QED BY <1>3, <1>5, <2>1, FreshKept DEF Fresh
<1>8. Rest(r)
  BY <1>5 DEF Rest, book
<1>9. StoreOK'
  BY <1>2, <1>6, <1>7 DEF IInv, StoreOK, BookOK, VersionsOK, AccountsOK, book
<1>10. VersionsTraceable'
  BY DEF IInv, VersionsTraceable, book
<1>11. SourcesOK'
  BY <1>1, <1>2, SourcesSame DEF book
<1>12. QED BY <1>1, <1>2, <1>8, <1>9, <1>10, <1>11, OneStep

LEMMA WritePolicyStep ==
  ASSUME IInv, NEW r \in Requests, WritePolicy(r)
  PROVE  IInv'
<1> DEFINE slots == IF req[r].copy = None THEN policy.slots ELSE req[r].copy.slots
<1>1. /\ At(r, "writePolicy") /\ Goto(r, "invalidate") /\ Proceed
      /\ Store(slots, policy.ver) /\ UNCHANGED <<book, cache, company, accounts, clock>>
      /\ req[r].copy \in Policy \/ (req[r].copy = None /\ req[r].id = None)
  BY DEF WritePolicy, At, IInv, WorkOK, PolicyWork
<1>2. slots \in [Slots -> Konten] /\ policy.ver \in Nat /\ "invalidate" \in PCs
  BY <1>1 DEF IInv, StoreOK, PolicyOK, Policy, PCs
<1> HIDE DEF slots
<1>3. WorkOK(req[r])'
  BY <1>1, <1>2, Going DEF WorkOK, RuleWork, PolicyWork, AccountWork, Renumbering
<1>4. QED BY <1>1, <1>2, <1>3, StoreStep DEF At

(* The cache is emptied, the company's accounts follow the policy.         *)
LEMMA AfterWriteStep ==
  ASSUME IInv, NEW r \in Requests, InvalidatePolicyCache(r) \/ SyncCompany(r)
  PROVE  IInv'
<1>1. CASE InvalidatePolicyCache(r)
  <2> DEFINE pc == IF req[r].id \in {None, "show"} THEN "idle" ELSE "syncCompany"
  <2>1. /\ At(r, "invalidate") /\ Goto(r, pc) /\ Proceed /\ cache' = None
        /\ UNCHANGED <<book, policy, company, accounts, clock, writtenAt>>
        /\ req[r].copy \in Policy \/ (req[r].copy = None /\ req[r].id = None)
    BY <1>1 DEF InvalidatePolicyCache, At, IInv, WorkOK, PolicyWork
  <2>2. pc \in PCs /\ pc \in {"idle", "syncCompany"}
    BY DEF PCs
  <2>3. pc = "syncCompany" => req[r].copy \in Policy
    BY <2>1
  <2> HIDE DEF pc
  <2>4. WorkOK(req[r])'
    BY <2>1, <2>2, <2>3, Going
       DEF WorkOK, RuleWork, PolicyWork, AccountWork, Renumbering
  <2>5. CacheOK' /\ AccountsOK'
    BY <2>1 DEF CacheOK, AccountsOK, IInv, StoreOK
  <2>6. QED BY <2>1, <2>2, <2>4, <2>5, QuietGoing DEF At
<1>2. CASE SyncCompany(r)
  <2>1. /\ At(r, "syncCompany") /\ Goto(r, "idle") /\ Proceed
        /\ company' = [s \in Synced |-> req[r].copy.slots[s]]
        /\ UNCHANGED <<book, policy, cache, accounts, clock, writtenAt>>
        /\ req[r].copy \in Policy
    BY <1>2 DEF SyncCompany, At, IInv, WorkOK, PolicyWork
  <2>2. "idle" \in PCs
    BY DEF PCs
  <2>3. WorkOK(req[r])'
    BY <2>1, <2>2, Going, IdleOK
  <2>4. AccountsOK'
    BY <2>1, SettingsAssumption DEF AccountsOK, IInv, StoreOK, Policy
  <2>5. CacheOK'
    BY <2>1 DEF CacheOK, IInv, StoreOK, Fresh
  <2>6. QED BY <2>1, <2>2, <2>3, <2>4, <2>5, QuietGoing DEF At
<1>3. QED BY <1>1, <1>2

----------------------------------------------------------------------------
(* The chart of accounts.                                                  *)

(* An account is to be created or renumbered.                              *)
LEMMA StartAccount ==
  ASSUME IInv, NEW r \in Requests,
         \/ \E n \in Entered, system \in BOOLEAN : StartCreateAccount(r, n, system)
         \/ \E a \in AccountIds, n \in Entered : StartRenumber(r, a, n)
         \/ \E a \in AccountIds : StartMigrate(r, a) \/ StartDeleteAccount(r, a)
         \/ StartRemapLegacy(r)
  PROVE  IInv'
<1>1. ASSUME NEW n \in Entered, NEW system \in BOOLEAN, StartCreateAccount(r, n, system)
      PROVE  IInv'
  <2> DEFINE w == [Idle EXCEPT !.pc = "createAccount", !.konto = n, !.clean = system]
  <2>1. Begin(r, w) /\ UNCHANGED <<book, settings>>
    BY <1>1 DEF StartCreateAccount
  <2>2. n \in Konten /\ "createAccount" \in PCs
    BY BookAssumption DEF PCs
  <2>3. w \in Work /\ w.pc = "createAccount" /\ w.konto = n
    BY <2>2, IdleIsWork DEF Work
  <2> HIDE DEF w
  <2>4. req'[r] = w => WorkOK(req[r])'
    BY <2>2, <2>3 DEF WorkOK, RuleWork, PolicyWork, AccountWork, Renumbering
  <2>5. QED BY <2>1, <2>3, <2>4, Beginning
<1>2. ASSUME NEW pc \in {"checkNumber", "renumber", "remapPolicy"},
             NEW i \in AccountIds \cup {None}, pc # "remapPolicy" => i \in AccountIds,
             NEW n \in Konten, NEW m \in Konten, n # m,
             Begin(r, [Idle EXCEPT !.pc = pc, !.id = i, !.konto = n, !.number = m]),
             UNCHANGED <<book, settings>>
      PROVE  IInv'
  <2> DEFINE w == [Idle EXCEPT !.pc = pc, !.id = i, !.konto = n, !.number = m]
  <2>1. i \in Ids /\ pc \in PCs
    BY DEF Ids, PCs
  <2>2. w \in Work
    BY <2>1, IdleIsWork DEF Work
  <2>3. w.pc = pc /\ w.id = i
    BY DEF Idle
  <2>4. w.konto = n /\ w.number = m
    BY DEF Idle
  <2>5. Begin(r, w)
    BY <1>2
  <2> HIDE DEF w
  <2>6. req'[r] = w => WorkOK(req[r])'
    BY <1>2, <2>3, <2>4 DEF WorkOK, RuleWork, PolicyWork, AccountWork, Renumbering
  <2>7. QED BY <1>2, <2>2, <2>3, <2>5, <2>6, Beginning
<1>3. ASSUME NEW a \in AccountIds, NEW n \in Entered, StartRenumber(r, a, n) PROVE IInv'
  <2> DEFINE m == accounts[a].number
  <2>1. /\ Begin(r, [Idle EXCEPT !.pc = "checkNumber", !.id = a, !.konto = n, !.number = m])
        /\ n # m /\ UNCHANGED <<book, settings>>
    BY <1>3 DEF StartRenumber
  <2>2. n \in Konten /\ m \in Konten
    BY <1>3, BookAssumption DEF StartRenumber, Known, IInv, StoreOK, AccountsOK, Account
  <2> HIDE DEF m
  <2>3. QED BY <1>2, <2>1, <2>2
<1>4. Legacy \in Konten /\ DefaultSlots[Inventory] \in Konten
      /\ DefaultSlots[Inventory] # Legacy
  BY SettingsAssumption
<1>5. ASSUME NEW a \in AccountIds, StartMigrate(r, a) PROVE IInv'
  BY <1>2, <1>4, <1>5 DEF StartMigrate
<1>6. CASE StartRemapLegacy(r)
  <2> DEFINE n == DefaultSlots[Inventory]
             w == [Idle EXCEPT !.pc = "remapPolicy", !.konto = n, !.number = Legacy]
  <2>1. Begin(r, w) /\ UNCHANGED <<book, settings>>
    BY <1>6 DEF StartRemapLegacy
  <2>2. n \in Konten /\ n # Legacy /\ "remapPolicy" \in PCs
    BY <1>4 DEF PCs
  <2> HIDE DEF n
  <2>3. w \in Work
    BY <1>4, <2>2, IdleIsWork DEF Work
  <2>4. w.pc = "remapPolicy" /\ w.konto = n /\ w.number = Legacy
    BY DEF Idle
  <2> HIDE DEF w
  <2>5. req'[r] = w => WorkOK(req[r])'
    BY <2>2, <2>4 DEF WorkOK, RuleWork, PolicyWork, AccountWork, Renumbering
  <2>6. QED BY <2>1, <2>3, <2>4, <2>5, Beginning
<1>7. ASSUME NEW a \in AccountIds, StartDeleteAccount(r, a) PROVE IInv'
  <2> DEFINE w == [Idle EXCEPT !.pc = "deleteAccount", !.id = a]
  <2>1. Begin(r, w) /\ UNCHANGED <<book, settings>>
    BY <1>7 DEF StartDeleteAccount
  <2>2. a \in Ids /\ "deleteAccount" \in PCs
    BY DEF Ids, PCs
  <2>3. w \in Work /\ w.pc = "deleteAccount"
    BY <2>2, IdleIsWork DEF Work
  <2> HIDE DEF w
  <2>4. req'[r] = w => WorkOK(req[r])'
    BY <2>3 DEF WorkOK, RuleWork, PolicyWork, AccountWork, Renumbering
  <2>5. QED BY <2>1, <2>3, <2>4, Beginning
<1>8. QED BY <1>1, <1>3, <1>5, <1>6, <1>7

(* A request of one write, to an account or the company's accounts.        *)
LEMMA SingleStep ==
  ASSUME IInv, NEW r \in Requests, Single(r),
         UNCHANGED <<book, policy, cache, clock, writtenAt>>, AccountsOK'
  PROVE  IInv'
<1>1. TurnOf(r) /\ CountersOK' /\ At(r, "idle") /\ req' = req
  BY ArriveTurn DEF Single
<1>2. WorkOK(req[r])'
  BY <1>1, IdleOK DEF At
<1>3. CacheOK'
  BY DEF IInv, StoreOK, CacheOK, Fresh
<1>4. QED BY <1>1, <1>2, <1>3, QuietStep DEF At, IInv

LEMMA SinglesStep ==
  ASSUME IInv, NEW r \in Requests,
         \/ \E s \in Synced, n \in Entered : UpdateCompany(r, s, n)
         \/ \E a \in AccountIds, system \in BOOLEAN : SeedKnownAccount(r, a, system)
  PROVE  IInv'
<1>1. ASSUME NEW s \in Synced, NEW n \in Entered, UpdateCompany(r, s, n) PROVE IInv'
  <2>1. AccountsOK'
    BY <1>1, BookAssumption DEF UpdateCompany, AccountsOK, IInv, StoreOK
  <2>2. QED BY <1>1, <2>1, SingleStep DEF UpdateCompany
<1>2. ASSUME NEW a \in AccountIds, accounts[a] # None,
             NEW system \in BOOLEAN, accounts' = [accounts EXCEPT ![a].system = system],
             company' = company
      PROVE  AccountsOK'
  <2>1. accounts[a] \in Account
    BY <1>2 DEF IInv, StoreOK, AccountsOK
  <2>2. [accounts[a] EXCEPT !.system = system] \in Account
    BY <2>1 DEF Account
  <2>3. QED BY <1>2, <2>2 DEF IInv, StoreOK, AccountsOK
<1>3. ASSUME NEW a \in AccountIds, NEW system \in BOOLEAN, SeedKnownAccount(r, a, system)
      PROVE  IInv'
  BY <1>2, <1>3, SingleStep DEF SeedKnownAccount, Known
<1>4. QED BY <1>1, <1>3

(* The calls of a request about an account.                                *)
LEMMA AccountStepKept ==
  ASSUME IInv, NEW r \in Requests,
         \/ CheckNumber(r) \/ Renumber(r) \/ DeleteAccount(r)
         \/ \E a \in AccountIds : CreateAccount(r, a)
  PROVE  IInv'
<1>1. {"idle", "renumber", "remapPolicy"} \subseteq PCs
  BY DEF PCs
<1>2. CASE CheckNumber(r)
  <2> DEFINE pc == IF ByNumber(req[r].konto) \subseteq {req[r].id} THEN "renumber" ELSE "idle"
  <2>1. /\ At(r, "checkNumber") /\ Goto(r, pc) /\ Proceed /\ UNCHANGED <<book, settings>>
        /\ req[r].konto \in Konten /\ req[r].konto # req[r].number /\ req[r].id \in AccountIds
    BY <1>2 DEF CheckNumber, At, IInv, WorkOK, AccountWork, Renumbering
  <2>2. pc \in {"renumber", "idle"}
    OBVIOUS
  <2> HIDE DEF pc
  <2>3. WorkOK(req[r])'
    BY <1>1, <2>1, <2>2, Going DEF WorkOK, RuleWork, PolicyWork, AccountWork, Renumbering
  <2>4. QED BY <1>1, <2>1, <2>2, <2>3, SettingsSame, QuietGoing DEF At
<1>3. CASE Renumber(r)
  <2> DEFINE pc == IF Known(req[r].id) THEN "remapPolicy" ELSE "idle"
             a == req[r].id
  <2>1. /\ At(r, "renumber") /\ Goto(r, pc) /\ Proceed
        /\ UNCHANGED <<book, policy, cache, company, clock, writtenAt>>
        /\ req[r].konto \in Konten /\ req[r].konto # req[r].number /\ req[r].id \in AccountIds
    BY <1>3 DEF Renumber, At, IInv, WorkOK, AccountWork, Renumbering
  <2>2. pc \in {"remapPolicy", "idle"}
    OBVIOUS
  <2>3. AccountsOK'
    <3>1. CASE Known(a)
      <4>1. accounts[a] \in Account
        BY <2>1, <3>1 DEF Known, IInv, StoreOK, AccountsOK
      <4>2. [accounts[a] EXCEPT !.number = req[r].konto] \in Account
        BY <2>1, <4>1 DEF Account
      <4>3. QED BY <1>3, <2>1, <3>1, <4>2 DEF Renumber, IInv, StoreOK, AccountsOK
    <3>2. CASE ~Known(a)
      BY <1>3, <2>1, <3>2 DEF Renumber, IInv, StoreOK, AccountsOK
    <3>3. QED BY <3>1, <3>2
  <2> HIDE DEF pc
  <2>4. WorkOK(req[r])'
    BY <1>1, <2>1, <2>2, Going DEF WorkOK, RuleWork, PolicyWork, AccountWork, Renumbering
  <2>5. CacheOK'
    BY <2>1 DEF IInv, StoreOK, CacheOK, Fresh
  <2>6. QED BY <1>1, <2>1, <2>2, <2>3, <2>4, <2>5, QuietGoing DEF At
<1>4. ASSUME NEW a \in AccountIds, CreateAccount(r, a) PROVE IInv'
  <2> DEFINE d == [number |-> req[r].konto, deleted |-> FALSE, system |-> req[r].clean]
  <2>1. /\ At(r, "createAccount") /\ Goto(r, "idle") /\ Proceed
        /\ accounts' = [accounts EXCEPT ![a] = d]
        /\ UNCHANGED <<book, policy, cache, company, clock, writtenAt>>
        /\ req[r].konto \in Konten
    BY <1>4 DEF CreateAccount, At, IInv, WorkOK, PolicyWork
  <2>2. d \in Account
    BY <2>1 DEF Account, IInv, Work
  <2> HIDE DEF d
  <2>3. AccountsOK'
    BY <2>1, <2>2 DEF IInv, StoreOK, AccountsOK
  <2>4. WorkOK(req[r])'
    BY <1>1, <2>1, Going, IdleOK
  <2>5. CacheOK'
    BY <2>1 DEF IInv, StoreOK, CacheOK, Fresh
  <2>6. QED BY <1>1, <2>1, <2>3, <2>4, <2>5, QuietGoing DEF At
<1>5. CASE DeleteAccount(r)
  <2> DEFINE gone == [a \in AccountIds |-> IF a = req[r].id /\ Known(a)
                        THEN [accounts[a] EXCEPT !.deleted = TRUE] ELSE accounts[a]]
  <2>1. /\ At(r, "deleteAccount") /\ Goto(r, "idle") /\ Proceed /\ accounts' = gone
        /\ UNCHANGED <<book, policy, cache, company, clock, writtenAt>>
    BY <1>5 DEF DeleteAccount
  <2>2. ASSUME NEW a \in AccountIds PROVE gone[a] \in Account \cup {None}
    BY DEF Known, Account, IInv, StoreOK, AccountsOK
  <2>3. gone \in [AccountIds -> Account \cup {None}]
    BY <2>2
  <2> HIDE DEF gone
  <2>4. AccountsOK'
    BY <2>1, <2>3 DEF IInv, StoreOK, AccountsOK
  <2>5. WorkOK(req[r])'
    BY <1>1, <2>1, Going, IdleOK
  <2>6. CacheOK'
    BY <2>1 DEF IInv, StoreOK, CacheOK, Fresh
  <2>7. QED BY <1>1, <2>1, <2>4, <2>5, <2>6, QuietGoing DEF At
<1>6. QED BY <1>2, <1>3, <1>4, <1>5

(* The seeder looks for its rule.                                          *)
LEMMA FindSeedStep ==
  ASSUME IInv, NEW r \in Requests, FindSeed(r)
  PROVE  IInv'
<1> DEFINE pc == IF \E k \in RuleIds : Live(k) /\ rules[k].source = "seed"
                 THEN "idle" ELSE "createSeed"
<1>1. /\ At(r, "findSeed") /\ Goto(r, pc) /\ Proceed /\ UNCHANGED <<book, settings>>
      /\ req[r].konto \in Konten
  BY DEF FindSeed, At, IInv, WorkOK, PolicyWork
<1>2. pc \in {"idle", "createSeed"} /\ pc \in PCs
  BY DEF PCs
<1> HIDE DEF pc
<1>3. WorkOK(req[r])'
  BY <1>1, <1>2, Going DEF WorkOK, RuleWork, PolicyWork, AccountWork, Renumbering
<1>4. QED BY <1>1, <1>2, <1>3, SettingsSame, QuietGoing DEF At

(* A renumbering moves the policy, if no other renumbering saved it since. *)
LEMMA RemapPolicyStep ==
  ASSUME IInv, NEW r \in Requests, RemapPolicy(r)
  PROVE  IInv'
<1> DEFINE slots == [s \in Slots |-> Moved(r, policy.slots[s])]
           w == [req[r] EXCEPT !.pc = "savePolicy", !.copy = [policy EXCEPT !.slots = slots]]
<1>1. /\ At(r, "remapPolicy") /\ Proceed /\ UNCHANGED <<book, settings>>
      /\ req[r].konto \in Konten /\ req[r].konto # req[r].number
      /\ policy \in Policy /\ req[r] \in Work
  BY DEF RemapPolicy, At, IInv, StoreOK, PolicyOK, WorkOK, AccountWork, Renumbering
<1>2. slots \in [Slots -> Konten] /\ \A s \in Slots : slots[s] # req[r].number
  BY <1>1 DEF Policy, Moved
<1>3. CASE slots = policy.slots
  <2>1. Goto(r, "remapRules") /\ "remapRules" \in PCs
    BY <1>3 DEF RemapPolicy, PCs
  <2>2. \A s \in Slots : policy.slots[s] # req[r].number
    BY <1>2, <1>3
  <2> HIDE DEF slots
  <2>3. WorkOK(req[r])'
    BY <1>1, <2>1, <2>2, Going
       DEF WorkOK, RuleWork, PolicyWork, AccountWork, Renumbering, settings
  <2>4. QED BY <1>1, <2>1, <2>3, SettingsSame, QuietGoing DEF At
<1>4. CASE slots # policy.slots
  <2>1. req' = [req EXCEPT ![r] = w]
    BY <1>1, <1>4 DEF RemapPolicy, IInv
  <2> DEFINE c == [policy EXCEPT !.slots = slots]
  <2>2. c \in Policy
    BY <1>1, <1>2 DEF Policy
  <2>3. c.ver = policy.ver /\ c.slots = slots
    BY <1>1 DEF Policy
  <2> HIDE DEF slots
  <2>4. w \in Work /\ w.pc = "savePolicy" /\ w.konto = req[r].konto
    BY <1>1, <2>2 DEF Work, PCs
  <2>5. w.number = req[r].number /\ w.copy = c
    BY <1>1 DEF Work
  <2> HIDE DEF w, c
  <2>6. /\ req' \in [Requests -> Work] /\ req'[r] = w
        /\ \A q \in Requests \ {r} : req'[q] = req[q]
    BY <2>1, <2>4 DEF IInv
  <2>7. TurnOf(r) /\ CountersOK' /\ ~At(r, "markAccepted")
    BY <1>1, ProceedTurn DEF At
  <2>8. AccountWork(req[r])'
    BY <1>1, <1>2, <2>2, <2>3, <2>4, <2>5, <2>6 DEF AccountWork, Renumbering, settings
  <2>9. WorkOK(req[r])'
    BY <2>4, <2>6, <2>8 DEF WorkOK, RuleWork, PolicyWork
  <2>10. QED BY <1>1, <2>4, <2>6, <2>7, <2>9, SettingsSame, QuietStep
<1>5. QED BY <1>3, <1>4

LEMMA SavePolicyStep ==
  ASSUME IInv, NEW r \in Requests, SavePolicy(r)
  PROVE  IInv'
<1>1. /\ At(r, "savePolicy") /\ Proceed /\ UNCHANGED <<book, cache, company, accounts, clock>>
      /\ req[r].konto \in Konten /\ req[r].konto # req[r].number
      /\ req[r].copy \in Policy /\ \A s \in Slots : req[r].copy.slots[s] # req[r].number
  BY DEF SavePolicy, At, IInv, WorkOK, AccountWork, Renumbering
<1>2. {"remapRules", "idle"} \subseteq PCs
  BY DEF PCs
<1>3. CASE req[r].copy.ver = policy.ver
  <2> DEFINE slots == req[r].copy.slots
             ver == policy.ver + 1
  <2>1. Store(slots, ver) /\ Goto(r, "remapRules")
    BY <1>3 DEF SavePolicy
  <2>2. slots \in [Slots -> Konten] /\ ver \in Nat
    BY <1>1 DEF IInv, StoreOK, PolicyOK, Policy
  <2>3. policy'.slots = slots
    BY <2>1 DEF Store
  <2> HIDE DEF ver
  <2>4. WorkOK(req[r])'
    BY <1>1, <1>2, <2>1, <2>3, Going
       DEF WorkOK, RuleWork, PolicyWork, AccountWork, Renumbering
  <2> HIDE DEF slots
  <2>5. QED BY <1>1, <1>2, <2>1, <2>2, <2>4, StoreStep DEF At
<1>4. CASE req[r].copy.ver # policy.ver
  <2>1. Goto(r, "idle") /\ UNCHANGED <<policy, writtenAt>>
    BY <1>4 DEF SavePolicy
  <2>2. WorkOK(req[r])'
    BY <1>2, <2>1, Going, IdleOK
  <2>3. QED BY <1>1, <1>2, <2>1, <2>2, SettingsSame, QuietGoing DEF At, settings
<1>5. QED BY <1>3, <1>4

----------------------------------------------------------------------------
(* The beginning, faults and time.                                         *)

LEMMA IInvInit == Init => IInv
<1> SUFFICES ASSUME Init PROVE IInv
  OBVIOUS
<1>1. PICK n \in Konten :
        policy = [slots |-> [DefaultSlots EXCEPT ![Inventory] = n], ver |-> 0, rev |-> 0]
  BY SettingsAssumption DEF Init
<1>2. policy \in Policy /\ policy.rev = 0
  BY <1>1, SettingsAssumption DEF Policy
<1>3. BookOK /\ VersionsOK /\ VersionsTraceable
  BY DocumentAssumption DEF Init, BookInit, BookOK, VersionsOK, VersionsTraceable
<1>4. PolicyOK
  BY <1>2, SettingsAssumption DEF Init, PolicyOK
<1>5. CacheOK
  BY DEF Init, CacheOK
<1>6. AccountsOK
  BY SettingsAssumption, AccountAssumption DEF Init, AccountsOK
<1>7. CountersOK
  BY BookAssumption DEF Init, BookInit, CountersOK
<1>8. req \in [Requests -> Work] /\ \A r \in Requests : req[r].pc = "idle"
  BY IdleIsWork DEF Init, BookInit
<1>9. \A r \in Requests : WorkOK(req[r])
  BY <1>8 DEF WorkOK, RuleWork, PolicyWork, AccountWork, Renumbering
<1>10. CleanAlone /\ CalmAlone
  BY <1>8 DEF CleanAlone, CalmAlone, At
<1>11. SourcesOK
  BY DocumentAssumption DEF Init, BookInit, SourcesOK
<1>12. QED BY <1>3, <1>4, <1>5, <1>6, <1>7, <1>8, <1>9, <1>10, <1>11 DEF IInv, StoreOK

(* A rejected call ends its request.                                       *)
LEMMA FailStep ==
  ASSUME IInv, NEW r \in Requests, Fail(r)
  PROVE  IInv'
<1>1. Goto(r, "idle") /\ Fault /\ UNCHANGED <<book, settings, starts>>
  BY DEF Fail
<1>2. /\ req' \in [Requests -> Work] /\ req'[r].pc = "idle"
      /\ \A q \in Requests \ {r} : req'[q] = req[q]
  BY <1>1, Going, IdleIsWork DEF Work
<1>3. calm' = FALSE /\ CountersOK' /\ WorkOK(req[r])'
  BY <1>1, <1>2, FaultTurn, IdleOK
<1>4. TurnOf(r) /\ SourcesOK'
  BY <1>3 DEF TurnOf, SourcesOK
<1>5. StoreOK'
  BY <1>1, <1>3, SettingsSame DEF IInv, StoreOK, BookOK, VersionsOK, PolicyOK, book, settings
<1>6. VersionsTraceable' /\ Rest(r)
  BY <1>1 DEF IInv, VersionsTraceable, Rest, PolicyMoves, book, settings
<1>7. QED BY <1>2, <1>3, <1>4, <1>5, <1>6, OneStep

(* A restart ends them all, and the cache is gone.                         *)
LEMMA RestartStep ==
  ASSUME IInv, Restart
  PROVE  IInv'
<1>1. /\ calm' = FALSE /\ CountersOK' /\ cache' = None
      /\ UNCHANGED <<book, policy, company, accounts, clock, writtenAt>>
  BY FaultTurn DEF Restart
<1>2. req' \in [Requests -> Work] /\ \A r \in Requests : req'[r].pc = "idle"
  BY IdleIsWork DEF Restart
<1>3. \A r \in Requests : WorkOK(req[r])'
  BY <1>2, IdleOK
<1>4. CleanAlone' /\ CalmAlone' /\ SourcesOK'
  BY <1>1, <1>2 DEF CleanAlone, CalmAlone, SourcesOK, At
<1>5. StoreOK' /\ VersionsTraceable'
  BY <1>1 DEF IInv, StoreOK, BookOK, VersionsOK, PolicyOK, CacheOK, AccountsOK,
              VersionsTraceable, book
<1>6. QED BY <1>2, <1>3, <1>4, <1>5 DEF IInv

(* Time passes.                                                            *)
LEMMA TickStep ==
  ASSUME IInv, Tick
  PROVE  IInv'
<1>1. /\ clock \in Nat /\ clock' = clock + 1 /\ clock' \in 0..MaxClock
      /\ UNCHANGED <<book, policy, cache, company, accounts, writtenAt, req, starts,
                     faults, calm>>
  BY SettingsAssumption DEF Tick, IInv, StoreOK, PolicyOK
<1>2. PolicyOK'
  BY <1>1 DEF IInv, StoreOK, PolicyOK
<1>3. CacheOK'
  BY <1>1 DEF IInv, StoreOK, CacheOK, Fresh
<1>4. StoreOK' /\ VersionsTraceable'
  BY <1>1, <1>2, <1>3 DEF IInv, StoreOK, BookOK, VersionsOK, AccountsOK, CountersOK,
                          VersionsTraceable, book
<1>5. ASSUME NEW r \in Requests PROVE WorkOK(req[r])'
  <2>1. WorkOK(req[r])
    BY DEF IInv
  <2>2. RuleWork(req[r])' /\ AccountWork(req[r])'
    BY <1>1, <2>1 DEF WorkOK, RuleWork, AccountWork, Renumbering, Live, book
  <2>3. PolicyWork(req[r])'
    BY <1>1, <2>1 DEF WorkOK, PolicyWork, Fresh
  <2>4. QED BY <2>2, <2>3 DEF WorkOK
<1>6. CleanAlone' /\ CalmAlone' /\ SourcesOK'
  BY <1>1 DEF IInv, CleanAlone, CalmAlone, SourcesOK, Accepted, At, book
<1>7. QED BY <1>1, <1>4, <1>5, <1>6 DEF IInv

LEMMA BookKept ==
  ASSUME IInv, NEW r \in Requests, BookStep(r), UNCHANGED settings
  PROVE  IInv'
<1>1. ASSUME NEW k \in RuleIds, NEW konto \in Entered, CreateRule(r, k, konto, None)
      PROVE  IInv'
  BY <1>1, CreateRuleStep, BookAssumption
<1>2. ASSUME NEW k \in RuleIds, NEW konto \in Entered, NEW g \in Entered,
             CreateRule(r, k, konto, g)
      PROVE  IInv'
  BY <1>2, CreateRuleStep, BookAssumption
<1>3. ASSUME NEW konto \in Entered, WriteRule(r, konto) PROVE IInv'
  BY <1>3, WriteRuleStep, BookAssumption
<1>4. QED BY <1>1, <1>2, <1>3, StartEditStep, RemoveRuleStep, CreateSuggestedStep,
             StartSuggestion, SuggestionsStep DEF BookStep

(* Every step keeps the invariant.                                         *)
LEMMA IInvNext == IInv /\ [Next]_vars => IInv'
<1> SUFFICES ASSUME IInv, [Next]_vars PROVE IInv'
  OBVIOUS
<1>1. CASE UNCHANGED vars
  <2>1. StoreOK' /\ VersionsTraceable'
    BY <1>1 DEF vars, IInv, StoreOK, BookOK, VersionsOK, PolicyOK, CacheOK, Fresh, AccountsOK,
                CountersOK, VersionsTraceable
  <2>2. ASSUME NEW r \in Requests PROVE WorkOK(req[r])'
    <3>1. WorkOK(req[r])
      BY DEF IInv
    <3>2. RuleWork(req[r])' /\ AccountWork(req[r])'
      BY <1>1, <3>1 DEF vars, WorkOK, RuleWork, AccountWork, Renumbering, Live
    <3>3. PolicyWork(req[r])'
      BY <1>1, <3>1 DEF vars, WorkOK, PolicyWork, Fresh
    <3>4. QED BY <3>2, <3>3 DEF WorkOK
  <2>3. CleanAlone' /\ CalmAlone' /\ SourcesOK'
    BY <1>1 DEF vars, IInv, CleanAlone, CalmAlone, SourcesOK, Accepted, At
  <2>4. QED BY <1>1, <2>1, <2>2, <2>3 DEF vars, IInv
<1>2. ASSUME NEW r \in Requests, PolicyStep(r) PROVE IInv'
  BY <1>2, StartPolicy, ReadConfigStep, FillCacheStep, WritePolicyStep, AfterWriteStep,
     SinglesStep, FindSeedStep, CreateSeedStep DEF PolicyStep
<1>3. ASSUME NEW r \in Requests, AccountStep(r) PROVE IInv'
  BY <1>3, StartAccount, SinglesStep, AccountStepKept, RemapPolicyStep, SavePolicyStep,
     RemapRulesStep DEF AccountStep
<1>4. QED BY <1>1, <1>2, <1>3, BookKept, FailStep, RestartStep, TickStep DEF Next

----------------------------------------------------------------------------
(* The results.                                                            *)

(* The inductive invariant holds of every behaviour of the settings.       *)
THEOREM Invariance == Spec => []IInv
BY IInvInit, IInvNext, PTL DEF Spec

(* Every variable has its type, for any rules, accounts and requests.      *)
THEOREM TypeCorrect == Spec => []TypeOK
<1>1. IInv => TypeOK
  BY DEF IInv, StoreOK, BookOK, PolicyOK, CacheOK, AccountsOK, CountersOK, TypeOK, BookTypeOK
<1>2. QED BY <1>1, Invariance, PTL

(* The edits of a rule that no other edit overlapped have versions of      *)
(* their own, in order, whatever other edits did in between.               *)
THEOREM VersionsAscend == Spec => []VersionsTraceable
<1>1. IInv => VersionsTraceable
  BY DEF IInv
<1>2. QED BY <1>1, Invariance, PTL

(* When no requests overlapped and none failed, a rule that came from a    *)
(* suggestion is the one rule of that suggestion, which is accepted.       *)
THEOREM OneRuleEach == Spec => []RulePerSuggestion
<1>1. IInv => RulePerSuggestion
  BY DEF IInv, SourcesOK, Accepted, RulePerSuggestion, At
<1>2. QED BY <1>1, Invariance, PTL

(* A cached policy still in use was the stored one less than TTL ago,      *)
(* whichever updates, renumberings and reads overlapped.                   *)
THEOREM CacheAge == Spec => []CacheBounded
<1>1. IInv => CacheBounded
  <2> SUFFICES ASSUME IInv, Hit, cache.policy.rev # policy.rev
               PROVE  clock - writtenAt[cache.policy.rev + 1] < TTL
    BY DEF CacheBounded
  <2>1. /\ cache.policy \in Policy /\ cache.at \in Nat /\ Fresh(cache.policy, cache.at)
        /\ PolicyOK
    BY DEF Hit, IInv, StoreOK, CacheOK
  <2>2. /\ cache.policy.rev \in Nat /\ policy.rev \in Nat /\ clock \in Nat /\ TTL \in Nat
    BY <2>1, SettingsAssumption DEF PolicyOK, Policy
  <2>3. writtenAt[cache.policy.rev + 1] >= cache.at
    BY <2>1, <2>2 DEF Fresh
  <2>4. writtenAt[cache.policy.rev + 1] \in Nat
    BY <2>1, <2>2 DEF Fresh, PolicyOK
  <2>5. clock - cache.at < TTL
    BY DEF Hit
  <2>6. QED BY <2>1, <2>2, <2>3, <2>4, <2>5
<1>2. QED BY <1>1, Invariance, PTL

(* While a renumbering is at its last call and all stays calm, no other    *)
(* request takes a step, and it takes that one.                            *)
LEMMA OnlyRemap ==
  ASSUME IInv, NEW r \in Requests, At(r, "remapContra"), calm',
         NEW q \in Requests, BookStep(q) \/ PolicyStep(q) \/ AccountStep(q)
  PROVE  RemapContra(r)
<1>1. ~Arrive(q)
  BY DEF Arrive, At
<1>2. ASSUME NEW pc, At(q, pc), pc # "idle", pc # "remapContra", Proceed PROVE FALSE
  BY <1>2 DEF IInv, CalmAlone, At, Proceed
<1>3. ~BookStep(q)
  BY <1>1, <1>2 DEF BookStep, CreateRule, StartEditRule, RemoveRule, CreateSuggested, WriteRule,
     StartAnalyze, StartLexoffice, Propose, StartAccept, StartReject, MarkAccepted,
     MarkRejected, Single, Begin
<1>4. ~PolicyStep(q)
  BY <1>1, <1>2 DEF PolicyStep, StartReadConfig, ReadConfig, FillCache, StartUpdatePolicies,
     StartResetPolicies, StartShowPolicies, WritePolicy, InvalidatePolicyCache, SyncCompany,
     UpdateCompany, StartSeedOptional, FindSeed, CreateSeed, Single, Begin
<1>5. AccountStep(q) => RemapContra(q)
  BY <1>1, <1>2 DEF AccountStep, StartCreateAccount, SeedKnownAccount, StartRenumber,
     CreateAccount, StartMigrate, StartDeleteAccount, DeleteAccount, CheckNumber,
     StartRemapLegacy, Renumber,
     RemapPolicy, SavePolicy, RemapRules, Single, Begin
<1>6. RemapContra(q) => q = r
  BY DEF RemapContra, IInv, CalmAlone, At, Proceed
<1>7. QED BY <1>3, <1>4, <1>5, <1>6

(* When no request overlapped and none failed, a renumbering ends with no  *)
(* rule and no policy left at the old number.                              *)
THEOREM RenumberingComplete == Spec => RenumberingReaches
<1> DEFINE A == \A r \in Requests :
                  (At(r, "remapContra") /\ ~At(r, "remapContra")' /\ calm') =>
                    /\ \A k \in RuleIds : Live(k)' =>
                         req[r].number \notin {rules'[k].konto, rules'[k].gegenkonto}
                    /\ \A s \in Slots : policy'.slots[s] # req[r].number
<1>1. IInv /\ [Next]_vars => [A]_vars
  <2> SUFFICES ASSUME IInv, Next, NEW r \in Requests, At(r, "remapContra"),
                      ~At(r, "remapContra")', calm'
               PROVE  /\ \A k \in RuleIds : Live(k)' =>
                           req[r].number \notin {rules'[k].konto, rules'[k].gegenkonto}
                      /\ \A s \in Slots : policy'.slots[s] # req[r].number
    OBVIOUS
  <2>1. RemapContra(r)
    <3>1. ~Restart
      BY FaultTurn DEF Restart
    <3>2. ~Tick
      BY DEF Tick, At
    <3>3. ASSUME NEW q \in Requests PROVE ~Fail(q)
      BY FaultTurn DEF Fail
    <3>4. QED BY <3>1, <3>2, <3>3, OnlyRemap DEF Next
  <2>2. calm /\ UNCHANGED settings
    BY <2>1 DEF RemapContra, Proceed
  <2>3. /\ req[r].konto \in Konten /\ req[r].konto # req[r].number
        /\ \A s \in Slots : policy.slots[s] # req[r].number
        /\ \A k \in RuleIds : Live(k) => rules[k].konto # req[r].number
    BY <2>2 DEF At, IInv, WorkOK, AccountWork, Renumbering
  <2>4. /\ MovedRules(r)
        /\ \A k \in RuleIds : Live(k) =>
             /\ rules'[k].gegenkonto = Moved(r, rules[k].gegenkonto)
             /\ rules'[k].konto = rules[k].konto
    BY <2>1, <2>3, GegenkontoMoved DEF RemapContra
  <2>5. \A k \in RuleIds : Live(k)' => Live(k)
    BY <2>4 DEF MovedRules, Live
  <2>6. \A k \in RuleIds : Live(k)' =>
          req[r].number \notin {rules'[k].konto, rules'[k].gegenkonto}
    BY <2>3, <2>4, <2>5 DEF Moved
  <2>7. QED BY <2>2, <2>3, <2>6 DEF settings
<1>2. QED BY <1>1, Invariance, PTL DEF Spec, RenumberingReaches
=============================================================================
