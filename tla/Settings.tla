------------------------------ MODULE Settings ------------------------------
(***************************************************************************)
(* System policies, their cache, the company's default accounts, and the   *)
(* chart of accounts: services/accounting/settings.service.ts and          *)
(* account.service.ts, together with the rules they change (RuleBook).     *)
(*                                                                         *)
(* The policy document is read, merged and written back; only the save of  *)
(* a renumbering compares its version.  The service keeps a copy for TTL,  *)
(* which every write of the service drops and a renumbering does not.  The *)
(* unique index on account numbers has a filter with $ne, which MongoDB    *)
(* refuses for partial indexes, so nothing in the database enforces it.    *)
(***************************************************************************)
EXTENDS RuleBook

CONSTANTS
  Slots,          \* the accounts a policy names: bank, clearing, ...
  Synced,         \* those the company settings repeat
  DefaultSlots,   \* DEFAULT_SYSTEM_POLICY.accounts
  Inventory, Bank,  \* the slots privateInventory and bank
  Legacy,         \* 3220, which became DefaultSlots[Inventory]
  AccountIds,
  FirstAccounts,  \* the accounts there are initially
  TTL,            \* how long a cached policy is used
  MaxClock        \* bound: the time

ASSUME SettingsAssumption ==
  /\ {Inventory, Bank} \subseteq Slots /\ Synced \subseteq Slots
  /\ DefaultSlots \in [Slots -> Konten]
  /\ Legacy \in Konten \ {DefaultSlots[Inventory]}
  /\ TTL \in Nat /\ MaxClock \in Nat

VARIABLES
  policy,    \* the SystemPolicy document; rev (ghost) counts its writes
  cache,     \* #policyCache and #policyCacheAt
  company,   \* the default accounts in CompanySettings
  accounts,  \* the Account documents
  clock,
  writtenAt  \* ghost: the time of each write of the policy

settings == <<policy, cache, company, accounts, clock, writtenAt>>
vars == <<rules, suggestions, edited, req, starts, faults, calm,
          policy, cache, company, accounts, clock, writtenAt>>

Account == [number: Konten, deleted: BOOLEAN, system: BOOLEAN]
Policy == [slots: [Slots -> Konten], ver: Nat, rev: Nat]

ASSUME AccountAssumption ==
  /\ FirstAccounts \in [AccountIds -> Account \cup {None}]
  /\ None \notin Account /\ None \notin Policy

Init ==
  /\ BookInit
  /\ \E n \in {Legacy, DefaultSlots[Inventory]} :
       policy = [slots |-> [DefaultSlots EXCEPT ![Inventory] = n], ver |-> 0, rev |-> 0]
  /\ cache = None
  /\ company = [s \in Synced |-> DefaultSlots[s]]
  /\ accounts = FirstAccounts
  /\ clock = 0
  /\ writtenAt = <<>>

TypeOK ==
  /\ BookTypeOK
  /\ policy \in Policy
  /\ cache # None => cache \in [policy: Policy, at: Nat]
  /\ company \in [Synced -> Konten]
  /\ \A a \in AccountIds : accounts[a] # None => accounts[a] \in Account
  /\ clock \in 0..MaxClock

Known(a) == accounts[a] # None /\ ~accounts[a].deleted
ByNumber(n) == {a \in AccountIds : Known(a) /\ accounts[a].number = n}

Store(slots, ver) ==
  /\ policy' = [slots |-> slots, ver |-> ver, rev |-> policy.rev + 1]
  /\ writtenAt' = Append(writtenAt, clock)

----------------------------------------------------------------------------
(* The policy and its cache.                                               *)

\* now is taken before the policy is read; the copy counts from there.
Hit == cache # None /\ clock - cache.at < TTL

StartReadConfig(r) ==
  /\ ~Hit
  /\ Begin(r, [Idle EXCEPT !.pc = "readConfig", !.number = clock])
  /\ UNCHANGED <<book, settings>>

ReadConfig(r) ==
  /\ At(r, "readConfig")
  /\ req' = [req EXCEPT ![r].pc = "fillCache", ![r].copy = policy]
  /\ Proceed
  /\ UNCHANGED <<book, settings>>

\* Broken: the time is taken when the answer has come.
CachedNow(r) == clock

CachedAt(r) == req[r].number

\* seedOptional goes on with the policy it was given: inventorySeedRule books
\* the inventory account against the bank.
Seeding(p) == [Idle EXCEPT !.pc = "findSeed", !.konto = p.slots[Inventory],
                           !.contra = p.slots[Bank]]

FillCache(r) ==
  /\ At(r, "fillCache")
  /\ cache' = [policy |-> req[r].copy, at |-> CachedAt(r)]
  /\ IF req[r].id = "seed"
     THEN req' = [req EXCEPT ![r] = Seeding(req[r].copy)]
     ELSE Goto(r, "idle")
  /\ Proceed
  /\ UNCHANGED <<book, policy, company, accounts, clock, writtenAt>>

\* updateSystemPolicies: accounts are merged into those just read and written
\* as one object, other fields (s = None) are written by themselves.
StartUpdatePolicies(r, s, n) ==
  /\ Begin(r, [Idle EXCEPT !.pc = "writePolicy", !.id = s,
         !.copy = IF s = None THEN None ELSE [policy EXCEPT !.slots[s] = n]])
  /\ UNCHANGED <<book, settings>>

StartResetPolicies(r) ==
  /\ Begin(r, [Idle EXCEPT !.pc = "writePolicy", !.id = "reset",
                   !.copy = [policy EXCEPT !.slots = DefaultSlots]])
  /\ UNCHANGED <<book, settings>>

\* getSystemPolicies moves the legacy inventory account, company untouched.
StartShowPolicies(r) ==
  /\ policy.slots[Inventory] = Legacy
  /\ Begin(r, [Idle EXCEPT !.pc = "writePolicy", !.id = "show",
         !.copy = [policy EXCEPT !.slots[Inventory] = DefaultSlots[Inventory]]])
  /\ UNCHANGED <<book, settings>>

WritePolicy(r) ==
  /\ At(r, "writePolicy")
  /\ Store(IF req[r].copy = None THEN policy.slots ELSE req[r].copy.slots, policy.ver)
  /\ Goto(r, "invalidate")
  /\ Proceed
  /\ UNCHANGED <<book, cache, company, accounts, clock>>

InvalidatePolicyCache(r) ==
  /\ At(r, "invalidate")
  /\ cache' = None
  /\ Goto(r, IF req[r].id \in {None, "show"} THEN "idle" ELSE "syncCompany")
  /\ Proceed
  /\ UNCHANGED <<book, policy, company, accounts, clock, writtenAt>>

SyncCompany(r) ==
  /\ At(r, "syncCompany")
  /\ company' = [s \in Synced |-> req[r].copy.slots[s]]
  /\ Goto(r, "idle")
  /\ Proceed
  /\ UNCHANGED <<book, policy, cache, accounts, clock, writtenAt>>

\* updateCompany with one of the default accounts.
UpdateCompany(r, s, n) ==
  /\ Single(r)
  /\ company' = [company EXCEPT ![s] = n]
  /\ UNCHANGED <<book, policy, cache, accounts, clock, writtenAt>>

\* seedOptional: the config, a look for the seeded rule, the rule.
StartSeedOptional(r) ==
  /\ IF Hit
     THEN Begin(r, Seeding(cache.policy))
     ELSE Begin(r, [Idle EXCEPT !.pc = "readConfig", !.id = "seed", !.number = clock])
  /\ UNCHANGED <<book, settings>>

FindSeed(r) ==
  /\ At(r, "findSeed")
  /\ Goto(r, IF \E k \in RuleIds : Live(k) /\ rules[k].source = "seed"
             THEN "idle" ELSE "createSeed")
  /\ Proceed
  /\ UNCHANGED <<book, settings>>

CreateSeed(r, k) ==
  /\ At(r, "createSeed")
  /\ Create(k, req[r].konto, req[r].contra, "seed")
  /\ Goto(r, "idle")
  /\ Proceed
  /\ UNCHANGED <<suggestions, edited, settings>>

----------------------------------------------------------------------------
(* The chart of accounts.                                                  *)

\* create, and a line of importCsv or seedAccounts with a new number.
StartCreateAccount(r, n, system) ==
  /\ ByNumber(n) = {}
  /\ Begin(r, [Idle EXCEPT !.pc = "createAccount", !.konto = n, !.clean = system])
  /\ UNCHANGED <<book, settings>>

CreateAccount(r, a) ==
  /\ At(r, "createAccount")
  /\ accounts[a] = None
  /\ accounts' = [accounts EXCEPT ![a] =
       [number |-> req[r].konto, deleted |-> FALSE, system |-> req[r].clean]]
  /\ Goto(r, "idle")
  /\ Proceed
  /\ UNCHANGED <<book, policy, cache, company, clock, writtenAt>>

\* A line of seedAccounts with a known number: its protection is rewritten.
SeedKnownAccount(r, a, system) ==
  /\ Known(a)
  /\ Single(r)
  /\ accounts' = [accounts EXCEPT ![a].system = system]
  /\ UNCHANGED <<book, policy, cache, company, clock, writtenAt>>

\* update with another number: the account, whether the number is taken, the
\* account's write, and remapKontoNumber from the number read to the new one.
StartRenumber(r, a, n) ==
  /\ Known(a)
  /\ accounts[a].number # n
  /\ Begin(r, [Idle EXCEPT !.pc = "checkNumber", !.id = a, !.konto = n,
                           !.number = accounts[a].number])
  /\ UNCHANGED <<book, settings>>

CheckNumber(r) ==
  /\ At(r, "checkNumber")
  /\ Goto(r, IF ByNumber(req[r].konto) \subseteq {req[r].id} THEN "renumber" ELSE "idle")
  /\ Proceed
  /\ UNCHANGED <<book, settings>>

\* migrateLegacyInventoryKonto when the new number is free.
StartMigrate(r, a) ==
  /\ a \in ByNumber(Legacy)
  /\ ByNumber(DefaultSlots[Inventory]) = {}
  /\ Begin(r, [Idle EXCEPT !.pc = "renumber", !.id = a,
                   !.konto = DefaultSlots[Inventory], !.number = Legacy])
  /\ UNCHANGED <<book, settings>>

\* ... and when there are both: the legacy account becomes inactive, which
\* nothing in the model depends on, and what names it is remapped.
StartRemapLegacy(r) ==
  /\ ByNumber(Legacy) # {}
  /\ ByNumber(DefaultSlots[Inventory]) # {}
  /\ Begin(r, [Idle EXCEPT !.pc = "remapPolicy",
                   !.konto = DefaultSlots[Inventory], !.number = Legacy])
  /\ UNCHANGED <<book, settings>>

Renumber(r) ==
  /\ At(r, "renumber")
  /\ IF Known(req[r].id)
     THEN /\ accounts' = [accounts EXCEPT ![req[r].id].number = req[r].konto]
          /\ Goto(r, "remapPolicy")
     ELSE Goto(r, "idle") /\ UNCHANGED accounts
  /\ Proceed
  /\ UNCHANGED <<book, policy, cache, company, clock, writtenAt>>

Moved(r, n) == IF n = req[r].number THEN req[r].konto ELSE n

RemapPolicy(r) ==
  /\ At(r, "remapPolicy")
  /\ LET slots == [s \in Slots |-> Moved(r, policy.slots[s])] IN
     IF slots = policy.slots THEN Goto(r, "remapRules")
     ELSE req' = [req EXCEPT ![r].pc = "savePolicy",
                             ![r].copy = [policy EXCEPT !.slots = slots]]
  /\ Proceed
  /\ UNCHANGED <<book, settings>>

\* save() compares the version and raises a VersionError when it has moved.
SavePolicy(r) ==
  /\ At(r, "savePolicy")
  /\ IF req[r].copy.ver = policy.ver
     THEN /\ Store(req[r].copy.slots, policy.ver + 1)
          /\ Goto(r, "remapRules")
     ELSE Goto(r, "idle") /\ UNCHANGED <<policy, writtenAt>>
  /\ Proceed
  /\ UNCHANGED <<book, cache, company, accounts, clock>>

\* Rule.updateMany: those that are not deleted.
RemapRules(r) ==
  /\ At(r, "remapRules")
  /\ rules' = [k \in RuleIds |->
                 IF Live(k) THEN [rules[k] EXCEPT !.konto = Moved(r, @)] ELSE rules[k]]
  /\ Goto(r, "remapContra")
  /\ Proceed
  /\ UNCHANGED <<suggestions, edited, settings>>

\* Broken: the remapping ends with the konto of the rules.
RemapKontoOnly(r) ==
  /\ At(r, "remapContra")
  /\ Goto(r, "idle")
  /\ Proceed
  /\ UNCHANGED <<book, settings>>

\* The transactions come last: CashLedger!RemapKonto.
RemapContra(r) ==
  /\ At(r, "remapContra")
  /\ rules' = [k \in RuleIds |->
                 IF Live(k) THEN [rules[k] EXCEPT !.gegenkonto = Moved(r, @)] ELSE rules[k]]
  /\ Goto(r, "idle")
  /\ Proceed
  /\ UNCHANGED <<suggestions, edited, settings>>

\* softDelete: a look whether the account is protected, and the write.
StartDeleteAccount(r, a) ==
  /\ Known(a)
  /\ ~accounts[a].system
  /\ Begin(r, [Idle EXCEPT !.pc = "deleteAccount", !.id = a])
  /\ UNCHANGED <<book, settings>>

DeleteAccount(r) ==
  /\ At(r, "deleteAccount")
  /\ accounts' = [a \in AccountIds |-> IF a = req[r].id /\ Known(a)
                    THEN [accounts[a] EXCEPT !.deleted = TRUE] ELSE accounts[a]]
  /\ Goto(r, "idle")
  /\ Proceed
  /\ UNCHANGED <<book, policy, cache, company, clock, writtenAt>>

----------------------------------------------------------------------------

Fault == faults < MaxFaults /\ faults' = faults + 1 /\ calm' = FALSE

\* A call rejects: its request ends there.
Fail(r) ==
  /\ ~At(r, "idle")
  /\ Goto(r, "idle")
  /\ Fault
  /\ UNCHANGED <<book, settings, starts>>

Restart ==
  /\ cache' = None
  /\ req' = [r \in Requests |-> Idle]
  /\ Fault
  /\ UNCHANGED <<book, policy, company, accounts, clock, writtenAt, starts>>

\* Time passes; only a cached policy, or one about to be, depends on it.
Tick ==
  /\ clock < MaxClock
  /\ cache # None \/ \E r \in Requests : At(r, "readConfig") \/ At(r, "fillCache")
  /\ clock' = clock + 1
  /\ UNCHANGED <<book, policy, cache, company, accounts, writtenAt, req, starts, faults, calm>>

PolicyStep(r) ==
  \/ StartReadConfig(r) \/ ReadConfig(r) \/ FillCache(r)
  \/ \E s \in Slots, n \in Entered : StartUpdatePolicies(r, s, n)
  \/ StartUpdatePolicies(r, None, None)
  \/ StartResetPolicies(r) \/ StartShowPolicies(r)
  \/ WritePolicy(r) \/ InvalidatePolicyCache(r) \/ SyncCompany(r)
  \/ \E s \in Synced, n \in Entered : UpdateCompany(r, s, n)
  \/ StartSeedOptional(r) \/ FindSeed(r)
  \/ \E k \in RuleIds : CreateSeed(r, k)

AccountStep(r) ==
  \/ \E n \in Entered, system \in BOOLEAN : StartCreateAccount(r, n, system)
  \/ \E a \in AccountIds, system \in BOOLEAN : SeedKnownAccount(r, a, system)
  \/ \E a \in AccountIds, n \in Entered : StartRenumber(r, a, n)
  \/ \E a \in AccountIds :
       CreateAccount(r, a) \/ StartMigrate(r, a) \/ StartDeleteAccount(r, a)
  \/ DeleteAccount(r) \/ CheckNumber(r) \/ StartRemapLegacy(r) \/ Renumber(r)
  \/ RemapPolicy(r) \/ SavePolicy(r) \/ RemapRules(r) \/ RemapContra(r)

Next ==
  \/ \E r \in Requests :
       \/ BookStep(r) /\ UNCHANGED settings
       \/ PolicyStep(r) \/ AccountStep(r) \/ Fail(r)
  \/ Restart \/ Tick

Spec == Init /\ [][Next]_vars

----------------------------------------------------------------------------
(* Properties.                                                             *)

\* "5s TTL": whatever a read that overlapped an update puts into the cache
\* after the update has emptied it, and although a renumbering does not empty
\* it, a policy still in use was the stored one less than TTL ago.
CacheBounded ==
  (Hit /\ cache.policy.rev # policy.rev) => clock - writtenAt[cache.policy.rev + 1] < TTL

\* When no request overlapped and none failed, a renumbering ends with no
\* rule and no policy left at the old number.
RenumberingReaches ==
  [][\A r \in Requests :
       (At(r, "remapContra") /\ ~At(r, "remapContra")' /\ calm') =>
         /\ \A k \in RuleIds : Live(k)' =>
              req[r].number \notin {rules'[k].konto, rules'[k].gegenkonto}
         /\ \A s \in Slots : policy'.slots[s] # req[r].number]_vars

============================================================================

