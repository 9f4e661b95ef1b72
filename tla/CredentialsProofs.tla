------------------------- MODULE CredentialsProofs -------------------------
(***************************************************************************)
(* The lock of an account for any number of overlapping requests, codes    *)
(* and failures: type correctness, that the lock agrees with the failed    *)
(* attempts, and that a one-time code is tried and accepted no more often  *)
(* than its limits say.                                                    *)
(***************************************************************************)
EXTENDS Credentials, TLAPS

(***************************************************************************)
(* With a limit of one, the failure that ends a lock is at the limit and   *)
(* locks nothing; nothing is claimed then but types.                       *)
(***************************************************************************)
Agrees(d) ==
  LockMax >= 2 => (d.locked <=> d.attempts >= LockMax) /\ (d.locked <=> d.until # 0)
Cleared(d) == d.attempts = 0 /\ ~d.locked /\ d.until = 0
Same(d, e) == d.attempts = e.attempts /\ d.locked = e.locked /\ d.until = e.until

(***************************************************************************)
(* A copy of the user that has the version stored differs from the stored  *)
(* one at most by a successful login, which clears without a new version.  *)
(***************************************************************************)
DocOK(d) ==
  /\ d.version <= user.version
  /\ Agrees(d)
  /\ d.version = user.version => Same(user, d) \/ Cleared(user)

(***************************************************************************)
(* What a request is about, and that the lock of the copy a login compares *)
(* with has run out if there was one.                                      *)
(***************************************************************************)
PhaseOK(w) ==
  /\ w.pc = "check" => w.op = "login"
  /\ w.pc = "read" => w.op # "verifyOtp"
  /\ LockMax >= 2 /\ w.pc = "compare" /\ w.op # "change" => w.doc.until <= clock
  /\ w.pc \in {"otpGet", "otpWrong", "otpDrop", "otpDelete"} => w.code \in Codes
  /\ w.pc \in {"otpWrong", "otpDrop", "otpDelete"} => w.data \in Entry

UserOK == Agrees(user) /\ (user.version = 0 => Cleared(user))

IInv ==
  /\ TypeOK
  /\ UserOK
  /\ \A r \in Requests : DocOK(req[r].doc) /\ PhaseOK(req[r])

----------------------------------------------------------------------------

(* The idle record is one a request can hold.                              *)
LEMMA IdleInRequest == Idle \in Request /\ NewUser \in User
BY DEF Idle, Request, NewUser, User, PCs, NoEntry, Entry

(* Before anything happens the user is new, and so are all copies of it.   *)
LEMMA IInvInit == Init => IInv
<1> SUFFICES ASSUME Init PROVE IInv
  OBVIOUS
<1>1. TypeOK
  <2>1. clock \in 1..(MaxClock + 1) /\ starts \in 0..MaxStarts /\ faults \in 0..MaxFaults
    BY BoundsAssumption DEF Init
  <2>2. user \in User /\ req \in [Requests -> Request]
    BY IdleInRequest DEF Init
  <2>3. tries \in [Codes -> Nat] /\ accepted \in [Codes -> Nat]
    BY DEF Init
  <2>4. /\ redisUp \in BOOLEAN /\ brute \in Nat /\ resets \in BOOLEAN
        /\ otp \in Entry \cup {NoEntry} /\ memory \in Entry \cup {NoEntry}
        /\ fresh \subseteq Codes /\ calm \subseteq Codes
    BY DEF Init
  <2>5. QED BY <2>1, <2>2, <2>3, <2>4 DEF TypeOK
<1>2. UserOK
  BY LimitsAssumption DEF Init, UserOK, Agrees, Cleared, NewUser
<1>3. ASSUME NEW r \in Requests PROVE DocOK(req[r].doc) /\ PhaseOK(req[r])
  BY LimitsAssumption DEF Init, DocOK, PhaseOK, Idle, NewUser, Agrees, Same, Cleared
<1>4. QED BY <1>1, <1>2, <1>3 DEF IInv

(* How the stored user may change: not, to a new version, or to no failed  *)
(* attempts.                                                               *)
Moves ==
  /\ clock' = clock
  /\ \/ user' = user
     \/ user'.version > user.version
     \/ user'.version = user.version /\ Cleared(user')

(* A copy stays good whatever others do to the stored user.                *)
LEMMA DocStays ==
  ASSUME user \in User, user' \in User, Moves, NEW d \in User, DocOK(d)
  PROVE  DocOK(d)'
BY DEF DocOK, Moves, User, Same, Cleared, Agrees

(* The copy in an idle request is good.                                    *)
LEMMA NewUserOK ==
  ASSUME user' \in User, UserOK'
  PROVE  DocOK(NewUser)'
<1>1. NewUser.version <= user'.version
  BY DEF NewUser, User
<1>2. Agrees(NewUser)
  BY LimitsAssumption DEF NewUser, Agrees
<1>3. user'.version = 0 => Cleared(user)'
  BY DEF UserOK
<1>4. NewUser.version = user'.version => Cleared(user)'
  BY <1>3 DEF NewUser
<1>5. QED BY <1>1, <1>2, <1>4 DEF DocOK, Agrees

(* A step is accounted for when it moves the user as above and every       *)
(* request keeps its copy, drops it, or has a good new one.                *)
LEMMA Accounted ==
  ASSUME IInv, TypeOK', Moves, UserOK',
         \A r \in Requests : /\ PhaseOK(req[r])'
                             /\ \/ req'[r].doc \in {req[r].doc, NewUser}
                                \/ DocOK(req[r].doc)'
  PROVE  IInv'
<1>1. user \in User /\ user' \in User
  BY DEF IInv, TypeOK
<1>2. ASSUME NEW r \in Requests PROVE DocOK(req[r].doc)'
  <2>1. req[r].doc \in User /\ DocOK(req[r].doc)
    BY DEF IInv, TypeOK, Request
  <2>2. CASE req'[r].doc = req[r].doc
    <3> DEFINE d == req[r].doc
    <3>1. PICK e \in User : e = d
      BY <2>1
    <3>2. DocOK(e)'
      BY <1>1, <2>1, <3>1, DocStays DEF DocOK
    <3>3. QED BY <2>2, <3>1, <3>2 DEF DocOK
  <2>3. CASE req'[r].doc = NewUser
    BY <1>1, <2>3, NewUserOK DEF DocOK
  <2>4. QED BY <2>2, <2>3
<1>3. QED BY <1>2 DEF IInv

(* A request that goes on keeps what it carries, one that ends drops it.   *)
LEMMA Going ==
  ASSUME req \in [Requests -> Request], NEW r \in Requests, NEW pc \in PCs, Goto(r, pc)
  PROVE  /\ req' \in [Requests -> Request]
         /\ \A q \in Requests \ {r} : req'[q] = req[q]
         /\ pc # "idle" => /\ req'[r].pc = pc /\ req'[r].op = req[r].op
                           /\ req'[r].code = req[r].code /\ req'[r].data = req[r].data
                           /\ req'[r].doc = req[r].doc
         /\ pc = "idle" => req'[r] = Idle
<1>1. CASE pc = "idle"
  BY <1>1, IdleInRequest DEF Goto
<1>2. CASE pc # "idle"
  <2>1. [req[r] EXCEPT !.pc = pc] \in Request
    BY DEF Request
  <2>2. req' = [req EXCEPT ![r] = [req[r] EXCEPT !.pc = pc]]
    BY <1>2 DEF Goto
  <2>3. req'[r] = [req[r] EXCEPT !.pc = pc] /\ \A q \in Requests \ {r} : req'[q] = req[q]
    BY <2>2
  <2>4. req' \in [Requests -> Request]
    BY <2>1, <2>2
  <2>5. req[r] \in Request
    OBVIOUS
  <2>6. /\ req'[r].pc = pc /\ req'[r].op = req[r].op
        /\ req'[r].code = req[r].code /\ req'[r].data = req[r].data
        /\ req'[r].doc = req[r].doc
    BY <2>3, <2>5 DEF Request
  <2>7. QED BY <1>2, <2>3, <2>4, <2>6
<1>3. QED BY <1>1, <1>2

(* The idle record is in a phase that needs nothing.                       *)
LEMMA IdlePhase ==
  ASSUME NEW r \in Requests, req'[r] = Idle
  PROVE  PhaseOK(req[r])' /\ req'[r].doc = NewUser
BY DEF PhaseOK, Idle

(* A step of one request, when the others are as they were.                *)
LEMMA OneStep ==
  ASSUME IInv, TypeOK', Moves, UserOK', NEW r \in Requests,
         \A q \in Requests \ {r} : req'[q] = req[q],
         PhaseOK(req[r])',
         req'[r].doc \in {req[r].doc, NewUser} \/ DocOK(req[r].doc)'
  PROVE  IInv'
<1>1. ASSUME NEW q \in Requests \ {r} PROVE PhaseOK(req[q])' /\ req'[q].doc = req[q].doc
  BY DEF IInv, PhaseOK, Moves
<1>2. QED BY <1>1, Accounted

(* A step that goes from one call to the next and leaves the user alone.   *)
LEMMA QuietStep ==
  ASSUME IInv, NEW r \in Requests, NEW pc \in PCs, Goto(r, pc),
         pc \notin {"check", "compare", "otpGet", "otpWrong", "otpDrop", "otpDelete"},
         pc = "read" => req[r].op # "verifyOtp",
         user' = user, clock' = clock, TypeOK'
  PROVE  IInv'
<1>1. req \in [Requests -> Request]
  BY DEF IInv, TypeOK
<1>2. Moves /\ UserOK'
  BY DEF Moves, IInv, UserOK, Agrees, Cleared
<1>3. CASE pc = "idle"
  BY <1>1, <1>2, <1>3, Going, IdlePhase, OneStep
<1>4. CASE pc # "idle"
  <2>1. PhaseOK(req[r])'
    BY <1>1, <1>4, Going DEF PhaseOK
  <2>2. QED BY <1>1, <1>2, <1>4, <2>1, Going, OneStep
<1>5. QED BY <1>3, <1>4

(* A request comes in.                                                     *)
LEMMA Beginning ==
  ASSUME IInv, NEW r \in Requests,
         NEW op \in {"login", "verifyOtp", "reset", "change"},
         NEW pc \in {"check", "read", "otpGet"},
         NEW c \in Codes \cup {None},
         Begin(r, op, pc, c),
         pc = "check" => op = "login", pc = "read" => op # "verifyOtp",
         pc = "otpGet" => c \in Codes,
         UNCHANGED <<clock, redisUp, user, brute, fresh, faults, codes>>, resets' \in BOOLEAN
  PROVE  IInv'
<1> DEFINE w == [Idle EXCEPT !.op = op, !.pc = pc, !.code = c]
<1>1. w \in Request /\ w.doc = NewUser /\ w.op = op /\ w.pc = pc /\ w.code = c
  BY IdleInRequest DEF Request, PCs, Idle
<1>2. req' = [req EXCEPT ![r] = w] /\ starts' = starts + 1 /\ starts < MaxStarts
  BY DEF Begin, Free
<1>3. TypeOK'
  BY <1>1, <1>2, BoundsAssumption DEF IInv, TypeOK, codes
<1>4. req'[r] = w /\ \A q \in Requests \ {r} : req'[q] = req[q]
  BY <1>2 DEF IInv, TypeOK
<1>5. PhaseOK(req[r])'
  BY <1>1, <1>4 DEF PhaseOK
<1>6. Moves /\ UserOK'
  BY DEF Moves, IInv, UserOK, Agrees, Cleared
<1>7. QED BY <1>1, <1>3, <1>4, <1>5, <1>6, OneStep

(* login, up to the comparison of the password.                            *)
LEMMA LoginStep ==
  ASSUME IInv, NEW r \in Requests,
         StartLogin(r) \/ AssertNotBruteForced(r) \/ RightPassword(r)
           \/ HitBruteForce(r) \/ ClearBruteForce(r)
  PROVE  IInv'
<1>1. CASE StartLogin(r)
  BY <1>1, Beginning DEF StartLogin, IInv, TypeOK
<1>2. CASE AssertNotBruteForced(r)
  <2> DEFINE pc == IF OverRate THEN "idle" ELSE "read"
  <2>1. pc \in PCs /\ req[r].op = "login"
    BY <1>2 DEF PCs, AssertNotBruteForced, At, IInv, PhaseOK
  <2>2. TypeOK'
    BY <1>2, <2>1, Going DEF AssertNotBruteForced, IInv, TypeOK, codes, surroundings
  <2>3. QED BY <1>2, <2>1, <2>2, QuietStep DEF AssertNotBruteForced, surroundings
<1>3. CASE RightPassword(r)
  <2> DEFINE pc == IF req[r].op = "change" THEN "save" ELSE "clear"
  <2>1. pc \in PCs
    BY DEF PCs
  <2>2. TypeOK'
    BY <1>3, <2>1, Going DEF RightPassword, IInv, TypeOK, codes, surroundings
  <2>3. QED BY <1>3, <2>1, <2>2, QuietStep DEF RightPassword, surroundings
<1>4. CASE HitBruteForce(r)
  <2>1. "idle" \in PCs
    BY DEF PCs
  <2>2. TypeOK'
    BY <1>4, <2>1, Going DEF HitBruteForce, IInv, TypeOK, codes, surroundings
  <2>3. QED BY <1>4, <2>1, <2>2, QuietStep DEF HitBruteForce, surroundings
<1>5. CASE ClearBruteForce(r)
  <2>1. "record" \in PCs
    BY DEF PCs
  <2>2. TypeOK'
    BY <1>5, <2>1, Going DEF ClearBruteForce, IInv, TypeOK, codes, surroundings
  <2>3. QED BY <1>5, <2>1, <2>2, QuietStep DEF ClearBruteForce, surroundings
<1>6. QED BY <1>1, <1>2, <1>3, <1>4, <1>5

(* The read of the user: a login goes on only if no lock is in force.      *)
LEMMA ReadStep ==
  ASSUME IInv, NEW r \in Requests, ReadUser(r)
  PROVE  IInv'
<1>1. req \in [Requests -> Request] /\ user \in User /\ clock \in Nat
  BY BoundsAssumption DEF IInv, TypeOK
<1>2. Moves /\ UserOK' /\ user' = user /\ clock' = clock
  BY DEF ReadUser, surroundings, Moves, IInv, UserOK, Agrees, Cleared
<1>3. CASE req[r].op = "login" /\ Locked(user)
  <2>1. "idle" \in PCs /\ Goto(r, "idle")
    BY <1>3 DEF PCs, ReadUser
  <2>2. TypeOK'
    BY <1>1, <2>1, Going DEF ReadUser, IInv, TypeOK, codes, surroundings
  <2>3. QED BY <1>2, <2>1, <2>2, QuietStep
<1>4. CASE ~(req[r].op = "login" /\ Locked(user))
  <2> DEFINE pc == IF req[r].op = "reset" THEN "save" ELSE "compare"
             w  == [req[r] EXCEPT !.doc = user, !.pc = pc]
  <2>1. req' = [req EXCEPT ![r] = w]
    BY <1>1, <1>4 DEF ReadUser, Request
  <2>2. /\ w \in Request /\ w.doc = user /\ w.pc = pc /\ w.op = req[r].op
        /\ pc \in {"save", "compare"}
    BY <1>1 DEF Request, PCs
  <2>3. req'[r] = w /\ \A q \in Requests \ {r} : req'[q] = req[q]
    BY <1>1, <2>1
  <2>4. TypeOK'
    BY <1>1, <2>1, <2>2 DEF ReadUser, IInv, TypeOK, codes, surroundings
  <2>5. PhaseOK(req[r])'
    <3>1. req[r].op \in {"login", "reset", "change"}
      BY <1>1 DEF ReadUser, At, IInv, PhaseOK, Request
    <3>2. LockMax >= 2 /\ pc = "compare" /\ w.op # "change" => w.doc.until <= clock
      <4>1. SUFFICES ASSUME LockMax >= 2, pc = "compare", w.op # "change"
                     PROVE  user.until <= clock
        BY <2>2
      <4>2. ~Locked(user)
        BY <1>4, <2>2, <3>1, <4>1
      <4>3. user.locked <=> user.until # 0
        BY <4>1 DEF IInv, UserOK, Agrees
      <4>4. user.until \in Nat
        BY <1>1 DEF User
      <4>5. QED BY <1>1, <4>2, <4>3, <4>4 DEF Locked
    <3>3. QED BY <1>2, <2>2, <2>3, <3>2 DEF PhaseOK
  <2>6. DocOK(req[r].doc)'
    BY <1>1, <1>2, <2>2, <2>3 DEF DocOK, UserOK, Same, User
  <2>7. QED BY <1>2, <2>3, <2>4, <2>5, <2>6, OneStep
<1>5. QED BY <1>3, <1>4

(* What a patch writes, path by path.                                      *)
LEMMA PatchedPaths ==
  ASSUME user \in User, NEW old \in User, NEW new \in User
  PROVE  /\ Patched(old, new) \in User
         /\ Patched(old, new).attempts
              = IF new.attempts # old.attempts THEN new.attempts ELSE user.attempts
         /\ Patched(old, new).locked
              = IF new.locked # old.locked THEN new.locked ELSE user.locked
         /\ Patched(old, new).until
              = IF new.until # old.until THEN new.until ELSE user.until
         /\ Patched(old, new).version = user.version + 1
<1> DEFINE a == IF new.attempts # old.attempts THEN new.attempts ELSE user.attempts
           l == IF new.locked # old.locked THEN new.locked ELSE user.locked
           u == IF new.until # old.until THEN new.until ELSE user.until
           v == user.version + 1
<1>1. a \in Nat /\ l \in BOOLEAN /\ u \in Nat /\ v \in Nat
  BY DEF User
<1>2. Patched(old, new)
        = [user EXCEPT !.attempts = a, !.locked = l, !.until = u, !.version = v]
  BY DEF Patched, User
<1> HIDE DEF a, l, u, v
<1>3. Patched(old, new) \in User
  BY <1>1, <1>2 DEF User
<1>4. Patched(old, new).attempts = a
  BY <1>1, <1>2 DEF User
<1>5. Patched(old, new).locked = l
  BY <1>1, <1>2 DEF User
<1>6. Patched(old, new).until = u
  BY <1>1, <1>2 DEF User
<1>7. Patched(old, new).version = v
  BY <1>1, <1>2 DEF User
<1>8. QED BY <1>3, <1>4, <1>5, <1>6, <1>7 DEF a, l, u, v

(* A failed attempt on a copy whose lock has run out.                      *)
LEMMA IncrementedPaths ==
  ASSUME clock \in Nat, NEW d \in User, d.until <= clock
  PROVE  /\ Incremented(d) \in User
         /\ d.until # 0 =>
              /\ Incremented(d).attempts = 1
              /\ Incremented(d).locked = FALSE /\ Incremented(d).until = 0
         /\ d.until = 0 /\ d.attempts + 1 >= LockMax =>
              /\ Incremented(d).attempts = d.attempts + 1
              /\ Incremented(d).locked = TRUE /\ Incremented(d).until = clock + 1
         /\ d.until = 0 /\ ~(d.attempts + 1 >= LockMax) =>
              /\ Incremented(d).attempts = d.attempts + 1
              /\ Incremented(d).locked = d.locked /\ Incremented(d).until = d.until
<1> DEFINE e == Incremented(d)
<1>1. CASE d.until # 0
  <2>1. e = [d EXCEPT !.locked = FALSE, !.until = 0, !.attempts = 1]
    BY <1>1 DEF Incremented, User
  <2> HIDE DEF e
  <2>2. e \in User
    BY <2>1 DEF User
  <2>3. e.attempts = 1
    BY <2>1 DEF User
  <2>4. e.locked = FALSE
    BY <2>1 DEF User
  <2>5. e.until = 0
    BY <2>1 DEF User
  <2>6. QED BY <1>1, <2>2, <2>3, <2>4, <2>5 DEF e
<1>2. CASE d.until = 0 /\ d.attempts + 1 >= LockMax
  <2> DEFINE a == d.attempts + 1
             c == clock + 1
  <2>1. e = [d EXCEPT !.attempts = a, !.locked = TRUE, !.until = c]
    BY <1>2 DEF Incremented, User
  <2>2. a \in Nat /\ c \in Nat
    BY DEF User
  <2> HIDE DEF e, a, c
  <2>3. e \in User
    BY <2>1, <2>2 DEF User
  <2>4. e.attempts = a
    BY <2>1, <2>2 DEF User
  <2>5. e.locked = TRUE
    BY <2>1, <2>2 DEF User
  <2>6. e.until = c
    BY <2>1, <2>2 DEF User
  <2>7. QED BY <1>2, <2>3, <2>4, <2>5, <2>6 DEF e, a, c
<1>3. CASE d.until = 0 /\ ~(d.attempts + 1 >= LockMax)
  <2>1. Incremented(d) = [d EXCEPT !.attempts = @ + 1]
    BY <1>3 DEF Incremented, User
  <2>2. QED BY <1>3, <2>1 DEF User
<1>4. QED BY <1>1, <1>2, <1>3

(* A failed attempt leaves a user.                                         *)
LEMMA IncrementedType ==
  ASSUME clock \in Nat, NEW d \in User
  PROVE  Incremented(d) \in User
<1>1. CASE d.until <= clock
  BY <1>1, IncrementedPaths
<1>2. CASE d.until > clock
  <2>1. Incremented(d) = [d EXCEPT !.attempts = @ + 1]
    BY <1>2 DEF Incremented, User
  <2>2. QED BY <2>1 DEF User
<1>3. QED BY <1>1, <1>2 DEF User

(* A failed attempt computed on a copy of the version stored, whose lock   *)
(* has run out, leaves lock and attempts in agreement.                     *)
LEMMA PatchedAgrees ==
  ASSUME clock \in Nat, user \in User, UserOK, NEW d \in User, DocOK(d),
         d.version = user.version, LockMax >= 2 => d.until <= clock,
         user' = Patched(d, Incremented(d))
  PROVE  user' \in User /\ Agrees(user)' /\ user'.version = user.version + 1
<1> DEFINE n == Incremented(d)
<1> HIDE DEF n
<1>1. LockMax \in Nat /\ clock \in Nat
  BY LimitsAssumption
<1>2. n \in User /\ user' = Patched(d, n)
  BY IncrementedType DEF n
<1>3. /\ user' \in User /\ user'.version = user.version + 1
      /\ user'.attempts = IF n.attempts # d.attempts THEN n.attempts ELSE user.attempts
      /\ user'.locked = IF n.locked # d.locked THEN n.locked ELSE user.locked
      /\ user'.until = IF n.until # d.until THEN n.until ELSE user.until
  BY <1>2, PatchedPaths
<1>4. SUFFICES ASSUME LockMax >= 2, d.until <= clock PROVE Agrees(user)'
  BY <1>3 DEF Agrees
<1>5. /\ d.attempts \in Nat /\ d.until \in Nat /\ d.locked \in BOOLEAN
      /\ user.locked \in BOOLEAN
  BY DEF User
<1>6. Agrees(d) /\ (Same(user, d) \/ Cleared(user))
  BY DEF DocOK
<1>7. CASE d.until # 0
  <2>1. n.attempts = 1 /\ n.locked = FALSE /\ n.until = 0
    BY <1>4, <1>7, IncrementedPaths DEF n
  <2>2. d.locked = TRUE /\ d.attempts >= LockMax
    BY <1>4, <1>5, <1>6, <1>7 DEF Agrees
  <2>3. user'.attempts = 1 /\ user'.locked = FALSE /\ user'.until = 0
    BY <1>1, <1>3, <1>4, <1>5, <1>7, <2>1, <2>2
  <2>4. QED BY <1>1, <1>4, <2>3 DEF Agrees
<1>8. CASE d.until = 0 /\ d.attempts + 1 >= LockMax
  <2>1. n.attempts = d.attempts + 1 /\ n.locked = TRUE /\ n.until = clock + 1
    BY <1>4, <1>8, IncrementedPaths DEF n
  <2>2. d.locked = FALSE
    BY <1>4, <1>5, <1>6, <1>8 DEF Agrees
  <2>3. user'.attempts = d.attempts + 1 /\ user'.locked = TRUE /\ user'.until = clock + 1
    BY <1>1, <1>3, <1>5, <1>8, <2>1, <2>2
  <2>4. QED BY <1>1, <1>8, <2>3 DEF Agrees
<1>9. CASE d.until = 0 /\ ~(d.attempts + 1 >= LockMax)
  <2>1. n.attempts = d.attempts + 1 /\ n.locked = d.locked /\ n.until = d.until
    BY <1>4, <1>9, IncrementedPaths DEF n
  <2>2. user.locked = FALSE /\ user.until = 0
    BY <1>4, <1>5, <1>6, <1>9 DEF Agrees, Same, Cleared
  <2>3. user'.attempts = d.attempts + 1 /\ user'.locked = FALSE /\ user'.until = 0
    BY <1>3, <1>5, <2>1, <2>2
  <2>4. QED BY <1>1, <1>5, <1>9, <2>3 DEF Agrees
<1>10. QED BY <1>5, <1>7, <1>8, <1>9

(* A save that raises the version, when the request goes on or ends.       *)
LEMMA SaveStep ==
  ASSUME IInv, NEW r \in Requests, NEW pc \in {"idle", "count", "revoke"}, Goto(r, pc),
         user' \in User, Agrees(user)',
         user'.version = user.version + 1,
         UNCHANGED <<brute, resets, codes, surroundings>>
  PROVE  IInv'
<1>1. req \in [Requests -> Request] /\ pc \in PCs /\ user \in User
  BY DEF IInv, TypeOK, PCs
<1>2. TypeOK'
  BY <1>1, Going DEF IInv, TypeOK, codes, surroundings
<1>3. Moves /\ UserOK'
  BY <1>1 DEF Moves, UserOK, surroundings, User, Agrees, Cleared
<1>4. PhaseOK(req[r])'
  BY <1>1, Going, IdlePhase DEF PhaseOK
<1>5. req'[r].doc \in {req[r].doc, NewUser} /\ \A q \in Requests \ {r} : req'[q] = req[q]
  BY <1>1, Going, IdlePhase
<1>6. QED BY <1>2, <1>3, <1>4, <1>5, OneStep

(* A wrong password.                                                       *)
LEMMA WrongPasswordStep ==
  ASSUME IInv, NEW r \in Requests, WrongPassword(r)
  PROVE  IInv'
<1> DEFINE d == req[r].doc
<1>1. req \in [Requests -> Request] /\ user \in User /\ d \in User /\ DocOK(d)
  BY DEF IInv, TypeOK, Request
<1>2. CASE req[r].op # "change" /\ d.version = user.version
  <2>1. user' = Patched(d, Incremented(d)) /\ Goto(r, "count")
    BY <1>2 DEF WrongPassword
  <2>2. (LockMax >= 2 => d.until <= clock) /\ clock \in Nat /\ UserOK
    BY <1>2, BoundsAssumption DEF WrongPassword, At, IInv, PhaseOK, TypeOK
  <2>3. user' \in User /\ Agrees(user)' /\ user'.version = user.version + 1
    BY <1>1, <1>2, <2>1, <2>2, PatchedAgrees
  <2>4. QED BY <2>1, <2>3, SaveStep DEF WrongPassword
<1>3. CASE ~(req[r].op # "change" /\ d.version = user.version)
  <2>1. Goto(r, "idle") /\ user' = user /\ "idle" \in PCs
    BY <1>3 DEF WrongPassword, PCs
  <2>2. TypeOK'
    BY <1>1, <2>1, Going DEF WrongPassword, IInv, TypeOK, codes, surroundings
  <2>3. QED BY <2>1, <2>2, QuietStep DEF WrongPassword, surroundings
<1>4. QED BY <1>2, <1>3

(* A right password: the lock is cleared without a new version.            *)
LEMMA RecordStep ==
  ASSUME IInv, NEW r \in Requests, RecordSuccessfulLogin(r)
  PROVE  IInv'
<1>1. req \in [Requests -> Request] /\ user \in User /\ "idle" \in PCs
  BY DEF IInv, TypeOK, PCs
<1>2. user' \in User /\ user'.version = user.version
  BY <1>1 DEF RecordSuccessfulLogin, User
<1>3. user'.attempts = 0
  BY <1>1 DEF RecordSuccessfulLogin, User
<1>4. user'.locked = FALSE
  BY <1>1 DEF RecordSuccessfulLogin, User
<1>5. user'.until = 0
  BY <1>1 DEF RecordSuccessfulLogin, User
<1>6. Moves /\ UserOK'
  BY <1>2, <1>3, <1>4, <1>5, LimitsAssumption
  DEF Moves, UserOK, Agrees, Cleared, RecordSuccessfulLogin, surroundings
<1>7. TypeOK'
  BY <1>1, <1>2, Going DEF RecordSuccessfulLogin, IInv, TypeOK, codes, surroundings
<1>8. QED
  BY <1>1, <1>6, <1>7, Going, IdlePhase, OneStep DEF RecordSuccessfulLogin

(* A step that leaves user, clock and requests alone.                      *)
LEMMA Outside ==
  ASSUME IInv, TypeOK', user' = user, clock' = clock, req' = req
  PROVE  IInv'
<1>1. Moves /\ UserOK'
  BY DEF Moves, IInv, UserOK, Agrees, Cleared
<1>2. \A r \in Requests : PhaseOK(req[r])' /\ req'[r].doc = req[r].doc
  BY DEF IInv, PhaseOK
<1>3. QED BY <1>1, <1>2, Accounted

(* A code is generated, or its check begins.                               *)
LEMMA CodeBeginStep ==
  ASSUME IInv, NEW r \in Requests, NEW c \in Codes,
         StartForgot(r, c) \/ \E op \in {"verifyOtp", "reset"} : StartVerify(r, op, c)
  PROVE  IInv'
<1>1. CASE StartForgot(r, c)
  <2>1. Generated(c) \in Entry
    BY DEF Generated, Entry
  <2>2. TypeOK'
    BY <1>1, <2>1, BoundsAssumption DEF StartForgot, Free, IInv, TypeOK
  <2>3. QED BY <1>1, <2>2, Outside DEF StartForgot
<1>2. ASSUME NEW op \in {"verifyOtp", "reset"}, StartVerify(r, op, c) PROVE IInv'
  BY <1>2, Beginning DEF StartVerify, IInv, TypeOK
<1>3. QED BY <1>1, <1>2

(* A reset with a token, or a change by who is logged in, begins.          *)
LEMMA PasswordBeginStep ==
  ASSUME IInv, NEW r \in Requests, StartReset(r) \/ StartChange(r)
  PROVE  IInv'
<1>1. CASE StartReset(r)
  BY <1>1, Beginning DEF StartReset
<1>2. CASE StartChange(r)
  BY <1>2, Beginning DEF StartChange, IInv, TypeOK
<1>3. QED BY <1>1, <1>2

(* The read of a code: what it finds is in hand until the next call.       *)
LEMMA GetOtpStep ==
  ASSUME IInv, NEW r \in Requests, GetOtp(r)
  PROVE  IInv'
<1> DEFINE inRedis == redisUp /\ otp # NoEntry
           data    == IF inRedis THEN otp ELSE memory
           wrong   == data.code # req[r].code
           next    == IF TooMany(data) THEN "otpDrop"
                      ELSE IF ~wrong THEN "otpDelete"
                      ELSE IF inRedis THEN "otpWrong" ELSE "idle"
<1>1. /\ req \in [Requests -> Request] /\ req[r].code \in Codes
      /\ otp \in Entry \cup {NoEntry} /\ memory \in Entry \cup {NoEntry}
      /\ tries \in [Codes -> Nat] /\ calm \subseteq Codes
  BY DEF GetOtp, At, IInv, TypeOK, PhaseOK
<1>2. Moves /\ UserOK' /\ user' = user /\ clock' = clock
  BY DEF GetOtp, surroundings, Moves, IInv, UserOK, Agrees, Cleared
<1>3. CASE data = NoEntry
  <2>1. Goto(r, "idle") /\ "idle" \in PCs /\ UNCHANGED <<memory, tries, calm>>
    BY <1>3 DEF GetOtp, PCs
  <2>2. TypeOK'
    BY <1>1, <2>1, Going DEF GetOtp, IInv, TypeOK, codes, surroundings
  <2>3. QED BY <1>2, <2>1, <2>2, QuietStep
<1>4. CASE data # NoEntry
  <2> DEFINE w == IF next = "idle" THEN Idle ELSE [req[r] EXCEPT !.data = data, !.pc = next]
  <2>1. data \in Entry /\ data.code \in Codes
    BY <1>1, <1>4 DEF Entry
  <2>2. req' = [req EXCEPT ![r] = w]
    BY <1>4 DEF GetOtp
  <2>3. next \in {"idle", "otpDrop", "otpDelete", "otpWrong"}
    OBVIOUS
  <2>4. /\ w \in Request /\ w.doc \in {req[r].doc, NewUser}
        /\ w = Idle \/ (w.pc = next /\ next # "idle" /\ w.data = data /\ w.code = req[r].code)
    <3> HIDE DEF next, data
    <3>1. CASE next = "idle"
      BY <3>1, IdleInRequest DEF Idle
    <3>2. CASE next # "idle"
      BY <1>1, <2>1, <2>3, <3>2 DEF Request, PCs
    <3>3. QED BY <3>1, <3>2
  <2>5. tries' \in [Codes -> Nat] /\ memory' \in Entry \cup {NoEntry} /\ calm' \subseteq Codes
    <3>1. tries' \in [Codes -> Nat] /\ memory' \in Entry \cup {NoEntry}
      <4>1. CASE ~TooMany(data) /\ wrong
        <5>1. tries' = [tries EXCEPT ![data.code] = @ + 1]
          BY <1>4, <4>1 DEF GetOtp
        <5>2. memory' = IF inRedis THEN memory ELSE [memory EXCEPT !.attempts = @ + 1]
          BY <1>4, <4>1 DEF GetOtp
        <5>3. tries' \in [Codes -> Nat]
          BY <1>1, <2>1, <5>1
        <5>4. memory' \in Entry \cup {NoEntry}
          <6>1. CASE inRedis
            BY <1>1, <5>2, <6>1
          <6>2. CASE ~inRedis
            <7>1. memory \in Entry /\ memory' = [memory EXCEPT !.attempts = @ + 1]
              BY <2>1, <5>2, <6>2
            <7>2. QED BY <7>1 DEF Entry
          <6>3. QED BY <6>1, <6>2
        <5>5. QED BY <5>3, <5>4
      <4>2. CASE ~(~TooMany(data) /\ wrong)
        <5>1. tries' = tries /\ memory' = memory
          BY <1>4, <4>2 DEF GetOtp
        <5>2. QED BY <1>1, <5>1
      <4>3. QED BY <4>1, <4>2
    <3>2. calm' \subseteq calm
      BY <1>4 DEF GetOtp
    <3>3. QED BY <1>1, <3>1, <3>2
  <2>6. TypeOK'
    BY <1>1, <2>2, <2>4, <2>5 DEF GetOtp, IInv, TypeOK, surroundings
  <2>7. req'[r] = w /\ \A q \in Requests \ {r} : req'[q] = req[q]
    BY <1>1, <2>2
  <2>8. PhaseOK(req[r])'
    <3> HIDE DEF w, next, data
    <3>1. CASE w = Idle
      BY <2>7, <3>1, IdlePhase
    <3>2. CASE w # Idle
      BY <1>1, <2>1, <2>3, <2>4, <2>7, <3>2 DEF PhaseOK
    <3>3. QED BY <3>1, <3>2
  <2>9. QED BY <1>2, <2>4, <2>6, <2>7, <2>8, OneStep
<1>5. QED BY <1>3, <1>4

(* The calls that end the check of a code, and the ones that follow it.    *)
LEMMA CodeEndStep ==
  ASSUME IInv, NEW r \in Requests,
         WriteAttempt(r) \/ DropOtp(r) \/ DeleteOtp(r)
           \/ StorePasswordResetToken(r) \/ RevokeAll(r) \/ InvalidateOtp(r)
  PROVE  IInv'
<1>1. /\ req \in [Requests -> Request] /\ "idle" \in PCs
      /\ accepted \in [Codes -> Nat] /\ resets \in BOOLEAN /\ redisUp \in BOOLEAN
  BY DEF IInv, TypeOK, PCs
<1>2. CASE WriteAttempt(r)
  <2>1. [req[r].data EXCEPT !.attempts = @ + 1] \in Entry
    BY <1>2 DEF WriteAttempt, At, IInv, PhaseOK, Entry
  <2>2. TypeOK'
    BY <1>1, <1>2, <2>1, Going DEF WriteAttempt, IInv, TypeOK, surroundings
  <2>3. QED BY <1>1, <1>2, <2>2, QuietStep DEF WriteAttempt, surroundings
<1>3. CASE DropOtp(r)
  <2>1. TypeOK'
    BY <1>1, <1>3, Going DEF DropOtp, IInv, TypeOK, surroundings
  <2>2. QED BY <1>1, <1>3, <2>1, QuietStep DEF DropOtp, surroundings
<1>4. CASE DeleteOtp(r)
  <2> DEFINE pc == IF req[r].op = "reset" THEN "read" ELSE "storeReset"
  <2>1. pc \in PCs /\ (pc = "read" => req[r].op # "verifyOtp")
    BY DEF PCs
  <2>2. req[r].code \in Codes
    BY <1>4 DEF DeleteOtp, At, IInv, PhaseOK
  <2>3. accepted' \in [Codes -> Nat]
    BY <1>1, <1>4, <2>2 DEF DeleteOtp
  <2>4. TypeOK'
    BY <1>1, <1>4, <2>1, <2>3, Going DEF DeleteOtp, IInv, TypeOK, surroundings
  <2>5. QED BY <1>4, <2>1, <2>4, QuietStep DEF DeleteOtp, surroundings
<1>5. CASE StorePasswordResetToken(r)
  <2>1. TypeOK'
    BY <1>1, <1>5, Going DEF StorePasswordResetToken, IInv, TypeOK, codes, surroundings
  <2>2. QED BY <1>1, <1>5, <2>1, QuietStep DEF StorePasswordResetToken, surroundings
<1>6. CASE InvalidateOtp(r)
  <2>1. TypeOK'
    BY <1>1, <1>6, Going DEF InvalidateOtp, IInv, TypeOK, surroundings
  <2>2. QED BY <1>1, <1>6, <2>1, QuietStep DEF InvalidateOtp, surroundings
<1>7. CASE RevokeAll(r)
  <2>1. PICK pc \in {"idle", "invalidate"} : Goto(r, pc)
    BY <1>7 DEF RevokeAll
  <2>2. pc \in PCs
    BY DEF PCs
  <2>3. TypeOK'
    BY <1>1, <1>7, <2>1, <2>2, Going DEF RevokeAll, IInv, TypeOK, codes, surroundings
  <2>4. QED BY <1>7, <2>1, <2>2, <2>3, QuietStep DEF RevokeAll, codes, surroundings
<1>8. QED BY <1>2, <1>3, <1>4, <1>5, <1>6, <1>7

(* The new password: a reset goes on with the version it has written.      *)
LEMMA SavePasswordStep ==
  ASSUME IInv, NEW r \in Requests, SavePassword(r)
  PROVE  IInv'
<1> DEFINE d == req[r].doc
<1>1. /\ req \in [Requests -> Request] /\ user \in User /\ d \in User /\ DocOK(d)
      /\ "idle" \in PCs
  BY DEF IInv, TypeOK, Request, PCs
<1>2. CASE d.version # user.version
  <2>1. Goto(r, "idle") /\ user' = user
    BY <1>2 DEF SavePassword
  <2>2. TypeOK'
    BY <1>1, <2>1, Going DEF SavePassword, IInv, TypeOK, codes, surroundings
  <2>3. QED BY <1>1, <2>1, <2>2, QuietStep DEF SavePassword, surroundings
<1>3. CASE d.version = user.version
  <2>1. user' = [user EXCEPT !.version = @ + 1]
    BY <1>3 DEF SavePassword
  <2>2. user' \in User /\ user'.version = user.version + 1 /\ Same(user', user)
    BY <1>1, <2>1 DEF User, Same
  <2>3. Agrees(user)'
    BY <2>2 DEF IInv, UserOK, Agrees, Same
  <2>4. CASE req[r].op # "reset"
    <3>1. Goto(r, "idle")
      BY <1>3, <2>4 DEF SavePassword
    <3>2. QED BY <2>2, <2>3, <3>1, SaveStep DEF SavePassword
  <2>5. CASE req[r].op = "reset"
    <3> DEFINE e == [d EXCEPT !.version = @ + 1]
               w == [req[r] EXCEPT !.doc = e, !.pc = "unlock"]
    <3>1. e \in User /\ e.version = d.version + 1 /\ Same(e, d)
      BY <1>1 DEF User, Same
    <3>2. req' = [req EXCEPT ![r] = w]
      BY <1>1, <1>3, <2>5 DEF SavePassword, Request
    <3>3. w \in Request /\ w.doc = e /\ w.pc = "unlock"
      BY <1>1, <3>1 DEF Request, PCs
    <3>4. req'[r] = w /\ \A q \in Requests \ {r} : req'[q] = req[q]
      BY <1>1, <3>2
    <3>5. TypeOK'
      BY <1>1, <2>2, <3>2, <3>3 DEF SavePassword, IInv, TypeOK, codes, surroundings
    <3>6. Moves /\ UserOK'
      BY <1>1, <2>2, <2>3 DEF SavePassword, surroundings, Moves, UserOK, User
    <3>7. PhaseOK(req[r])'
      BY <3>3, <3>4 DEF PhaseOK
    <3>8. DocOK(req[r].doc)'
      <4>1. Agrees(e)
        BY <1>1, <3>1 DEF DocOK, Agrees, Same
      <4>2. Same(user', e) \/ Cleared(user')
        BY <1>1, <1>3, <2>2, <3>1 DEF DocOK, Same, Cleared
      <4>3. e.version = user'.version
        BY <1>3, <2>2, <3>1
      <4>4. e.version <= user'.version
        BY <2>2, <4>3 DEF User
      <4>5. QED BY <3>3, <3>4, <4>1, <4>2, <4>3, <4>4 DEF DocOK, Agrees, Same, Cleared
    <3>9. QED BY <3>4, <3>5, <3>6, <3>7, <3>8, OneStep
  <2>6. QED BY <2>4, <2>5
<1>4. QED BY <1>2, <1>3

(* What a reset writes over the failed attempts.                           *)
LEMMA ClearedPaths ==
  ASSUME NEW d \in User
  PROVE  /\ [d EXCEPT !.attempts = 0, !.locked = FALSE, !.until = 0] \in User
         /\ [d EXCEPT !.attempts = 0, !.locked = FALSE, !.until = 0].attempts = 0
         /\ [d EXCEPT !.attempts = 0, !.locked = FALSE, !.until = 0].locked = FALSE
         /\ [d EXCEPT !.attempts = 0, !.locked = FALSE, !.until = 0].until = 0
<1> DEFINE u == [d EXCEPT !.attempts = 0, !.locked = FALSE, !.until = 0]
<1>1. u \in User
  BY DEF User
<1>2. u.attempts = 0
  BY DEF User
<1>3. u.locked = FALSE
  BY DEF User
<1>4. u.until = 0
  BY DEF User
<1>5. QED BY <1>1, <1>2, <1>3, <1>4

(* A reset clears the lock of the version it has written.                  *)
LEMMA UnlockStep ==
  ASSUME IInv, NEW r \in Requests, ResetLoginAttempts(r)
  PROVE  IInv'
<1> DEFINE d == req[r].doc
           u == [d EXCEPT !.attempts = 0, !.locked = FALSE, !.until = 0]
<1>1. req \in [Requests -> Request] /\ user \in User /\ d \in User /\ DocOK(d)
  BY DEF IInv, TypeOK, Request
<1>2. CASE u # d /\ d.version = user.version
  <2>1. user' = Patched(d, u) /\ Goto(r, "revoke")
    BY <1>2 DEF ResetLoginAttempts
  <2>2. u \in User /\ u.attempts = 0 /\ u.locked = FALSE /\ u.until = 0
    BY <1>1, ClearedPaths
  <2> HIDE DEF u
  <2>3. /\ user' \in User /\ user'.version = user.version + 1
        /\ user'.attempts = IF u.attempts # d.attempts THEN u.attempts ELSE user.attempts
        /\ user'.locked = IF u.locked # d.locked THEN u.locked ELSE user.locked
        /\ user'.until = IF u.until # d.until THEN u.until ELSE user.until
    BY <1>1, <2>1, <2>2, PatchedPaths
  <2>4. Same(user, d) \/ Cleared(user)
    BY <1>1, <1>2 DEF DocOK
  <2>5. user'.attempts = 0 /\ ~user'.locked /\ user'.until = 0
    BY <2>2, <2>3, <2>4 DEF Same, Cleared
  <2>6. Agrees(user)'
    BY <2>5, LimitsAssumption DEF Agrees
  <2>7. QED BY <2>1, <2>3, <2>6, SaveStep DEF ResetLoginAttempts
<1>3. CASE ~(u # d /\ d.version = user.version)
  <2>1. PICK pc \in {"idle", "revoke"} : Goto(r, pc) /\ user' = user
    BY <1>3 DEF ResetLoginAttempts
  <2>2. pc \in PCs
    BY DEF PCs
  <2>3. TypeOK'
    BY <1>1, <2>1, <2>2, Going DEF ResetLoginAttempts, IInv, TypeOK, codes, surroundings
  <2>4. QED BY <2>1, <2>2, <2>3, QuietStep DEF ResetLoginAttempts, surroundings
<1>4. QED BY <1>2, <1>3

(* A request whose call fails.                                             *)
LEMMA AbortStep ==
  ASSUME IInv, NEW r \in Requests, Abort(r)
  PROVE  IInv'
<1>1. req \in [Requests -> Request] /\ "idle" \in PCs
  BY DEF IInv, TypeOK, PCs
<1>2. TypeOK'
  BY <1>1, Going, BoundsAssumption DEF Abort, Count, Disturb, IInv, TypeOK
<1>3. QED BY <1>1, <1>2, QuietStep DEF Abort

(* Failures are counted up to their bound.                                 *)
LEMMA Counting ==
  ASSUME faults \in 0..MaxFaults, Count
  PROVE  faults' \in 0..MaxFaults
BY BoundsAssumption DEF Count

(* Redis, the keys and the clock.                                          *)
LEMMA SurroundingsStep ==
  ASSUME IInv, LoseRedis \/ RedisBack \/ Expire \/ Tick
  PROVE  IInv'
<1>1. CASE LoseRedis
  <2>1. faults' \in 0..MaxFaults /\ calm' \subseteq Codes
    BY <1>1, Counting DEF LoseRedis, Disturb, IInv, TypeOK
  <2>2. TypeOK'
    BY <1>1, <2>1 DEF LoseRedis, IInv, TypeOK
  <2>3. QED BY <1>1, <2>2, Outside DEF LoseRedis
<1>2. CASE RedisBack
  <2>1. TypeOK'
    BY <1>2 DEF RedisBack, IInv, TypeOK
  <2>2. QED BY <1>2, <2>1, Outside DEF RedisBack
<1>3. CASE Expire
  <2>1. faults' \in 0..MaxFaults
    BY <1>3, Counting DEF Expire, IInv, TypeOK
  <2>2. /\ brute' \in Nat /\ resets' \in BOOLEAN
        /\ otp' \in Entry \cup {NoEntry} /\ memory' \in Entry \cup {NoEntry}
    <3>1. brute' \in {0, brute} /\ resets' \in {FALSE, resets}
      BY <1>3 DEF Expire
    <3>2. otp' \in {otp, NoEntry} /\ memory' \in {memory, NoEntry}
      BY <1>3 DEF Expire
    <3>3. brute \in Nat /\ 0 \in Nat
      BY DEF IInv, TypeOK
    <3>4. brute' \in Nat
      BY <3>1, <3>3
    <3>5. resets' \in BOOLEAN
      BY <3>1 DEF IInv, TypeOK
    <3>6. otp' \in Entry \cup {NoEntry} /\ memory' \in Entry \cup {NoEntry}
      BY <3>2 DEF IInv, TypeOK
    <3>7. QED BY <3>4, <3>5, <3>6
  <2>3. TypeOK'
    BY <1>3, <2>1, <2>2 DEF Expire, IInv, TypeOK
  <2>4. QED BY <1>3, <2>3, Outside DEF Expire
<1>4. CASE Tick
  <2>1. clock' = clock + 1 /\ clock \in Nat /\ clock' \in 1..(MaxClock + 1)
    BY <1>4, BoundsAssumption DEF Tick, IInv, TypeOK
  <2>2. TypeOK'
    BY <1>4, <2>1 DEF Tick, IInv, TypeOK, codes
  <2>3. UserOK'
    BY <1>4 DEF Tick, IInv, UserOK, Agrees, Cleared
  <2>4. ASSUME NEW r \in Requests PROVE DocOK(req[r].doc)' /\ PhaseOK(req[r])'
    <3>1. DocOK(req[r].doc)'
      BY <1>4 DEF Tick, IInv, DocOK, Agrees, Same, Cleared
    <3>2. req[r].doc.until \in Nat
      BY DEF IInv, TypeOK, Request, User
    <3>3. PhaseOK(req[r])'
      BY <1>4, <2>1, <3>2 DEF Tick, IInv, PhaseOK
    <3>4. QED BY <3>1, <3>3
  <2>5. QED BY <2>2, <2>3, <2>4 DEF IInv
<1>5. QED BY <1>1, <1>2, <1>3, <1>4

----------------------------------------------------------------------------

(* Every step keeps the invariant.                                         *)
LEMMA IInvNext == IInv /\ [Next]_vars => IInv'
<1> SUFFICES ASSUME IInv, [Next]_vars PROVE IInv'
  OBVIOUS
<1>1. ASSUME NEW r \in Requests, Step(r) PROVE IInv'
  BY <1>1, LoginStep, ReadStep, WrongPasswordStep, RecordStep, CodeBeginStep,
     PasswordBeginStep, GetOtpStep, CodeEndStep, SavePasswordStep, UnlockStep, AbortStep
  DEF Step
<1>2. CASE UNCHANGED vars
  <2>1. TypeOK'
    BY <1>2 DEF IInv, TypeOK, vars
  <2>2. QED BY <1>2, <2>1, Outside DEF vars
<1>3. QED BY <1>1, <1>2, SurroundingsStep DEF Next

(* The variables keep their types, whatever the calls and the failures.    *)
THEOREM TypeCorrect == Spec => []TypeOK
<1>1. IInv => TypeOK
  BY DEF IInv
<1>2. QED BY <1>1, IInvInit, IInvNext, PTL DEF Spec

(* The lock of user.model.ts and the failed attempts agree for any number  *)
(* of logins, resets and changes of password that overlap, fail and lose   *)
(* Redis, for every limit of two or more: the save checks the version, and *)
(* what findOneAndUpdate does behind its back only ever clears.            *)
THEOREM LockAgrees ==
  ASSUME LockMax >= 2
  PROVE  Spec => []LockedAtLimit
<1>1. IInv => LockedAtLimit
  BY DEF IInv, UserOK, Agrees, LockedAtLimit
<1>2. QED BY <1>1, IInvInit, IInvNext, PTL DEF Spec

----------------------------------------------------------------------------
(* The one-time codes.  A calm code stands in one store at most, and in    *)
(* none before it is generated and after it is accepted; its entry knows   *)
(* of every wrong entry but the one that is about to be written.           *)

Gone(c) ==
  /\ otp.code # c /\ memory.code # c
  /\ \A r \in Requests : InHand(r) => req[r].data.code # c

Writing(c) == \E r \in Requests : At(r, "otpWrong") /\ req[r].data.code = c

CodeOK(c) ==
  /\ tries[c] <= OtpMax /\ accepted[c] <= 1
  /\ c \in fresh => tries[c] = 0 /\ accepted[c] = 0
  /\ c \in fresh \/ accepted[c] = 1 => Gone(c)
  /\ otp.code = c => memory.code # c /\ (otp.attempts >= tries[c] \/ Writing(c))
  /\ memory.code = c => memory.attempts >= tries[c]

(* A request that has a calm code in hand is the only one that has any.    *)
HandOK(r) ==
  InHand(r) /\ req[r].data.code \in calm =>
    LET w == req[r]
        c == w.data.code
    IN  /\ \A q \in Requests \ {r} : ~InHand(q)
        /\ w.pc = "otpWrong" => /\ redisUp /\ memory.code # c
                                /\ w.data.attempts < OtpMax
                                /\ tries[c] <= w.data.attempts + 1
        /\ w.pc = "otpDelete" /\ otp.code = c => redisUp

(* What is about to be accepted is what was entered.                       *)
EntryOK(r) == At(r, "otpDelete") => req[r].code = req[r].data.code

CodesOK ==
  /\ \A c \in calm : CodeOK(c)
  /\ \A r \in Requests : HandOK(r) /\ EntryOK(r)

OtpInv == IInv /\ CodesOK

(* No code has been generated yet.                                         *)
LEMMA CodesInit == Init => CodesOK
BY NoneAssumption, LimitsAssumption
   DEF Init, CodesOK, CodeOK, HandOK, EntryOK, Gone, InHand, At, Idle, NoEntry

(* Steps that at most forget a code, or bring back Redis: a request leaves *)
(* a code that is still calm only after the wrong entry is written.        *)
LEMMA Forgetting ==
  ASSUME IInv, CodesOK, calm' \subseteq calm, tries' = tries, accepted' = accepted,
         fresh' = fresh, otp' \in {otp, NoEntry}, memory' \in {memory, NoEntry},
         \/ redisUp => redisUp'
         \/ \A q \in Requests : InHand(q) => req[q].data.code \notin calm',
         \A q \in Requests :
           \/ req'[q] = req[q]
           \/ /\ ~InHand(q)'
              /\ At(q, "otpWrong") => req[q].data.code \notin calm'
  PROVE  CodesOK'
<1>1. /\ calm \subseteq Codes /\ None \notin Codes
      /\ \A c \in calm : NoEntry.code # c
  BY NoneAssumption DEF IInv, TypeOK, NoEntry
<1>2. \A q \in Requests : InHand(q)' => InHand(q) /\ req'[q] = req[q]
  BY DEF InHand
<1>3. ASSUME NEW c \in calm' PROVE CodeOK(c)'
  <2>1. CodeOK(c) /\ c \in calm
    BY DEF CodesOK
  <2>2. Gone(c) => Gone(c)'
    BY <1>1, <1>2, <2>1 DEF Gone, InHand
  <2>3. Writing(c) => Writing(c)'
    BY <1>3 DEF Writing, At
  <2>4. otp'.code = c => otp' = otp
    BY <1>1, <2>1
  <2>5. memory'.code = c => memory' = memory
    BY <1>1, <2>1
  <2>6. QED BY <2>1, <2>2, <2>3, <2>4, <2>5 DEF CodeOK
<1>4. ASSUME NEW q \in Requests PROVE HandOK(q)'
  <2>1. SUFFICES ASSUME InHand(q)', req'[q].data.code \in calm' PROVE HandOK(q)'
    BY DEF HandOK
  <2>2. /\ InHand(q) /\ req'[q] = req[q] /\ req[q].data.code \in calm /\ HandOK(q)
        /\ redisUp => redisUp'
    BY <1>2, <2>1 DEF CodesOK
  <2>3. \A p \in Requests \ {q} : ~InHand(p)'
    BY <1>2, <2>2 DEF HandOK
  <2>4. /\ otp'.code = req[q].data.code => otp.code = req[q].data.code
        /\ memory'.code = req[q].data.code => memory.code = req[q].data.code
    BY <1>1, <2>2
  <2>5. QED BY <2>2, <2>3, <2>4 DEF HandOK
<1>5. ASSUME NEW q \in Requests PROVE EntryOK(q)'
  BY <1>2 DEF CodesOK, EntryOK, InHand, At
<1>6. QED BY <1>3, <1>4, <1>5 DEF CodesOK

(* The calls that are not about codes, and the ones that only forget them. *)
LEMMA BesideCodes ==
  ASSUME IInv, CodesOK, NEW r \in Requests, Step(r),
         ~\E c \in Codes : StartForgot(r, c), ~GetOtp(r), ~WriteAttempt(r), ~DeleteOtp(r)
  PROVE  CodesOK'
<1>1. req \in [Requests -> Request]
  BY DEF IInv, TypeOK
<1>2. ASSUME NEW pc \in PCs, Goto(r, pc), pc \notin {"otpWrong", "otpDrop", "otpDelete"}
      PROVE  ~InHand(r)' /\ \A q \in Requests \ {r} : req'[q] = req[q]
  <2>1. \A q \in Requests \ {r} : req'[q] = req[q]
    BY <1>1, <1>2, Going
  <2>2. pc # "idle" => req'[r].pc = pc
    BY <1>1, <1>2, Going
  <2>3. pc = "idle" => req'[r] = Idle
    BY <1>1, <1>2, Going
  <2>4. Idle.pc = "idle"
    BY DEF Idle
  <2>5. QED BY <1>2, <2>1, <2>2, <2>3, <2>4 DEF InHand
<1>3. ASSUME \/ AssertNotBruteForced(r) \/ RightPassword(r) \/ WrongPassword(r)
             \/ HitBruteForce(r) \/ ClearBruteForce(r) \/ RecordSuccessfulLogin(r)
             \/ DropOtp(r) \/ StorePasswordResetToken(r) \/ ResetLoginAttempts(r)
             \/ RevokeAll(r) \/ InvalidateOtp(r)
      PROVE  CodesOK'
  <2>1. PICK pc \in {"idle", "read", "count", "clear", "record", "save", "revoke", "invalidate"} :
          Goto(r, pc)
    BY <1>3 DEF AssertNotBruteForced, RightPassword, WrongPassword, HitBruteForce,
       ClearBruteForce, RecordSuccessfulLogin, DropOtp, StorePasswordResetToken,
       ResetLoginAttempts, RevokeAll, InvalidateOtp
  <2>2. ~InHand(r)' /\ \A q \in Requests \ {r} : req'[q] = req[q]
    BY <1>2, <2>1 DEF PCs
  <2>3. /\ calm' = calm /\ tries' = tries /\ accepted' = accepted /\ fresh' = fresh
        /\ redisUp' = redisUp /\ ~At(r, "otpWrong")
        /\ otp' \in {otp, NoEntry} /\ memory' \in {memory, NoEntry}
    BY <1>3 DEF AssertNotBruteForced, RightPassword, WrongPassword, HitBruteForce,
       ClearBruteForce, RecordSuccessfulLogin, DropOtp, StorePasswordResetToken,
       ResetLoginAttempts, RevokeAll, InvalidateOtp, At, codes, surroundings
  <2>4. QED BY <2>2, <2>3, Forgetting
<1>4. ASSUME NEW w, req' = [req EXCEPT ![r] = w], w.pc \notin {"otpWrong", "otpDrop", "otpDelete"},
             ~InHand(r), UNCHANGED <<redisUp, fresh, codes>>
      PROVE  CodesOK'
  <2>1. req'[r] = w /\ \A q \in Requests \ {r} : req'[q] = req[q]
    BY <1>1, <1>4
  <2>2. ~InHand(r)' /\ ~At(r, "otpWrong")
    BY <1>4, <2>1 DEF InHand, At
  <2>3. QED BY <1>4, <2>1, <2>2, Forgetting DEF codes
<1>5. ASSUME NEW op, NEW pc \in {"check", "read", "otpGet"}, NEW c, Begin(r, op, pc, c),
             UNCHANGED <<redisUp, fresh, codes>>
      PROVE  CodesOK'
  <2> DEFINE w == [Idle EXCEPT !.op = op, !.pc = pc, !.code = c]
  <2>1. w.pc = pc
    BY DEF Idle
  <2>2. req' = [req EXCEPT ![r] = w] /\ ~InHand(r)
    BY <1>5 DEF Begin, Free, At, InHand
  <2> HIDE DEF w
  <2>3. QED BY <1>4, <1>5, <2>1, <2>2
<1>6. CASE StartLogin(r) \/ StartReset(r) \/ StartChange(r)
  BY <1>5, <1>6 DEF StartLogin, StartReset, StartChange
<1>7. CASE \E c \in Codes : \E op \in {"verifyOtp", "reset"} : StartVerify(r, op, c)
  BY <1>5, <1>7 DEF StartVerify
<1>8. CASE ReadUser(r)
  <2>1. CASE Goto(r, "idle")
    <3>1. ~InHand(r)' /\ \A q \in Requests \ {r} : req'[q] = req[q]
      BY <1>2, <2>1 DEF PCs
    <3>2. QED BY <1>8, <3>1, Forgetting DEF ReadUser, At, codes, surroundings
  <2>2. CASE ~Goto(r, "idle")
    <3> DEFINE pc == IF req[r].op = "reset" THEN "save" ELSE "compare"
               w == [req[r] EXCEPT !.doc = user, !.pc = pc]
    <3>1. pc \in {"save", "compare"}
      OBVIOUS
    <3>2. req' = [req EXCEPT ![r].doc = user, ![r].pc = pc]
      BY <1>8, <2>2 DEF ReadUser
    <3> HIDE DEF pc
    <3>3. req' = [req EXCEPT ![r] = w]
      BY <1>1, <3>2
    <3>4. w.pc = pc
      BY <1>1 DEF Request
    <3> HIDE DEF w
    <3>5. QED BY <1>4, <1>8, <3>1, <3>3, <3>4 DEF ReadUser, At, InHand, codes, surroundings
  <2>3. QED BY <2>1, <2>2
<1>9. CASE SavePassword(r)
  <2>1. CASE Goto(r, "idle")
    <3>1. ~InHand(r)' /\ \A q \in Requests \ {r} : req'[q] = req[q]
      BY <1>2, <2>1 DEF PCs
    <3>2. QED BY <1>9, <3>1, Forgetting DEF SavePassword, At, codes, surroundings
  <2>2. CASE ~Goto(r, "idle")
    <3> DEFINE w == [req[r] EXCEPT !.pc = "unlock", !.doc.version = @ + 1]
    <3>1. req' = [req EXCEPT ![r].pc = "unlock", ![r].doc.version = @ + 1]
      BY <1>9, <2>2 DEF SavePassword
    <3>2. req' = [req EXCEPT ![r] = w]
      BY <1>1, <3>1
    <3>3. w.pc = "unlock"
      BY <1>1 DEF Request
    <3> HIDE DEF w
    <3>4. QED BY <1>4, <1>9, <3>2, <3>3 DEF SavePassword, At, InHand, codes, surroundings
  <2>3. QED BY <2>1, <2>2
<1>10. CASE Abort(r)
  <2>1. ~InHand(r)' /\ \A q \in Requests \ {r} : req'[q] = req[q]
    BY <1>2, <1>10 DEF Abort, PCs
  <2>2. calm' \subseteq calm /\ (InHand(r) => req[r].data.code \notin calm')
    BY <1>10 DEF Abort, Disturb
  <2>3. QED BY <1>10, <2>1, <2>2, Forgetting DEF Abort, At, InHand
<1>11. QED BY <1>3, <1>6, <1>7, <1>8, <1>9, <1>10 DEF Step

(* Redis, the keys and the clock.                                          *)
LEMMA CodesOutside ==
  ASSUME IInv, CodesOK, LoseRedis \/ RedisBack \/ Expire \/ Tick \/ UNCHANGED vars
  PROVE  CodesOK'
<1>1. CASE LoseRedis
  <2>1. calm' \subseteq calm /\ \A q \in Requests : InHand(q) => req[q].data.code \notin calm'
    BY <1>1 DEF LoseRedis, Disturb
  <2>2. QED BY <1>1, <2>1, Forgetting DEF LoseRedis
<1>2. CASE RedisBack \/ Tick \/ UNCHANGED vars
  BY <1>2, Forgetting DEF RedisBack, Tick, vars, codes
<1>3. CASE Expire
  <2>1. otp' \in {otp, NoEntry} /\ memory' \in {memory, NoEntry}
    BY <1>3 DEF Expire
  <2>2. QED BY <1>3, <2>1, Forgetting DEF Expire
<1>4. QED BY <1>1, <1>2, <1>3

(* A new code is in one store and has not been tried.                      *)
LEMMA ForgotCodes ==
  ASSUME IInv, CodesOK, NEW r \in Requests, NEW c \in Codes, StartForgot(r, c)
  PROVE  CodesOK'
<1>1. /\ UNCHANGED <<redisUp, req, tries, accepted, calm>> /\ c \in fresh /\ fresh' = fresh \ {c}
      /\ \/ otp' = Generated(c) /\ memory' = memory
         \/ memory' = Generated(c) /\ otp' = otp
  BY DEF StartForgot
<1>2. /\ calm \subseteq Codes /\ tries \in [Codes -> Nat]
      /\ Generated(c).code = c /\ Generated(c).attempts = 0
  BY DEF IInv, TypeOK, Generated
<1>3. c \in calm => Gone(c) /\ tries[c] = 0 /\ accepted[c] = 0
  BY <1>1 DEF CodesOK, CodeOK
<1>4. ASSUME NEW d \in calm' PROVE CodeOK(d)'
  <2>1. CodeOK(d) /\ d \in calm
    BY <1>1 DEF CodesOK
  <2>2. Writing(d) => Writing(d)'
    BY <1>1 DEF Writing, At
  <2>3. CASE d = c
    BY <1>1, <1>2, <1>3, <2>1, <2>3 DEF CodeOK, Gone
  <2>4. CASE d # c
    <3>1. Gone(d) => Gone(d)'
      BY <1>1, <1>2, <2>4 DEF Gone, InHand
    <3>2. QED BY <1>1, <1>2, <2>1, <2>2, <2>4, <3>1 DEF CodeOK
  <2>5. QED BY <2>3, <2>4
<1>5. ASSUME NEW q \in Requests PROVE HandOK(q)'
  <2>1. InHand(q) /\ req[q].data.code \in calm => req[q].data.code # c
    BY <1>3 DEF Gone
  <2>2. QED BY <1>1, <1>2, <2>1 DEF CodesOK, HandOK, InHand
<1>6. \A q \in Requests : EntryOK(q)'
  BY <1>1 DEF CodesOK, EntryOK, At
<1>7. QED BY <1>4, <1>5, <1>6 DEF CodesOK

(* The wrong entry is written behind the others.                           *)
LEMMA AttemptCodes ==
  ASSUME IInv, CodesOK, NEW r \in Requests, WriteAttempt(r)
  PROVE  CodesOK'
<1> DEFINE c == req[r].data.code
           w == [req[r].data EXCEPT !.attempts = @ + 1]
<1>1. /\ At(r, "otpWrong") /\ InHand(r) /\ Goto(r, "idle")
      /\ otp' = IF redisUp THEN w ELSE otp
      /\ UNCHANGED <<memory, tries, accepted, calm, fresh, redisUp>>
  BY DEF WriteAttempt, At, InHand, surroundings
<1>2. req \in [Requests -> Request] /\ req[r].data \in Entry
  BY <1>1 DEF IInv, TypeOK, PhaseOK, At
<1>3. w.code = c /\ w.attempts = req[r].data.attempts + 1
  BY <1>2 DEF Entry
<1>4. ~InHand(r)' /\ \A q \in Requests \ {r} : req'[q] = req[q]
  BY <1>1, <1>2, Going DEF PCs, InHand, Idle
<1>5. c \in calm => HandOK(r) /\ CodeOK(c) /\ ~Gone(c)
  BY <1>1 DEF CodesOK, Gone
<1> HIDE DEF w
<1>6. ASSUME NEW d \in calm' PROVE CodeOK(d)'
  <2>1. CodeOK(d) /\ d \in calm
    BY <1>1 DEF CodesOK
  <2>2. CASE d = c
    <3>1. /\ redisUp /\ memory.code # d /\ tries[d] <= req[r].data.attempts + 1
          /\ ~Gone(d)
      BY <1>1, <1>5, <2>1, <2>2 DEF HandOK, At
    <3>2. otp' = w
      BY <1>1, <3>1
    <3>3. d \notin fresh /\ accepted[d] # 1
      BY <2>1, <3>1 DEF CodeOK
    <3>4. QED BY <1>1, <1>3, <2>1, <3>1, <3>2, <3>3 DEF CodeOK
  <2>3. CASE d # c
    <3>1. Gone(d) => Gone(d)'
      BY <1>1, <1>3, <1>4, <2>3 DEF Gone, InHand
    <3>2. Writing(d) => Writing(d)'
      BY <1>4, <2>3 DEF Writing, At
    <3>3. otp'.code = d => otp' = otp
      BY <1>1, <1>3, <2>3
    <3>4. QED BY <1>1, <2>1, <3>1, <3>2, <3>3 DEF CodeOK
  <2>4. QED BY <2>2, <2>3
<1>7. ASSUME NEW q \in Requests PROVE HandOK(q)'
  <2>1. SUFFICES ASSUME InHand(q)', req'[q].data.code \in calm' PROVE FALSE
    BY DEF HandOK
  <2>2. q # r /\ InHand(q) /\ req[q].data.code \in calm /\ HandOK(q)
    BY <1>1, <1>4, <2>1 DEF InHand, CodesOK
  <2>3. QED BY <1>1, <2>2 DEF HandOK
<1>8. \A q \in Requests : EntryOK(q)'
  BY <1>4 DEF CodesOK, EntryOK, InHand, At
<1>9. QED BY <1>6, <1>7, <1>8 DEF CodesOK

(* An accepted code is deleted where it stands.                            *)
LEMMA DeleteCodes ==
  ASSUME IInv, CodesOK, NEW r \in Requests, DeleteOtp(r)
  PROVE  CodesOK'
<1> DEFINE c == req[r].data.code
           pc == IF req[r].op = "reset" THEN "read" ELSE "storeReset"
<1>1. /\ At(r, "otpDelete") /\ InHand(r) /\ Goto(r, pc)
      /\ otp' = IF redisUp THEN NoEntry ELSE otp
      /\ memory' = NoEntry
      /\ accepted' = [accepted EXCEPT ![req[r].code] = @ + 1]
      /\ UNCHANGED <<tries, calm, fresh, redisUp>>
  BY DEF DeleteOtp, At, InHand, surroundings
<1>2. /\ req \in [Requests -> Request] /\ req[r].code \in Codes
      /\ accepted \in [Codes -> Nat] /\ calm \subseteq Codes
      /\ NoEntry.code \notin Codes
  BY <1>1, NoneAssumption DEF IInv, TypeOK, PhaseOK, At, NoEntry
<1>3. ~InHand(r)' /\ \A q \in Requests \ {r} : req'[q] = req[q]
  <2>1. pc \in {"read", "storeReset"}
    OBVIOUS
  <2> HIDE DEF pc
  <2>2. QED BY <1>1, <1>2, <2>1, Going DEF PCs, InHand
<1>4. req[r].code = c
  BY <1>1 DEF CodesOK, EntryOK
<1>5. ASSUME NEW q \in Requests PROVE HandOK(q)'
  <2>1. SUFFICES ASSUME InHand(q)', req'[q].data.code \in calm' PROVE FALSE
    BY DEF HandOK
  <2>2. q # r /\ InHand(q) /\ req[q].data.code \in calm /\ HandOK(q)
    BY <1>1, <1>3, <2>1 DEF InHand, CodesOK
  <2>3. QED BY <1>1, <2>2 DEF HandOK
<1>6. ASSUME NEW d \in calm' PROVE CodeOK(d)'
  <2>1. CodeOK(d) /\ d \in calm /\ d \in Codes
    BY <1>1, <1>2 DEF CodesOK
  <2>2. CASE c \in calm /\ d = c
    <3>1. HandOK(r) /\ ~Gone(d) /\ req[r].code = d
      BY <1>1, <1>4, <2>2 DEF CodesOK, Gone
    <3>2. d \notin fresh /\ accepted[d] = 0
      BY <1>2, <2>1, <3>1 DEF CodeOK
    <3>3. accepted'[d] = 1
      BY <1>1, <1>2, <2>1, <3>1, <3>2
    <3>4. Gone(d)'
      BY <1>1, <1>2, <1>3, <2>1, <2>2, <3>1 DEF Gone, HandOK, InHand, At
    <3>5. QED BY <1>1, <1>2, <2>1, <3>2, <3>3, <3>4 DEF CodeOK, Gone
  <2>3. CASE d # c
    <3>1. Gone(d) => Gone(d)'
      BY <1>1, <1>2, <1>3, <2>1 DEF Gone, InHand
    <3>2. Writing(d) => Writing(d)'
      BY <1>1, <1>3 DEF Writing, At
    <3>3. otp'.code = d => otp' = otp
      BY <1>1, <1>2, <2>1
    <3>4. accepted'[d] = accepted[d]
      BY <1>1, <1>2, <1>4, <2>1, <2>3
    <3>5. QED BY <1>1, <1>2, <2>1, <3>1, <3>2, <3>3, <3>4 DEF CodeOK
  <2>4. QED BY <2>1, <2>2, <2>3
<1>7. \A q \in Requests : EntryOK(q)'
  BY <1>3 DEF CodesOK, EntryOK, InHand, At
<1>8. QED BY <1>5, <1>6, <1>7 DEF CodesOK

(* What a read of a code does: the entry it found is taken in hand, or a   *)
(* wrong entry is counted in memory at once.                               *)
LEMMA ReadCode ==
  ASSUME IInv, NEW r \in Requests, GetOtp(r)
  PROVE  /\ ~InHand(r) /\ UNCHANGED <<redisUp, otp, accepted, fresh>>
         /\ \A q \in Requests \ {r} : req'[q] = req[q]
         /\ \/ ~InHand(r)' /\ UNCHANGED <<memory, tries, calm>>
            \/ \E d \in Entry :
                 /\ (d = otp /\ redisUp) \/ d = memory
                 /\ InHand(r)' => req'[r].data = d
                 /\ \/ memory' = memory /\ tries' = tries /\ ~At(r, "otpWrong")'
                    \/ /\ memory' = memory /\ d = otp /\ redisUp /\ d.attempts < OtpMax
                       /\ tries' = [tries EXCEPT ![d.code] = @ + 1] /\ At(r, "otpWrong")'
                    \/ /\ d = memory /\ d.attempts < OtpMax /\ ~InHand(r)'
                       /\ memory' = [memory EXCEPT !.attempts = @ + 1]
                       /\ tries' = [tries EXCEPT ![d.code] = @ + 1]
                 /\ At(r, "otpDelete")' => req'[r].code = d.code
                 /\ calm' = IF \E q \in Requests \ {r} : InHand(q)
                            THEN calm \ ({d.code} \cup {req[q].data.code : q \in Requests})
                            ELSE calm
<1> DEFINE inRedis == redisUp /\ otp # NoEntry
           data    == IF inRedis THEN otp ELSE memory
           wrong   == data.code # req[r].code
           next    == IF TooMany(data) THEN "otpDrop"
                      ELSE IF ~wrong THEN "otpDelete"
                      ELSE IF inRedis THEN "otpWrong" ELSE "idle"
<1>1. /\ req \in [Requests -> Request]
      /\ otp \in Entry \cup {NoEntry} /\ memory \in Entry \cup {NoEntry}
      /\ ~InHand(r) /\ UNCHANGED <<redisUp, otp, accepted, fresh>>
  BY DEF GetOtp, At, InHand, IInv, TypeOK, surroundings
<1>2. CASE data = NoEntry
  <2>1. Goto(r, "idle") /\ UNCHANGED <<memory, tries, calm>>
    BY <1>2 DEF GetOtp
  <2>2. ~InHand(r)' /\ \A q \in Requests \ {r} : req'[q] = req[q]
    BY <1>1, <2>1, Going DEF PCs, InHand, Idle
  <2>3. QED BY <1>1, <2>1, <2>2
<1>3. CASE data # NoEntry
  <2> DEFINE w == IF next = "idle" THEN Idle ELSE [req[r] EXCEPT !.data = data, !.pc = next]
  <2>1. data \in Entry
    BY <1>1, <1>3
  <2>2. req' = [req EXCEPT ![r] = w]
    BY <1>3 DEF GetOtp
  <2>3. next \in {"idle", "otpDrop", "otpDelete", "otpWrong"}
    OBVIOUS
  <2>4. /\ next = "otpDelete" => ~wrong /\ ~TooMany(data)
        /\ next = "otpWrong" => wrong /\ ~TooMany(data) /\ inRedis
        /\ next = "idle" => wrong /\ ~TooMany(data) /\ ~inRedis
        /\ next = "otpDrop" => TooMany(data)
    OBVIOUS
  <2>5. /\ w.pc = next
        /\ next # "idle" => w.data = data /\ w.code = req[r].code
    <3> HIDE DEF next, data
    <3>1. QED BY <1>1 DEF Request, Idle
  <2>6. /\ ~TooMany(data) /\ wrong =>
             /\ tries' = [tries EXCEPT ![data.code] = @ + 1]
             /\ memory' = IF inRedis THEN memory ELSE [memory EXCEPT !.attempts = @ + 1]
        /\ ~(~TooMany(data) /\ wrong) => UNCHANGED <<tries, memory>>
    BY <1>3 DEF GetOtp
  <2>7. calm' = IF \E q \in Requests \ {r} : InHand(q)
                THEN calm \ ({data.code} \cup {req[q].data.code : q \in Requests})
                ELSE calm
    BY <1>3 DEF GetOtp
  <2>8. /\ inRedis => data = otp /\ redisUp
        /\ ~inRedis => data = memory
    OBVIOUS
  <2>9. ~TooMany(data) => data.attempts < OtpMax
    BY <2>1, LimitsAssumption DEF TooMany, Entry
  <2> HIDE DEF next, data, w, wrong, inRedis
  <2>10. req'[r] = w /\ \A q \in Requests \ {r} : req'[q] = req[q]
    BY <1>1, <2>2
  <2>11. /\ InHand(r)' <=> next # "idle"
         /\ At(r, "otpWrong")' <=> next = "otpWrong"
         /\ At(r, "otpDelete")' <=> next = "otpDelete"
    BY <2>3, <2>5, <2>10 DEF InHand, At
  <2>12. wrong <=> data.code # req[r].code
    BY DEF wrong
  <2>13. \/ memory' = memory /\ tries' = tries /\ ~At(r, "otpWrong")'
         \/ /\ memory' = memory /\ data = otp /\ redisUp /\ data.attempts < OtpMax
            /\ tries' = [tries EXCEPT ![data.code] = @ + 1] /\ At(r, "otpWrong")'
         \/ /\ data = memory /\ data.attempts < OtpMax /\ ~InHand(r)'
            /\ memory' = [memory EXCEPT !.attempts = @ + 1]
            /\ tries' = [tries EXCEPT ![data.code] = @ + 1]
    <3>1. CASE next \in {"otpDrop", "otpDelete"}
      BY <2>4, <2>6, <2>11, <3>1
    <3>2. CASE next = "otpWrong"
      BY <2>4, <2>6, <2>8, <2>9, <2>11, <3>2
    <3>3. CASE next = "idle"
      BY <2>4, <2>6, <2>8, <2>9, <2>11, <3>3
    <3>4. QED BY <2>3, <3>1, <3>2, <3>3
  <2>14. At(r, "otpDelete")' => req'[r].code = data.code
    BY <2>4, <2>5, <2>10, <2>11, <2>12
  <2>15. InHand(r)' => req'[r].data = data
    BY <2>5, <2>10, <2>11
  <2>16. (data = otp /\ redisUp) \/ data = memory
    BY <2>8
  <2>17. QED BY <1>1, <2>1, <2>7, <2>10, <2>13, <2>14, <2>15, <2>16
<1>4. QED BY <1>2, <1>3

(* A read keeps what is known of the codes.                                *)
LEMMA ReadCodes ==
  ASSUME IInv, CodesOK, NEW r \in Requests, GetOtp(r)
  PROVE  CodesOK'
<1>1. /\ ~InHand(r) /\ UNCHANGED <<redisUp, otp, accepted, fresh>>
      /\ \A q \in Requests \ {r} : req'[q] = req[q]
  BY ReadCode
<1>2. CASE ~InHand(r)' /\ UNCHANGED <<memory, tries, calm>>
  BY <1>1, <1>2, Forgetting DEF InHand, At
<1>3. CASE ~(~InHand(r)' /\ UNCHANGED <<memory, tries, calm>>)
  <2>1. PICK d \in Entry :
          /\ (d = otp /\ redisUp) \/ d = memory
          /\ InHand(r)' => req'[r].data = d
          /\ \/ memory' = memory /\ tries' = tries /\ ~At(r, "otpWrong")'
             \/ /\ memory' = memory /\ d = otp /\ redisUp /\ d.attempts < OtpMax
                /\ tries' = [tries EXCEPT ![d.code] = @ + 1] /\ At(r, "otpWrong")'
             \/ /\ d = memory /\ d.attempts < OtpMax /\ ~InHand(r)'
                /\ memory' = [memory EXCEPT !.attempts = @ + 1]
                /\ tries' = [tries EXCEPT ![d.code] = @ + 1]
          /\ At(r, "otpDelete")' => req'[r].code = d.code
          /\ calm' = IF \E q \in Requests \ {r} : InHand(q)
                     THEN calm \ ({d.code} \cup {req[q].data.code : q \in Requests})
                     ELSE calm
    BY <1>3, ReadCode
  <2> DEFINE c == d.code
  <2>2. /\ c \in Codes /\ d.attempts \in Nat /\ tries \in [Codes -> Nat] /\ calm \subseteq Codes
        /\ memory \in Entry \cup {NoEntry}
    BY DEF Entry, IInv, TypeOK
  <2>3. /\ memory'.code = memory.code
        /\ memory.code # c => memory' = memory
        /\ \A e \in Codes : e # c => tries'[e] = tries[e]
    <3>1. CASE memory' = memory
      BY <2>1, <2>2, <3>1
    <3>2. CASE d = memory /\ memory' = [memory EXCEPT !.attempts = @ + 1]
      BY <2>1, <2>2, <3>2 DEF Entry
    <3>3. QED BY <2>1, <3>1, <3>2
  <2>4. ASSUME NEW e \in calm', e # c,
               \A q \in Requests : InHand(q) => req[q].data.code # e
        PROVE  CodeOK(e)'
    <3>1. CodeOK(e) /\ e \in Codes
      BY <2>1, <2>2 DEF CodesOK
    <3>2. ~Writing(e)
      BY <2>4 DEF Writing, InHand, At
    <3>3. memory'.code = e => memory' = memory
      BY <2>3, <2>4
    <3>4. Gone(e) => Gone(e)'
      BY <1>1, <2>1, <2>3, <2>4 DEF Gone, InHand
    <3>5. QED BY <1>1, <2>3, <2>4, <3>1, <3>2, <3>3, <3>4 DEF CodeOK
  <2>5. \A q \in Requests : EntryOK(q)'
    BY <1>1, <2>1 DEF CodesOK, EntryOK, InHand, At
  <2>6. CASE \E q \in Requests \ {r} : InHand(q)
    <3>1. \A q \in Requests : req[q].data.code \notin calm'
      BY <2>1, <2>6
    <3>2. c \notin calm'
      BY <2>1, <2>6
    <3>3. \A e \in calm' : CodeOK(e)'
      BY <2>4, <3>1, <3>2
    <3>4. ASSUME NEW q \in Requests PROVE HandOK(q)'
      BY <1>1, <2>1, <3>1, <3>2 DEF HandOK, InHand
    <3>5. QED BY <2>5, <3>3, <3>4 DEF CodesOK
  <2>7. CASE \A q \in Requests \ {r} : ~InHand(q)
    <3>1. calm' = calm /\ (\A q \in Requests : ~InHand(q)) /\ (\A q \in Requests \ {r} : ~InHand(q)')
      BY <1>1, <2>1, <2>7 DEF InHand
    <3>2. ASSUME c \in calm
          PROVE  /\ CodeOK(c) /\ ~Gone(c) /\ ~Writing(c)
                 /\ d.attempts >= tries[c]
                 /\ d = otp => memory.code # c
                 /\ d = memory => otp.code # c
      <4>1. CodeOK(c) /\ ~Gone(c)
        BY <2>1, <3>2 DEF CodesOK, Gone
      <4>2. ~Writing(c)
        BY <3>1 DEF Writing, InHand, At
      <4>3. QED BY <2>1, <4>1, <4>2 DEF CodeOK
    <3>3. c \in calm => CodeOK(c)'
      <4> SUFFICES ASSUME c \in calm PROVE CodeOK(c)'
        OBVIOUS
      <4>1. /\ CodeOK(c) /\ d.attempts >= tries[c]
            /\ d = otp => memory.code # c
            /\ d = memory => otp.code # c
        BY <3>2
      <4>2. c \notin fresh /\ accepted[c] # 1
        BY <3>2 DEF CodeOK
      <4>3. CASE memory' = memory /\ tries' = tries /\ ~At(r, "otpWrong")'
        BY <1>1, <2>1, <3>2, <4>1, <4>2, <4>3 DEF CodeOK
      <4>4. CASE /\ memory' = memory /\ d = otp /\ redisUp /\ d.attempts < OtpMax
                 /\ tries' = [tries EXCEPT ![d.code] = @ + 1] /\ At(r, "otpWrong")'
        <5>1. tries'[c] = tries[c] + 1 /\ tries'[c] <= OtpMax
          BY <2>2, <4>1, <4>4, LimitsAssumption
        <5>2. Writing(c)'
          BY <2>1, <4>4 DEF Writing, At, InHand
        <5>3. QED BY <1>1, <4>1, <4>2, <4>4, <5>1, <5>2 DEF CodeOK
      <4>5. CASE /\ d = memory /\ d.attempts < OtpMax /\ ~InHand(r)'
                 /\ memory' = [memory EXCEPT !.attempts = @ + 1]
                 /\ tries' = [tries EXCEPT ![d.code] = @ + 1]
        <5>1. tries'[c] = tries[c] + 1 /\ tries'[c] <= OtpMax
          BY <2>2, <4>1, <4>5, LimitsAssumption
        <5>2. memory'.attempts = d.attempts + 1 /\ memory'.code = c
          BY <4>5 DEF Entry
        <5>3. memory'.attempts >= tries'[c]
          BY <2>2, <4>1, <5>1, <5>2
        <5>4. QED BY <1>1, <4>1, <4>2, <4>5, <5>1, <5>2, <5>3 DEF CodeOK
      <4>6. QED BY <2>1, <4>3, <4>4, <4>5
    <3>4. \A e \in calm' : CodeOK(e)'
      BY <2>4, <3>1, <3>3
    <3>5. HandOK(r)'
      <4> SUFFICES ASSUME InHand(r)', c \in calm PROVE HandOK(r)'
        BY <2>1, <3>1 DEF HandOK
      <4>1. At(r, "otpWrong")' => /\ redisUp' /\ memory'.code # c /\ d.attempts < OtpMax
                                  /\ tries'[c] <= d.attempts + 1
        <5> SUFFICES ASSUME At(r, "otpWrong")'
                     PROVE  /\ redisUp' /\ memory'.code # c /\ d.attempts < OtpMax
                            /\ tries'[c] <= d.attempts + 1
          OBVIOUS
        <5>1. /\ memory' = memory /\ d = otp /\ redisUp /\ d.attempts < OtpMax
              /\ tries' = [tries EXCEPT ![d.code] = @ + 1]
          BY <2>1
        <5>2. tries'[c] = tries[c] + 1 /\ tries[c] <= d.attempts /\ tries[c] \in Nat
          BY <2>2, <3>2, <5>1
        <5>3. QED BY <1>1, <2>2, <3>2, <5>1, <5>2
      <4>2. otp'.code = c => redisUp'
        BY <1>1, <2>1, <3>2
      <4>3. QED BY <2>1, <3>1, <4>1, <4>2 DEF HandOK, At
    <3>6. \A q \in Requests : HandOK(q)'
      BY <3>1, <3>5 DEF HandOK
    <3>7. QED BY <2>5, <3>4, <3>6 DEF CodesOK
  <2>8. QED BY <2>6, <2>7
<1>4. QED BY <1>2, <1>3

(* OtpBounded: for every limit, any number of requests that overlap, fail  *)
(* and lose Redis, and any number of codes: a code whose checks did not    *)
(* overlap is compared with at most OtpMax wrong entries and accepted once.*)
THEOREM CodesBounded == Spec => []OtpBounded
<1>1. Init => OtpInv
  BY IInvInit, CodesInit DEF OtpInv
<1>2. OtpInv /\ [Next]_vars => OtpInv'
  <2> SUFFICES ASSUME OtpInv, [Next]_vars PROVE OtpInv'
    OBVIOUS
  <2>1. IInv /\ CodesOK /\ IInv'
    BY IInvNext DEF OtpInv
  <2>2. ASSUME NEW r \in Requests, Step(r) PROVE CodesOK'
    BY <2>1, <2>2, BesideCodes, ForgotCodes, ReadCodes, AttemptCodes, DeleteCodes
  <2>3. QED BY <2>1, <2>2, CodesOutside DEF Next, OtpInv
<1>3. OtpInv => OtpBounded
  BY DEF OtpInv, CodesOK, CodeOK, OtpBounded
<1>4. QED BY <1>1, <1>2, <1>3, PTL DEF Spec

=============================================================================
