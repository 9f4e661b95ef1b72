---------------------------- MODULE Credentials ----------------------------
(***************************************************************************)
(* One account and what guards it: the login of services/auth.service.ts   *)
(* with the lock of models/user.model.ts and the attempt counter in Redis, *)
(* the one-time code of services/otp.service.ts, and the ways to a new     *)
(* password.                                                               *)
(*                                                                         *)
(* A request is a sequence of calls to Redis and MongoDB, any two of which *)
(* interleave.  A user document is saved under optimistic concurrency      *)
(* (models/base.model.ts): save fails if the version changed since the     *)
(* read, and writes only the paths it changed; findOneAndUpdate neither    *)
(* checks nor raises the version.  While Redis is away its helpers answer  *)
(* "no value" and write nothing, and the code falls back to a map in       *)
(* memory.  Issuing and revoking tokens is the module RefreshTokens.       *)
(***************************************************************************)
EXTENDS Naturals, FiniteSets

CONSTANTS
  Requests, Codes, None,
  LockMax,    \* ACCOUNT_LOCK_MAX_ATTEMPTS
  RateMax,    \* RATE_LIMIT_AUTH_MAX
  OtpMax,     \* maxAttempts of verify
  MaxStarts,  \* bound: requests started
  MaxClock,   \* bound: time, in lock durations
  MaxFaults   \* bound: failed calls, outages of Redis, expiries

ASSUME LimitsAssumption ==
  /\ LockMax \in Nat \ {0}
  /\ RateMax \in Nat \ {0}
  /\ OtpMax \in Nat \ {0}
ASSUME BoundsAssumption == MaxStarts \in Nat /\ MaxClock \in Nat /\ MaxFaults \in Nat
ASSUME NoneAssumption == None \notin Codes

VARIABLES
  clock,
  redisUp,
  user,     \* the fields of the user document that login and reset write
  brute,    \* the counter rl:bruteforce:login:<ip>:<email>
  otp,      \* the key otp:password_reset:<email> in Redis
  memory,   \* the same key in memoryOtps
  resets,   \* whether a password reset token would be accepted
  req,
  fresh,    \* codes not generated yet
  tries, accepted, \* ghosts: wrong entries and acceptances of each code
  calm,     \* ghost: codes whose checks neither overlapped nor lost a call
  starts, faults

vars == <<clock, redisUp, user, brute, otp, memory, resets, req, fresh,
          tries, accepted, calm, starts, faults>>

\* until: lockUntil, 0 for null
User  == [attempts: Nat, locked: BOOLEAN, until: Nat, version: Nat]
Entry == [code: Codes, attempts: Nat]
NoEntry == [code |-> None, attempts |-> 0]

PCs == {"idle", "check", "read", "compare", "count", "clear", "record",
        "otpGet", "otpWrong", "otpDrop", "otpDelete", "storeReset",
        "save", "unlock", "revoke", "invalidate"}

\* doc: the user as read; data: the code as read
Request == [op: {"login", "verifyOtp", "reset", "change"}, pc: PCs,
            doc: User, data: Entry \cup {NoEntry}, code: Codes \cup {None}]

TypeOK ==
  /\ clock \in 1..(MaxClock + 1)
  /\ redisUp \in BOOLEAN
  /\ user \in User
  /\ brute \in Nat
  /\ otp \in Entry \cup {NoEntry}
  /\ memory \in Entry \cup {NoEntry}
  /\ resets \in BOOLEAN
  /\ req \in [Requests -> Request]
  /\ fresh \subseteq Codes
  /\ tries \in [Codes -> Nat]
  /\ accepted \in [Codes -> Nat]
  /\ calm \subseteq Codes
  /\ starts \in 0..MaxStarts
  /\ faults \in 0..MaxFaults

NewUser == [attempts |-> 0, locked |-> FALSE, until |-> 0, version |-> 0]

Idle == [op |-> "login", pc |-> "idle", doc |-> NewUser, data |-> NoEntry, code |-> None]

Init ==
  /\ clock = 1
  /\ redisUp = TRUE
  /\ user = NewUser
  /\ brute = 0
  /\ otp = NoEntry
  /\ memory = NoEntry
  /\ resets = FALSE
  /\ req = [r \in Requests |-> Idle]
  /\ fresh = Codes
  /\ tries = [c \in Codes |-> 0]
  /\ accepted = [c \in Codes |-> 0]
  /\ calm = Codes
  /\ starts = 0
  /\ faults = 0

surroundings == <<clock, redisUp, fresh, starts, faults>>
codes  == <<otp, memory, tries, accepted, calm>>

At(r, pc) == req[r].pc = pc

Goto(r, pc) == req' = [req EXCEPT ![r] = IF pc = "idle" THEN Idle ELSE [@ EXCEPT !.pc = pc]]

\* A request comes in.
Free(r) == At(r, "idle") /\ starts < MaxStarts /\ starts' = starts + 1

Begin(r, op, pc, c) ==
  /\ Free(r)
  /\ req' = [req EXCEPT ![r] = [Idle EXCEPT !.op = op, !.pc = pc, !.code = c]]

----------------------------------------------------------------------------
(* login.                                                                  *)

StartLogin(r) ==
  /\ Begin(r, "login", "check", None)
  /\ UNCHANGED <<clock, redisUp, user, brute, resets, fresh, faults, codes>>

OverRate == redisUp /\ brute >= RateMax

\* #assertNotBruteForced
AssertNotBruteForced(r) ==
  /\ At(r, "check")
  /\ Goto(r, IF OverRate THEN "idle" ELSE "read")
  /\ UNCHANGED <<user, brute, resets, codes, surroundings>>

Locked(d) == d.locked /\ d.until > clock

ReadUser(r) ==
  /\ At(r, "read")
  /\ IF req[r].op = "login" /\ Locked(user)
     THEN Goto(r, "idle")
     ELSE req' = [req EXCEPT ![r].doc = user,
                             ![r].pc = IF req[r].op = "reset" THEN "save" ELSE "compare"]
  /\ UNCHANGED <<user, brute, resets, codes, surroundings>>

\* correctPassword; for a wrong one incrementLoginAttempts computes on the
\* document read, and save writes what it changed.
Incremented(d) ==
  IF d.until > clock THEN [d EXCEPT !.attempts = @ + 1]
  ELSE IF d.until # 0 THEN [d EXCEPT !.locked = FALSE, !.until = 0, !.attempts = 1]
  ELSE IF d.attempts + 1 >= LockMax
       THEN [d EXCEPT !.attempts = @ + 1, !.locked = TRUE, !.until = clock + 1]
       ELSE [d EXCEPT !.attempts = @ + 1]

\* The paths in which new differs from old, written over the document.
Patched(old, new) ==
  [user EXCEPT !.attempts = IF new.attempts # old.attempts THEN new.attempts ELSE @,
               !.locked   = IF new.locked   # old.locked   THEN new.locked   ELSE @,
               !.until    = IF new.until    # old.until    THEN new.until    ELSE @,
               !.version  = @ + 1]

\* Broken: the save does not look at the version.
WrongPasswordAnyVersion(r) ==
  /\ At(r, "compare")
  /\ LET d == req[r].doc IN
     /\ user' = Patched(d, Incremented(d))
     /\ Goto(r, "count")
  /\ UNCHANGED <<brute, resets, codes, surroundings>>

WrongPassword(r) ==
  /\ At(r, "compare")
  /\ LET d == req[r].doc IN
     IF req[r].op = "change"
     THEN Goto(r, "idle") /\ UNCHANGED user
     ELSE IF d.version = user.version
     THEN user' = Patched(d, Incremented(d)) /\ Goto(r, "count")
     ELSE Goto(r, "idle") /\ UNCHANGED user           \* VersionError
  /\ UNCHANGED <<brute, resets, codes, surroundings>>

RightPassword(r) ==
  /\ At(r, "compare")
  /\ Goto(r, IF req[r].op = "change" THEN "save" ELSE "clear")
  /\ UNCHANGED <<user, brute, resets, codes, surroundings>>

HitBruteForce(r) ==
  /\ At(r, "count")
  /\ brute' = IF redisUp THEN brute + 1 ELSE brute
  /\ Goto(r, "idle")
  /\ UNCHANGED <<user, resets, codes, surroundings>>

ClearBruteForce(r) ==
  /\ At(r, "clear")
  /\ brute' = IF redisUp THEN 0 ELSE brute
  /\ Goto(r, "record")
  /\ UNCHANGED <<user, resets, codes, surroundings>>

RecordSuccessfulLogin(r) ==
  /\ At(r, "record")
  /\ user' = [user EXCEPT !.attempts = 0, !.locked = FALSE, !.until = 0]
  /\ Goto(r, "idle")
  /\ UNCHANGED <<brute, resets, codes, surroundings>>

----------------------------------------------------------------------------
(* forgotPassword: generate writes to Redis, or else to memory.            *)

Generated(c) == [code |-> c, attempts |-> 0]

StartForgot(r, c) ==
  /\ Free(r)
  /\ c \in fresh
  /\ fresh' = fresh \ {c}
  /\ IF redisUp THEN otp' = Generated(c) /\ UNCHANGED memory
                ELSE memory' = Generated(c) /\ UNCHANGED otp
  /\ UNCHANGED <<clock, redisUp, user, brute, resets, req, tries, accepted, calm, faults>>

----------------------------------------------------------------------------
(* verify of a code: verifyPasswordResetOtp, or resetPassword with e-mail  *)
(* and code.                                                               *)

InHand(r) == req[r].pc \in {"otpWrong", "otpDrop", "otpDelete"}

StartVerify(r, op, c) ==
  /\ Begin(r, op, "otpGet", c)
  /\ c \notin fresh
  /\ UNCHANGED <<clock, redisUp, user, brute, resets, fresh, faults, codes>>

\* Broken: the limit is exceeded before it is noticed.
TooManyLate(d) == d.attempts > OtpMax

TooMany(d) == d.attempts >= OtpMax

\* The read of Redis; what follows until the next call, memory included.
GetOtp(r) ==
  /\ At(r, "otpGet")
  /\ LET inRedis == redisUp /\ otp # NoEntry
         data    == IF inRedis THEN otp ELSE memory
         wrong   == data.code # req[r].code
         next    == IF TooMany(data) THEN "otpDrop"
                    ELSE IF ~wrong THEN "otpDelete"
                    ELSE IF inRedis THEN "otpWrong" ELSE "idle"
     IN IF data = NoEntry
        THEN Goto(r, "idle") /\ UNCHANGED <<memory, tries, calm>>
        ELSE /\ req' = [req EXCEPT ![r] = IF next = "idle" THEN Idle
                                          ELSE [@ EXCEPT !.data = data, !.pc = next]]
             /\ IF ~TooMany(data) /\ wrong
                THEN /\ tries' = [tries EXCEPT ![data.code] = @ + 1]
                     /\ memory' = IF inRedis THEN memory ELSE [memory EXCEPT !.attempts = @ + 1]
                ELSE UNCHANGED <<tries, memory>>
             /\ calm' = IF \E q \in Requests \ {r} : InHand(q)
                        THEN calm \ ({data.code} \cup {req[q].data.code : q \in Requests})
                        ELSE calm
  /\ UNCHANGED <<user, brute, resets, otp, accepted, surroundings>>

\* redisTtl, then redisSet of the data read with one attempt more.
WriteAttempt(r) ==
  /\ At(r, "otpWrong")
  /\ otp' = IF redisUp THEN [req[r].data EXCEPT !.attempts = @ + 1] ELSE otp
  /\ Goto(r, "idle")
  /\ UNCHANGED <<user, brute, resets, memory, tries, accepted, calm, surroundings>>

\* Too many attempts: both stores forget the key.
DropOtp(r) ==
  /\ At(r, "otpDrop")
  /\ otp' = IF redisUp THEN NoEntry ELSE otp
  /\ memory' = NoEntry
  /\ Goto(r, "idle")
  /\ UNCHANGED <<user, brute, resets, tries, accepted, calm, surroundings>>

DeleteOtp(r) ==
  /\ At(r, "otpDelete")
  /\ otp' = IF redisUp THEN NoEntry ELSE otp
  /\ memory' = NoEntry
  /\ accepted' = [accepted EXCEPT ![req[r].code] = @ + 1]
  /\ Goto(r, IF req[r].op = "reset" THEN "read" ELSE "storeReset")
  /\ UNCHANGED <<user, brute, resets, tries, calm, surroundings>>

----------------------------------------------------------------------------
(* A new password.  A reset token is stored in place of the one before and *)
(* is deleted when used, each in one step here.                            *)

StorePasswordResetToken(r) ==
  /\ At(r, "storeReset")
  /\ resets' = (redisUp \/ resets)
  /\ Goto(r, "idle")
  /\ UNCHANGED <<user, brute, codes, surroundings>>

\* verifyPasswordResetToken knows the token.
ResetKnown == redisUp /\ resets

StartReset(r) ==
  /\ Begin(r, "reset", "read", None)
  /\ ResetKnown
  /\ resets' = FALSE
  /\ UNCHANGED <<clock, redisUp, user, brute, fresh, faults, codes>>

StartChange(r) ==
  /\ Begin(r, "change", "read", None)
  /\ ~Locked(user)                                     \* authenticate
  /\ UNCHANGED <<clock, redisUp, user, brute, resets, fresh, faults, codes>>

SavePassword(r) ==
  /\ At(r, "save")
  /\ IF req[r].doc.version = user.version
     THEN /\ user' = [user EXCEPT !.version = @ + 1]
          /\ IF req[r].op = "reset"
             THEN req' = [req EXCEPT ![r].pc = "unlock", ![r].doc.version = @ + 1]
             ELSE Goto(r, "idle")
     ELSE Goto(r, "idle") /\ UNCHANGED user            \* VersionError
  /\ UNCHANGED <<brute, resets, codes, surroundings>>

\* resetLoginAttempts: saves nothing if the document read needs no change.
ResetLoginAttempts(r) ==
  /\ At(r, "unlock")
  /\ LET d == req[r].doc
         u == [d EXCEPT !.attempts = 0, !.locked = FALSE, !.until = 0]
     IN IF u = d THEN Goto(r, "revoke") /\ UNCHANGED user
        ELSE IF d.version = user.version
        THEN user' = Patched(d, u) /\ Goto(r, "revoke")
        ELSE Goto(r, "idle") /\ UNCHANGED user         \* VersionError
  /\ UNCHANGED <<brute, resets, codes, surroundings>>

\* revokeAllRefreshTokensForUser scans Redis, and rejects without it; what it
\* does to the tokens is RefreshTokens.
RevokeAll(r) ==
  /\ At(r, "revoke")
  /\ Goto(r, IF redisUp THEN "invalidate" ELSE "idle")
  /\ UNCHANGED <<user, brute, resets, codes, surroundings>>

InvalidateOtp(r) ==
  /\ At(r, "invalidate")
  /\ memory' = NoEntry
  /\ otp' = IF redisUp THEN NoEntry ELSE otp
  /\ Goto(r, "idle")
  /\ UNCHANGED <<user, brute, resets, tries, accepted, calm, surroundings>>

----------------------------------------------------------------------------
(* The surroundings.                                                       *)

Count == faults < MaxFaults /\ faults' = faults + 1

\* A code is not calm any more when a check of it loses a call.
Disturb(S) == calm' = calm \ {req[r].data.code : r \in {q \in S : InHand(q)}}

Abort(r) ==
  /\ ~At(r, "idle")
  /\ Count
  /\ Disturb({r})
  /\ Goto(r, "idle")
  /\ UNCHANGED <<clock, redisUp, user, brute, otp, memory, resets, fresh, tries, accepted, starts>>

LoseRedis ==
  /\ redisUp
  /\ redisUp' = FALSE
  /\ Count
  /\ Disturb(Requests)
  /\ UNCHANGED <<clock, user, brute, otp, memory, resets, req, fresh, tries, accepted, starts>>

RedisBack ==
  /\ ~redisUp
  /\ redisUp' = TRUE
  /\ UNCHANGED <<clock, user, brute, otp, memory, resets, req, fresh, tries, accepted, calm, starts, faults>>

\* The keys expire, each in its own time, and the clock goes on.
Expire ==
  /\ \/ brute # 0 /\ brute' = 0 /\ UNCHANGED <<otp, memory, resets>>
     \/ otp # NoEntry /\ otp' = NoEntry /\ UNCHANGED <<brute, memory, resets>>
     \/ memory # NoEntry /\ memory' = NoEntry /\ UNCHANGED <<brute, otp, resets>>
     \/ resets /\ resets' = FALSE /\ UNCHANGED <<brute, otp, memory>>
  /\ Count
  /\ UNCHANGED <<clock, redisUp, user, req, fresh, tries, accepted, calm, starts>>

Tick ==
  /\ clock <= MaxClock
  /\ clock' = clock + 1
  /\ UNCHANGED <<redisUp, user, brute, resets, req, fresh, starts, faults, codes>>

Step(r) ==
  \/ StartLogin(r) \/ AssertNotBruteForced(r) \/ ReadUser(r)
  \/ WrongPassword(r) \/ RightPassword(r)
  \/ HitBruteForce(r) \/ ClearBruteForce(r) \/ RecordSuccessfulLogin(r)
  \/ \E c \in Codes : \/ StartForgot(r, c)
                      \/ \E op \in {"verifyOtp", "reset"} : StartVerify(r, op, c)
  \/ GetOtp(r) \/ WriteAttempt(r) \/ DropOtp(r) \/ DeleteOtp(r)
  \/ StorePasswordResetToken(r) \/ StartReset(r) \/ StartChange(r)
  \/ SavePassword(r) \/ ResetLoginAttempts(r) \/ RevokeAll(r) \/ InvalidateOtp(r)
  \/ Abort(r)

Next == (\E r \in Requests : Step(r)) \/ LoseRedis \/ RedisBack \/ Expire \/ Tick

Spec == Init /\ [][Next]_vars
----------------------------------------------------------------------------
(* Properties.                                                             *)

\* The account is locked exactly while its failed attempts stand at the
\* limit, and a lock always has its end: failed logins, successful ones and
\* password resets that overlap never leave a lock without an end, an end
\* without a lock, or the limit passed without a lock.  A limit
\* of one is another matter: a failure after a lock has run out sets none.
LockedAtLimit ==
  /\ user.locked <=> user.attempts >= LockMax
  /\ user.locked <=> user.until # 0

\* A code whose checks did not overlap and lost no call is compared with a
\* wrong entry at most OtpMax times and is accepted once, whether it stands
\* in Redis or in memory and wherever it went meanwhile.
OtpBounded ==
  \A c \in calm : tries[c] <= OtpMax /\ accepted[c] <= 1

============================================================================
