--------------------------- MODULE RefreshTokens ---------------------------
(***************************************************************************)
(* Refresh tokens: services/token.service.ts and the operations of         *)
(* services/auth.service.ts and services/user.service.ts that issue,       *)
(* rotate and revoke them.                                                 *)
(*                                                                         *)
(* Redis is the primary store.  A token has two keys there, one by its     *)
(* hash (live) and one that lists it under its user (index); MongoDB keeps *)
(* a backup document.  A request is a sequence of calls to both stores,    *)
(* and any two requests interleave between calls.  The Redis helpers turn  *)
(* a lost connection into "no value" and "nothing deleted"; only the SCAN  *)
(* of revokeAllRefreshTokensForUser goes to the client itself and rejects. *)
(* ioredis does not put its keyPrefix before the pattern of a SCAN, so     *)
(* with a prefix the scan matches nothing.  REDIS_KEY_PREFIX is 'aa:' by   *)
(* default and may be set to '': keyPrefix is chosen initially.            *)
(***************************************************************************)
EXTENDS Naturals

CONSTANTS Users, Tokens, Requests, None,
  MaxStarts,  \* bound: requests started
  MaxFaults   \* bound: failed requests, outages of Redis, clean-ups, expired
              \* tokens, changes of isActive

ASSUME BoundsAssumption == MaxStarts \in Nat /\ MaxFaults \in Nat

VARIABLES
  redisUp,    \* isRedisReady()
  keyPrefix,  \* whether REDIS_KEY_PREFIX is set
  live,       \* tokens with a key refresh:<hash>
  index,      \* tokens with a key refresh:user:<user>:<jti>
  doc,        \* the RefreshToken document of each token
  signed,     \* what the signed JWT of each token says, None before
  held,       \* tokens a client has been given
  account,    \* the state of each user document
  req,        \* the requests in progress
  starts, faults \* how often the bounded events have happened

vars == <<redisUp, keyPrefix, live, index, doc, signed, held, account, req, starts, faults>>

Ops == {"login", "refresh", "logout", "revokeAll"}

PCs == {"idle", "reuse", "delete", "deleteIndex", "findDoc", "revokeDoc",
        "store", "storeIndex", "persist", "revokeOld", "answer", "scan",
        "getHash", "dropToken", "dropIndex", "revokeDocs", "done"}

\* parent and clean are ghosts: the token this one was rotated from, and
\* whether Redis answered throughout that request.
Claims == [user: Users, family: Tokens, parent: Tokens \cup {None}, clean: BOOLEAN]

ASSUME NoneAssumption == None \notin Tokens /\ None \notin Claims

\* tok: the token presented, or the scanned one in hand; next: the token it
\* generates; found: what findByTokenHash returned; todo: keys of the scanned
\* page, lastPage: its cursor was '0'; before (ghost): the tokens to revoke.
Request == [op: Ops, pc: PCs, user: Users \cup {None},
            tok: Tokens \cup {None}, next: Tokens \cup {None}, found: BOOLEAN,
            todo: SUBSET Tokens, lastPage: BOOLEAN, before: SUBSET Tokens,
            clean: BOOLEAN]

TypeOK ==
  /\ redisUp \in BOOLEAN
  /\ keyPrefix \in BOOLEAN
  /\ live \subseteq Tokens
  /\ index \subseteq Tokens
  /\ doc \in [Tokens -> {"none", "active", "revoked"}]
  /\ signed \in [Tokens -> Claims \cup {None}]
  /\ held \subseteq Tokens
  /\ account \in [Users -> {"active", "inactive", "deleted"}]
  /\ req \in [Requests -> Request]
  /\ starts \in 0..MaxStarts
  /\ faults \in 0..MaxFaults

Begin(op, pc, u, t) ==
  [op |-> op, pc |-> pc, user |-> u, tok |-> t, next |-> None, found |-> FALSE,
   todo |-> {}, lastPage |-> FALSE, before |-> {}, clean |-> redisUp]

Idle == [Begin("login", "idle", None, None) EXCEPT !.clean = TRUE]

Issued(t) == signed[t] # None

TokensOf(u) == {t \in Tokens : Issued(t) /\ signed[t].user = u}

Init ==
  /\ redisUp = TRUE
  /\ keyPrefix \in BOOLEAN
  /\ live = {}
  /\ index = {}
  /\ doc = [t \in Tokens |-> "none"]
  /\ signed = [t \in Tokens |-> None]
  /\ held = {}
  /\ account = [u \in Users |-> "active"]
  /\ req = [r \in Requests |-> Idle]
  /\ starts = 0
  /\ faults = 0

At(r, pc) == req[r].pc = pc

\* A request comes in.
Free(r) == At(r, "idle") /\ starts < MaxStarts /\ starts' = starts + 1

Goto(r, pc) == req' = [req EXCEPT ![r] = IF pc = "idle" THEN Idle ELSE [@ EXCEPT !.pc = pc]]

\* What a Redis helper makes of its key while the connection is lost: nothing.
Drop(keys, t) == IF redisUp THEN keys \ {t} ELSE keys
Put(keys, t)  == IF redisUp THEN keys \cup {t} ELSE keys

Revoked(t) == IF doc[t] = "none" THEN "none" ELSE "revoked"

\* updateMany({..., revoked: false}, {revoked: true})
RevokeMany(S) == doc' = [t \in Tokens |-> IF t \in S THEN Revoked(t) ELSE doc[t]]

----------------------------------------------------------------------------
(* login and register: the user is read, then #issueTokens.                *)

StartLogin(r, u) ==
  /\ Free(r)
  /\ account[u] = "active"
  /\ req' = [req EXCEPT ![r] = Begin("login", "store", u, None)]
  /\ UNCHANGED <<redisUp, keyPrefix, live, index, doc, signed, held, account, faults>>

(* generateRefreshToken: sign, the key of the token, the key that lists it,*)
(* and the document, whose failure is swallowed.                           *)

StoreToken(r, t) ==
  /\ At(r, "store")
  /\ ~Issued(t)
  /\ LET q == req[r] IN
     /\ signed' = [signed EXCEPT ![t] =
          [user |-> q.user, parent |-> q.tok, clean |-> q.clean,
           family |-> IF q.tok = None THEN t ELSE signed[q.tok].family]]
     /\ live' = Put(live, t)
     /\ req' = [req EXCEPT ![r].next = t, ![r].pc = "storeIndex"]
  /\ UNCHANGED <<redisUp, keyPrefix, index, doc, held, account, starts, faults>>

StoreIndex(r) ==
  /\ At(r, "storeIndex")
  /\ index' = Put(index, req[r].next)
  /\ Goto(r, "persist")
  /\ UNCHANGED <<redisUp, keyPrefix, live, doc, signed, held, account, starts, faults>>

PersistDoc(r) ==
  /\ At(r, "persist")
  /\ \/ doc' = [doc EXCEPT ![req[r].next] = "active"]
     \/ doc' = doc
  /\ Goto(r, IF req[r].found THEN "revokeOld" ELSE "answer")
  /\ UNCHANGED <<redisUp, keyPrefix, live, index, signed, held, account, starts, faults>>

----------------------------------------------------------------------------
(* refreshAccessToken: rotateRefreshToken, then the user is read.          *)

(* Broken: the token presented is left in Redis.                           *)
StartRefreshKeeping(r, t) ==
  /\ Free(r)
  /\ t \in held
  /\ req' = [req EXCEPT ![r] = Begin("refresh",
               IF redisUp /\ t \in live THEN "findDoc" ELSE "reuse", signed[t].user, t)]
  /\ UNCHANGED <<redisUp, keyPrefix, live, index, doc, signed, held, account, faults>>

StartRefresh(r, t) ==
  /\ Free(r)
  /\ t \in held
  /\ req' = [req EXCEPT ![r] = Begin("refresh",
               IF redisUp /\ t \in live THEN "delete" ELSE "reuse", signed[t].user, t)]
  /\ UNCHANGED <<redisUp, keyPrefix, live, index, doc, signed, held, account, faults>>

\* No key: the family is revoked in the backup, and the request is refused.
RevokeFamily(r) ==
  /\ At(r, "reuse")
  /\ RevokeMany({t \in Tokens : Issued(t) /\ signed[t].family = signed[req[r].tok].family})
  /\ Goto(r, "idle")
  /\ UNCHANGED <<redisUp, keyPrefix, live, index, signed, held, account, starts, faults>>

DeleteToken(r) ==
  /\ At(r, "delete")
  /\ live' = Drop(live, req[r].tok)
  /\ Goto(r, IF req[r].op = "logout" /\ ~req[r].found THEN "findDoc" ELSE "deleteIndex")
  /\ UNCHANGED <<redisUp, keyPrefix, index, doc, signed, held, account, starts, faults>>

DeleteIndex(r) ==
  /\ At(r, "deleteIndex")
  /\ index' = Drop(index, req[r].tok)
  /\ Goto(r, "findDoc")
  /\ UNCHANGED <<redisUp, keyPrefix, live, doc, signed, held, account, starts, faults>>

FindDoc(r) ==
  /\ At(r, "findDoc")
  /\ LET hit == doc[req[r].tok] = "active"
         to  == IF req[r].op = "refresh" THEN "store" ELSE IF hit THEN "revokeDoc" ELSE "idle"
     IN  req' = [req EXCEPT ![r] = IF to = "idle" THEN Idle
                                   ELSE [@ EXCEPT !.found = hit, !.pc = to]]
  /\ UNCHANGED <<redisUp, keyPrefix, live, index, doc, signed, held, account, starts, faults>>

RevokeOld(r) ==
  /\ At(r, "revokeOld")
  /\ doc' = [doc EXCEPT ![req[r].tok] = Revoked(req[r].tok)]
  /\ Goto(r, "answer")
  /\ UNCHANGED <<redisUp, keyPrefix, live, index, signed, held, account, starts, faults>>

\* login has read its user at the start; refresh reads it only now.
Answer(r) ==
  /\ At(r, "answer")
  /\ held' = IF req[r].op = "refresh" /\ account[req[r].user] # "active"
             THEN held ELSE held \cup {req[r].next}
  /\ Goto(r, "idle")
  /\ UNCHANGED <<redisUp, keyPrefix, live, index, doc, signed, account, starts, faults>>

----------------------------------------------------------------------------
(* logout: revokeRefreshToken reads the key only to learn the jti.         *)

StartLogout(r, t) ==
  /\ Free(r)
  /\ t \in held
  /\ account[signed[t].user] = "active"
  /\ req' = [req EXCEPT ![r] =
       [Begin("logout", "delete", signed[t].user, t) EXCEPT !.found = redisUp /\ t \in live]]
  /\ UNCHANGED <<redisUp, keyPrefix, live, index, doc, signed, held, account, faults>>

RevokeDoc(r) ==
  /\ At(r, "revokeDoc")
  /\ doc' = [doc EXCEPT ![req[r].tok] = Revoked(req[r].tok)]
  /\ Goto(r, "idle")
  /\ UNCHANGED <<redisUp, keyPrefix, live, index, signed, held, account, starts, faults>>

----------------------------------------------------------------------------
(* logoutAll, changePassword, resetPassword and softDeleteUser end in      *)
(* revokeAllRefreshTokensForUser; softDeleteUser deletes the user first.   *)

RevokingAll(r, u) ==
  /\ Free(r)
  /\ account[u] # "deleted"
  /\ req' = [req EXCEPT ![r] = [Begin("revokeAll", "scan", u, None) EXCEPT
               !.before = TokensOf(u) \cap held \cap live \cap index,
               !.clean  = redisUp /\ \A q \in Requests : req[q].clean]]
  /\ UNCHANGED <<redisUp, keyPrefix, live, index, doc, signed, held, faults>>

StartRevokeAll(r, u) == RevokingAll(r, u) /\ UNCHANGED account

SoftDelete(r, u) == RevokingAll(r, u) /\ account' = [account EXCEPT ![u] = "deleted"]

(* Broken: the cursor is ignored and the first page taken for all.         *)
ScanFirstPage(r, page, last) ==
  /\ At(r, "scan")
  /\ redisUp
  /\ page \subseteq IF keyPrefix THEN {} ELSE TokensOf(req[r].user) \cap index
  /\ last
  /\ req' = [req EXCEPT ![r].todo = page, ![r].lastPage = last,
                        ![r].pc = IF page = {} THEN "revokeDocs" ELSE "getHash"]
  /\ UNCHANGED <<redisUp, keyPrefix, live, index, doc, signed, held, account, starts, faults>>

\* One call of SCAN returns some of the keys.  The cursor comes back as '0'
\* only after every key that was there all the time has been returned, so
\* none of those the request began with is left unless it is on this page.
ScanPage(r, page, last) ==
  LET keys == IF keyPrefix THEN {} ELSE TokensOf(req[r].user) \cap index IN
  /\ At(r, "scan")
  /\ redisUp
  /\ page \subseteq keys
  /\ last => keys \cap req[r].before \subseteq page
  /\ page # {} \/ last
  /\ req' = [req EXCEPT ![r].todo = page, ![r].lastPage = last,
                        ![r].pc = IF page = {} THEN "revokeDocs" ELSE "getHash"]
  /\ UNCHANGED <<redisUp, keyPrefix, live, index, doc, signed, held, account, starts, faults>>

GetHash(r, t) ==
  /\ At(r, "getHash")
  /\ redisUp
  /\ t \in req[r].todo
  /\ req' = [req EXCEPT ![r].tok = t,
                        ![r].pc = IF t \in index THEN "dropToken" ELSE "dropIndex"]
  /\ UNCHANGED <<redisUp, keyPrefix, live, index, doc, signed, held, account, starts, faults>>

DropToken(r) ==
  /\ At(r, "dropToken")
  /\ live' = Drop(live, req[r].tok)
  /\ Goto(r, "dropIndex")
  /\ UNCHANGED <<redisUp, keyPrefix, index, doc, signed, held, account, starts, faults>>

DropIndex(r) ==
  /\ At(r, "dropIndex")
  /\ index' = Drop(index, req[r].tok)
  /\ LET rest == req[r].todo \ {req[r].tok} IN
     req' = [req EXCEPT ![r].todo = rest,
                        ![r].pc = IF rest # {} THEN "getHash"
                                  ELSE IF req[r].lastPage THEN "revokeDocs" ELSE "scan"]
  /\ UNCHANGED <<redisUp, keyPrefix, live, doc, signed, held, account, starts, faults>>

RevokeDocs(r) ==
  /\ At(r, "revokeDocs")
  /\ RevokeMany(TokensOf(req[r].user))
  /\ Goto(r, "done")
  /\ UNCHANGED <<redisUp, keyPrefix, live, index, signed, held, account, starts, faults>>

Finish(r) ==
  /\ At(r, "done")
  /\ Goto(r, "idle")
  /\ UNCHANGED <<redisUp, keyPrefix, live, index, doc, signed, held, account, starts, faults>>

----------------------------------------------------------------------------
(* The surroundings.                                                       *)

Count == faults < MaxFaults /\ faults' = faults + 1

\* A call to MongoDB or a SCAN rejects, or the process ends.
Abort(r) ==
  /\ ~At(r, "idle")
  /\ Goto(r, "idle")
  /\ Count
  /\ UNCHANGED <<redisUp, keyPrefix, live, index, doc, signed, held, account, starts>>

LoseRedis ==
  /\ redisUp
  /\ redisUp' = FALSE
  /\ req' = [r \in Requests |-> [req[r] EXCEPT !.clean = At(r, "idle")]]
  /\ Count
  /\ UNCHANGED <<keyPrefix, live, index, doc, signed, held, account, starts>>

RedisBack ==
  /\ ~redisUp
  /\ redisUp' = TRUE
  /\ UNCHANGED <<keyPrefix, live, index, doc, signed, held, account, req, starts, faults>>

\* The JWT, both keys and the document have the same end of life.
Expire(t) ==
  /\ Issued(t)
  /\ t \in live \cup index \cup held
  /\ live' = live \ {t}
  /\ index' = index \ {t}
  /\ held' = held \ {t}
  /\ doc' = [doc EXCEPT ![t] = "none"]
  /\ Count
  /\ UNCHANGED <<redisUp, keyPrefix, signed, account, req, starts>>

\* cleanupExpiredTokens, every night: revoked documents are deleted.
CleanUp ==
  /\ \E t \in Tokens : doc[t] = "revoked"
  /\ doc' = [t \in Tokens |-> IF doc[t] = "revoked" THEN "none" ELSE doc[t]]
  /\ Count
  /\ UNCHANGED <<redisUp, keyPrefix, live, index, signed, held, account, req, starts>>

\* adminUpdateUser with isActive.
SetActive(u) ==
  /\ account[u] # "deleted"
  /\ account' = [account EXCEPT ![u] = IF @ = "active" THEN "inactive" ELSE "active"]
  /\ Count
  /\ UNCHANGED <<redisUp, keyPrefix, live, index, doc, signed, held, req, starts>>

Step(r) ==
  \/ \E u \in Users : StartLogin(r, u) \/ StartRevokeAll(r, u) \/ SoftDelete(r, u)
  \/ \E t \in Tokens : \/ StartRefresh(r, t) \/ StartLogout(r, t)
                       \/ StoreToken(r, t) \/ GetHash(r, t)
  \/ StoreIndex(r) \/ PersistDoc(r) \/ RevokeFamily(r)
  \/ DeleteToken(r) \/ DeleteIndex(r) \/ FindDoc(r) \/ RevokeOld(r) \/ Answer(r)
  \/ RevokeDoc(r)
  \/ \E page \in SUBSET Tokens, last \in BOOLEAN : ScanPage(r, page, last)
  \/ DropToken(r) \/ DropIndex(r) \/ RevokeDocs(r) \/ Finish(r)
  \/ Abort(r)

Next ==
  \/ \E r \in Requests : Step(r)
  \/ LoseRedis \/ RedisBack \/ CleanUp
  \/ \E t \in Tokens : Expire(t)
  \/ \E u \in Users : SetActive(u)

Spec == Init /\ [][Next]_vars

----------------------------------------------------------------------------
(* Properties.                                                             *)

\* A session has one token to go on with: when Redis answered throughout a
\* rotation, the token it replaced is not accepted beside its successor,
\* whatever other requests did to either meanwhile (rotateRefreshToken
\* deletes before it generates).
SuccessorReplaces ==
  \A t \in Tokens :
    (Issued(t) /\ signed[t].clean /\ signed[t].parent # None) => signed[t].parent \notin live

\* When revokeAllRefreshTokensForUser ends, every token of the user that had
\* been handed out before it began is revoked in the backup, with or without
\* REDIS_KEY_PREFIX and whatever Redis did, although rotations, logins and
\* logouts went on during the scan.  Its key is gone from Redis when keys
\* have no prefix and Redis answered throughout, also the requests that were
\* under way.  Under a prefix, and 'aa:' is the default, the scan finds nothing
\* and the keys stay: without the conjunct ~keyPrefix this is violated, by a
\* token handed out before a revocation that no other request disturbs.
RevokedAll ==
  \A r \in Requests : At(r, "done") =>
    /\ \A t \in req[r].before : doc[t] # "active"
    /\ (req[r].clean /\ ~keyPrefix) => req[r].before \cap live = {}

============================================================================
