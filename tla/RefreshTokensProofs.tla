------------------------- MODULE RefreshTokensProofs -------------------------
(***************************************************************************)
(* Proofs about RefreshTokens: rotation leaves one usable token, and       *)
(* revoking all tokens of a user revokes the documents of those it set out *)
(* to revoke and, where keys have no prefix, leaves none of them in Redis, *)
(* for any numbers of users, tokens and overlapping requests.              *)
(***************************************************************************)
EXTENDS RefreshTokens, TLAPS

Presenting == {"reuse", "delete", "deleteIndex", "findDoc", "revokeDoc", "revokeOld",
               "dropToken", "dropIndex"}
Generating == {"storeIndex", "persist", "revokeOld", "answer"}
OnPage     == {"getHash", "dropToken", "dropIndex"}
Revoking   == OnPage \cup {"scan", "revokeDocs", "done"}

\* Every key and every session belongs to a signed token, and so does the
\* token another was rotated from.
StoreOK ==
  /\ \A t \in live \cup index \cup held : Issued(t)
  /\ \A t \in Tokens : (Issued(t) /\ signed[t].parent # None) => Issued(signed[t].parent)

\* What a request is about, at each of its calls.
Shape(n) ==
  LET q == req[n] IN
  /\ q.pc # "idle" => q.user \in Users
  /\ q.pc \in Presenting => q.tok \in Tokens
  /\ q.tok # None => Issued(q.tok)
  /\ q.pc \in {"reuse", "delete", "deleteIndex", "findDoc"} => q.op \in {"refresh", "logout"}
  /\ q.pc \in {"store", "storeIndex", "persist"} =>
       \/ q.op = "login" /\ q.tok = None /\ q.found = FALSE
       \/ q.op = "refresh" /\ q.tok \in Tokens
  /\ q.pc \in Generating => q.next \in Tokens /\ Issued(q.next)
  /\ \A t \in q.before : Issued(t) /\ signed[t].user = q.user
  /\ \A t \in q.todo : Issued(t)
  /\ q.pc \in {"dropToken", "dropIndex"} => q.tok \in q.todo

\* A clean request has Redis.
CleanUps(n) == (req[n].pc # "idle" /\ req[n].clean) => redisUp

\* The token presented is deleted before another one is generated.
Deleted(n) ==
  LET q == req[n] IN
  q.clean => /\ q.pc = "deleteIndex" => q.tok \notin live
             /\ q.pc \in {"findDoc", "store"} /\ q.op = "refresh" => q.tok \notin live

\* The scan: what is still to be revoked is listed under the user, and on
\* the last page it is among the keys not yet dropped.
Scan(n) ==
  LET q == req[n] IN
  (q.clean /\ q.pc \in Revoking) =>
     /\ q.before \cap live \subseteq index
     /\ q.pc = "dropIndex" => q.tok \notin live \/ q.tok \notin index
     /\ (q.pc \in OnPage /\ q.lastPage /\ ~keyPrefix) => q.before \cap live \subseteq q.todo
     /\ (q.pc \in {"revokeDocs", "done"} /\ ~keyPrefix) => q.before \cap live = {}

DocsRevoked(n) ==
  req[n].pc = "done" => \A t \in req[n].before : doc[t] # "active"

\* A token being generated is not listed and not handed out yet.
Fresh(n) ==
  /\ req[n].pc = "storeIndex" => req[n].next \notin index
  /\ req[n].pc \in {"storeIndex", "persist"} => req[n].next \notin held

\* Two requests: they generate different tokens, neither generates one the
\* other revokes, and a clean revocation has only clean company.
Pair(m, n) ==
  /\ (m # n /\ req[m].pc \in Generating /\ req[n].pc \in Generating) =>
        req[m].next # req[n].next
  /\ req[m].pc \in {"storeIndex", "persist"} => req[m].next \notin req[n].before
  /\ req[m].pc = "storeIndex" => req[m].next \notin req[n].todo
  /\ (req[n].pc \in Revoking /\ req[n].clean) => req[m].clean

Single(n) == /\ Shape(n) /\ CleanUps(n) /\ Deleted(n)
             /\ Scan(n) /\ DocsRevoked(n) /\ Fresh(n)

IInv ==
  /\ TypeOK
  /\ StoreOK
  /\ SuccessorReplaces
  /\ \A n \in Requests : Single(n)
  /\ \A m, n \in Requests : Pair(m, n)

----------------------------------------------------------------------------
(* What a step of one request leaves of the others.                        *)

TypeRest ==
  /\ redisUp \in BOOLEAN /\ keyPrefix \in BOOLEAN
  /\ live \subseteq Tokens /\ index \subseteq Tokens /\ held \subseteq Tokens
  /\ doc \in [Tokens -> {"none", "active", "revoked"}]
  /\ signed \in [Tokens -> Claims \cup {None}]
  /\ account \in [Users -> {"active", "inactive", "deleted"}]
  /\ starts \in 0..MaxStarts
  /\ faults \in 0..MaxFaults

\* Only a token that was not signed before enters live.
Frame ==
  /\ redisUp' = redisUp /\ keyPrefix' = keyPrefix
  /\ \A t \in Tokens : Issued(t) => signed'[t] = signed[t]
  /\ \A t \in live' : t \in live \/ ~Issued(t)

\* What others may do to the keys, documents and sessions request n relies on.
IndexFrame(n) ==
  /\ (req[n].clean /\ req[n].pc \in Revoking) =>
       \A t \in index : t \in index' \/ t \notin live' \/ t \notin req[n].before
  /\ \A t \in index' : \/ t \in index
                       \/ /\ req[n].pc = "storeIndex" => req[n].next # t
                          /\ req[n].pc = "dropIndex" => req[n].tok # t

DocFrame(n) ==
  req[n].pc = "done" => \A t \in req[n].before : doc'[t] = "active" => doc[t] = "active"

HeldFrame(n) ==
  req[n].pc \in {"storeIndex", "persist"} => (req[n].next \in held' => req[n].next \in held)

LEMMA OthersKept ==
  ASSUME TypeOK, StoreOK, Frame, NEW n \in Requests, Single(n), req'[n] = req[n],
         IndexFrame(n), DocFrame(n), HeldFrame(n)
  PROVE  Single(n)'
<1> req[n] \in Request BY DEF TypeOK
<1> DEFINE q == req[n]
<1>0. q.tok \in Tokens \cup {None} /\ q.next \in Tokens \cup {None}
      /\ q.todo \subseteq Tokens /\ q.before \subseteq Tokens
  BY DEF Request
<1>1. \A t \in Tokens : Issued(t) => Issued(t)' /\ signed'[t] = signed[t]
  BY DEF Frame, Issued
<1>2. Shape(n)'
  BY <1>0, <1>1 DEF Single, Shape
<1>3. CleanUps(n)'
  BY DEF Single, CleanUps, Frame
<1>4. Deleted(n)'
  <2>1. q.tok \in Tokens => (q.tok \in live' => q.tok \in live)
    BY <1>0, NoneAssumption DEF Single, Shape, Frame
  <2>2. (q.pc \in {"deleteIndex", "findDoc"} \/ (q.pc = "store" /\ q.op = "refresh"))
           => q.tok \in Tokens
    BY DEF Single, Shape, Presenting
  <2> QED BY <2>1, <2>2 DEF Single, Deleted
<1>5. Scan(n)'
  <2>1. \A t \in q.before : t \in live' => t \in live
    BY <1>0 DEF Single, Shape, Frame
  <2>2. q.pc = "dropIndex" => (q.tok \in live' => q.tok \in live)
    BY <1>0 DEF Single, Shape, Frame
  <2>3. (q.clean /\ q.pc \in Revoking) => q.before \cap live' \subseteq index'
    BY <2>1 DEF Single, Scan, IndexFrame
  <2>4. (q.clean /\ q.pc = "dropIndex") => q.tok \notin live' \/ q.tok \notin index'
    BY <2>2 DEF Single, Scan, IndexFrame, Revoking, OnPage
  <2> QED BY <2>1, <2>3, <2>4 DEF Single, Scan, Frame
<1>6. DocsRevoked(n)'
  BY DEF Single, DocsRevoked, DocFrame
<1>7. Fresh(n)'
  BY DEF Single, Fresh, IndexFrame, HeldFrame
<1> QED BY <1>2, <1>3, <1>4, <1>5, <1>6, <1>7 DEF Single

\* A request that goes on: it generates what it generated, revokes no more
\* than it set out to, and is as clean as it was.
GoesOn(q, w) ==
  /\ w.pc \in Generating => q.pc \in Generating /\ w.next = q.next
  /\ w.pc \in {"storeIndex", "persist"} => q.pc \in {"storeIndex", "persist"}
  /\ w.pc = "storeIndex" => q.pc = "storeIndex"
  /\ w.before \subseteq q.before
  /\ w.todo \subseteq q.todo
  /\ (w.pc \in Revoking /\ w.clean) => q.pc \in Revoking /\ q.clean
  /\ (q.clean /\ redisUp) => w.clean

LEMMA PairsKept ==
  ASSUME NEW r \in Requests, \A n \in Requests : n # r => req'[n] = req[n],
         \A n \in Requests : CleanUps(n), \A m, n \in Requests : Pair(m, n),
         GoesOn(req[r], req'[r])
  PROVE  \A m, n \in Requests : Pair(m, n)'
<1> TAKE m, n \in Requests
<1> DEFINE Gen  == {"storeIndex", "persist"}
<1>0. Pair(m, n) /\ Pair(r, n) /\ Pair(m, r) /\ Pair(r, r) /\ CleanUps(n)
  OBVIOUS
<1>1. CASE m # r /\ n # r
  BY <1>0, <1>1 DEF Pair
<1>2. CASE m = r /\ n # r
  <2>1. req'[n] = req[n] /\ m = r
    BY <1>2
  <2>2. (req[n].pc \in Revoking /\ req[n].clean) => req'[r].clean
    BY <1>0 DEF Pair, GoesOn, CleanUps, Revoking, OnPage
  <2> QED BY <1>0, <2>1, <2>2 DEF Pair, GoesOn, Generating
<1>3. CASE m # r /\ n = r
  BY <1>0, <1>3 DEF Pair, GoesOn, Generating
<1>4. CASE m = r /\ n = r
  <2>1. (req'[r].pc \in Revoking /\ req'[r].clean) => req'[r].clean
    OBVIOUS
  <2> QED BY <1>0, <1>4, <2>1 DEF Pair, GoesOn, Generating
<1> QED BY <1>1, <1>2, <1>3, <1>4

LEMMA OneStep ==
  ASSUME TypeOK, NEW r \in Requests, NEW w \in Request, req' = [req EXCEPT ![r] = w]
  PROVE  /\ req' \in [Requests -> Request]
         /\ req'[r] = w
         /\ \A n \in Requests : n # r => req'[n] = req[n]
BY DEF TypeOK

\* One request goes on with w: the invariant again, from what its step did.
LEMMA Stepped ==
  ASSUME IInv, NEW r \in Requests, NEW w \in Request, req' = [req EXCEPT ![r] = w],
         TypeRest', Frame, StoreOK', SuccessorReplaces',
         \A n \in Requests : n # r => IndexFrame(n) /\ DocFrame(n) /\ HeldFrame(n),
         req'[r] = w => Single(r)',
         \A m, n \in Requests : Pair(m, n)'
  PROVE  IInv'
<1>1. /\ req' \in [Requests -> Request]
      /\ req'[r] = w
      /\ \A n \in Requests : n # r => req'[n] = req[n]
  BY OneStep DEF IInv
<1>2. TypeOK'
  BY <1>1 DEF TypeRest, TypeOK
<1>3. ASSUME NEW n \in Requests PROVE Single(n)'
  <2>1. CASE n = r
    BY <1>1, <2>1
  <2>2. CASE n # r
    BY <1>1, <2>2, OthersKept DEF IInv
  <2> QED BY <2>1, <2>2
<1> QED BY <1>2, <1>3 DEF IInv

LEMMA IdleIsRequest ==
  /\ Idle \in Request
  /\ Idle.pc = "idle" /\ Idle.tok = None /\ Idle.clean = TRUE
  /\ Idle.before = {} /\ Idle.todo = {}
<1> DEFINE b == Begin("login", "idle", None, None)
           B == [op: Ops, pc: PCs, user: Users \cup {None}, tok: Tokens \cup {None},
                 next: Tokens \cup {None}, found: BOOLEAN, todo: SUBSET Tokens,
                 lastPage: BOOLEAN, before: SUBSET Tokens, clean: {redisUp}]
<1>1. b \in B /\ b.pc = "idle" /\ b.tok = None /\ b.before = {} /\ b.todo = {}
  BY DEF Begin, Ops, PCs
<1> HIDE DEF b
<1>2. Idle = [b EXCEPT !.clean = TRUE]
  BY DEF Idle, b
<1>3. Idle \in Request
  BY <1>1, <1>2 DEF Request
<1> QED BY <1>1, <1>2, <1>3

LEMMA MovedIsRequest ==
  ASSUME NEW q \in Request, NEW pc \in PCs
  PROVE  LET w == [q EXCEPT !.pc = pc] IN
         /\ w \in Request
         /\ w.pc = pc /\ w.op = q.op /\ w.user = q.user /\ w.tok = q.tok
         /\ w.next = q.next /\ w.found = q.found /\ w.todo = q.todo
         /\ w.lastPage = q.lastPage /\ w.before = q.before /\ w.clean = q.clean
BY DEF Request

LEMMA GoingTo ==
  ASSUME NEW r \in Requests, NEW pc \in PCs, Goto(r, pc)
  PROVE  /\ pc = "idle" => req' = [req EXCEPT ![r] = Idle]
         /\ pc # "idle" => req' = [req EXCEPT ![r] = [req[r] EXCEPT !.pc = pc]]
BY DEF Goto

\* Nothing is signed, and no key appears but those of signed tokens.
LEMMA KeysKept ==
  ASSUME TypeOK, StoreOK, SuccessorReplaces, signed' = signed, live' \subseteq live,
         \A t \in index' \cup held' : t \in index \cup held \/ Issued(t)
  PROVE  StoreOK' /\ SuccessorReplaces'
<1>1. \A t : Issued(t)' <=> Issued(t)
  BY DEF Issued
<1>2. StoreOK'
  BY <1>1 DEF StoreOK
<1>3. SuccessorReplaces'
  BY <1>1 DEF SuccessorReplaces
<1> QED BY <1>2, <1>3

\* The request ends: it holds nothing any more.
LEMMA Ended ==
  ASSUME IInv, NEW r \in Requests, req' = [req EXCEPT ![r] = Idle],
         TypeRest', Frame, StoreOK', SuccessorReplaces',
         \A n \in Requests : n # r => IndexFrame(n) /\ DocFrame(n) /\ HeldFrame(n)
  PROVE  IInv'
<1>1. Idle \in Request
  BY IdleIsRequest
<1>2. /\ req'[r] = Idle
      /\ \A n \in Requests : n # r => req'[n] = req[n]
  BY <1>1, OneStep DEF IInv
<1>3. req'[r] = Idle => Single(r)'
  BY IdleIsRequest DEF Single, Shape, CleanUps, Deleted, Scan, DocsRevoked, Fresh,
     Presenting, Generating, Revoking, OnPage
<1>4. GoesOn(req[r], req'[r])
  BY <1>2, IdleIsRequest DEF GoesOn, Generating, Revoking, OnPage
<1>5. \A m, n \in Requests : Pair(m, n)'
  BY <1>2, <1>4, PairsKept DEF IInv, Single
<1> QED BY <1>1, <1>3, <1>5, Stepped

\* The request goes on to its next call, with what it held.
LEMMA Moved ==
  ASSUME IInv, NEW r \in Requests, NEW w \in Request, req' = [req EXCEPT ![r] = w],
         GoesOn(req[r], w),
         TypeRest', Frame, StoreOK', SuccessorReplaces',
         \A n \in Requests : n # r => IndexFrame(n) /\ DocFrame(n) /\ HeldFrame(n),
         req'[r] = w => Single(r)'
  PROVE  IInv'
<1>1. /\ req'[r] = w
      /\ \A n \in Requests : n # r => req'[n] = req[n]
  BY OneStep DEF IInv
<1>2. \A m, n \in Requests : Pair(m, n)'
  BY <1>1, PairsKept DEF IInv, Single
<1> QED BY <1>2, Stepped

----------------------------------------------------------------------------
(* The calls of a request.                                                 *)

LEMMA RevokedDoc ==
  ASSUME TypeOK
  PROVE  \A t \in Tokens : Revoked(t) \in {"none", "revoked"}
BY DEF TypeOK, Revoked

\* Frames of a step that leaves keys and sessions alone and makes no document active.
LEMMA DocsOnly ==
  ASSUME TypeOK, StoreOK, SuccessorReplaces,
         UNCHANGED <<redisUp, keyPrefix, live, index, signed, held>>,
         \A t \in Tokens : doc'[t] = "active" => doc[t] = "active"
  PROVE  /\ Frame /\ StoreOK' /\ SuccessorReplaces'
         /\ \A n \in Requests : IndexFrame(n) /\ DocFrame(n) /\ HeldFrame(n)
<1>1. Frame
  BY DEF Frame
<1>2. StoreOK' /\ SuccessorReplaces'
  BY <1>1, KeysKept
<1>3. ASSUME NEW n \in Requests PROVE IndexFrame(n) /\ DocFrame(n) /\ HeldFrame(n)
  <2>1. req[n].before \subseteq Tokens
    BY DEF TypeOK, Request
  <2> QED BY <2>1 DEF IndexFrame, DocFrame, HeldFrame
<1> QED BY <1>1, <1>2, <1>3

LEMMA RevokeManyKeeps ==
  ASSUME TypeOK, NEW S, RevokeMany(S)
  PROVE  /\ doc' \in [Tokens -> {"none", "active", "revoked"}]
         /\ \A t \in Tokens : doc'[t] = "active" => doc[t] = "active"
         /\ \A t \in Tokens : t \in S => doc'[t] # "active"
BY RevokedDoc DEF TypeOK, RevokeMany

LEMMA RevokeOneKeeps ==
  ASSUME TypeOK, NEW d \in Tokens, doc' = [doc EXCEPT ![d] = Revoked(d)]
  PROVE  /\ doc' \in [Tokens -> {"none", "active", "revoked"}]
         /\ \A t \in Tokens : doc'[t] = "active" => doc[t] = "active"
BY RevokedDoc DEF TypeOK

LEMMA RevokeFamilyStep ==
  ASSUME IInv, NEW r \in Requests, RevokeFamily(r)
  PROVE  IInv'
<1>1. /\ doc' \in [Tokens -> {"none", "active", "revoked"}]
      /\ \A t \in Tokens : doc'[t] = "active" => doc[t] = "active"
  BY RevokeManyKeeps DEF IInv, RevokeFamily
<1>2. TypeRest'
  BY <1>1 DEF IInv, RevokeFamily, TypeOK, TypeRest
<1>3. /\ Frame /\ StoreOK' /\ SuccessorReplaces'
      /\ \A n \in Requests : IndexFrame(n) /\ DocFrame(n) /\ HeldFrame(n)
  BY <1>1, DocsOnly DEF IInv, RevokeFamily
<1>4. req' = [req EXCEPT ![r] = Idle]
  BY DEF RevokeFamily, Goto
<1> QED BY <1>2, <1>3, <1>4, Ended

LEMMA RevokeDocStep ==
  ASSUME IInv, NEW r \in Requests, RevokeDoc(r)
  PROVE  IInv'
<1>0. req[r].tok \in Tokens
  BY DEF IInv, Single, Shape, Presenting, RevokeDoc, At
<1>1. /\ doc' \in [Tokens -> {"none", "active", "revoked"}]
      /\ \A t \in Tokens : doc'[t] = "active" => doc[t] = "active"
  BY <1>0, RevokeOneKeeps DEF IInv, RevokeDoc
<1>2. TypeRest'
  BY <1>1 DEF IInv, RevokeDoc, TypeOK, TypeRest
<1>3. /\ Frame /\ StoreOK' /\ SuccessorReplaces'
      /\ \A n \in Requests : IndexFrame(n) /\ DocFrame(n) /\ HeldFrame(n)
  BY <1>1, DocsOnly DEF IInv, RevokeDoc
<1>4. req' = [req EXCEPT ![r] = Idle]
  BY DEF RevokeDoc, Goto
<1> QED BY <1>2, <1>3, <1>4, Ended

LEMMA FinishStep ==
  ASSUME IInv, NEW r \in Requests, Finish(r) \/ Abort(r)
  PROVE  IInv'
<1>0. UNCHANGED <<redisUp, keyPrefix, live, index, doc, signed, held, account, starts>>
  BY DEF Finish, Abort
<1>1. faults' \in 0..MaxFaults
  BY BoundsAssumption DEF IInv, TypeOK, Finish, Abort, Count
<1>2. TypeRest'
  BY <1>0, <1>1 DEF IInv, TypeOK, TypeRest
<1>3. /\ Frame /\ StoreOK' /\ SuccessorReplaces'
      /\ \A n \in Requests : IndexFrame(n) /\ DocFrame(n) /\ HeldFrame(n)
  BY <1>0, DocsOnly DEF IInv
<1>4. req' = [req EXCEPT ![r] = Idle]
  BY DEF Finish, Abort, Goto
<1> QED BY <1>2, <1>3, <1>4, Ended

LEMMA AnswerStep ==
  ASSUME IInv, NEW r \in Requests, Answer(r)
  PROVE  IInv'
<1> DEFINE q == req[r]
<1>0. q.next \in Tokens /\ Issued(q.next)
  BY DEF IInv, Single, Shape, Generating, Answer, At
<1>1. held' \subseteq held \cup {q.next}
  BY DEF Answer
<1>2. TypeRest'
  BY <1>0, <1>1 DEF IInv, Answer, TypeOK, TypeRest
<1>3. StoreOK' /\ SuccessorReplaces'
  BY <1>0, <1>1, KeysKept DEF IInv, Answer
<1>4. Frame
  BY DEF Answer, Frame
<1>5. ASSUME NEW n \in Requests, n # r
      PROVE  IndexFrame(n) /\ DocFrame(n) /\ HeldFrame(n)
  <2>1. IndexFrame(n) /\ DocFrame(n)
    BY DEF Answer, IndexFrame, DocFrame
  <2>2. Pair(n, r) /\ q.pc = "answer"
    BY DEF IInv, Answer, At
  <2>3. HeldFrame(n)
    BY <1>1, <1>5, <2>2 DEF Pair, HeldFrame, Generating
  <2> QED BY <2>1, <2>3
<1>6. req' = [req EXCEPT ![r] = Idle]
  BY DEF Answer, Goto
<1> QED BY <1>2, <1>3, <1>4, <1>5, <1>6, Ended

LEMMA RevokeOldStep ==
  ASSUME IInv, NEW r \in Requests, RevokeOld(r)
  PROVE  IInv'
<1> DEFINE q == req[r]
           w == [q EXCEPT !.pc = "answer"]
<1>0. q \in Request /\ q.pc = "revokeOld" /\ q.tok \in Tokens /\ Single(r)
  BY DEF IInv, TypeOK, Single, Shape, Presenting, RevokeOld, At
<1>1. /\ doc' \in [Tokens -> {"none", "active", "revoked"}]
      /\ \A t \in Tokens : doc'[t] = "active" => doc[t] = "active"
  BY <1>0, RevokeOneKeeps DEF IInv, RevokeOld
<1>2. TypeRest'
  BY <1>1 DEF IInv, RevokeOld, TypeOK, TypeRest
<1>3. /\ Frame /\ StoreOK' /\ SuccessorReplaces'
      /\ \A n \in Requests : IndexFrame(n) /\ DocFrame(n) /\ HeldFrame(n)
  BY <1>1, DocsOnly DEF IInv, RevokeOld
<1>4. req' = [req EXCEPT ![r] = w]
  BY DEF RevokeOld, Goto
<1>5. "answer" \in PCs
  BY DEF PCs
<1>6. /\ w \in Request /\ w.pc = "answer" /\ w.op = q.op /\ w.user = q.user /\ w.tok = q.tok
      /\ w.next = q.next /\ w.found = q.found /\ w.todo = q.todo
      /\ w.lastPage = q.lastPage /\ w.before = q.before /\ w.clean = q.clean
  BY <1>0, <1>5, MovedIsRequest
<1> HIDE DEF q, w
<1>7. GoesOn(q, w)
  BY <1>0, <1>6 DEF GoesOn, Generating, Revoking, OnPage
<1>8. req'[r] = w => Single(r)'
  BY <1>0, <1>6 DEF q, Single, Shape, CleanUps, Deleted, Scan, DocsRevoked, Fresh,
     Presenting, Generating, Revoking, OnPage, RevokeOld, Issued
<1> QED BY <1>2, <1>3, <1>4, <1>6, <1>7, <1>8, Moved DEF q

LEMMA FindDocStep ==
  ASSUME IInv, NEW r \in Requests, FindDoc(r)
  PROVE  IInv'
<1> DEFINE q   == req[r]
           hit == doc[q.tok] = "active"
           to  == IF q.op = "refresh" THEN "store" ELSE IF hit THEN "revokeDoc" ELSE "idle"
           w   == [q EXCEPT !.found = hit, !.pc = to]
<1>0. q \in Request /\ q.pc = "findDoc" /\ q.tok \in Tokens /\ Single(r)
  BY DEF IInv, TypeOK, Single, Shape, Presenting, FindDoc, At
<1>1. UNCHANGED <<redisUp, keyPrefix, live, index, doc, signed, held, account, starts, faults>>
  BY DEF FindDoc
<1>2. TypeRest'
  BY <1>1 DEF IInv, TypeOK, TypeRest
<1>3. /\ Frame /\ StoreOK' /\ SuccessorReplaces'
      /\ \A n \in Requests : IndexFrame(n) /\ DocFrame(n) /\ HeldFrame(n)
  BY <1>1, DocsOnly DEF IInv
<1>4. CASE to = "idle"
  <2>1. req' = [req EXCEPT ![r] = Idle]
    BY <1>4 DEF FindDoc
  <2> QED BY <1>2, <1>3, <2>1, Ended
<1>5. CASE to # "idle"
  <2>1. req' = [req EXCEPT ![r] = w]
    BY <1>5 DEF FindDoc
  <2>2. to \in {"store", "revokeDoc"} /\ hit \in BOOLEAN
    BY <1>5
  <2>3. to = "store" <=> q.op = "refresh"
    BY <1>5
  <2>4. "store" \in PCs /\ "revokeDoc" \in PCs
    BY DEF PCs
  <2> HIDE DEF to, hit
  <2>5. w \in Request
    BY <1>0, <2>2, <2>4 DEF Request
  <2>6. /\ w.pc = to /\ w.op = q.op /\ w.user = q.user /\ w.tok = q.tok
        /\ w.next = q.next /\ w.todo = q.todo
        /\ w.before = q.before /\ w.clean = q.clean
    BY <1>0 DEF Request
  <2> HIDE DEF q, w
  <2>7. GoesOn(q, w)
    BY <2>2, <2>6 DEF GoesOn, Generating, Revoking, OnPage
  <2>8. req'[r] = w => Single(r)'
    <3> SUFFICES ASSUME req'[r] = w PROVE Single(r)'
      OBVIOUS
    <3>1. Shape(r)'
      BY <1>0, <1>1, <2>2, <2>3, <2>6 DEF q, Single, Shape, Presenting, Generating, Issued
    <3>2. CleanUps(r)' /\ DocsRevoked(r)' /\ Fresh(r)' /\ Scan(r)'
      BY <1>0, <1>1, <2>2, <2>6 DEF q, Single, CleanUps, DocsRevoked, Fresh, Scan, Revoking, OnPage
    <3>3. Deleted(r)'
      BY <1>0, <1>1, <2>2, <2>3, <2>6 DEF q, Single, Deleted
    <3> QED BY <3>1, <3>2, <3>3 DEF Single
  <2> QED BY <1>2, <1>3, <2>1, <2>5, <2>7, <2>8, Moved DEF q
<1> QED BY <1>4, <1>5

LEMMA DeleteTokenStep ==
  ASSUME IInv, NEW r \in Requests, DeleteToken(r)
  PROVE  IInv'
<1> DEFINE q  == req[r]
           to == IF q.op = "logout" /\ ~q.found THEN "findDoc" ELSE "deleteIndex"
           w  == [q EXCEPT !.pc = to]
<1>0. q \in Request /\ q.pc = "delete" /\ q.tok \in Tokens /\ Single(r)
  BY DEF IInv, TypeOK, Single, Shape, Presenting, DeleteToken, At
<1>1. UNCHANGED <<redisUp, keyPrefix, index, doc, signed, held, account, starts, faults>>
  BY DEF DeleteToken
<1>2. live' \subseteq live /\ (redisUp => q.tok \notin live')
  BY DEF DeleteToken, Drop
<1>3. TypeRest'
  BY <1>1, <1>2 DEF IInv, TypeOK, TypeRest
<1>4. StoreOK' /\ SuccessorReplaces'
  BY <1>1, <1>2, KeysKept DEF IInv
<1>5. Frame /\ \A n \in Requests : IndexFrame(n) /\ DocFrame(n) /\ HeldFrame(n)
  BY <1>1, <1>2 DEF Frame, IndexFrame, DocFrame, HeldFrame
<1>6. to \in {"findDoc", "deleteIndex"} /\ "findDoc" \in PCs /\ "deleteIndex" \in PCs
  BY DEF PCs
<1>7. req' = [req EXCEPT ![r] = w]
  BY DEF DeleteToken, Goto
<1> HIDE DEF to
<1>8. /\ w \in Request /\ w.pc = to /\ w.op = q.op /\ w.user = q.user /\ w.tok = q.tok
      /\ w.next = q.next /\ w.found = q.found /\ w.todo = q.todo
      /\ w.lastPage = q.lastPage /\ w.before = q.before /\ w.clean = q.clean
  BY <1>0, <1>6, MovedIsRequest
<1> HIDE DEF q, w
<1>9. GoesOn(q, w)
  BY <1>6, <1>8 DEF GoesOn, Generating, Revoking, OnPage
<1>10. req'[r] = w => Single(r)'
  <2> SUFFICES ASSUME req'[r] = w PROVE Single(r)'
    OBVIOUS
  <2>1. Shape(r)'
    BY <1>0, <1>1, <1>6, <1>8 DEF q, Single, Shape, Presenting, Generating, Issued
  <2>2. CleanUps(r)' /\ DocsRevoked(r)' /\ Fresh(r)' /\ Scan(r)'
    BY <1>0, <1>1, <1>6, <1>8 DEF q, Single, CleanUps, DocsRevoked, Fresh, Scan, Revoking, OnPage
  <2>3. Deleted(r)'
    BY <1>0, <1>2, <1>6, <1>8 DEF q, Single, Deleted, CleanUps
  <2> QED BY <2>1, <2>2, <2>3 DEF Single
<1> QED BY <1>3, <1>4, <1>5, <1>7, <1>8, <1>9, <1>10, Moved DEF q

LEMMA DeleteIndexStep ==
  ASSUME IInv, NEW r \in Requests, DeleteIndex(r)
  PROVE  IInv'
<1> DEFINE q  == req[r]
           w  == [q EXCEPT !.pc = "findDoc"]
<1>0. q \in Request /\ q.pc = "deleteIndex" /\ q.tok \in Tokens /\ Single(r)
  BY DEF IInv, TypeOK, Single, Shape, Presenting, DeleteIndex, At
<1>1. UNCHANGED <<redisUp, keyPrefix, live, doc, signed, held, account, starts, faults>>
  BY DEF DeleteIndex
<1>2. index' \subseteq index /\ index \subseteq index' \cup {q.tok}
  BY DEF DeleteIndex, Drop
<1>3. TypeRest'
  BY <1>1, <1>2 DEF IInv, TypeOK, TypeRest
<1>4. StoreOK' /\ SuccessorReplaces'
  BY <1>1, <1>2, KeysKept DEF IInv
<1>5. Frame
  BY <1>1 DEF Frame
<1>6. ASSUME NEW n \in Requests PROVE IndexFrame(n) /\ DocFrame(n) /\ HeldFrame(n)
  <2>1. Pair(r, n)
    BY DEF IInv
  <2>2. q.clean => q.tok \notin live
    BY <1>0 DEF Single, Deleted
  <2>3. IndexFrame(n)
    BY <1>1, <1>2, <2>1, <2>2 DEF IndexFrame, Pair
  <2> QED BY <1>1, <2>3 DEF DocFrame, HeldFrame
<1>7. req' = [req EXCEPT ![r] = w]
  BY DEF DeleteIndex, Goto
<1>8. /\ w \in Request /\ w.pc = "findDoc" /\ w.op = q.op /\ w.user = q.user /\ w.tok = q.tok
      /\ w.next = q.next /\ w.found = q.found /\ w.todo = q.todo
      /\ w.lastPage = q.lastPage /\ w.before = q.before /\ w.clean = q.clean
  <2>1. "findDoc" \in PCs
    BY DEF PCs
  <2> QED BY <1>0, <2>1, MovedIsRequest
<1> HIDE DEF q, w
<1>9. GoesOn(q, w)
  BY <1>8 DEF GoesOn, Generating, Revoking, OnPage
<1>10. req'[r] = w => Single(r)'
  <2> SUFFICES ASSUME req'[r] = w PROVE Single(r)'
    OBVIOUS
  <2>1. Shape(r)'
    BY <1>0, <1>1, <1>8 DEF q, Single, Shape, Presenting, Generating, Issued
  <2>2. CleanUps(r)' /\ DocsRevoked(r)' /\ Fresh(r)' /\ Scan(r)'
    BY <1>0, <1>1, <1>8 DEF q, Single, CleanUps, DocsRevoked, Fresh, Scan, Revoking, OnPage
  <2>3. Deleted(r)'
    BY <1>0, <1>1, <1>8 DEF q, Single, Deleted
  <2> QED BY <2>1, <2>2, <2>3 DEF Single
<1> QED BY <1>3, <1>4, <1>5, <1>6, <1>7, <1>8, <1>9, <1>10, Moved DEF q

LEMMA StoreIndexStep ==
  ASSUME IInv, NEW r \in Requests, StoreIndex(r)
  PROVE  IInv'
<1> DEFINE q  == req[r]
           w  == [q EXCEPT !.pc = "persist"]
<1>0. q \in Request /\ q.pc = "storeIndex" /\ q.next \in Tokens /\ Issued(q.next) /\ Single(r)
  BY DEF IInv, TypeOK, Single, Shape, Generating, StoreIndex, At
<1>1. UNCHANGED <<redisUp, keyPrefix, live, doc, signed, held, account, starts, faults>>
  BY DEF StoreIndex
<1>2. index \subseteq index' /\ index' \subseteq index \cup {q.next}
  BY DEF StoreIndex, Put
<1>3. TypeRest'
  BY <1>0, <1>1, <1>2 DEF IInv, TypeOK, TypeRest
<1>4. StoreOK' /\ SuccessorReplaces'
  BY <1>0, <1>1, <1>2, KeysKept DEF IInv
<1>5. Frame
  BY <1>1 DEF Frame
<1>6. ASSUME NEW n \in Requests, n # r PROVE IndexFrame(n) /\ DocFrame(n) /\ HeldFrame(n)
  <2>1. Pair(r, n) /\ Shape(n)
    BY DEF IInv, Single
  <2>2. IndexFrame(n)
    BY <1>0, <1>2, <1>6, <2>1 DEF IndexFrame, Pair, Shape, Generating
  <2> QED BY <1>1, <2>2 DEF DocFrame, HeldFrame
<1>7. req' = [req EXCEPT ![r] = w]
  BY DEF StoreIndex, Goto
<1>8. /\ w \in Request /\ w.pc = "persist" /\ w.op = q.op /\ w.user = q.user /\ w.tok = q.tok
      /\ w.next = q.next /\ w.found = q.found /\ w.todo = q.todo
      /\ w.lastPage = q.lastPage /\ w.before = q.before /\ w.clean = q.clean
  <2>1. "persist" \in PCs
    BY DEF PCs
  <2> QED BY <1>0, <2>1, MovedIsRequest
<1> HIDE DEF q, w
<1>9. GoesOn(q, w)
  BY <1>0, <1>8 DEF GoesOn, Generating, Revoking, OnPage
<1>10. req'[r] = w => Single(r)'
  <2> SUFFICES ASSUME req'[r] = w PROVE Single(r)'
    OBVIOUS
  <2>1. Shape(r)'
    BY <1>0, <1>1, <1>8 DEF q, Single, Shape, Presenting, Generating, Issued
  <2>2. CleanUps(r)' /\ DocsRevoked(r)' /\ Fresh(r)' /\ Scan(r)' /\ Deleted(r)'
    BY <1>0, <1>1, <1>8 DEF q, Single, CleanUps, DocsRevoked, Fresh, Scan, Deleted, Revoking, OnPage
  <2> QED BY <2>1, <2>2 DEF Single
<1> QED BY <1>3, <1>4, <1>5, <1>6, <1>7, <1>8, <1>9, <1>10, Moved DEF q

LEMMA PersistDocStep ==
  ASSUME IInv, NEW r \in Requests, PersistDoc(r)
  PROVE  IInv'
<1> DEFINE q  == req[r]
           to == IF q.found THEN "revokeOld" ELSE "answer"
           w  == [q EXCEPT !.pc = to]
<1>0. q \in Request /\ q.pc = "persist" /\ q.next \in Tokens /\ Single(r)
  BY DEF IInv, TypeOK, Single, Shape, Generating, PersistDoc, At
<1>1. UNCHANGED <<redisUp, keyPrefix, live, index, signed, held, account, starts, faults>>
  BY DEF PersistDoc
<1>2. /\ doc' \in [Tokens -> {"none", "active", "revoked"}]
      /\ \A t \in Tokens : t # q.next => doc'[t] = doc[t]
  BY <1>0 DEF IInv, TypeOK, PersistDoc
<1>3. TypeRest'
  BY <1>1, <1>2 DEF IInv, TypeOK, TypeRest
<1>4. StoreOK' /\ SuccessorReplaces'
  BY <1>1, KeysKept DEF IInv
<1>5. Frame
  BY <1>1 DEF Frame
<1>6. ASSUME NEW n \in Requests PROVE IndexFrame(n) /\ DocFrame(n) /\ HeldFrame(n)
  <2>1. q.next \notin req[n].before
    BY <1>0 DEF IInv, Pair
  <2>2. req[n].before \subseteq Tokens
    BY DEF IInv, TypeOK, Request
  <2> QED BY <1>1, <1>2, <2>1, <2>2 DEF IndexFrame, DocFrame, HeldFrame
<1>7. to \in {"revokeOld", "answer"} /\ "revokeOld" \in PCs /\ "answer" \in PCs
      /\ (to = "revokeOld" => q.found)
  BY DEF PCs
<1>8. req' = [req EXCEPT ![r] = w]
  BY DEF PersistDoc, Goto
<1> HIDE DEF to
<1>9. /\ w \in Request /\ w.pc = to /\ w.op = q.op /\ w.user = q.user /\ w.tok = q.tok
      /\ w.next = q.next /\ w.found = q.found /\ w.todo = q.todo
      /\ w.lastPage = q.lastPage /\ w.before = q.before /\ w.clean = q.clean
  BY <1>0, <1>7, MovedIsRequest
<1> HIDE DEF q, w
<1>10. GoesOn(q, w)
  BY <1>0, <1>7, <1>9 DEF GoesOn, Generating, Revoking, OnPage
<1>11. req'[r] = w => Single(r)'
  <2> SUFFICES ASSUME req'[r] = w PROVE Single(r)'
    OBVIOUS
  <2>0. q.found => q.tok \in Tokens
    BY <1>0 DEF q, Single, Shape
  <2>1. Shape(r)'
    BY <1>0, <1>1, <1>7, <1>9, <2>0 DEF q, Single, Shape, Presenting, Generating, Issued
  <2>2. CleanUps(r)' /\ DocsRevoked(r)' /\ Fresh(r)' /\ Scan(r)' /\ Deleted(r)'
    BY <1>0, <1>1, <1>7, <1>9 DEF q, Single, CleanUps, DocsRevoked, Fresh, Scan, Deleted, Revoking, OnPage
  <2> QED BY <2>1, <2>2 DEF Single
<1> QED BY <1>3, <1>4, <1>5, <1>6, <1>8, <1>9, <1>10, <1>11, Moved DEF q

LEMMA StoreTokenStep ==
  ASSUME IInv, NEW r \in Requests, NEW t \in Tokens, StoreToken(r, t)
  PROVE  IInv'
<1> DEFINE q == req[r]
           c == [user |-> q.user, parent |-> q.tok, clean |-> q.clean,
                 family |-> IF q.tok = None THEN t ELSE signed[q.tok].family]
           w == [q EXCEPT !.next = t, !.pc = "storeIndex"]
<1>0. q \in Request /\ q.pc = "store" /\ ~Issued(t) /\ Single(r) /\ TypeOK
  BY DEF IInv, TypeOK, StoreToken, At
<1>1. UNCHANGED <<redisUp, keyPrefix, index, doc, held, account, starts, faults>>
  BY DEF StoreToken
<1>2. live' \subseteq live \cup {t}
  BY DEF StoreToken, Put
<1>3. signed' = [signed EXCEPT ![t] = c]
  BY DEF StoreToken
<1>4. c \in Claims /\ c.parent = q.tok /\ c.clean = q.clean /\ c # None
  <2>1. q.user \in Users /\ q.tok \in Tokens \cup {None} /\ q.clean \in BOOLEAN
    BY <1>0 DEF Single, Shape, Request
  <2>2. q.tok # None => signed[q.tok] \in Claims
    BY <1>0, <2>1 DEF Single, Shape, TypeOK, Issued
  <2>3. q.tok # None => signed[q.tok].family \in Tokens
    BY <2>2 DEF Claims
  <2>4. c \in Claims
    BY <2>1, <2>3 DEF Claims
  <2> QED BY <2>4, NoneAssumption
<1> HIDE DEF c
<1>5. /\ signed' \in [Tokens -> Claims \cup {None}]
      /\ signed'[t] = c
      /\ \A x \in Tokens : x # t => signed'[x] = signed[x]
  BY <1>0, <1>3, <1>4 DEF TypeOK
<1>6. TypeRest'
  <2>1. live' \subseteq Tokens
    BY <1>0, <1>2 DEF TypeOK
  <2> QED BY <1>0, <1>1, <1>5, <2>1 DEF TypeOK, TypeRest
<1>7. \A x \in Tokens : Issued(x) => x # t /\ Issued(x)' /\ signed'[x] = signed[x]
  BY <1>0, <1>5 DEF Issued
<1>8. Frame
  BY <1>0, <1>1, <1>2, <1>7 DEF Frame
<1>9. StoreOK /\ SuccessorReplaces
  BY DEF IInv
<1>10. Issued(t)'
  BY <1>4, <1>5 DEF Issued
<1>11. q.tok # None => q.tok \in Tokens /\ Issued(q.tok)
  BY <1>0 DEF Single, Shape, Request
<1>12. ASSUME NEW x \in Tokens, x # t, Issued(x)', signed[x].parent # None
       PROVE  Issued(x) /\ Issued(signed[x].parent) /\ signed[x].parent \in Tokens
  <2>1. Issued(x)
    BY <1>5, <1>12 DEF Issued
  <2>2. signed[x] \in Claims
    BY <1>0, <2>1 DEF TypeOK, Issued
  <2> QED BY <1>9, <1>12, <2>1, <2>2 DEF StoreOK, Claims
<1>13. StoreOK'
  <2>1. ASSUME NEW x \in (live \cup index \cup held)' PROVE Issued(x)'
    <3>1. x \in Tokens
      BY <1>6, <2>1 DEF TypeRest
    <3>2. x = t \/ Issued(x)
      BY <1>1, <1>2, <1>9, <2>1 DEF StoreOK
    <3> QED BY <1>7, <1>10, <3>1, <3>2
  <2>2. ASSUME NEW x \in Tokens, Issued(x)', signed'[x].parent # None
        PROVE  signed'[x].parent \in Tokens /\ Issued(signed'[x].parent)
    <3>1. CASE x = t
      BY <1>4, <1>5, <1>11, <2>2, <3>1
    <3>2. CASE x # t
      BY <1>5, <1>12, <2>2, <3>2
    <3> QED BY <3>1, <3>2
  <2>3. ASSUME NEW x \in Tokens, Issued(x)', signed'[x].parent # None
        PROVE  Issued(signed[x].parent)'
    <3>1. Issued(signed'[x].parent) /\ signed'[x].parent \in Tokens
      BY <2>2, <2>3
    <3> QED BY <1>7, <3>1 DEF Issued
  <2> QED BY <2>1, <2>3 DEF StoreOK
<1>14. SuccessorReplaces'
  <2> SUFFICES ASSUME NEW x \in Tokens, Issued(x)', signed'[x].clean, signed'[x].parent # None
               PROVE  signed'[x].parent \notin live'
    BY DEF SuccessorReplaces
  <2>1. CASE x = t
    <3>1. q.clean /\ q.tok # None
      BY <1>4, <1>5, <2>1
    <3>2. q.op = "refresh"
      BY <1>0, <3>1 DEF Single, Shape
    <3>3. q.tok \notin live
      BY <1>0, <3>1, <3>2 DEF Single, Deleted
    <3> QED BY <1>2, <1>4, <1>5, <1>7, <1>11, <2>1, <3>1, <3>3
  <2>2. CASE x # t
    <3>1. Issued(x) /\ Issued(signed[x].parent) /\ signed[x].parent \in Tokens /\ signed'[x] = signed[x]
      BY <1>5, <1>12, <2>2
    <3>2. signed[x].parent \notin live
      BY <1>9, <3>1 DEF SuccessorReplaces
    <3> QED BY <1>2, <1>7, <3>1, <3>2
  <2> QED BY <2>1, <2>2
<1>15. req' = [req EXCEPT ![r] = w]
  BY <1>0 DEF StoreToken, TypeOK
<1>16. "storeIndex" \in PCs
  BY DEF PCs
<1>17. /\ w \in Request /\ w.pc = "storeIndex" /\ w.next = t /\ w.op = q.op /\ w.user = q.user
       /\ w.tok = q.tok /\ w.found = q.found /\ w.todo = q.todo
       /\ w.before = q.before /\ w.clean = q.clean
  BY <1>0, <1>16 DEF Request
<1> HIDE DEF q, w
<1>18. t \notin index /\ t \notin held
  BY <1>0, <1>9 DEF StoreOK
<1>19. req'[r] = w => Single(r)'
  <2> SUFFICES ASSUME req'[r] = w PROVE Single(r)'
    OBVIOUS
  <2>0. q.before \subseteq Tokens /\ q.todo \subseteq Tokens
    BY <1>0 DEF Request
  <2>1. Shape(r)'
    <3>1. \A x \in q.before \cup q.todo : Issued(x)' /\ signed'[x] = signed[x]
      BY <1>0, <1>7, <2>0 DEF q, Single, Shape
    <3>2. q.tok # None => signed'[q.tok] # None
      BY <1>7, <1>11 DEF Issued
    <3> QED BY <1>0, <1>10, <1>17, <3>1, <3>2 DEF q, Single, Shape, Presenting, Generating, Issued
  <2>2. CleanUps(r)' /\ DocsRevoked(r)' /\ Scan(r)' /\ Deleted(r)'
    BY <1>0, <1>1, <1>17 DEF q, Single, CleanUps, DocsRevoked, Scan, Deleted, Revoking, OnPage
  <2>3. Fresh(r)'
    BY <1>1, <1>17, <1>18 DEF Fresh
  <2> QED BY <2>1, <2>2, <2>3 DEF Single
<1>20. \A n \in Requests : IndexFrame(n) /\ DocFrame(n) /\ HeldFrame(n)
  BY <1>1 DEF IndexFrame, DocFrame, HeldFrame
<1>21. \A m, n \in Requests : Pair(m, n)'
  <2>1. req'[r] = w /\ \A n \in Requests : n # r => req'[n] = req[n]
    BY <1>0, <1>15, <1>17, OneStep
  <2>2. \A n \in Requests : /\ req[n].pc \in Generating => req[n].next # t
                            /\ t \notin req[n].before /\ t \notin req[n].todo
    BY <1>0 DEF IInv, Single, Shape
  <2> SUFFICES ASSUME NEW m \in Requests, NEW n \in Requests PROVE Pair(m, n)'
    OBVIOUS
  <2>3. Pair(m, n) /\ req[r] = q
    BY DEF IInv, q
  <2>4. /\ w.before = q.before /\ w.todo = q.todo /\ w.clean = q.clean
        /\ w.pc \notin Revoking /\ w.pc \in Generating /\ w.next = t /\ w.pc = "storeIndex"
    BY <1>17 DEF Revoking, OnPage, Generating
  <2>5. /\ req'[m].before = req[m].before /\ req'[m].todo = req[m].todo /\ req'[m].clean = req[m].clean
        /\ req'[n].before = req[n].before /\ req'[n].todo = req[n].todo /\ req'[n].clean = req[n].clean
    BY <2>1, <2>3, <2>4
  <2>6. CASE m = r
    BY <2>1, <2>2, <2>3, <2>4, <2>5, <2>6 DEF Pair
  <2>7. CASE m # r
    BY <2>1, <2>2, <2>3, <2>4, <2>5, <2>7 DEF Pair
  <2> QED BY <2>6, <2>7
<1> QED BY <1>6, <1>8, <1>13, <1>14, <1>15, <1>17, <1>19, <1>20, <1>21, Stepped

\* A login, a rotation or a logout begins.
LEMMA Begun ==
  ASSUME IInv, NEW r \in Requests, NEW w \in Request, req' = [req EXCEPT ![r] = w],
         UNCHANGED <<redisUp, keyPrefix, live, index, doc, signed, held, account, faults>>,
         starts' \in 0..MaxStarts,
         w.user \in Users, w.before = {}, w.todo = {}, w.clean = redisUp,
         \/ w.pc = "store" /\ w.op = "login" /\ w.tok = None /\ w.found = FALSE
         \/ /\ w.pc \in {"reuse", "delete"} /\ w.op \in {"refresh", "logout"}
            /\ w.tok \in Tokens /\ Issued(w.tok)
  PROVE  IInv'
<1>1. TypeRest'
  BY DEF IInv, TypeOK, TypeRest
<1>2. /\ Frame /\ StoreOK' /\ SuccessorReplaces'
      /\ \A n \in Requests : IndexFrame(n) /\ DocFrame(n) /\ HeldFrame(n)
  BY DocsOnly DEF IInv
<1>3. GoesOn(req[r], w)
  BY DEF GoesOn, Generating, Revoking, OnPage
<1>4. req'[r] = w => Single(r)'
  <2> SUFFICES ASSUME req'[r] = w PROVE Single(r)'
    OBVIOUS
  <2>1. Shape(r)'
    BY DEF Shape, Presenting, Generating, Issued
  <2>2. CleanUps(r)' /\ DocsRevoked(r)' /\ Scan(r)' /\ Deleted(r)' /\ Fresh(r)'
    BY DEF CleanUps, DocsRevoked, Scan, Deleted, Fresh, Revoking, OnPage
  <2> QED BY <2>1, <2>2 DEF Single
<1> QED BY <1>1, <1>2, <1>3, <1>4, Moved

LEMMA HeldIsSigned ==
  ASSUME IInv, NEW t \in held
  PROVE  t \in Tokens /\ Issued(t) /\ signed[t].user \in Users
BY DEF IInv, TypeOK, StoreOK, Issued, Claims

LEMMA StartLoginStep ==
  ASSUME IInv, NEW r \in Requests, NEW u \in Users, StartLogin(r, u)
  PROVE  IInv'
<1> DEFINE w == Begin("login", "store", u, None)
<1>1. starts' \in 0..MaxStarts
  BY BoundsAssumption DEF IInv, TypeOK, StartLogin, Free
<1>2. "store" \in PCs /\ "login" \in Ops /\ redisUp \in BOOLEAN
  BY DEF PCs, Ops, IInv, TypeOK
<1>3. /\ w \in Request
      /\ w.op = "login" /\ w.pc = "store" /\ w.user = u /\ w.tok = None /\ w.found = FALSE
      /\ w.before = {} /\ w.todo = {} /\ w.clean = redisUp
  BY <1>2 DEF Begin, Request
<1>4. /\ req' = [req EXCEPT ![r] = w]
      /\ UNCHANGED <<redisUp, keyPrefix, live, index, doc, signed, held, account, faults>>
  BY DEF StartLogin
<1> HIDE DEF w
<1> QED BY <1>1, <1>3, <1>4, Begun

LEMMA StartRefreshStep ==
  ASSUME IInv, NEW r \in Requests, NEW t \in Tokens, StartRefresh(r, t)
  PROVE  IInv'
<1> DEFINE pc == IF redisUp /\ t \in live THEN "delete" ELSE "reuse"
           w  == Begin("refresh", pc, signed[t].user, t)
<1>1. starts' \in 0..MaxStarts
  BY BoundsAssumption DEF IInv, TypeOK, StartRefresh, Free
<1>2. pc \in PCs /\ pc \in {"reuse", "delete"} /\ "refresh" \in Ops /\ redisUp \in BOOLEAN
  BY DEF PCs, Ops, IInv, TypeOK
<1>3. Issued(t) /\ signed[t].user \in Users
  BY HeldIsSigned DEF StartRefresh
<1>4. /\ req' = [req EXCEPT ![r] = w]
      /\ UNCHANGED <<redisUp, keyPrefix, live, index, doc, signed, held, account, faults>>
  BY DEF StartRefresh
<1> HIDE DEF pc
<1>5. /\ w \in Request
      /\ w.op = "refresh" /\ w.pc = pc /\ w.user = signed[t].user /\ w.tok = t
      /\ w.before = {} /\ w.todo = {} /\ w.clean = redisUp
  BY <1>2, <1>3 DEF Begin, Request
<1> HIDE DEF w
<1> QED BY <1>1, <1>2, <1>3, <1>4, <1>5, Begun

LEMMA StartLogoutStep ==
  ASSUME IInv, NEW r \in Requests, NEW t \in Tokens, StartLogout(r, t)
  PROVE  IInv'
<1> DEFINE b  == Begin("logout", "delete", signed[t].user, t)
           hit == redisUp /\ t \in live
           w  == [b EXCEPT !.found = hit]
<1>1. starts' \in 0..MaxStarts
  BY BoundsAssumption DEF IInv, TypeOK, StartLogout, Free
<1>2. "delete" \in PCs /\ "logout" \in Ops /\ redisUp \in BOOLEAN /\ hit \in BOOLEAN
  BY DEF PCs, Ops, IInv, TypeOK
<1>3. Issued(t) /\ signed[t].user \in Users
  BY HeldIsSigned DEF StartLogout
<1>4. /\ req' = [req EXCEPT ![r] = w]
      /\ UNCHANGED <<redisUp, keyPrefix, live, index, doc, signed, held, account, faults>>
  BY DEF StartLogout
<1>5. /\ b \in Request
      /\ b.op = "logout" /\ b.pc = "delete" /\ b.user = signed[t].user /\ b.tok = t
      /\ b.before = {} /\ b.todo = {} /\ b.clean = redisUp
  BY <1>2, <1>3 DEF Begin, Request
<1> HIDE DEF b, hit
<1>6. /\ w \in Request
      /\ w.op = "logout" /\ w.pc = "delete" /\ w.user = signed[t].user /\ w.tok = t
      /\ w.before = {} /\ w.todo = {} /\ w.clean = redisUp
  BY <1>2, <1>5 DEF Request
<1> HIDE DEF w
<1> QED BY <1>1, <1>3, <1>4, <1>6, Begun

LEMMA RevokingAllStep ==
  ASSUME IInv, NEW r \in Requests, NEW u \in Users, RevokingAll(r, u),
         account' \in [Users -> {"active", "inactive", "deleted"}]
  PROVE  IInv'
<1> DEFINE b     == Begin("revokeAll", "scan", u, None)
           olds  == TokensOf(u) \cap held \cap live \cap index
           clean == redisUp /\ \A n \in Requests : req[n].clean
           w     == [b EXCEPT !.before = olds, !.clean = clean]
<1>0. TypeOK /\ StoreOK /\ SuccessorReplaces
  BY DEF IInv
<1>1. UNCHANGED <<redisUp, keyPrefix, live, index, doc, signed, held, faults>>
  BY DEF RevokingAll
<1>2. TypeRest'
  <2>1. starts' \in 0..MaxStarts
    BY BoundsAssumption DEF IInv, TypeOK, RevokingAll, Free
  <2> QED BY <1>0, <1>1, <2>1 DEF TypeOK, TypeRest
<1>3. /\ Frame /\ StoreOK' /\ SuccessorReplaces'
      /\ \A n \in Requests : IndexFrame(n) /\ DocFrame(n) /\ HeldFrame(n)
  BY <1>0, <1>1, DocsOnly
<1>4. "scan" \in PCs /\ "revokeAll" \in Ops /\ redisUp \in BOOLEAN /\ clean \in BOOLEAN
      /\ olds \subseteq Tokens
  BY <1>0 DEF PCs, Ops, TypeOK
<1>5. /\ b \in Request
      /\ b.op = "revokeAll" /\ b.pc = "scan" /\ b.user = u /\ b.tok = None
      /\ b.todo = {}
  BY <1>4 DEF Begin, Request
<1>6. req' = [req EXCEPT ![r] = w]
  BY DEF RevokingAll
<1>7. \A t \in olds : Issued(t) /\ signed[t].user = u /\ t \in held /\ t \in live /\ t \in index
  BY DEF TokensOf
<1>8. clean => redisUp /\ \A n \in Requests : req[n].clean
  OBVIOUS
<1> HIDE DEF b, olds, clean
<1>9. /\ w \in Request
      /\ w.pc = "scan" /\ w.user = u /\ w.tok = None /\ w.todo = {}
      /\ w.before = olds /\ w.clean = clean
  BY <1>4, <1>5 DEF Request
<1> HIDE DEF w
<1>10. req'[r] = w => Single(r)'
  <2> SUFFICES ASSUME req'[r] = w PROVE Single(r)'
    OBVIOUS
  <2>1. Shape(r)'
    BY <1>1, <1>7, <1>9 DEF Shape, Presenting, Generating, Issued
  <2>2. CleanUps(r)' /\ DocsRevoked(r)' /\ Deleted(r)' /\ Fresh(r)'
    BY <1>1, <1>8, <1>9 DEF CleanUps, DocsRevoked, Deleted, Fresh
  <2>3. Scan(r)'
    BY <1>1, <1>7, <1>9 DEF Scan, OnPage
  <2> QED BY <2>1, <2>2, <2>3 DEF Single
<1>11. \A m, n \in Requests : Pair(m, n)'
  <2>1. req'[r] = w /\ \A n \in Requests : n # r => req'[n] = req[n]
    BY <1>0, <1>6, <1>9, OneStep
  <2>2. \A n \in Requests : req[n].pc \in {"storeIndex", "persist"} => req[n].next \notin olds
    BY <1>7 DEF IInv, Single, Fresh
  <2>3. \A n \in Requests : clean => req[n].clean
    BY <1>8
  <2>4. w.pc \notin Generating /\ w.pc \notin {"storeIndex", "persist"}
    BY <1>9 DEF Generating
  <2>5. \A n \in Requests : (req[n].pc \in Revoking /\ req[n].clean) => w.clean
    <3> SUFFICES ASSUME NEW n \in Requests, req[n].pc \in Revoking, req[n].clean PROVE clean
      BY <1>9
    <3>1. redisUp
      BY DEF IInv, Single, CleanUps, Revoking, OnPage
    <3>2. \A m \in Requests : req[m].clean
      BY DEF IInv, Pair
    <3> QED BY <3>1, <3>2 DEF clean
  <2> SUFFICES ASSUME NEW m \in Requests, NEW n \in Requests PROVE Pair(m, n)'
    OBVIOUS
  <2>6. Pair(m, n)
    BY DEF IInv
  <2>7. CASE m = r
    BY <1>9, <2>1, <2>4, <2>5, <2>6, <2>7 DEF Pair
  <2>8. CASE m # r /\ n = r
    BY <1>9, <2>1, <2>2, <2>3, <2>4, <2>8 DEF Pair
  <2>9. CASE m # r /\ n # r
    BY <2>1, <2>6, <2>9 DEF Pair
  <2> QED BY <2>7, <2>8, <2>9
<1> QED BY <1>2, <1>3, <1>6, <1>9, <1>10, <1>11, Stepped

LEMMA ScanPageStep ==
  ASSUME IInv, NEW r \in Requests, NEW page \in SUBSET Tokens, NEW last \in BOOLEAN,
         ScanPage(r, page, last)
  PROVE  IInv'
<1> DEFINE q  == req[r]
           to == IF page = {} THEN "revokeDocs" ELSE "getHash"
           w  == [q EXCEPT !.todo = page, !.lastPage = last, !.pc = to]
<1>0. q \in Request /\ q.pc = "scan" /\ Single(r) /\ TypeOK /\ StoreOK /\ SuccessorReplaces
  BY DEF IInv, TypeOK, ScanPage, At
<1>1. UNCHANGED <<redisUp, keyPrefix, live, index, doc, signed, held, account, starts, faults>>
  BY DEF ScanPage
<1>2. /\ page \subseteq index
      /\ page = {} => last
      /\ (last /\ ~keyPrefix) => (TokensOf(q.user) \cap index) \cap q.before \subseteq page
  BY DEF ScanPage
<1>3. TypeRest'
  BY <1>0, <1>1 DEF TypeOK, TypeRest
<1>4. /\ Frame /\ StoreOK' /\ SuccessorReplaces'
      /\ \A n \in Requests : IndexFrame(n) /\ DocFrame(n) /\ HeldFrame(n)
  BY <1>0, <1>1, DocsOnly
<1>5. req' = [req EXCEPT ![r] = w]
  BY <1>0 DEF ScanPage, TypeOK
<1>6. to \in PCs /\ to \in {"revokeDocs", "getHash"} /\ (to = "revokeDocs" <=> page = {})
  BY DEF PCs
<1> HIDE DEF to
<1>7. w \in Request
  BY <1>0, <1>6 DEF Request
<1>8. /\ w.pc = to /\ w.user = q.user /\ w.tok = q.tok /\ w.todo = page
      /\ w.lastPage = last /\ w.before = q.before /\ w.clean = q.clean
  BY <1>0 DEF Request
<1> HIDE DEF q, w
<1>9. q.before \cap index \subseteq TokensOf(q.user)
  BY <1>0 DEF q, Single, Shape, TokensOf, TypeOK
<1>10. req'[r] = w => Single(r)'
  <2> SUFFICES ASSUME req'[r] = w PROVE Single(r)'
    OBVIOUS
  <2>0. \A t \in page : Issued(t)
    BY <1>0, <1>2 DEF StoreOK
  <2>1. Shape(r)'
    BY <1>0, <1>1, <1>6, <1>8, <2>0 DEF q, Single, Shape, Presenting, Generating, Issued
  <2>2. CleanUps(r)' /\ DocsRevoked(r)' /\ Deleted(r)' /\ Fresh(r)'
    BY <1>0, <1>1, <1>6, <1>8 DEF q, Single, CleanUps, DocsRevoked, Deleted, Fresh
  <2>3. Scan(r)'
    <3>1. q.clean => q.before \cap live \subseteq index
      BY <1>0 DEF q, Single, Scan, Revoking
    <3>2. (q.clean /\ last /\ ~keyPrefix) => q.before \cap live \subseteq page
      BY <1>2, <1>9, <3>1
    <3> QED BY <1>1, <1>2, <1>6, <1>8, <3>1, <3>2 DEF Scan, OnPage
  <2> QED BY <2>1, <2>2, <2>3 DEF Single
<1>11. \A m, n \in Requests : Pair(m, n)'
  <2>1. req'[r] = w /\ \A n \in Requests : n # r => req'[n] = req[n]
    BY <1>0, <1>5, <1>7, OneStep
  <2>2. \A n \in Requests : req[n].pc = "storeIndex" => req[n].next \notin page
    BY <1>2 DEF IInv, Single, Fresh
  <2>3. /\ w.pc \notin Generating /\ w.pc \notin {"storeIndex", "persist"}
        /\ q.pc \in Revoking
    BY <1>0, <1>6, <1>8 DEF Generating, Revoking
  <2> SUFFICES ASSUME NEW m \in Requests, NEW n \in Requests PROVE Pair(m, n)'
    OBVIOUS
  <2>4. Pair(m, n) /\ req[r] = q
    BY DEF IInv, q
  <2>5. CASE m = r
    BY <1>8, <2>1, <2>3, <2>4, <2>5 DEF Pair
  <2>6. CASE m # r /\ n = r
    BY <1>8, <2>1, <2>2, <2>3, <2>4, <2>6 DEF Pair
  <2>7. CASE m # r /\ n # r
    BY <2>1, <2>4, <2>7 DEF Pair
  <2> QED BY <2>5, <2>6, <2>7
<1> QED BY <1>3, <1>4, <1>5, <1>7, <1>10, <1>11, Stepped

LEMMA GetHashStep ==
  ASSUME IInv, NEW r \in Requests, NEW t \in Tokens, GetHash(r, t)
  PROVE  IInv'
<1> DEFINE q  == req[r]
           to == IF t \in index THEN "dropToken" ELSE "dropIndex"
           w  == [q EXCEPT !.tok = t, !.pc = to]
<1>0. q \in Request /\ q.pc = "getHash" /\ t \in q.todo /\ Issued(t) /\ Single(r)
      /\ TypeOK /\ StoreOK /\ SuccessorReplaces
  BY DEF IInv, TypeOK, GetHash, At, Single, Shape
<1>1. UNCHANGED <<redisUp, keyPrefix, live, index, doc, signed, held, account, starts, faults>>
  BY DEF GetHash
<1>2. TypeRest'
  BY <1>0, <1>1 DEF TypeOK, TypeRest
<1>3. /\ Frame /\ StoreOK' /\ SuccessorReplaces'
      /\ \A n \in Requests : IndexFrame(n) /\ DocFrame(n) /\ HeldFrame(n)
  BY <1>0, <1>1, DocsOnly
<1>4. req' = [req EXCEPT ![r] = w]
  BY <1>0 DEF GetHash, TypeOK
<1>5. to \in PCs /\ to \in {"dropToken", "dropIndex"} /\ (to = "dropIndex" => t \notin index)
  BY DEF PCs
<1> HIDE DEF to
<1>6. /\ w \in Request /\ w.pc = to /\ w.user = q.user /\ w.tok = t /\ w.todo = q.todo
      /\ w.lastPage = q.lastPage /\ w.before = q.before /\ w.clean = q.clean
  BY <1>0, <1>5 DEF Request
<1> HIDE DEF q, w
<1>7. GoesOn(q, w)
  BY <1>0, <1>5, <1>6 DEF GoesOn, Generating, Revoking, OnPage
<1>8. req'[r] = w => Single(r)'
  <2> SUFFICES ASSUME req'[r] = w PROVE Single(r)'
    OBVIOUS
  <2>1. Shape(r)'
    BY <1>0, <1>1, <1>5, <1>6 DEF q, Single, Shape, Presenting, Generating, Issued
  <2>2. CleanUps(r)' /\ DocsRevoked(r)' /\ Deleted(r)' /\ Fresh(r)'
    BY <1>0, <1>1, <1>5, <1>6 DEF q, Single, CleanUps, DocsRevoked, Deleted, Fresh
  <2>3. Scan(r)'
    BY <1>0, <1>1, <1>5, <1>6 DEF q, Single, Scan, Revoking, OnPage
  <2> QED BY <2>1, <2>2, <2>3 DEF Single
<1> QED BY <1>2, <1>3, <1>4, <1>6, <1>7, <1>8, Moved DEF q

LEMMA DropTokenStep ==
  ASSUME IInv, NEW r \in Requests, DropToken(r)
  PROVE  IInv'
<1> DEFINE q == req[r]
           w == [q EXCEPT !.pc = "dropIndex"]
<1>0. q \in Request /\ q.pc = "dropToken" /\ q.tok \in Tokens /\ Single(r)
  BY DEF IInv, TypeOK, Single, Shape, Presenting, DropToken, At
<1>1. UNCHANGED <<redisUp, keyPrefix, index, doc, signed, held, account, starts, faults>>
  BY DEF DropToken
<1>2. live' \subseteq live /\ (redisUp => q.tok \notin live')
  BY DEF DropToken, Drop
<1>3. TypeRest'
  BY <1>1, <1>2 DEF IInv, TypeOK, TypeRest
<1>4. StoreOK' /\ SuccessorReplaces'
  BY <1>1, <1>2, KeysKept DEF IInv
<1>5. Frame /\ \A n \in Requests : IndexFrame(n) /\ DocFrame(n) /\ HeldFrame(n)
  BY <1>1, <1>2 DEF Frame, IndexFrame, DocFrame, HeldFrame
<1>6. req' = [req EXCEPT ![r] = w]
  BY DEF DropToken, Goto
<1>7. /\ w \in Request /\ w.pc = "dropIndex" /\ w.op = q.op /\ w.user = q.user /\ w.tok = q.tok
      /\ w.next = q.next /\ w.found = q.found /\ w.todo = q.todo
      /\ w.lastPage = q.lastPage /\ w.before = q.before /\ w.clean = q.clean
  <2>1. "dropIndex" \in PCs
    BY DEF PCs
  <2> QED BY <1>0, <2>1, MovedIsRequest
<1> HIDE DEF q, w
<1>8. GoesOn(q, w)
  BY <1>0, <1>7 DEF GoesOn, Generating, Revoking, OnPage
<1>9. req'[r] = w => Single(r)'
  <2> SUFFICES ASSUME req'[r] = w PROVE Single(r)'
    OBVIOUS
  <2>1. Shape(r)'
    BY <1>0, <1>1, <1>7 DEF q, Single, Shape, Presenting, Generating, Issued
  <2>2. CleanUps(r)' /\ DocsRevoked(r)' /\ Deleted(r)' /\ Fresh(r)'
    BY <1>0, <1>1, <1>7 DEF q, Single, CleanUps, DocsRevoked, Deleted, Fresh
  <2>3. q.clean => q.tok \notin live'
    BY <1>0, <1>2 DEF q, Single, CleanUps
  <2>4. Scan(r)'
    BY <1>0, <1>1, <1>2, <1>7, <2>3 DEF q, Single, Scan, Revoking, OnPage
  <2> QED BY <2>1, <2>2, <2>4 DEF Single
<1> QED BY <1>3, <1>4, <1>5, <1>6, <1>7, <1>8, <1>9, Moved DEF q

LEMMA DropIndexStep ==
  ASSUME IInv, NEW r \in Requests, DropIndex(r)
  PROVE  IInv'
<1> DEFINE q    == req[r]
           rest == q.todo \ {q.tok}
           to   == IF rest # {} THEN "getHash" ELSE IF q.lastPage THEN "revokeDocs" ELSE "scan"
           w    == [q EXCEPT !.todo = rest, !.pc = to]
<1>0. q \in Request /\ q.pc = "dropIndex" /\ q.tok \in Tokens /\ Single(r) /\ TypeOK
  BY DEF IInv, TypeOK, Single, Shape, Presenting, DropIndex, At
<1>1. UNCHANGED <<redisUp, keyPrefix, live, doc, signed, held, account, starts, faults>>
  BY DEF DropIndex
<1>2. index' \subseteq index /\ index \subseteq index' \cup {q.tok}
  BY DEF DropIndex, Drop
<1>3. TypeRest'
  BY <1>0, <1>1, <1>2 DEF TypeOK, TypeRest
<1>4. StoreOK' /\ SuccessorReplaces'
  BY <1>1, <1>2, KeysKept DEF IInv
<1>5. Frame
  BY <1>1 DEF Frame
<1>6. q.clean => q.tok \notin live \/ q.tok \notin index
  BY <1>0 DEF Single, Scan, Revoking, OnPage
<1>7. \A n \in Requests : IndexFrame(n) /\ DocFrame(n) /\ HeldFrame(n)
  <2> SUFFICES ASSUME NEW n \in Requests PROVE IndexFrame(n) /\ DocFrame(n) /\ HeldFrame(n)
    OBVIOUS
  <2>1. Pair(r, n)
    BY DEF IInv
  <2>2. IndexFrame(n)
    BY <1>1, <1>2, <1>6, <2>1 DEF IndexFrame, Pair
  <2> QED BY <1>1, <2>2 DEF DocFrame, HeldFrame
<1>8. req' = [req EXCEPT ![r] = w]
  BY <1>0 DEF DropIndex, TypeOK
<1>9. /\ to \in PCs /\ to \in {"getHash", "revokeDocs", "scan"}
      /\ to = "revokeDocs" => rest = {} /\ q.lastPage
      /\ rest \subseteq Tokens /\ rest \subseteq q.todo
      /\ \A t \in q.todo : t # q.tok => t \in rest
  BY <1>0 DEF PCs, Request
<1> HIDE DEF to, rest
<1>10. /\ w \in Request /\ w.pc = to /\ w.user = q.user /\ w.tok = q.tok /\ w.todo = rest
       /\ w.lastPage = q.lastPage /\ w.before = q.before /\ w.clean = q.clean
  BY <1>0, <1>9 DEF Request
<1> HIDE DEF q, w
<1>11. GoesOn(q, w)
  BY <1>0, <1>9, <1>10 DEF GoesOn, Generating, Revoking, OnPage
<1>12. req'[r] = w => Single(r)'
  <2> SUFFICES ASSUME req'[r] = w PROVE Single(r)'
    OBVIOUS
  <2>1. Shape(r)'
    BY <1>0, <1>1, <1>9, <1>10 DEF q, Single, Shape, Presenting, Generating, Issued
  <2>2. CleanUps(r)' /\ DocsRevoked(r)' /\ Deleted(r)' /\ Fresh(r)'
    BY <1>0, <1>1, <1>9, <1>10 DEF q, Single, CleanUps, DocsRevoked, Deleted, Fresh
  <2>3. q.clean => q.before \cap live \subseteq index /\ q.tok \notin q.before \cap live
    BY <1>0, <1>6 DEF q, Single, Scan, Revoking, OnPage
  <2>4. q.clean => q.before \cap live \subseteq index'
    BY <1>2, <2>3
  <2>5. (q.clean /\ q.lastPage /\ ~keyPrefix) => q.before \cap live \subseteq rest
    BY <1>0, <1>9, <2>3 DEF q, Single, Scan, Revoking, OnPage
  <2>6. Scan(r)'
    BY <1>1, <1>9, <1>10, <2>4, <2>5 DEF Scan, OnPage
  <2> QED BY <2>1, <2>2, <2>6 DEF Single
<1> QED BY <1>3, <1>4, <1>5, <1>7, <1>8, <1>10, <1>11, <1>12, Moved DEF q

LEMMA RevokeDocsStep ==
  ASSUME IInv, NEW r \in Requests, RevokeDocs(r)
  PROVE  IInv'
<1> DEFINE q == req[r]
           w == [q EXCEPT !.pc = "done"]
<1>0. q \in Request /\ q.pc = "revokeDocs" /\ Single(r) /\ TypeOK /\ StoreOK /\ SuccessorReplaces
  BY DEF IInv, TypeOK, RevokeDocs, At
<1>1. UNCHANGED <<redisUp, keyPrefix, live, index, signed, held, account, starts, faults>>
  BY DEF RevokeDocs
<1>2. /\ doc' \in [Tokens -> {"none", "active", "revoked"}]
      /\ \A t \in Tokens : doc'[t] = "active" => doc[t] = "active"
      /\ \A t \in Tokens : t \in TokensOf(q.user) => doc'[t] # "active"
  BY <1>0, RevokeManyKeeps DEF RevokeDocs
<1>3. TypeRest'
  BY <1>0, <1>1, <1>2 DEF TypeOK, TypeRest
<1>4. /\ Frame /\ StoreOK' /\ SuccessorReplaces'
      /\ \A n \in Requests : IndexFrame(n) /\ DocFrame(n) /\ HeldFrame(n)
  BY <1>0, <1>1, <1>2, DocsOnly
<1>5. req' = [req EXCEPT ![r] = w]
  BY DEF RevokeDocs, Goto
<1>6. /\ w \in Request /\ w.pc = "done" /\ w.op = q.op /\ w.user = q.user /\ w.tok = q.tok
      /\ w.next = q.next /\ w.found = q.found /\ w.todo = q.todo
      /\ w.lastPage = q.lastPage /\ w.before = q.before /\ w.clean = q.clean
  <2>1. "done" \in PCs
    BY DEF PCs
  <2> QED BY <1>0, <2>1, MovedIsRequest
<1>7. \A t \in q.before : t \in Tokens /\ t \in TokensOf(q.user)
  BY <1>0 DEF Single, Shape, TokensOf, Request
<1> HIDE DEF q, w
<1>8. GoesOn(q, w)
  BY <1>0, <1>6 DEF GoesOn, Generating, Revoking, OnPage
<1>9. req'[r] = w => Single(r)'
  <2> SUFFICES ASSUME req'[r] = w PROVE Single(r)'
    OBVIOUS
  <2>1. Shape(r)'
    BY <1>0, <1>1, <1>6 DEF q, Single, Shape, Presenting, Generating, Issued
  <2>2. CleanUps(r)' /\ Deleted(r)' /\ Fresh(r)'
    BY <1>0, <1>1, <1>6 DEF q, Single, CleanUps, Deleted, Fresh
  <2>3. DocsRevoked(r)'
    BY <1>2, <1>6, <1>7 DEF DocsRevoked
  <2>4. Scan(r)'
    BY <1>0, <1>1, <1>6 DEF q, Single, Scan, Revoking, OnPage
  <2> QED BY <2>1, <2>2, <2>3, <2>4 DEF Single
<1> QED BY <1>3, <1>4, <1>5, <1>6, <1>8, <1>9, Moved DEF q

----------------------------------------------------------------------------
(* The surroundings.                                                       *)

\* A step that no request takes.
LEMMA Undisturbed ==
  ASSUME IInv, TypeRest', Frame, StoreOK', SuccessorReplaces', req' = req,
         \A n \in Requests : IndexFrame(n) /\ DocFrame(n) /\ HeldFrame(n)
  PROVE  IInv'
<1>1. TypeOK'
  BY DEF IInv, TypeOK, TypeRest
<1>2. \A n \in Requests : Single(n)'
  BY OthersKept DEF IInv
<1>3. \A m, n \in Requests : Pair(m, n)'
  BY DEF IInv, Pair
<1> QED BY <1>1, <1>2, <1>3 DEF IInv

LEMMA LoseRedisStep ==
  ASSUME IInv, LoseRedis
  PROVE  IInv'
<1>0. TypeOK /\ StoreOK /\ SuccessorReplaces
      /\ UNCHANGED <<keyPrefix, live, index, doc, signed, held, account, starts>>
  BY DEF IInv, LoseRedis
<1>1. ASSUME NEW n \in Requests
      PROVE  /\ req'[n] \in Request
             /\ req'[n].clean = (req[n].pc = "idle")
             /\ req'[n].pc = req[n].pc /\ req'[n].op = req[n].op /\ req'[n].user = req[n].user
             /\ req'[n].tok = req[n].tok /\ req'[n].next = req[n].next
             /\ req'[n].found = req[n].found /\ req'[n].todo = req[n].todo
             /\ req'[n].before = req[n].before
  <2> DEFINE q == req[n]
             b == At(n, "idle")
             w == [q EXCEPT !.clean = b]
  <2>1. q \in Request /\ b \in BOOLEAN /\ b = (q.pc = "idle")
    BY <1>0 DEF TypeOK, At
  <2>2. req'[n] = w
    BY DEF LoseRedis
  <2> HIDE DEF b
  <2>3. w \in Request
    BY <2>1 DEF Request
  <2> QED BY <2>1, <2>2, <2>3 DEF Request
<1>2. TypeOK'
  <2>1. faults' \in 0..MaxFaults
    BY <1>0, BoundsAssumption DEF TypeOK, LoseRedis, Count
  <2>2. redisUp' \in BOOLEAN /\ DOMAIN req' = Requests /\ req' = [n \in Requests |-> req'[n]]
    BY DEF LoseRedis
  <2>3. req' \in [Requests -> Request]
    BY <1>1, <2>2
  <2> QED BY <1>0, <2>1, <2>2, <2>3 DEF TypeOK
<1>3. StoreOK' /\ SuccessorReplaces'
  BY <1>0, KeysKept
<1>4. ASSUME NEW n \in Requests PROVE Single(n)'
  <2>1. Single(n)
    BY DEF IInv
  <2>2. req'[n].clean => req'[n].pc = "idle"
    BY <1>1
  <2>3. Shape(n)'
    BY <1>0, <1>1, <2>1 DEF Single, Shape, Issued
  <2>4. CleanUps(n)' /\ Deleted(n)' /\ Scan(n)'
    BY <2>2 DEF CleanUps, Deleted, Scan, Revoking, OnPage
  <2>5. DocsRevoked(n)' /\ Fresh(n)'
    BY <1>0, <1>1, <2>1 DEF Single, DocsRevoked, Fresh
  <2> QED BY <2>3, <2>4, <2>5 DEF Single
<1>5. ASSUME NEW m \in Requests, NEW n \in Requests PROVE Pair(m, n)'
  <2>1. Pair(m, n)
    BY DEF IInv
  <2>2. ~(req'[n].pc \in Revoking /\ req'[n].clean)
    BY <1>1 DEF Revoking, OnPage
  <2>3. /\ req'[m].pc = req[m].pc /\ req'[m].next = req[m].next
        /\ req'[n].pc = req[n].pc /\ req'[n].next = req[n].next
        /\ req'[n].before = req[n].before /\ req'[n].todo = req[n].todo
    BY <1>1
  <2> QED BY <2>1, <2>2, <2>3 DEF Pair
<1> QED BY <1>2, <1>3, <1>4, <1>5 DEF IInv

LEMMA RedisBackStep ==
  ASSUME IInv, RedisBack
  PROVE  IInv'
<1>0. TypeOK /\ StoreOK /\ SuccessorReplaces /\ redisUp' = TRUE
      /\ UNCHANGED <<keyPrefix, live, index, doc, signed, held, account, req, starts, faults>>
  BY DEF IInv, RedisBack
<1>1. TypeOK'
  BY <1>0 DEF TypeOK
<1>2. StoreOK' /\ SuccessorReplaces'
  BY <1>0, KeysKept
<1>3. ASSUME NEW n \in Requests PROVE Single(n)'
  <2>1. Single(n)
    BY DEF IInv
  <2>2. Shape(n)' /\ CleanUps(n)' /\ DocsRevoked(n)'
    BY <1>0, <2>1 DEF Single, Shape, CleanUps, DocsRevoked, Issued
  <2>3. Deleted(n)' /\ Scan(n)' /\ Fresh(n)'
    BY <1>0, <2>1 DEF Single, Deleted, Scan, Fresh
  <2> QED BY <2>2, <2>3 DEF Single
<1>4. \A m, n \in Requests : Pair(m, n)'
  BY <1>0 DEF IInv, Pair
<1> QED BY <1>1, <1>2, <1>3, <1>4 DEF IInv

LEMMA ExpireStep ==
  ASSUME IInv, NEW t \in Tokens, Expire(t)
  PROVE  IInv'
<1>0. TypeOK /\ StoreOK /\ SuccessorReplaces
      /\ UNCHANGED <<redisUp, keyPrefix, signed, account, req, starts>>
  BY DEF IInv, Expire
<1>1. live' = live \ {t} /\ index' = index \ {t} /\ held' = held \ {t}
  BY DEF Expire
<1>2. doc' \in [Tokens -> {"none", "active", "revoked"}]
      /\ \A x \in Tokens : doc'[x] = "active" => doc[x] = "active"
  BY <1>0 DEF Expire, TypeOK
<1>3. TypeRest'
  <2>1. faults' \in 0..MaxFaults
    BY <1>0, BoundsAssumption DEF TypeOK, Expire, Count
  <2> QED BY <1>0, <1>1, <1>2, <2>1 DEF TypeOK, TypeRest
<1>4. StoreOK' /\ SuccessorReplaces'
  BY <1>0, <1>1, KeysKept
<1>5. Frame
  BY <1>0, <1>1 DEF Frame
<1>6. \A n \in Requests : IndexFrame(n) /\ DocFrame(n) /\ HeldFrame(n)
  <2>1. \A n \in Requests : req[n].before \subseteq Tokens
    BY <1>0 DEF TypeOK, Request
  <2> QED BY <1>0, <1>1, <1>2, <2>1 DEF IndexFrame, DocFrame, HeldFrame
<1> QED BY <1>0, <1>3, <1>4, <1>5, <1>6, Undisturbed

LEMMA CleanUpStep ==
  ASSUME IInv, CleanUp
  PROVE  IInv'
<1>0. TypeOK /\ StoreOK /\ SuccessorReplaces
      /\ UNCHANGED <<redisUp, keyPrefix, live, index, signed, held, account, req, starts>>
  BY DEF IInv, CleanUp
<1>1. doc' \in [Tokens -> {"none", "active", "revoked"}]
      /\ \A x \in Tokens : doc'[x] = "active" => doc[x] = "active"
  BY <1>0 DEF CleanUp, TypeOK
<1>2. TypeRest'
  <2>1. faults' \in 0..MaxFaults
    BY <1>0, BoundsAssumption DEF TypeOK, CleanUp, Count
  <2> QED BY <1>0, <1>1, <2>1 DEF TypeOK, TypeRest
<1>3. /\ Frame /\ StoreOK' /\ SuccessorReplaces'
      /\ \A n \in Requests : IndexFrame(n) /\ DocFrame(n) /\ HeldFrame(n)
  BY <1>0, <1>1, DocsOnly
<1> QED BY <1>0, <1>2, <1>3, Undisturbed

LEMMA SetActiveStep ==
  ASSUME IInv, NEW u \in Users, SetActive(u)
  PROVE  IInv'
<1>0. TypeOK /\ StoreOK /\ SuccessorReplaces
      /\ UNCHANGED <<redisUp, keyPrefix, live, index, doc, signed, held, req, starts>>
  BY DEF IInv, SetActive
<1>1. TypeRest'
  <2>1. faults' \in 0..MaxFaults
    BY <1>0, BoundsAssumption DEF TypeOK, SetActive, Count
  <2>2. account' \in [Users -> {"active", "inactive", "deleted"}]
    BY <1>0 DEF TypeOK, SetActive
  <2> QED BY <1>0, <2>1, <2>2 DEF TypeOK, TypeRest
<1>2. /\ Frame /\ StoreOK' /\ SuccessorReplaces'
      /\ \A n \in Requests : IndexFrame(n) /\ DocFrame(n) /\ HeldFrame(n)
  BY <1>0, DocsOnly
<1> QED BY <1>0, <1>1, <1>2, Undisturbed

----------------------------------------------------------------------------
(* The invariant.                                                          *)

LEMMA InitInvariant == Init => IInv
<1> SUFFICES ASSUME Init PROVE IInv
  OBVIOUS
<1>1. TypeOK
  BY BoundsAssumption, IdleIsRequest DEF Init, TypeOK
<1>2. StoreOK /\ SuccessorReplaces
  BY DEF Init, StoreOK, SuccessorReplaces, Issued
<1>3. ASSUME NEW n \in Requests PROVE Single(n)
  BY IdleIsRequest DEF Init, Single, Shape, CleanUps, Deleted, Scan, DocsRevoked, Fresh,
     Presenting, Generating, Revoking, OnPage
<1>4. ASSUME NEW m \in Requests, NEW n \in Requests PROVE Pair(m, n)
  BY IdleIsRequest DEF Init, Pair, Generating, Revoking, OnPage
<1> QED BY <1>1, <1>2, <1>3, <1>4 DEF IInv

LEMMA StepInvariant ==
  ASSUME IInv, NEW r \in Requests, Step(r)
  PROVE  IInv'
<1>1. ASSUME NEW u \in Users, StartLogin(r, u) PROVE IInv'
  BY <1>1, StartLoginStep
<1>2. ASSUME NEW u \in Users, StartRevokeAll(r, u) \/ SoftDelete(r, u) PROVE IInv'
  <2>1. account' \in [Users -> {"active", "inactive", "deleted"}]
    BY <1>2 DEF StartRevokeAll, SoftDelete, IInv, TypeOK
  <2>2. RevokingAll(r, u)
    BY <1>2 DEF StartRevokeAll, SoftDelete
  <2> QED BY <2>1, <2>2, RevokingAllStep
<1>3. ASSUME NEW t \in Tokens, StartRefresh(r, t) PROVE IInv'
  BY <1>3, StartRefreshStep
<1>4. ASSUME NEW t \in Tokens, StartLogout(r, t) PROVE IInv'
  BY <1>4, StartLogoutStep
<1>5. ASSUME NEW t \in Tokens, StoreToken(r, t) PROVE IInv'
  BY <1>5, StoreTokenStep
<1>6. ASSUME NEW t \in Tokens, GetHash(r, t) PROVE IInv'
  BY <1>6, GetHashStep
<1>7. ASSUME NEW page \in SUBSET Tokens, NEW last \in BOOLEAN, ScanPage(r, page, last) PROVE IInv'
  BY <1>7, ScanPageStep
<1>8. CASE StoreIndex(r) \/ PersistDoc(r) \/ RevokeFamily(r)
  BY <1>8, StoreIndexStep, PersistDocStep, RevokeFamilyStep
<1>9. CASE DeleteToken(r) \/ DeleteIndex(r) \/ FindDoc(r)
  BY <1>9, DeleteTokenStep, DeleteIndexStep, FindDocStep
<1>10. CASE RevokeOld(r) \/ Answer(r) \/ RevokeDoc(r)
  BY <1>10, RevokeOldStep, AnswerStep, RevokeDocStep
<1>11. CASE DropToken(r) \/ DropIndex(r) \/ RevokeDocs(r)
  BY <1>11, DropTokenStep, DropIndexStep, RevokeDocsStep
<1>12. CASE Finish(r) \/ Abort(r)
  BY <1>12, FinishStep
<1> QED BY <1>1, <1>2, <1>3, <1>4, <1>5, <1>6, <1>7, <1>8, <1>9, <1>10, <1>11, <1>12 DEF Step

LEMMA NextInvariant == IInv /\ [Next]_vars => IInv'
<1> SUFFICES ASSUME IInv, [Next]_vars PROVE IInv'
  OBVIOUS
<1>1. ASSUME NEW r \in Requests, Step(r) PROVE IInv'
  BY <1>1, StepInvariant
<1>2. CASE LoseRedis \/ RedisBack \/ CleanUp
  BY <1>2, LoseRedisStep, RedisBackStep, CleanUpStep
<1>3. ASSUME NEW t \in Tokens, Expire(t) PROVE IInv'
  BY <1>3, ExpireStep
<1>4. ASSUME NEW u \in Users, SetActive(u) PROVE IInv'
  BY <1>4, SetActiveStep
<1>5. CASE UNCHANGED vars
  <2>0. TypeOK /\ StoreOK /\ SuccessorReplaces
        /\ UNCHANGED <<redisUp, keyPrefix, live, index, doc, signed, held, account, req, starts, faults>>
    BY <1>5 DEF IInv, vars
  <2>1. TypeRest'
    BY <2>0 DEF TypeOK, TypeRest
  <2>2. /\ Frame /\ StoreOK' /\ SuccessorReplaces'
        /\ \A n \in Requests : IndexFrame(n) /\ DocFrame(n) /\ HeldFrame(n)
    BY <2>0, DocsOnly
  <2> QED BY <2>0, <2>1, <2>2, Undisturbed
<1> QED BY <1>1, <1>2, <1>3, <1>4, <1>5 DEF Next

\* The invariant holds of every state of the token service: it says what
\* each request relies on at each of its store calls, and what overlapping
\* requests may assume of one another.
THEOREM Invariance == Spec => []IInv
BY InitInvariant, NextInvariant, PTL DEF Spec

\* Every variable keeps its type.
THEOREM TypeCorrect == Spec => []TypeOK
<1>1. IInv => TypeOK
  BY DEF IInv
<1> QED BY <1>1, Invariance, PTL

\* rotateRefreshToken leaves a session with one usable token: while Redis
\* answers, the token rotated away is never accepted beside its successor,
\* for any number of requests that overlap at every store call.
THEOREM OneTokenPerSession == Spec => []SuccessorReplaces
<1>1. IInv => SuccessorReplaces
  BY DEF IInv
<1> QED BY <1>1, Invariance, PTL

\* When revokeAllRefreshTokensForUser ends, no token handed out before it
\* began has an active document, with or without REDIS_KEY_PREFIX; and where
\* keys have no prefix, and Redis answered, none of them is left in Redis,
\* whatever logins, rotations, logouts and other revocations went on between
\* the pages of its scan.  With the default prefix the second half is false.
THEOREM RevocationComplete == Spec => []RevokedAll
<1>1. IInv => RevokedAll
  <2> SUFFICES ASSUME IInv, NEW r \in Requests, At(r, "done")
               PROVE  /\ \A t \in req[r].before : doc[t] # "active"
                      /\ (req[r].clean /\ ~keyPrefix) => req[r].before \cap live = {}
    BY DEF RevokedAll
  <2>1. Single(r) /\ req[r].pc = "done"
    BY DEF IInv, At
  <2>2. \A t \in req[r].before : doc[t] # "active"
    BY <2>1 DEF Single, DocsRevoked
  <2>3. (req[r].clean /\ ~keyPrefix) => req[r].before \cap live = {}
    BY <2>1 DEF Single, Scan, Revoking
  <2> QED BY <2>2, <2>3
<1> QED BY <1>1, Invariance, PTL

=============================================================================
