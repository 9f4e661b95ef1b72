\* One user, three tokens, two requests that overlap at every store call.
CONSTANTS
  Users = {u1}
  Tokens = {t1, t2, t3}
  Requests = {r1, r2}
  None = None
  MaxStarts = 4
  MaxFaults = 1
SPECIFICATION Spec
SYMMETRY Symmetric
INVARIANTS SuccessorReplaces RevokedAll
\* The system stops when all tokens are issued or the user is deleted.
CHECK_DEADLOCK FALSE
