CONSTANTS
  Fd <- MCFd
  Conn = {c1, c2}
  Sub = {u1, u2}
  Req = {r1, r2}
  NULL = NULL
  MaxCompletions = 2
SPECIFICATION NetSpec
INVARIANT ErrorMeansFailure
