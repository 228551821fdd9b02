CONSTANTS
  MAX_NAME_SIZE = 2
  FieldSize = 2
  CONN_MAX = 3
  c1 = c1
  c2 = c2
  c3 = c3
  Conn <- MCConn
  Polite = {c1}
  Account = {a1}
  None = None
  Request <- MCRequest
  Burst <- MCBurst
  MaxSends <- MCMaxSends
SPECIFICATION FairSpec
INVARIANTS Accounted AnswersReachAsker SharedDataAlive AccountsReleased
PROPERTY EachAnswered
