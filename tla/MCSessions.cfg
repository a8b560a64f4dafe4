SPECIFICATION Spec
CONSTANTS
  Requests = {p1, p2}
  Logins = {bob}
  Tokens = {i1, i2}
  TTL = 6
  MaxUsers = 2
  MaxLag = 1
  MaxUserId = 2
  MaxTime = 9
SYMMETRY Symmetry
INVARIANT
  SignedOutStaysOut
  IdleSessionsExpire
  ActiveSessionsSurvive
  OneUserPerLogin
