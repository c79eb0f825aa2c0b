SPECIFICATION CodesSpec
CONSTANTS
  Workers = {w1, w2}
  Logins = {l1, l2}
  Tokens = {t1, t2, t3}
  Devices = {d1}
  MaxPassword = 3
  NoToken = NoToken
  NoLogin = NoLogin
  NoDevice = NoDevice
  NotStarted = NotStarted
  Ended = Ended
  MaxCodes = 3
  MaxAttempts = 2
  MaxRequestsPerHour = 2
  Situations <- MCSituations
SYMMETRY Symmetry
INVARIANTS
  TypeOK
  TokensProvePassword
  OneRowPerLogin
  ResendingDoesNotMultiply
  CodesWearOut
PROPERTIES
  DeadTokensStayDead
  ImplementsSessions
CHECK_DEADLOCK FALSE
