SPECIFICATION Spec
CONSTANTS
  Ann = Ann
  Binh = Binh
  TokenA = TokenA
  TokenB = TokenB
  Grandfather = Grandfather
  Father = Father
  Child = Child
  A1 = A1
  A2 = A2
  R1 = R1
  R2 = R2
  Users = {Ann, Binh}
  Tokens = {TokenA, TokenB}
  NoUser = NoUser
  Persons = {Grandfather, Father, Child}
  Parents <- MCParents
  DeathOf <- MCDeathOf
  Appts = {A1, A2}
  Runs = {R1, R2}
  Scenarios <- MCScenarios
  Unbound = Unbound
  NotMember = NotMember
  FirstMoon = 1518
  Moons <- MCMoons
  Sectors <- MCSectors
  MinYear = 2025
  MaxYear = 2026
INVARIANTS
  RemindedOnce
  PushesReachTheirAudience
  LunarDatesAdvance
  GioKeepsItsLunarDay
PROPERTIES
  DueRemindersGoOut
CHECK_DEADLOCK FALSE
