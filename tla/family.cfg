SPECIFICATION MCSpec
CONSTANTS
  An = An
  Binh = Binh
  Chi = Chi
  Old = Old
  New = New
  Users = {An, Binh, Chi}
  Owner = An
  Clerks = {K1, K2}
  Clans = {"C", "D", "N"}
  Values = {Old, New}
  MaxPersons = 7
  MaxMarriages = 3
  MaxOrder = 1
  Statuses = {"dang_ket_hon", "ly_hon"}
  BirthOrders = {1, 2, 3}
  MaxKin = 4
  FAMILY_MAX_PERSONS = 4
  Relaters = {R1, R2}
  RawTrees <- MCRawTrees
  MaxLinks = 5
  MaxPairs = 1
  Edits <- MCEdits
  Scenes <- MCScenes
  PublicClan = "C"
  MAX_CLAN_PERSONS = 2
  NameOf <- MCNameOf
  DeathFacts <- MCDeathFacts
  Tabs = {T1, T2}
  MaxCalls = 5
INVARIANTS
  KinshipMatchesTree
  HedgesAreHonest
  WivesInOrder
  FamilyIsAcyclic
  EndedLinkStaysDead
  LivingStayHidden
PROPERTIES
  MarriageAddsOnlyNewcomers
  NoSilentReplacement
  TreeKeepsWhatItShowed
CHECK_DEADLOCK FALSE
