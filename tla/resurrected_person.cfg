SPECIFICATION Spec
CONSTANTS
  a = a
  b = b
  c = c
  k1 = k1
  k2 = k2
  n1 = n1
  n2 = n2
  NoPerson = NoPerson
  NoKey = NoKey
  NoVersion = NoVersion
  Persons = {a, b}
  Notes = {n1, n2}
  Keys = {k1, k2}
  KeyPerson <- PhotosOfA
  Workers = {w1, w2}
  Kinds = {"photo", "delete", "restore"}
  InitialTrees <- TwoPersons
  MaxPersons = 3
  MaxBatch = 1
  MaxRequests = 3
PROPERTIES
  RestoreNeverUndeletes
CHECK_DEADLOCK FALSE
