SPECIFICATION Spec
CONSTANTS
  a = a
  b = b
  c = c
  k1 = k1
  k2 = k2
  n1 = n1
  n2 = n2
  NoPerson = NoPerson
  NoKey = NoKey
  NoVersion = NoVersion
  Persons = {a, b, c}
  Notes = {n1}
  Keys = {k1}
  KeyPerson <- PhotosOfA
  Workers = {w1}
  Kinds = {"create", "update", "delete", "restore", "photo", "unphoto", "recompute"}
  InitialTrees <- ParentAndChild
  MaxPersons = 3
  MaxBatch = 1
  MaxRequests = 3
INVARIANTS
  NoParentCycle
  NoPointerToDeleted
  PhotoObjectExists
PROPERTIES
  ReplacedIsRecorded
  GenerationsKept
CHECK_DEADLOCK FALSE
