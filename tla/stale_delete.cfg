SPECIFICATION Spec
CONSTANTS
  NoTarget = NoTarget
  NoVersion = NoVersion
  NoUser = NoUser
  NoProposal = NoProposal
  Proposed = {1}
  Users = {u1}
  Workers = {w1, w2}
  Persons = {p1}
  Marriages = {m1}
  Actions = {"create", "update", "delete"}
  MaxPending = 1
  MaxEdits = 1
PROPERTIES
  AppliedOnlyIfFresh
CHECK_DEADLOCK FALSE
