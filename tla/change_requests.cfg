SPECIFICATION FairSpec
CONSTANTS
  NoTarget = NoTarget
  NoVersion = NoVersion
  NoUser = NoUser
  NoProposal = NoProposal
  Proposed = {1, 2}
  Users = {u1}
  Workers = {w1, w2}
  Persons = {p1}
  Marriages = {}
  Actions = {"update", "delete"}
  MaxPending = 1
  MaxEdits = 1
PROPERTIES
  ImplementsProposals
  UpdatedOnlyIfFresh
  EveryProposalCloses
CHECK_DEADLOCK FALSE
