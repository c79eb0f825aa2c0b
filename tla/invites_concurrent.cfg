SPECIFICATION FairSpec
CONSTANTS
  u1 = u1
  u2 = u2
  u3 = u3
  p1 = p1
  p2 = p2
  NoUser = NoUser
  NoPerson = NoPerson
  NoInvite = NoInvite
  Free = Free
  Keep = Keep
  Users = {u1, u2, u3}
  Workers = {w1, w2}
  Invites = {i1}
  Persons = {}
  Kinds = {"remove", "join", "create", "revoke", "approve", "reject"}
  InitialRosters <- InviteRosters
  Branch <- NoTree
  UseLimits = {1, 2}
  MaxOpen = 1
  MaxRequests = 4
  Mortals = {}
INVARIANTS
  UsesMatchAdmissions
PROPERTIES
  InviteDecidedOnce
  RequestsAnswered
CHECK_DEADLOCK FALSE
