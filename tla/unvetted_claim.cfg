SPECIFICATION Spec
CONSTANTS
  u1 = u1
  u2 = u2
  u3 = u3
  p1 = p1
  p2 = p2
  NoUser = NoUser
  NoPerson = NoPerson
  NoInvite = NoInvite
  Free = Free
  Keep = Keep
  Users = {u1, u2, u3}
  Workers = {w1, w2}
  Invites = {i1}
  Persons = {p1, p2}
  Kinds = {"bind", "verify"}
  InitialRosters <- ClaimRosters
  Branch <- ParentAndChild
  UseLimits = {0}
  MaxOpen = 1
  MaxRequests = 2
  Mortals = {p2}
INVARIANTS
  VerifiedOnlyIfVetted
CHECK_DEADLOCK FALSE
