SPECIFICATION Spec
CONSTANTS
  alice = alice
  bob = bob
  a = a
  b = b
  Users = {alice, bob}
  Sessions = {a, b}
  UserOf <- MCUserOf
  Requests = {q1, q2}
  NoRequest = NoRequest
  Limits = {1, 3}
  MaxBegun = 5
  MaxRestarts = 1
SYMMETRY Symmetry
CHECK_DEADLOCK FALSE
INVARIANTS ProcessFollowsRow OneOwner
PROPERTIES LoggedOutForGood OnlyMembersAct
