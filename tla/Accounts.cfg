\* Three people, two free seats and two invites; a subscription with five events of
\* Stripe, one of them sent twice.  Two calls at a time.
SPECIFICATION Spec
CONSTANTS
  Users = {u1, u2, u3}
  Founder = u1
  Calls = {c1, c2}
  Names = {n1, n2}
  Scopes = {s1, s2}
  SeatsIncluded = 2
  MaxInvites = 2
  MaxOrgs = 3
  MaxKeys = 1
  Included = 1
  MaxEvents = 5
  MaxAgain = 1
  MaxUsage = 3
  MaxPaid = 2
  MaxPeriods = 2
  MaxBilled = 3
  None = None
SYMMETRY Symmetry
INVARIANTS MembersExplained BillsExplained
PROPERTY TrialEndsQuietly
CHECK_DEADLOCK FALSE
