SPECIFICATION Spec
CONSTANTS
  Agents = {a1}
  Users = {u1}
  Autonomous = autonomous
  Requests = {r1, r2}
  Policies <- KillPolicies
  RoleScopes <- Granting
  SeatScopes <- Member
  JitScopes <- Granting
  Roles = {ro1}
  NoRole = norole
  AdminActs = {"kill"}
  TTL = 2
  Span = 1
SYMMETRY RequestSymmetry
INVARIANTS TypeOK KillBounded ApprovalBacked ComputedIsRecorded
