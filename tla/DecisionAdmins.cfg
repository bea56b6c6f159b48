SPECIFICATION Spec
CONSTANTS
  Agents = {a1}
  Users = {u1}
  Autonomous = autonomous
  Requests = {r1}
  Policies <- AllPolicies
  RoleScopes <- MaybeGranting
  SeatScopes <- MaybeMember
  JitScopes <- Granting
  Roles = {ro1}
  NoRole = norole
  AdminActs = {"policy", "scopes"}
  TTL = 1
  Span = 1
INVARIANTS PolicyBounded RevocationBounded
