SPECIFICATION Spec
CONSTANTS
  Agents = {a1}
  Users = {u1, u2}
  Autonomous = autonomous
  Requests = {r1}
  Policies <- AllowPolicy
  RoleScopes <- Granting
  SeatScopes <- Member
  JitScopes <- MaybeGranting
  Roles = {ro1}
  NoRole = norole
  AdminActs = {}
  TTL = 1
  Span = 0
INVARIANT NonEscalation
