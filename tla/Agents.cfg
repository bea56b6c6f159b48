\* Two handlers at a time, three guardrail events, one identity at Okta; two agents
\* that delegate; three credentials; two roles and two assignments;
\* two requests on a setting of each kind.
SPECIFICATION Spec
CONSTANTS
  Agents = {a1, a2, a3}
  Manual = {a1}
  Idents = {i1}
  Roles = {role}
  r1 = r1
  r2 = r2
  Rules = {r1, r2}
  Calls = {c1, c2}
  MaxEvents = 3
  Parties = {x1, x2}
  MaxDepth = 2
  Creds = {k1, k2, k3}
  Requests = {q1, q2, q3}
  Listed = {a1}
  RoleIds = {m1, m2}
  Slugs = {s1}
  Scopes = {p1, p2}
  Users = {u1}
  Asgs = {n1, n2}
  MaxOps = 5
  Integrations = {g1}
  Tools = {t1}
  Servers = {v1}
  MaxChanges = 3
  None = None
SYMMETRY Symmetry
INVARIANTS AgentsHold HeldRightsExplained RegistryHolds
PROPERTY DenyAndRiskStay
CHECK_DEADLOCK FALSE
