\* Two policies under three requests; any one or two of seventeen policies; two
\* checks of a client; two calls through the wrapper; two tools behind the proxy;
\* a repository and two workers.
SPECIFICATION Spec
CONSTANTS
  Begins <- MCBegins
  Conditions <- MCConditions
  Depth <- MCDepth
  Lists <- MCLists
  Shown <- MCShown
  Granted <- MCGranted
  Asked <- MCAsked
  Every = 2
  MaxAge = 3
  PolicyIds = {p1, p2}
  First = p1
  PolicySlugs = {s1, s2}
  Bindings = {b1, b2}
  Requests = {r1, r2, r3}
  Tools = {web}
  Calls = {c1, c2}
  ConfigTTL = 1
  DecisionTTL = 2
  Timeout = 1
  ModelTools = {t1, t2}
  MaxCalls = 3
  MaxAnswer = 2
  MaxChanges = 1
  Contexts = {plain, tainted}
  Verdicts <- MCVerdicts
  SdkTTL = 1
  ServiceTTL = 1
  Span = 1
  Attempts = 3
  Traffic <- MCTraffic
  Org = org
  Conns = {g1}
  Garbage = garbage
  MaxRestarts = 2
  None = None
SYMMETRY Symmetry
INVARIANTS PoliciesHold SidecarHolds GatesHold
PROPERTY NothingUnseen
CHECK_DEADLOCK FALSE
