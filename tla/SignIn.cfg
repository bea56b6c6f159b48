\* One user's sessions; two users, two identity providers, one login through a
\* connection while three calls change it; two tabs.  Two calls at a time.
SPECIFICATION Spec
CONSTANTS
  Users = {user}
  Calls = {c1, c2}
  Uris = {x, y}
  MaxSessions = 3
  MaxTokens = 2
  o1 = o1
  Orgs = {o1, o2}
  u1 = u1
  u2 = u2
  i1 = i1
  i2 = i2
  d1 = d1
  Slots = {s1, s2}
  MaxChanges = 3
  MaxLogins = 1
  Tabs = {t1, t2}
  Reqs = {q1, q2}
  MaxIssued = 3
  MaxSends = 3
  None = None
  Gone = Gone
SYMMETRY Symmetry
INVARIANTS SessionsHold ProvidersHold BrowserHolds
PROPERTY SettingsStick
CHECK_DEADLOCK FALSE
