\* Three reviews of one request, in chat and from MCP clients; two administrators
\* change how one request is announced; two chains that are verified while they are
\* appended to and tampered with.
\* Reviews end, changes and runs are bounded: no deadlock check.
SPECIFICATION MCSpec
CONSTANTS
  Requests = {a1}
  Calls = {c1, c2, c3}
  Channels = {"chat", "mcp"}
  Announced = {b1}
  Admins = {m1, m2}
  k1 = k1
  k2 = k2
  Global = global
  MaxChanges = 3
  Orgs = {o1, o2}
  Events = {allow, deny}
  Alert = alert
  MaxRows = 3
  MaxTampers = 2
  MaxRuns = 1
  None = None
SYMMETRY Symmetry
INVARIANTS TypeOK TrailIsTruth AnswerIsRecorded AnnouncementsHold BreaksAreTold
PROPERTY SecondNeedsOverlap
CHECK_DEADLOCK FALSE
