\* Two grants with an administrator and the cron job; two workers on two events,
\* and on one that is replayed; two endpoints, one change and two callers.
SPECIFICATION Spec
CONSTANTS
  Grants = {g1, g2}
  Admins = {a1}
  Cron = cron
  Expirers = {cron, a1}
  MaxTrouble = 2
  Rows = {1, 2}
  Workers = {w1, w2}
  BatchSize = 2
  MaxAttempts = 2
  MaxReplays = 2
  MaxAborts = 1
  Endpoints = {e1, e2}
  Changes = {k1}
  Clients = {c1, c2}
  MaxSecrets = 3
  None = None
INVARIANTS GrantsAreTrailed DeliveriesExplained
PROPERTIES EndsAgainOnlyByOverlap OverdueEnds EveryEventSettles
CHECK_DEADLOCK FALSE
