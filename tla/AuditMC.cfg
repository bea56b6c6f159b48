\* Three writers and a poller; a feed, a list and a summary of five rows.
\* The log stops at MaxRows, which bounds the model: no deadlock check.
SPECIFICATION MCSpec
CONSTANTS
  Writers = {w1, w2, w3}
  Events = {allow, deny}
  MaxRows = 3
  PageSize = 1
  Kinds = {"decision", "other"}
  ReadRows = 5
  BatchSize = 2
  PageOfConsole = 2
  MaxDrops = 1
  None = None
INVARIANTS TypeOK ChainIntact CursorMissesNothing ReadersSeeTheLog
PROPERTIES ImplementsChain EveryAppendEnds EveryEventPolled FeedCatchesUp
CHECK_DEADLOCK FALSE
