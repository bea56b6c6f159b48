SPECIFICATION Spec
CONSTANTS
  Requests = {a1}
  Calls = {c1, c2}
  Channels = {"chat"}
PROPERTY TerminalIsFinal
