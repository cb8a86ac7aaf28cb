SPECIFICATION FairSpec
CONSTANTS
  Conn = {c1, c2}
  None = None
  Tick = Tick
  Change = {1}
  Allowed = {"overlap", "stale", "menu", "saves", "late", "disk", "crash"}
INVARIANT OneWinner
PROPERTY LinkDeadEnds
