SPECIFICATION Spec
CONSTANTS
  Conn = {c1, c2, c3}
  None = None
  Tick = Tick
  Change = {1, 2}
  Allowed = {"stale"}
INVARIANT OneLive
