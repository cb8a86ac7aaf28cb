SPECIFICATION Spec
CONSTANTS
  chat = chat  tell1 = tell1  tell2 = tell2
  Message = {chat, tell1, tell2}
  Prio <- MCPrio
  Login = {s1, s2}
  Cap = 2
  NoEntry = NoEntry  NoSnap = NoSnap
  Envs <- MCEnvs
INVARIANTS NotifyTypeOK OfflineKept Kept
SYMMETRY MCSym
CHECK_DEADLOCK FALSE
