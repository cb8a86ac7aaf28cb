SPECIFICATION FairSpec
CONSTANTS
  a = a  b = b  c = c
  sword = sword  ring = ring
  NoParty = NoParty
  Party = {a, b, c}
  Item = {sword, ring}
  Txn = {t1, t2}
  Tradable = {sword, ring}
  InitOwner <- MCInitOwner
  InitGold <- MCInitGold
  DestMaps <- MCDestMaps
  RemovalChecked = TRUE
  CustodianFails = TRUE
  TickTakes = TRUE
INVARIANTS TypeOK OnePlace CoinConserved UnwindKeepsCoin AuditExact
PROPERTY CommitTerminates
CHECK_DEADLOCK FALSE
