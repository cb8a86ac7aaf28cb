SPECIFICATION SwapSpec
CONSTANTS
  a = a  b = b  c = c
  sword = sword  ring = ring
  NoParty = NoParty
  Party = {a, b, c}
  Item = {sword, ring}
  Txn = {t1, t2}
  Tradable = {sword, ring}
  InitOwner <- MCInitOwner
  InitGold <- MCInitGold
  DestMaps <- MCDestMaps
  RemovalChecked = FALSE
  CustodianFails = FALSE
  TickTakes = FALSE

PROPERTY ImplementsSwap
CHECK_DEADLOCK FALSE
