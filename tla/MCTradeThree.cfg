SPECIFICATION FairTradeSpec
CONSTANTS
  a = a  b = b  c = c
  sword = sword  ring = ring
  NoParty = NoParty  NoTxn = NoTxn
  Party = {a, b, c}
  Item = {}
  Txn = {t1, t2}
  Room = {square}
  Tradable = {}
  DestMaps = {}
  InitOwner <- MCInitOwner
  InitGold <- MCNoGold
  RemovalChecked = FALSE
  CustodianFails = FALSE
  TickTakes = FALSE
  TickMoves = FALSE
INVARIANTS OneTradeEach
CHECK_DEADLOCK FALSE
PROPERTY LeavingEndsTrade
