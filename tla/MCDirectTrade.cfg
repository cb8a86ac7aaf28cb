SPECIFICATION TradeSpec
CONSTANTS
  a = a  b = b  c = c
  sword = sword  ring = ring
  NoParty = NoParty  NoTxn = NoTxn
  Party = {a, b}
  Item = {sword, ring}
  Txn = {t1, t2}
  Room = {square, inn}
  Tradable = {sword, ring}
  DestMaps = {}
  InitOwner <- MCInitOwner
  InitGold <- MCInitGold
  RemovalChecked = FALSE
  CustodianFails = FALSE
  TickTakes = FALSE
  TickMoves = FALSE
INVARIANTS TradeTypeOK OffersShownExactly SameRoom
PROPERTY SwapOnConfirmedPair
CHECK_DEADLOCK FALSE
