SPECIFICATION FairSpec
CONSTANTS
  seller = seller  buyer = buyer  admin = admin
  sword = sword
  None = None
  Player = {seller, buyer, admin}
  Admin = {admin}
  Item = {sword}
  Price = {2}
  Fee = 1
  CutPct = 50
  Cap = 1
  InitBag <- MCBag
  InitGold <- MCGold
  MaxId = 1
  MaxEra = 1
  MaxFault = 1
  Allowed = {"disk", "refund", "tick", "torn"}
INVARIANTS AuctionTypeOK CollectedOnce SurvivesCrash
PROPERTIES ImplementsMarket LapsedReturns
CHECK_DEADLOCK FALSE
