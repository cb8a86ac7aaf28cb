SPECIFICATION FairSpec
CONSTANTS
  ann = ann  bob = bob  rat = rat  tail = tail
  Start = inn  Lair = cave
  Player = {ann, bob}
  Mob = {rat}
  Item = {tail}
  Room = {inn, cave}
  None = None  Nowhere = Nowhere  Tick = Tick
  Carries <- MCCarries
  InitMob = {}
  Population = 1
  Plays <- MCPlays
INVARIANTS CombatTypeOK OneDeath LootOnce
PROPERTY GoneLeaveFights
CHECK_DEADLOCK FALSE
