SPECIFICATION Spec
CONSTANTS
  run = run  bounty = bounty
  visit = visit  kill = kill  chip = chip  anykill = anykill
  ganger = ganger  paydata = paydata
  Quest = {run, bounty}
  TurnInQuest = {run}
  Abandonable = {run}
  Repeatable = {}
  Needs <- MCNeeds
  Bars <- MCBars
  LastStage <- MCLastStage
  Stages <- MCStages
  Wants <- MCWants
  Meets <- MCMeets
  Cap = 1
  Login = {s1, s2}
  Tick = Tick
  None = None
  MaxCopies = 2
  Envs <- MCEnvs
SYMMETRY MCSymmetry
INVARIANTS QuestTypeOK PaidOnce SpawnsFit
CHECK_DEADLOCK FALSE
