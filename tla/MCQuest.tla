------------------------------- MODULE MCQuest -------------------------------
(* A run of two stages (go there; kill the ganger and collect the chip, both *)
(* put there for it), to be turned in, and a bounty for any kill, paid at    *)
(* once.                                                                      *)
EXTENDS QuestProgress, TLC
CONSTANTS run, bounty, visit, kill, chip, anykill, ganger, paydata

MCNeeds     == [q \in Quest |-> {}]
MCBars      == (run :> {}) @@ (bounty :> {run})
MCLastStage == (run :> 1) @@ (bounty :> 0)
MCStages    ==
  (run :> ((0 :> [objectives |-> {visit}, spawns |-> {}])
             @@ (1 :> [objectives |-> {kill, chip}, spawns |-> {ganger, paydata}])))
  @@ (bounty :> (0 :> [objectives |-> {anykill}, spawns |-> {}]))
MCWants  == (visit :> "moved") @@ (kill :> "killed") @@ (anykill :> "killed") @@ (chip :> "picked up")
MCMeets  == (ganger :> None) @@ (paydata :> chip)
MCEnvs   == {{"again", "broken"}, {"again", "disk"}, {"again", "crash"},
             {"overlap"}, {"saves", "gap"}, {"saves", "broken", "crash"}}

MCSymmetry == Permutations(Login)
==============================================================================
