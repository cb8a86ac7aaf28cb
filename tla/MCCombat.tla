------------------------------ MODULE MCCombat ------------------------------
(* Two players, a mob that is spawned, and a thing it carries.             *)
EXTENDS Combat, TLC
CONSTANTS ann, bob, rat, tail

MCCarries == [i \in Item |-> rat]

MCPlays == {{"kill", "throw", "cast", "move"},
            {"subdue", "rob", "move"},
            {"subdue", "finish", "move"},
            {"kill", "loot", "autoloot", "move"},
            {"flee", "wimpy", "move", "quit"},
            {"kill", "throw", "subdue", "pvp", "quit"}}
==============================================================================
