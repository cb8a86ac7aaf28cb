---------------------------- MODULE MCEscrowSwap ----------------------------
(* EscrowSwap on a small instance. *)
EXTENDS EscrowSwap, TLC
CONSTANTS a, b, c, sword, ring

MCInitOwner == (sword :> a) @@ (ring :> b)
MCInitGold  == [p \in Party |-> IF p = b THEN 1 ELSE 0]
MCDestMaps  == {(a :> b) @@ (b :> a) @@ (c :> NoParty),
                [p \in Party |-> IF p = a THEN c ELSE NoParty]}
==============================================================================
