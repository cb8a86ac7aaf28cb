------------------------------ MODULE MCEscrow ------------------------------
(* Escrow on a small instance: three parties, so that a commit can send to   *)
(* somebody who staged nothing and an item delivered can be passed on.       *)
EXTENDS Escrow, TLC
CONSTANTS a, b, c, sword, ring

MCInitOwner == (sword :> a) @@ (ring :> b)
MCInitGold  == [p \in Party |-> IF p = b THEN 1 ELSE 0]

(* A swap between a and b, and a map that sends a's legs to c and has no
   destination for the other two. *)
MCDestMaps  == {(a :> b) @@ (b :> a) @@ (c :> NoParty),
                [p \in Party |-> IF p = a THEN c ELSE NoParty]}
==============================================================================
