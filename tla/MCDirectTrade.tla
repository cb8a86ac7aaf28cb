--------------------------- MODULE MCDirectTrade ---------------------------
(* DirectTrade on small instances. *)
EXTENDS DirectTrade, TLC
CONSTANTS a, b, c, sword, ring

MCInitOwner == [i \in Item |-> IF i = sword THEN a ELSE b]
MCNoGold    == [p \in Party |-> 0]
MCInitGold  == [p \in Party |-> IF p = b THEN 1 ELSE 0]
==============================================================================
