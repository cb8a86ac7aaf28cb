------------------------------ MODULE MCAuction ------------------------------
(* A seller and two who may buy, one of them an administrator.             *)
EXTENDS AuctionHouse, TLC
CONSTANTS seller, buyer, admin, sword

MCBag == [p \in Player |-> IF p = seller THEN {sword} ELSE {}]
MCGold == [p \in Player |-> IF p = seller THEN 1 ELSE 3]
==============================================================================
