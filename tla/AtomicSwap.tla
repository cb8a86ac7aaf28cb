----------------------------- MODULE AtomicSwap -----------------------------
(***************************************************************************)
(* What an escrow promises (docs/specs/trade-escrow.md, sections 2 to 4,   *)
(* and the comments of src/internal/escrow/escrow.go): staged value stays  *)
(* its owner's until the commit, a commit moves every leg in one step, and *)
(* anything else leaves everybody with what they had.                      *)
(*                                                                         *)
(* There are no bags and no custody here, only what belongs to whom and    *)
(* what is on offer. gifts flips when something changes hands outside a    *)
(* transaction, so that no step of a transaction can pass for a gift.      *)
(***************************************************************************)
EXTENDS Integers, Functions

CONSTANTS Party, Item, Txn, NoParty, InitOwner, InitGold, DestMaps

VARIABLES
  place,  \* item -> the party it belongs to
  purse,  \* party -> the coin that is its own, staged or not
  offer,  \* transaction -> items on offer
  bid,    \* transaction -> party -> coin on offer
  gifts

vars == <<place, purse, offer, bid, gifts>>

NoBid == [p \in Party |-> 0]

Init ==
  /\ place = InitOwner
  /\ purse = InitGold
  /\ offer = [t \in Txn |-> {}]
  /\ bid = [t \in Txn |-> NoBid]
  /\ gifts = 0

Free(i) == \A t \in Txn : i \notin offer[t]
Bids(p) == SumFunction([t \in Txn |-> bid[t][p]])

Offer(t, i) ==
  /\ Free(i)
  /\ offer' = [offer EXCEPT ![t] = @ \cup {i}]
  /\ UNCHANGED <<place, purse, bid, gifts>>

Retract(t, i) ==
  /\ i \in offer[t]
  /\ offer' = [offer EXCEPT ![t] = @ \ {i}]
  /\ UNCHANGED <<place, purse, bid, gifts>>

Bid(t, p, n) ==
  /\ n <= purse[p] - Bids(p)
  /\ bid' = [bid EXCEPT ![t][p] = @ + n]
  /\ UNCHANGED <<place, purse, offer, gifts>>

Unbid(t, p, n) ==
  /\ n <= bid[t][p]
  /\ bid' = [bid EXCEPT ![t][p] = @ - n]
  /\ UNCHANGED <<place, purse, offer, gifts>>

Clear(t) ==
  /\ offer' = [offer EXCEPT ![t] = {}]
  /\ bid' = [bid EXCEPT ![t] = NoBid]

(* The whole of a transaction moves at once. *)
Settle(t, d) ==
  /\ place' = [i \in Item |-> IF i \in offer[t] THEN d[place[i]] ELSE place[i]]
  /\ purse' = [p \in Party |-> purse[p] - bid[t][p]
                 + SumFunction([q \in Party |-> IF d[q] = p THEN bid[t][q] ELSE 0])]
  /\ Clear(t)
  /\ UNCHANGED gifts

Abandon(t) == Clear(t) /\ UNCHANGED <<place, purse, gifts>>

(* What is on offer cannot be given away. *)
GiveAway(i, q) ==
  /\ Free(i)
  /\ place' = [place EXCEPT ![i] = q]
  /\ gifts' = 1 - gifts
  /\ UNCHANGED <<purse, offer, bid>>

Next ==
  \/ \E t \in Txn, i \in Item : Offer(t, i) \/ Retract(t, i)
  \/ \E t \in Txn, p \in Party : \E n \in 1..purse[p] : Bid(t, p, n) \/ Unbid(t, p, n)
  \/ \E t \in Txn, d \in DestMaps : Settle(t, d)
  \/ \E t \in Txn : Abandon(t)
  \/ \E i \in Item, q \in Party : GiveAway(i, q)

Spec == Init /\ [][Next]_vars
==============================================================================
