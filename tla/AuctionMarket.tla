---------------------------- MODULE AuctionMarket ----------------------------
(***************************************************************************)
(* What the auction house promises (docs/specs/auction-house.md, sections  *)
(* 3, 6, 7 and 11, and the comments of src/internal/auction): an item is   *)
(* with one player or in one deal, a deal is an offer of which at most one *)
(* buyer makes a sale, and a sale moves the item and the coin at once.     *)
(*                                                                         *)
(* There is no store and no command here, and a player's coin is his own   *)
(* wherever it waits. era counts restarts: at one, everything may change.  *)
(* Nothing is promised any more once something has gone wrong.             *)
(***************************************************************************)
EXTENDS Integers

CONSTANTS Player, Item, Id, Price, None, Fee, CutPct, InitBag, InitGold

VARIABLES
  has,     \* player -> the items with him
  wealth,  \* player -> the coin that is his
  deal,    \* id -> what is for sale, or sold, or over
  era, wrong

vars == <<has, wealth, deal, era, wrong>>

Cut(n) == (n * CutPct) \div 100
NoDeal == [st |-> "none", item |-> None, price |-> 0, seller |-> None, owner |-> None]

Init ==
  /\ has = InitBag
  /\ wealth = InitGold
  /\ deal = [d \in Id |-> NoDeal]
  /\ era = 0 /\ ~wrong

(* The fee is gone, whatever becomes of the offer. *)
List(p, i, d, n) ==
  /\ i \in has[p] /\ deal[d] = NoDeal /\ wealth[p] >= Fee
  /\ has' = [has EXCEPT ![p] = @ \ {i}]
  /\ wealth' = [wealth EXCEPT ![p] = @ - Fee]
  /\ deal' = [deal EXCEPT ![d] = [st |-> "offer", item |-> i, price |-> n, seller |-> p, owner |-> p]]

(* The one step of a sale: the item changes its owner and the coin moves,  *)
(* less the cut.                                                           *)
Sell(d, b) ==
  LET l == deal[d] IN
  /\ l.st = "offer" /\ b # l.seller /\ wealth[b] >= l.price
  /\ deal' = [deal EXCEPT ![d].st = "sale", ![d].owner = b]
  /\ wealth' = [wealth EXCEPT ![b] = @ - l.price, ![l.seller] = @ + l.price - Cut(l.price)]
  /\ UNCHANGED has

Withdraw(d) ==
  /\ deal[d].st = "offer"
  /\ deal' = [deal EXCEPT ![d].st = "over"]
  /\ UNCHANGED <<has, wealth>>

(* An administrator takes a sale back, with the cut. *)
Undo(d) ==
  LET l == deal[d] IN
  /\ l.st = "sale" /\ wealth[l.seller] >= l.price - Cut(l.price)
  /\ deal' = [deal EXCEPT ![d].st = "over", ![d].owner = l.seller]
  /\ wealth' = [p \in Player |-> wealth[p] + (IF p = l.owner THEN l.price ELSE 0)
                                - (IF p = l.seller THEN l.price - Cut(l.price) ELSE 0)]
  /\ UNCHANGED has

(* The owner, and nobody else, gets the item. *)
Deliver(d) ==
  LET l == deal[d] IN
  /\ l.st \in {"sale", "over"}
  /\ has' = [has EXCEPT ![l.owner] = @ \cup {l.item}]
  /\ deal' = [deal EXCEPT ![d] = [NoDeal EXCEPT !.st = "gone"]]
  /\ UNCHANGED wealth

Next ==
  \/ /\ UNCHANGED <<era, wrong>>
     /\ \/ \E p \in Player, i \in Item, d \in Id, n \in Price : List(p, i, d, n)
        \/ \E d \in Id, b \in Player : Sell(d, b)
        \/ \E d \in Id : Withdraw(d) \/ Undo(d) \/ Deliver(d)
  \/ era' # era \/ wrong'

Spec == Init /\ [][Next]_vars
==============================================================================
