----------------------------- MODULE EscrowSwap -----------------------------
(***************************************************************************)
(* The escrow over the custodian of src/internal/trade implements          *)
(* AtomicSwap, although it moves one leg at a time while the parties act.  *)
(* A commit takes effect where no subscriber has vetoed it: from there on  *)
(* each leg belongs to its destination. A rollback takes effect where it   *)
(* starts: from there on nothing is on offer.                              *)
(*                                                                         *)
(* gifts is a history variable: it flips on every step of the rest of the  *)
(* game, and the escrow neither reads nor writes it.                       *)
(***************************************************************************)
EXTENDS Escrow

VARIABLE gifts
swapVars == <<vars, gifts>>

SwapInit == Init /\ gifts = 0

SwapNext ==
  \/ World /\ gifts' = 1 - gifts
  \/ UNCHANGED gifts /\ \E t \in Txn : Operate(t) \/ Finish(t)

SwapSpec == SwapInit /\ [][SwapNext]_swapVars

Heir(t, p) == IF phase[t] = "delivering" THEN dest[t][p] ELSE p

BelongsTo(i) ==
  IF \E t \in Txn : i \in InCustody(t)
  THEN LET t == CHOOSE u \in Txn : i \in InCustody(u) IN Heir(t, owner[t][i])
  ELSE CHOOSE p \in Party : i \in bag[p]

(* The coin in t that is p's, and all that is p's. *)
Share(t, p) == [q \in Party |-> IF Heir(t, q) = p THEN coin[t][q] ELSE 0]
Own(p) == gold[p] + SumFunction([t \in Txn |-> SumFunction(Share(t, p))])

OnOffer(t) == IF phase[t] = "open" THEN ItemLegs(t) ELSE {}
CoinOnOffer(t) == IF phase[t] = "open" THEN coin[t] ELSE NoLegs.coin

Swap == INSTANCE AtomicSwap WITH
          place <- [i \in Item |-> BelongsTo(i)],
          purse <- [p \in Party |-> Own(p)],
          offer <- [t \in Txn |-> OnOffer(t)],
          bid   <- [t \in Txn |-> CoinOnOffer(t)]

(* Nothing is ever seen half swapped, lost or invented by whoever asks what
   belongs to whom: the leg-by-leg commit, the withdrawals, the veto and the
   rollback of the code are the single steps of AtomicSwap. *)
ImplementsSwap == Swap!Spec
==============================================================================
