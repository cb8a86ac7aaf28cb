------------------------------- MODULE Escrow -------------------------------
(***************************************************************************)
(* The escrow transaction of src/internal/escrow together with the         *)
(* custodian of src/internal/trade that moves the value for it.            *)
(*                                                                         *)
(* A party's bag and purse are guarded by the party's own lock, so each    *)
(* custodian call is one atomic step, but a commit, a rollback and an      *)
(* unwind are loops of such calls: other goroutines act between two legs.  *)
(* The transaction mutex is held across the whole of Commit and Rollback,  *)
(* which is why every other operation needs phase "open".                  *)
(*                                                                         *)
(* Two legs of the same kind are handled in any order (the code takes them *)
(* in staging order); items always go before coin, as in the code.         *)
(***************************************************************************)
EXTENDS Integers, Functions

CONSTANTS
  Party,          \* everybody who can hold value
  Item,           \* item instances
  Txn,            \* transactions
  NoParty,        \* "nobody"
  Tradable,       \* the items the tradability rule admits
  InitOwner,      \* who holds each item at first
  InitGold,       \* each party's purse at first
  DestMaps,       \* the destination maps callers commit with
  RemovalChecked, \* does StageItem fail when the item it removes has gone?
  CustodianFails, \* may DeliverItem / ReturnItem fail, as the contract allows?
  TickTakes       \* may the tick goroutine consume from a bag meanwhile?

ASSUME EscrowAssumption ==
  /\ NoParty \notin Party
  /\ Tradable \subseteq Item
  /\ InitOwner \in [Item -> Party]
  /\ InitGold \in [Party -> Nat]
  /\ DestMaps \subseteq [Party -> Party \cup {NoParty}]
  /\ RemovalChecked \in BOOLEAN
  /\ CustodianFails \in BOOLEAN
  /\ TickTakes \in BOOLEAN

VARIABLES
  bag,        \* party -> items in its reach
  gold,       \* party -> coin in its purse
  phase,      \* transaction -> where it stands
  staging,    \* transaction -> item a StageItem call has checked, not removed
  owner,      \* transaction -> item -> staging party of its leg, if any
  coin,       \* transaction -> party -> amount of its coin leg (0: none)
  dest,       \* transaction -> destination map of the running commit
  delivered,  \* transaction -> items the commit has put in a bag
  record,     \* transaction -> the legs as published when the commit began
  audit,      \* transactions recorded in the audit log, with their legs
  stranded,   \* items a failed ReturnItem left in nobody's bag
  consumed    \* items the game used up

legVars   == <<staging, owner, coin, dest, delivered, record>>
worldVars == <<audit, stranded, consumed>>
vars      == <<bag, gold, phase, legVars, worldVars>>

Phase == {"open", "delivering", "unwinding", "returning", "committed", "aborted"}
NoLegs == [item |-> [i \in Item |-> NoParty], coin |-> [p \in Party |-> 0]]
NoDest == [p \in Party |-> NoParty]
NoStage == <<NoParty, NoParty>>

Init ==
  /\ bag = [p \in Party |-> {i \in Item : InitOwner[i] = p}]
  /\ gold = InitGold
  /\ phase = [t \in Txn |-> "open"]
  /\ staging = [t \in Txn |-> NoStage]
  /\ owner = [t \in Txn |-> NoLegs.item]
  /\ coin = [t \in Txn |-> NoLegs.coin]
  /\ dest = [t \in Txn |-> NoDest]
  /\ delivered = [t \in Txn |-> {}]
  /\ record = [t \in Txn |-> NoLegs]
  /\ audit = {}
  /\ stranded = {}
  /\ consumed = {}

------------------------------------------------------------------------------
(* Who is doing what *)

ItemLegs(t) == {i \in Item : owner[t][i] # NoParty}
CoinLegs(t) == {p \in Party : coin[t][p] > 0}
InCustody(t) == ItemLegs(t) \ delivered[t]
Staged(t) == {owner[t][i] : i \in ItemLegs(t)} \cup CoinLegs(t)

(* A party runs its commands one at a time: none while a StageItem of its
   own is between its check and its removal. *)
Idle(p) == \A t \in Txn : staging[t][1] # p

(* Mutant of Live: the mutex is not held across the commit, so a withdrawal
   or a rollback can fall between two legs. *)
LiveWhileDelivering(t) == phase[t] \in {"open", "delivering"} /\ staging[t] = NoStage

(* The mutex of t is free. *)
Live(t) == phase[t] = "open" /\ staging[t] = NoStage

Take(p, i) == [bag EXCEPT ![p] = @ \ {i}]
Add(p, i)  == [bag EXCEPT ![p] = @ \cup {i}]

------------------------------------------------------------------------------
(* Staging and withdrawing *)

(* StageItem up to the custodian's check that the party holds the item and
   that it is tradable. *)
StageCheck(t, p, i) ==
  /\ Live(t) /\ Idle(p)
  /\ owner[t][i] = NoParty          \* else ErrAlreadyStaged
  /\ i \in bag[p]                   \* else ErrItemGone
  /\ i \in Tradable                 \* else ErrItemBound
  /\ staging' = [staging EXCEPT ![t] = <<p, i>>]
  /\ UNCHANGED <<bag, gold, phase, owner, coin, dest, delivered, record, worldVars>>

(* Mutant of StageRemove: an item that has gone is staged all the same. *)
StageRemoveBlind(t) ==
  /\ staging[t] # NoStage
  /\ bag' = Take(staging[t][1], staging[t][2])
  /\ owner' = [owner EXCEPT ![t][staging[t][2]] = staging[t][1]]
  /\ staging' = [staging EXCEPT ![t] = NoStage]
  /\ UNCHANGED <<gold, phase, coin, dest, delivered, record, worldVars>>

(* The rest of StageItem: the custodian removes the item. The contract of
   escrow.Custodian is to report one that has gone; trade's custodian does
   not look (RemovalChecked = FALSE). *)
StageRemove(t) ==
  /\ staging[t] # NoStage
  /\ LET p == staging[t][1]
         i == staging[t][2]
     IN /\ bag' = Take(p, i)
        /\ owner' = IF RemovalChecked /\ i \notin bag[p]
                      THEN owner
                      ELSE [owner EXCEPT ![t][i] = p]
  /\ staging' = [staging EXCEPT ![t] = NoStage]
  /\ UNCHANGED <<gold, phase, coin, dest, delivered, record, worldVars>>

(* Mutant of StageCoin: the reserve does not check the purse. *)
StageCoinUnchecked(t, p, n) ==
  /\ Live(t) /\ Idle(p)
  /\ gold' = [gold EXCEPT ![p] = @ - n]
  /\ coin' = [coin EXCEPT ![t][p] = @ + n]
  /\ UNCHANGED <<bag, phase, staging, owner, dest, delivered, record, worldVars>>

StageCoin(t, p, n) ==
  /\ Live(t) /\ Idle(p)
  /\ n > 0 /\ n <= gold[p]          \* else a no-op, or ErrInsufficientCoin
  /\ gold' = [gold EXCEPT ![p] = @ - n]
  /\ coin' = [coin EXCEPT ![t][p] = @ + n]
  /\ UNCHANGED <<bag, phase, staging, owner, dest, delivered, record, worldVars>>

WithdrawItem(t, p, i) ==
  /\ Live(t)
  /\ p \in Party /\ owner[t][i] = p \* else ErrNotStaged
  /\ bag' = Add(p, i)
  /\ owner' = [owner EXCEPT ![t][i] = NoParty]
  /\ UNCHANGED <<gold, phase, staging, coin, dest, delivered, record, worldVars>>

(* Mutant of WithdrawCoin: the purse is credited before the clamp. *)
WithdrawCoinUnclamped(t, p, n) ==
  /\ Live(t)
  /\ n > 0 /\ coin[t][p] > 0
  /\ gold' = [gold EXCEPT ![p] = @ + n]
  /\ coin' = [coin EXCEPT ![t][p] = IF n > @ THEN 0 ELSE @ - n]
  /\ UNCHANGED <<bag, phase, staging, owner, dest, delivered, record, worldVars>>

WithdrawCoin(t, p, n) ==
  /\ Live(t)
  /\ n > 0 /\ coin[t][p] > 0        \* else a no-op, or ErrNotStaged
  /\ LET back == IF n > coin[t][p] THEN coin[t][p] ELSE n
     IN /\ gold' = [gold EXCEPT ![p] = @ + back]
        /\ coin' = [coin EXCEPT ![t][p] = @ - back]
  /\ UNCHANGED <<bag, phase, staging, owner, dest, delivered, record, worldVars>>

------------------------------------------------------------------------------
(* Commit *)

(* Commit's checks, with d the destination map; ErrNoDestination leaves the
   transaction as it was, so a commit that lacks a destination is no step. *)
CommitReady(t, d) ==
  /\ Live(t)
  /\ \A p \in Staged(t) : d[p] # NoParty

(* Commit returns: its destination map and its list of bus legs are gone. *)
Forget(t) ==
  /\ dest' = [dest EXCEPT ![t] = NoDest]
  /\ record' = [record EXCEPT ![t] = NoLegs]

(* No subscriber vetoes the pre-event: delivery starts. *)
CommitBegin(t, d) ==
  /\ CommitReady(t, d)
  /\ phase' = [phase EXCEPT ![t] = "delivering"]
  /\ dest' = [dest EXCEPT ![t] = d]
  /\ record' = [record EXCEPT ![t] = [item |-> owner[t], coin |-> coin[t]]]
  /\ UNCHANGED <<bag, gold, staging, owner, coin, delivered, worldVars>>

(* A subscriber vetoes: everybody gets back what they staged. *)
CommitVetoed(t, d) ==
  /\ CommitReady(t, d)
  /\ phase' = [phase EXCEPT ![t] = "returning"]
  /\ UNCHANGED <<bag, gold, legVars, worldVars>>

DeliverItem(t, i) ==
  /\ phase[t] = "delivering"
  /\ i \in InCustody(t)
  /\ bag' = Add(dest[t][owner[t][i]], i)
  /\ delivered' = [delivered EXCEPT ![t] = @ \cup {i}]
  /\ UNCHANGED <<gold, phase, staging, owner, coin, dest, record, worldVars>>

DeliverItemFails(t) ==
  /\ CustodianFails
  /\ phase[t] = "delivering"
  /\ InCustody(t) # {}
  /\ phase' = [phase EXCEPT ![t] = "unwinding"]
  /\ UNCHANGED <<bag, gold, legVars, worldVars>>

(* Mutant of DeliverCoin: the legs are delivered in staging order, so coin
   may go before an item. *)
DeliverCoinInOrder(t, p) ==
  /\ phase[t] = "delivering"
  /\ p \in CoinLegs(t)
  /\ gold' = [gold EXCEPT ![dest[t][p]] = @ + coin[t][p]]
  /\ coin' = [coin EXCEPT ![t][p] = 0]
  /\ UNCHANGED <<bag, phase, staging, owner, dest, delivered, record, worldVars>>

(* Coin moves only once every item has. *)
DeliverCoin(t, p) ==
  /\ phase[t] = "delivering"
  /\ InCustody(t) = {}
  /\ p \in CoinLegs(t)
  /\ gold' = [gold EXCEPT ![dest[t][p]] = @ + coin[t][p]]
  /\ coin' = [coin EXCEPT ![t][p] = 0]
  /\ UNCHANGED <<bag, phase, staging, owner, dest, delivered, record, worldVars>>

(* Mutant of CommitEnd: the end does not wait for the items. *)
CommitEndEarly(t, audited) ==
  /\ phase[t] = "delivering"
  /\ CoinLegs(t) = {}
  /\ phase' = [phase EXCEPT ![t] = "committed"]
  /\ owner' = [owner EXCEPT ![t] = NoLegs.item]
  /\ audit' = IF audited THEN audit \cup {<<t, record[t]>>} ELSE audit
  /\ Forget(t)
  /\ UNCHANGED <<bag, gold, staging, coin, delivered, stranded, consumed>>

(* The legs are dropped and the fact event published; the audit append may
   fail (ErrAuditFailed), which leaves the trade standing. *)
CommitEnd(t, audited) ==
  /\ phase[t] = "delivering"
  /\ InCustody(t) = {} /\ CoinLegs(t) = {}
  /\ phase' = [phase EXCEPT ![t] = "committed"]
  /\ owner' = [owner EXCEPT ![t] = NoLegs.item]
  /\ audit' = IF audited THEN audit \cup {<<t, record[t]>>} ELSE audit
  /\ Forget(t)
  /\ UNCHANGED <<bag, gold, staging, coin, delivered, stranded, consumed>>

------------------------------------------------------------------------------
(* Rollback and unwind *)

Rollback(t) ==
  /\ Live(t)                        \* a finalized transaction: no-op
  /\ phase' = [phase EXCEPT ![t] = "returning"]
  /\ UNCHANGED <<bag, gold, legVars, worldVars>>

Undoing(t) == phase[t] \in {"returning", "unwinding"}

(* Mutants of TakeBack: an item passed on is taken for recovered; the loop
   stops at an item passed on. *)
TakeBackBlind(t, i) ==
  /\ phase[t] = "unwinding"
  /\ i \in ItemLegs(t) \cap delivered[t]
  /\ bag' = Take(dest[t][owner[t][i]], i)
  /\ delivered' = [delivered EXCEPT ![t] = @ \ {i}]
  /\ UNCHANGED <<gold, phase, staging, owner, coin, dest, record, worldVars>>

TakeBackStops(t, i) == TakeBackBlind(t, i) /\ i \in bag[dest[t][owner[t][i]]]

(* TakeItem on an item already delivered. It comes back into custody, unless
   the destination has passed it on: then the leg is logged and dropped. *)
TakeBack(t, i) ==
  /\ phase[t] = "unwinding"
  /\ i \in ItemLegs(t) \cap delivered[t]
  /\ LET q == dest[t][owner[t][i]]
     IN IF i \in bag[q]
        THEN /\ bag' = Take(q, i)
             /\ UNCHANGED owner
        ELSE /\ owner' = [owner EXCEPT ![t][i] = NoParty]
             /\ UNCHANGED bag
  /\ delivered' = [delivered EXCEPT ![t] = @ \ {i}]
  /\ UNCHANGED <<gold, phase, staging, coin, dest, record, worldVars>>

ReturnItem(t, i) ==
  /\ Undoing(t)
  /\ i \in InCustody(t)
  /\ bag' = Add(owner[t][i], i)
  /\ owner' = [owner EXCEPT ![t][i] = NoParty]
  /\ UNCHANGED <<gold, phase, staging, coin, dest, delivered, record, worldVars>>

(* A failed return is logged, and the loop goes on. *)
ReturnItemFails(t, i) ==
  /\ CustodianFails
  /\ Undoing(t)
  /\ i \in InCustody(t)
  /\ stranded' = stranded \cup {i}
  /\ owner' = [owner EXCEPT ![t][i] = NoParty]
  /\ UNCHANGED <<bag, gold, phase, staging, coin, dest, delivered, record, audit, consumed>>

ReturnCoin(t, p) ==
  /\ Undoing(t)
  /\ phase[t] = "unwinding" => ItemLegs(t) = {}
  /\ p \in CoinLegs(t)
  /\ gold' = [gold EXCEPT ![p] = @ + coin[t][p]]
  /\ coin' = [coin EXCEPT ![t][p] = 0]
  /\ UNCHANGED <<bag, phase, staging, owner, dest, delivered, record, worldVars>>

UndoEnd(t) ==
  /\ Undoing(t)
  /\ ItemLegs(t) = {} /\ CoinLegs(t) = {}
  /\ phase' = [phase EXCEPT ![t] = "aborted"]
  /\ Forget(t)
  /\ UNCHANGED <<bag, gold, staging, owner, coin, delivered, worldVars>>

------------------------------------------------------------------------------
(* The rest of the game *)

(* give: out of one bag (checked) and into another. *)
Give(p, q, i) ==
  /\ Idle(p) /\ p # q
  /\ i \in bag[p]
  /\ bag' = [bag EXCEPT ![p] = @ \ {i}, ![q] = @ \cup {i}]
  /\ UNCHANGED <<gold, phase, legVars, worldVars>>

(* The tick goroutine uses an item up: a timed craft that consumes its
   inputs, a shot that consumes its ammunition. It waits for no command. *)
TickConsume(p, i) ==
  /\ TickTakes
  /\ i \in bag[p]
  /\ bag' = Take(p, i)
  /\ consumed' = consumed \cup {i}
  /\ UNCHANGED <<gold, phase, legVars, audit, stranded>>

------------------------------------------------------------------------------
(* One goroutine's work on a commit, a rollback or an unwind. *)
Finish(t) ==
  \/ \E i \in Item : \/ DeliverItem(t, i) \/ TakeBack(t, i)
                     \/ ReturnItem(t, i) \/ ReturnItemFails(t, i)
  \/ \E p \in Party : DeliverCoin(t, p) \/ ReturnCoin(t, p)
  \/ DeliverItemFails(t)
  \/ \E audited \in BOOLEAN : CommitEnd(t, audited)
  \/ UndoEnd(t)

Operate(t) ==
  \/ \E p \in Party, i \in Item : StageCheck(t, p, i) \/ WithdrawItem(t, p, i)
  \/ StageRemove(t)
  \/ \E p \in Party : \E n \in 1..(gold[p] + coin[t][p] + 1) :
        StageCoin(t, p, n) \/ WithdrawCoin(t, p, n)
  \/ \E d \in DestMaps : CommitBegin(t, d) \/ CommitVetoed(t, d)
  \/ Rollback(t)

World ==
  \/ \E p, q \in Party, i \in Item : Give(p, q, i)
  \/ \E p \in Party, i \in Item : TickConsume(p, i)

Next == World \/ \E t \in Txn : Operate(t) \/ Finish(t)

Spec == Init /\ [][Next]_vars

(* The goroutine that runs a commit or a rollback runs to its end. *)
FairSpec == Spec /\ \A t \in Txn : WF_vars(Finish(t)) /\ WF_vars(StageRemove(t))

------------------------------------------------------------------------------
(* Properties *)

TypeOK ==
  /\ bag \in [Party -> SUBSET Item]
  /\ gold \in [Party -> Nat]
  /\ phase \in [Txn -> Phase]
  /\ staging \in [Txn -> (Party \X Item) \cup {NoStage}]
  /\ owner \in [Txn -> [Item -> Party \cup {NoParty}]]
  /\ coin \in [Txn -> [Party -> Nat]]
  /\ dest \in [Txn -> [Party -> Party \cup {NoParty}]]
  /\ delivered \in [Txn -> SUBSET Item]
  /\ record \in [Txn -> [item : [Item -> Party \cup {NoParty}], coin : [Party -> Nat]]]
  /\ audit \subseteq
       Txn \X [item : [Item -> Party \cup {NoParty}], coin : [Party -> Nat]]
  /\ stranded \subseteq Item
  /\ consumed \subseteq Item

(* An item is in a bag, in the custody of a transaction, used up, or in the
   log of failed returns ... *)
Somewhere(i) == \/ \E p \in Party : i \in bag[p]
                \/ \E t \in Txn : i \in InCustody(t)
                \/ i \in stranded \/ i \in consumed

(* ... and in one of them only, one bag and one custody. *)
NotTwice(i) ==
  /\ \A p, q \in Party : i \in bag[p] /\ i \in bag[q] => p = q
  /\ \A t, u \in Txn : i \in InCustody(t) /\ i \in InCustody(u) => t = u
  /\ \A p \in Party, t \in Txn : ~(i \in bag[p] /\ i \in InCustody(t))
  /\ i \in stranded \/ i \in consumed =>
       /\ \A p \in Party : i \notin bag[p]
       /\ \A t \in Txn : i \notin InCustody(t)
  /\ ~(i \in stranded /\ i \in consumed)

(* Every item is in exactly one place, between any two legs of a commit, an
   unwind or a rollback: none is lost, and a staged item cannot be given,
   consumed or staged a second time. *)
OnePlace == \A i \in Item : Somewhere(i) /\ NotTwice(i)

(* Coin is neither made nor lost: purses and coin legs always add up to what
   there was, whatever is staged, withdrawn, delivered or returned. *)
CoinConserved ==
  SumFunction(gold) + SumFunction([t \in Txn |-> SumFunction(coin[t])])
    = SumFunction(InitGold)

(* "The unwind never has to reverse a coin credit": while it still deals
   with items, every coin leg is as large as it was when the commit began. *)
UnwindKeepsCoin ==
  \A t \in Txn : phase[t] = "unwinding" /\ ItemLegs(t) # {}
                    => coin[t] = record[t].coin

(* What the audit log says moved did move: only a committed transaction is
   in it, with the items its commit delivered. *)
AuditExact ==
  \A e \in audit : /\ phase[e[1]] = "committed"
                   /\ {i \in Item : e[2].item[i] # NoParty} = delivered[e[1]]

(* A commit that has begun comes to an end: it does not stay half done. *)
CommitTerminates ==
  \A t \in Txn : phase[t] = "delivering" ~> phase[t] \in {"committed", "aborted"}
==============================================================================
