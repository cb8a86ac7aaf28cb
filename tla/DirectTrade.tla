---------------------------- MODULE DirectTrade ----------------------------
(***************************************************************************)
(* Direct trade: src/internal/trade over the escrow, with the parts of the *)
(* `trade` verb (command/trade.go) and of the session lifecycle            *)
(* (session/session.go) that call it.                                      *)
(*                                                                         *)
(* The manager's mutex is held across a whole operation, commit included,  *)
(* so mgr says which operation holds it; the parties' other actions still  *)
(* interleave with the legs of a commit. The verb looks the partner up in  *)
(* the room before it takes the mutex, and a room change or a teardown     *)
(* calls CancelFor after it has happened: those are steps of their own.    *)
(***************************************************************************)
EXTENDS Escrow

CONSTANTS
  Room,
  NoTxn,      \* "no transaction"
  TickMoves   \* does the tick goroutine move players too (flee, summon)?

(* trade's custodian never fails to deliver or return, and does not look at
   the outcome of the removal when it stages an item. *)
ASSUME TradeAssumption ==
  /\ NoTxn \notin Txn
  /\ ~RemovalChecked /\ ~CustodianFails
  /\ TickMoves \in BOOLEAN

VARIABLES
  status,    \* player -> "in", "moving", "closing", "closed" or "out"
  room,      \* player -> where it is
  asked,     \* player -> whom its `trade` verb has found in the room
  typed,     \* player -> a `confirm` on its way: "no", "fresh" or "stale"
  pending,   \* player -> whom it has asked to trade
  partner,   \* player -> the other party of its session, if it has one
  txn,       \* player -> the transaction of its session
  items,     \* player -> its side of the offer, as both are shown it
  coins,     \* player -> the coin of its side
  confirmed, \* player -> has it confirmed the pair of offers?
  pair,      \* player -> the legs staged when its confirmation was taken
  used,      \* transactions handed out so far
  mgr        \* the operation that holds the manager's mutex

playerVars  == <<status, room, asked, typed>>
sessionVars == <<partner, txn, items, coins, confirmed, pair, used>>
escrowVars  == vars
tradeVars   == <<escrowVars, playerVars, pending, sessionVars, mgr>>

Status == {"in", "moving", "closing", "closed", "out"}
Unlocked == [op |-> "free", txn |-> NoTxn, by |-> NoParty]
NoPair == <<NoLegs.item, NoLegs.coin>>

TradeInit ==
  /\ Init
  /\ status = [p \in Party |-> "in"]
  /\ room \in [Party -> Room]
  /\ asked = [p \in Party |-> NoParty]
  /\ typed = [p \in Party |-> "no"]
  /\ pending = [p \in Party |-> NoParty]
  /\ partner = [p \in Party |-> NoParty]
  /\ txn = [p \in Party |-> NoTxn]
  /\ items = [p \in Party |-> {}]
  /\ coins = [p \in Party |-> 0]
  /\ confirmed = [p \in Party |-> FALSE]
  /\ pair = [p \in Party |-> NoPair]
  /\ used = {}
  /\ mgr = Unlocked

------------------------------------------------------------------------------
Trading(p) == partner[p] # NoParty
Sides(p) == {p, partner[p]}
Free == mgr = Unlocked

(* p's goroutine can start a command: it is not between two steps of one,
   and no earlier line of input waits. A player moved by the tick goroutine
   goes on typing. *)
Acting(p) == status[p] = "in" \/ (TickMoves /\ status[p] = "moving")
Busy(p) == mgr.by = p
Ready(p) == Acting(p) /\ ~Busy(p) /\ asked[p] = NoParty /\ typed[p] = "no"

Lock(op, p) == mgr' = [op |-> op, txn |-> txn[p], by |-> p]

(* An offer changed: both confirmations are cleared, and a `confirm` that is
   still on its way was typed against offers no longer there. *)
ClearConfirmations(p) ==
  /\ confirmed' = [q \in Party |-> IF q \in Sides(p) THEN FALSE ELSE confirmed[q]]
  /\ pair' = [q \in Party |-> IF q \in Sides(p) THEN NoPair ELSE pair[q]]

Changed(p) ==
  /\ ClearConfirmations(p)
  /\ typed' = [q \in Party |-> IF q \in Sides(p) /\ typed[q] = "fresh"
                               THEN "stale" ELSE typed[q]]

(* Mutant of ResetOffers: only the items are cleared. *)
ResetItemsOnly(p) ==
  /\ items' = [q \in Party |-> IF q \in Sides(p) THEN {} ELSE items[q]]
  /\ UNCHANGED coins

ResetOffers(p) ==
  /\ items' = [q \in Party |-> IF q \in Sides(p) THEN {} ELSE items[q]]
  /\ coins' = [q \in Party |-> IF q \in Sides(p) THEN 0 ELSE coins[q]]

(* removeLocked: the session leaves the index under both players. *)
Remove(p) ==
  /\ partner' = [q \in Party |-> IF q \in Sides(p) THEN NoParty ELSE partner[q]]
  /\ txn' = [q \in Party |-> IF q \in Sides(p) THEN NoTxn ELSE txn[q]]
  /\ ResetOffers(p) /\ ClearConfirmations(p)
  /\ UNCHANGED used

------------------------------------------------------------------------------
(* The `trade` verb: find the partner in the room, then Initiate. *)

TradeFind(p, q) ==
  /\ Ready(p)
  /\ p # q /\ status[q] # "out" /\ room[q] = room[p]
  /\ asked' = [asked EXCEPT ![p] = q]
  /\ UNCHANGED <<escrowVars, status, room, typed, pending, sessionVars, mgr>>

(* ErrAlreadyTrading and ErrPartnerBusy end the verb. *)
InitiateRefused(p) ==
  /\ asked[p] # NoParty /\ Free
  /\ Trading(p) \/ Trading(asked[p])
  /\ asked' = [asked EXCEPT ![p] = NoParty]
  /\ UNCHANGED <<escrowVars, status, room, typed, pending, sessionVars, mgr>>

(* The request path: the caller's one pending slot is overwritten. *)
InitiateRequest(p) ==
  /\ asked[p] # NoParty /\ Free
  /\ ~Trading(p) /\ ~Trading(asked[p])
  /\ pending[asked[p]] # p
  /\ pending' = [pending EXCEPT ![p] = asked[p]]
  /\ asked' = [asked EXCEPT ![p] = NoParty]
  /\ UNCHANGED <<escrowVars, status, room, typed, sessionVars, mgr>>

(* Mutant of InitiateAccept: no check that p is already trading. *)
InitiateAcceptBusy(p, t) ==
  /\ asked[p] # NoParty /\ Free
  /\ t \in Txn \ used
  /\ ~Trading(asked[p])
  /\ LET q == asked[p]
     IN /\ pending[q] = p
        /\ pending' = [pending EXCEPT ![p] = NoParty, ![q] = NoParty]
        /\ partner' = [partner EXCEPT ![p] = q, ![q] = p]
        /\ txn' = [txn EXCEPT ![p] = t, ![q] = t]
  /\ used' = used \cup {t}
  /\ asked' = [asked EXCEPT ![p] = NoParty]
  /\ UNCHANGED <<escrowVars, status, room, typed, items, coins, confirmed, pair, mgr>>

(* The accept path: the other one has asked already, so the session opens. *)
InitiateAccept(p, t) ==
  /\ asked[p] # NoParty /\ Free
  /\ t \in Txn \ used
  /\ ~Trading(p) /\ ~Trading(asked[p])
  /\ LET q == asked[p]
     IN /\ pending[q] = p
        /\ pending' = [pending EXCEPT ![p] = NoParty, ![q] = NoParty]
        /\ partner' = [partner EXCEPT ![p] = q, ![q] = p]
        /\ txn' = [txn EXCEPT ![p] = t, ![q] = t]
  /\ used' = used \cup {t}
  /\ asked' = [asked EXCEPT ![p] = NoParty]
  /\ UNCHANGED <<escrowVars, status, room, typed, items, coins, confirmed, pair, mgr>>

------------------------------------------------------------------------------
(* Offers *)

OfferItem(p, i) ==
  /\ Ready(p) /\ Free /\ Trading(p)
  /\ StageCheck(txn[p], p, i)
  /\ Lock("offer", p)
  /\ UNCHANGED <<playerVars, pending, sessionVars>>

OfferItemEnd(p, i) ==
  /\ mgr.op = "offer" /\ Busy(p)
  /\ staging[mgr.txn] = <<p, i>>
  /\ StageRemove(mgr.txn)
  /\ items' = [items EXCEPT ![p] = @ \cup {i}]
  /\ Changed(p)
  /\ mgr' = Unlocked
  /\ UNCHANGED <<status, room, asked, pending, partner, txn, coins, used>>

OfferCoin(p, n) ==
  /\ Ready(p) /\ Free /\ Trading(p)
  /\ StageCoin(txn[p], p, n)
  /\ coins' = [coins EXCEPT ![p] = @ + n]
  /\ Changed(p)
  /\ UNCHANGED <<status, room, asked, pending, partner, txn, items, used, mgr>>

(* Mutant of RescindItem: the confirmations stand. *)
RescindItemQuietly(p, i) ==
  /\ Ready(p) /\ Free /\ Trading(p)
  /\ i \in items[p]
  /\ WithdrawItem(txn[p], p, i)
  /\ items' = [items EXCEPT ![p] = @ \ {i}]
  /\ UNCHANGED <<playerVars, pending, partner, txn, coins, confirmed, pair, used, mgr>>

RescindItem(p, i) ==
  /\ Ready(p) /\ Free /\ Trading(p)
  /\ i \in items[p]                 \* else ErrNotInOffer
  /\ WithdrawItem(txn[p], p, i)
  /\ items' = [items EXCEPT ![p] = @ \ {i}]
  /\ Changed(p)
  /\ UNCHANGED <<status, room, asked, pending, partner, txn, coins, used, mgr>>

(* Mutant of RescindCoin: the mirror is not clamped. *)
RescindCoinUnclamped(p, n) ==
  /\ Ready(p) /\ Free /\ Trading(p)
  /\ coins[p] > 0
  /\ WithdrawCoin(txn[p], p, n)
  /\ coins' = [coins EXCEPT ![p] = @ - n]
  /\ Changed(p)
  /\ UNCHANGED <<status, room, asked, pending, partner, txn, items, used, mgr>>

RescindCoin(p, n) ==
  /\ Ready(p) /\ Free /\ Trading(p)
  /\ coins[p] > 0                   \* else ErrNotInOffer
  /\ LET back == IF n > coins[p] THEN coins[p] ELSE n
     IN /\ WithdrawCoin(txn[p], p, back)
        /\ coins' = [coins EXCEPT ![p] = @ - back]
  /\ Changed(p)
  /\ UNCHANGED <<status, room, asked, pending, partner, txn, items, used, mgr>>

------------------------------------------------------------------------------
(* Confirmation and the swap *)

(* The player, looking at the offers, types `confirm`. *)
TypeConfirm(p) ==
  /\ Ready(p) /\ Trading(p)
  /\ typed' = [typed EXCEPT ![p] = "fresh"]
  /\ UNCHANGED <<escrowVars, status, room, asked, pending, sessionVars, mgr>>

MarkConfirmed(p) ==
  /\ confirmed' = [confirmed EXCEPT ![p] = TRUE]
  /\ pair' = [pair EXCEPT ![p] = <<owner[txn[p]], coin[txn[p]]>>]

(* Confirm takes no argument: it confirms whatever is on offer when the
   manager gets to it. *)
Confirming(p) == typed[p] # "no" /\ Free /\ Acting(p)

ConfirmFirst(p) ==
  /\ Confirming(p) /\ Trading(p)
  /\ ~confirmed[partner[p]]
  /\ MarkConfirmed(p)
  /\ typed' = [typed EXCEPT ![p] = "no"]
  /\ UNCHANGED <<escrowVars, status, room, asked, pending, partner, txn, items, coins, used, mgr>>

ConfirmNotTrading(p) ==
  /\ Confirming(p) /\ ~Trading(p)   \* ErrNotTrading
  /\ typed' = [typed EXCEPT ![p] = "no"]
  /\ UNCHANGED <<escrowVars, status, room, asked, pending, sessionVars, mgr>>

SwapDest(p) == [q \in Party |-> IF q \in Sides(p) THEN partner[q] ELSE NoParty]

(* The second confirmation commits. That a veto needs a spare transaction for
   the retry is the bound on Txn, not the code. *)
ConfirmSwap(p) ==
  /\ Confirming(p) /\ Trading(p)
  /\ confirmed[partner[p]]
  /\ \/ CommitBegin(txn[p], SwapDest(p))
     \/ Txn \ used # {} /\ CommitVetoed(txn[p], SwapDest(p))
  /\ MarkConfirmed(p)
  /\ typed' = [typed EXCEPT ![p] = "no"]
  /\ Lock("confirm", p)
  /\ UNCHANGED <<status, room, asked, pending, partner, txn, items, coins, used>>

(* Commit returned nil or ErrAuditFailed: the trade is over. *)
ConfirmDone(p) ==
  /\ mgr.op = "confirm" /\ Busy(p)
  /\ phase[mgr.txn] = "committed"
  /\ Remove(p)
  /\ mgr' = Unlocked
  /\ UNCHANGED <<escrowVars, playerVars, pending>>

(* Any other outcome: the offers are cleared, and the session goes on with a
   new transaction over the same custodian. *)
ConfirmFailed(p, t) ==
  /\ mgr.op = "confirm" /\ Busy(p)
  /\ phase[mgr.txn] = "aborted"
  /\ t \in Txn \ used
  /\ ResetOffers(p) /\ ClearConfirmations(p)
  /\ txn' = [q \in Party |-> IF q \in Sides(p) THEN t ELSE txn[q]]
  /\ used' = used \cup {t}
  /\ mgr' = Unlocked
  /\ UNCHANGED <<escrowVars, playerVars, pending, partner>>

------------------------------------------------------------------------------
(* Cancel and teardown *)

Cancel(p) ==
  /\ Ready(p) /\ Free /\ Trading(p)
  /\ Rollback(txn[p])
  /\ Lock("cancel", p)
  /\ UNCHANGED <<playerVars, pending, sessionVars>>

CancelNotTrading(p) ==
  /\ Ready(p) /\ Free /\ ~Trading(p)
  /\ pending' = [pending EXCEPT ![p] = NoParty]
  /\ UNCHANGED <<escrowVars, playerVars, sessionVars, mgr>>

(* Mutant of CancelEnd: the session is dropped while value is still to be
   returned, and the mutex with it. *)
CancelEndEarly(p) ==
  /\ mgr.op = "cancel" /\ Busy(p)
  /\ Remove(p)
  /\ mgr' = Unlocked
  /\ UNCHANGED <<escrowVars, playerVars, pending>>

(* The rollback of Cancel or of CancelFor is done. *)
CancelEnd(p) ==
  /\ mgr.op = "cancel" /\ Busy(p)
  /\ phase[mgr.txn] = "aborted"
  /\ Remove(p)
  /\ mgr' = Unlocked
  /\ UNCHANGED <<escrowVars, playerVars, pending>>

(* SetRoom up to the release of the actor's lock. *)
SetRoom(p, r) ==
  /\ status[p] = "in"
  /\ Ready(p) \/ TickMoves
  /\ r # room[p]
  /\ room' = [room EXCEPT ![p] = r]
  /\ status' = [status EXCEPT ![p] = "moving"]
  /\ UNCHANGED <<escrowVars, asked, typed, pending, sessionVars, mgr>>

(* The connection is gone: its goroutine starts the teardown. *)
Hangup(p) ==
  /\ status[p] = "in" /\ asked[p] = NoParty /\ ~Busy(p)
  /\ status' = [status EXCEPT ![p] = "closing"]
  /\ typed' = [typed EXCEPT ![p] = "no"]
  /\ UNCHANGED <<escrowVars, room, asked, pending, sessionVars, mgr>>

(* Mutant of DropRequests: only the requests that name p go. *)
DropRequestsNaming(p) ==
  pending' = [q \in Party |-> IF pending[q] = p THEN NoParty ELSE pending[q]]

DropRequests(p) ==
  pending' = [q \in Party |-> IF q = p \/ pending[q] = p THEN NoParty ELSE pending[q]]

(* Mutant of CancelFor: it clears requests and leaves an open session. *)
CancelForRequestsOnly(p) ==
  /\ status[p] \in {"moving", "closing"} /\ Free
  /\ DropRequests(p)
  /\ status' = [status EXCEPT ![p] = IF @ = "moving" THEN "in" ELSE "closed"]
  /\ UNCHANGED <<escrowVars, mgr, room, asked, typed, sessionVars>>

(* CancelFor, from SetRoom or from a teardown. *)
CancelFor(p) ==
  /\ status[p] \in {"moving", "closing"} /\ Free
  /\ DropRequests(p)
  /\ status' = [status EXCEPT ![p] = IF @ = "moving" THEN "in" ELSE "closed"]
  /\ IF Trading(p)
     THEN Rollback(txn[p]) /\ Lock("cancel", p)
     ELSE UNCHANGED <<escrowVars, mgr>>
  /\ UNCHANGED <<room, asked, typed, sessionVars>>

(* The rest of the teardown takes the actor out of the world. *)
LeaveWorld(p) ==
  /\ status[p] = "closed"
  /\ ~Busy(p)
  /\ status' = [status EXCEPT ![p] = "out"]
  /\ UNCHANGED <<escrowVars, room, asked, typed, pending, sessionVars, mgr>>

Login(p) ==
  /\ status[p] = "out"
  /\ status' = [status EXCEPT ![p] = "in"]
  /\ UNCHANGED <<escrowVars, room, asked, typed, pending, sessionVars, mgr>>

------------------------------------------------------------------------------
(* The legs of the commit or rollback under way, and the rest of the game. *)
Legs ==
  /\ mgr.op \in {"confirm", "cancel"}
  /\ Finish(mgr.txn)
  /\ UNCHANGED <<playerVars, pending, sessionVars, mgr>>

(* A give needs both in one room, and a giver who is not in the middle of
   another command. *)
Elsewhere ==
  /\ \/ \E p, q \in Party, i \in Item :
          Ready(p) /\ room[p] = room[q] /\ status[q] # "out" /\ Give(p, q, i)
     \/ \E p \in Party, i \in Item : TickConsume(p, i)
  /\ UNCHANGED <<playerVars, pending, sessionVars, mgr>>

Player(p) ==
  \/ \E q \in Party : TradeFind(p, q)
  \/ InitiateRefused(p) \/ InitiateRequest(p)
  \/ \E t \in Txn : InitiateAccept(p, t)
  \/ \E i \in Item : OfferItem(p, i) \/ OfferItemEnd(p, i) \/ RescindItem(p, i)
  \/ \E n \in 1..(gold[p] + coins[p] + 1) : OfferCoin(p, n) \/ RescindCoin(p, n)
  \/ TypeConfirm(p) \/ ConfirmFirst(p) \/ ConfirmNotTrading(p)
  \/ ConfirmSwap(p) \/ ConfirmDone(p) \/ \E t \in Txn : ConfirmFailed(p, t)
  \/ Cancel(p) \/ CancelNotTrading(p) \/ CancelEnd(p)
  \/ \E r \in Room : SetRoom(p, r)
  \/ Hangup(p) \/ CancelFor(p) \/ LeaveWorld(p) \/ Login(p)

TradeNext == (\E p \in Party : Player(p)) \/ Legs \/ Elsewhere

TradeSpec == TradeInit /\ [][TradeNext]_tradeVars

(* An operation that holds the manager's mutex runs to its end, and a Go
   mutex lets nobody wait for ever: a waiting CancelFor gets it. *)
FairTradeSpec ==
  /\ TradeSpec
  /\ WF_tradeVars(Legs)
  /\ \A p \in Party :
       /\ WF_tradeVars(\E i \in Item : OfferItemEnd(p, i))
       /\ WF_tradeVars(ConfirmDone(p) \/ \E t \in Txn : ConfirmFailed(p, t))
       /\ WF_tradeVars(CancelEnd(p))
       /\ SF_tradeVars(CancelFor(p))

------------------------------------------------------------------------------
(* Properties *)

TradeTypeOK ==
  /\ status \in [Party -> Status]
  /\ room \in [Party -> Room]
  /\ asked \in [Party -> Party \cup {NoParty}]
  /\ typed \in [Party -> {"no", "fresh", "stale"}]
  /\ pending \in [Party -> Party \cup {NoParty}]
  /\ partner \in [Party -> Party \cup {NoParty}]
  /\ txn \in [Party -> Txn \cup {NoTxn}]
  /\ items \in [Party -> SUBSET Item]
  /\ coins \in [Party -> Nat]
  /\ confirmed \in [Party -> BOOLEAN]
  /\ used \subseteq Txn
  /\ mgr \in [op : {"free", "offer", "confirm", "cancel"}, txn : Txn \cup {NoTxn},
             by : Party \cup {NoParty}]

(* A player is in at most one trade: a session is between two players, each
   the other's partner, over one transaction that nobody else uses; and a
   player who trades is waiting for no answer to a request. *)
OneTradeEach ==
  \A p \in Party :
    Trading(p) => /\ partner[p] # p
                  /\ partner[partner[p]] = p
                  /\ txn[partner[p]] = txn[p]
                  /\ \A q \in Party : txn[q] = txn[p] => q \in Sides(p)
                  /\ pending[p] = NoParty

(* What both are shown is what is staged, and nothing else is: the offer
   mirrors agree with the legs held in escrow whenever the manager is not in
   the middle of an operation, and a trade ends with nothing of either party
   left in escrow. *)
OffersShownExactly ==
  /\ Free => \A p \in Party : Trading(p) =>
       /\ items[p] = {i \in Item : owner[txn[p]][i] = p}
       /\ coins[p] = coin[txn[p]][p]
  /\ \A t \in Txn : (\A p \in Party : txn[p] # t) => ItemLegs(t) = {} /\ CoinLegs(t) = {}

(* No swap on a stale confirmation: a commit starts only when both parties
   have confirmed, and what each confirmed is what is staged now. *)
SwapOnConfirmedPair ==
  [][\A t \in Txn : phase[t] = "open" /\ phase'[t] = "delivering" =>
       \A p \in Party : txn[p] = t =>
          confirmed'[p] /\ pair'[p] = <<owner[t], coin[t]>>]_tradeVars

(* A session stays within one room, but for the moment until the CancelFor
   of the one who left. *)
SameRoom ==
  \A p \in Party :
    Trading(p) => \/ room[p] = room[partner[p]]
                  \/ mgr.op # "free"
                  \/ "moving" \in {status[p], status[partner[p]]}

(* Players who have left are named in no request, as CancelFor's comment
   says, nor have they one outstanding. *)
NoStaleRequest ==
  \A p, q \in Party : status[p] = "out" => pending[p] = NoParty /\ pending[q] # p

(* A swap happens on the offers its parties saw when they typed `confirm`. *)
SwapOnSeenPair ==
  [][\A p \in Party : typed[p] = "stale" =>
       ~(phase[txn[p]] = "open" /\ phase'[txn[p]] = "delivering")]_tradeVars

(* Leaving ends the trade: once a player's teardown has begun, its session
   is over before long and its value back. *)
LeavingEndsTrade ==
  \A p \in Party : status[p] = "closing" ~> ~Trading(p)
==============================================================================
