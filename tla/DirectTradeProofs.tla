-------------------------- MODULE DirectTradeProofs --------------------------
(***************************************************************************)
(* Proofs about DirectTrade, for any players, rooms, items and             *)
(* transactions.                                                           *)
(***************************************************************************)
EXTENDS DirectTrade, EscrowProofs

(* What ties the trade manager's index together: a player who trades has a
   transaction that was handed out, nobody asks itself, and the operation
   that holds the mutex is about the session of the player it runs for. *)
IndexFits ==
  /\ \A p \in Party : /\ asked[p] # p
                      /\ Trading(p) => txn[p] \in used
                      /\ ~Trading(p) => txn[p] = NoTxn
  /\ mgr.op # "free" => /\ mgr.by \in Party
                        /\ Trading(mgr.by)
                        /\ mgr.txn = txn[mgr.by]

TradeInv == TypeOK /\ TradeTypeOK /\ OneTradeEach /\ IndexFits

LEMMA InitTradeInv == TradeInit => TradeInv
  <1> SUFFICES ASSUME TradeInit PROVE TradeInv
    OBVIOUS
  <1>1. TypeOK
    BY InitTypeOK DEF TradeInit
  <1>2. TradeTypeOK
    BY DEF TradeInit, TradeTypeOK, Status, Unlocked
  <1>3. OneTradeEach /\ IndexFits
    BY EscrowAssumption DEF TradeInit, OneTradeEach, IndexFits, Trading, Unlocked
  <1> QED BY <1>1, <1>2, <1>3 DEF TradeInv

------------------------------------------------------------------------------
(* A step of the trade is a step of the escrow, or leaves it alone. *)

LEMMA EscrowSide ==
  ASSUME TradeInv, [TradeNext]_tradeVars
  PROVE  AnyStep \/ UNCHANGED escrowVars
  <1> USE EscrowAssumption, TradeAssumption DEF tradeVars
  <1>0. /\ TypeOK /\ TradeTypeOK
        /\ \A p \in Party : Trading(p) => txn[p] \in Txn
        /\ mgr.op # "free" => mgr.txn \in Txn
    BY DEF TradeInv, TradeTypeOK, IndexFits
  <1>1. ASSUME NEW t \in Txn, AnyOperate(t) \/ Finish(t) PROVE AnyStep
    BY <1>1 DEF AnyStep
  <1>2. CASE Legs
    BY <1>0, <1>1, <1>2 DEF Legs
  <1>3. CASE Elsewhere
    BY <1>3 DEF Elsewhere, AnyStep, World
  <1>4. ASSUME NEW p \in Party, Player(p) PROVE AnyStep \/ UNCHANGED escrowVars
    <2>1. ASSUME NEW i \in Item, OfferItem(p, i) \/ OfferItemEnd(p, i) \/ RescindItem(p, i)
          PROVE  AnyStep
      BY <1>0, <1>1, <2>1 DEF OfferItem, OfferItemEnd, RescindItem, AnyOperate
    <2>2. ASSUME NEW n \in 1..(gold[p] + coins[p] + 1), OfferCoin(p, n) \/ RescindCoin(p, n)
          PROVE  AnyStep
      <3>1. n \in Nat /\ coins[p] \in Nat
        BY <1>0 DEF TypeOK, TradeTypeOK
      <3>2. CASE OfferCoin(p, n)
        BY <1>0, <1>1, <3>1, <3>2 DEF OfferCoin, AnyOperate
      <3>3. CASE RescindCoin(p, n)
        <4>1. \E m \in Nat : WithdrawCoin(txn[p], p, m) /\ Trading(p)
          BY <3>1, <3>3 DEF RescindCoin
        <4> QED BY <1>0, <1>1, <4>1 DEF AnyOperate
      <3> QED BY <2>2, <3>2, <3>3
    <2>3. CASE ConfirmSwap(p)
      <3>1. SwapDest(p) \in [Party -> Party \cup {NoParty}]
        BY <1>0 DEF SwapDest, TradeTypeOK
      <3> QED BY <1>0, <1>1, <2>3, <3>1 DEF ConfirmSwap, AnyOperate
    <2>4. CASE Cancel(p) \/ CancelFor(p)
      BY <1>0, <1>1, <2>4 DEF Cancel, CancelFor, AnyOperate
    <2>5. CASE \/ \E q \in Party : TradeFind(p, q)
               \/ InitiateRefused(p) \/ InitiateRequest(p)
               \/ \E t \in Txn : InitiateAccept(p, t)
               \/ TypeConfirm(p) \/ ConfirmFirst(p) \/ ConfirmNotTrading(p)
               \/ ConfirmDone(p) \/ \E t \in Txn : ConfirmFailed(p, t)
               \/ CancelNotTrading(p) \/ CancelEnd(p)
               \/ \E r \in Room : SetRoom(p, r)
               \/ Hangup(p) \/ LeaveWorld(p) \/ Login(p)
      BY <2>5 DEF TradeFind, InitiateRefused, InitiateRequest, InitiateAccept, TypeConfirm,
                  ConfirmFirst, ConfirmNotTrading, ConfirmDone, ConfirmFailed,
                  CancelNotTrading, CancelEnd, SetRoom, Hangup, LeaveWorld, Login
    <2> QED BY <1>4, <2>1, <2>2, <2>3, <2>4, <2>5 DEF Player
  <1> QED BY <1>2, <1>3, <1>4 DEF TradeNext

------------------------------------------------------------------------------
(* Types *)

LEMMA ResetTypes ==
  ASSUME TradeTypeOK, NEW p \in Party
  PROVE  /\ ResetOffers(p) => items' \in [Party -> SUBSET Item] /\ coins' \in [Party -> Nat]
         /\ ClearConfirmations(p) => confirmed' \in [Party -> BOOLEAN]
         /\ Changed(p) => typed' \in [Party -> {"no", "fresh", "stale"}]
  <1>1. ASSUME ResetOffers(p)
        PROVE  items' \in [Party -> SUBSET Item] /\ coins' \in [Party -> Nat]
    <2>1. \A q \in Party : items[q] \subseteq Item /\ coins[q] \in Nat
      BY DEF TradeTypeOK
    <2> QED BY <1>1, <2>1 DEF ResetOffers
  <1>2. ASSUME ClearConfirmations(p) PROVE confirmed' \in [Party -> BOOLEAN]
    BY <1>2 DEF TradeTypeOK, ClearConfirmations
  <1>3. ASSUME Changed(p) PROVE typed' \in [Party -> {"no", "fresh", "stale"}]
    BY <1>3 DEF TradeTypeOK, Changed
  <1> QED BY <1>1, <1>2, <1>3

LEMMA StepTradeTypeOK ==
  ASSUME TradeInv, [TradeNext]_tradeVars
  PROVE  TradeTypeOK'
  <1> USE EscrowAssumption, TradeAssumption DEF playerVars, sessionVars, Status
  <1>0. TypeOK /\ TradeTypeOK
    BY DEF TradeInv
  <1>1. CASE UNCHANGED tradeVars \/ Legs \/ Elsewhere
    <2>1. UNCHANGED <<status, room, asked, typed, pending, partner, txn, items, coins,
                      confirmed, used, mgr>>
      BY <1>1 DEF tradeVars, Legs, Elsewhere
    <2> QED BY <1>0, <2>1 DEF TradeTypeOK
  <1>2. ASSUME NEW p \in Party, Player(p) PROVE TradeTypeOK'
    <2>1. ASSUME NEW q \in Party, TradeFind(p, q) PROVE TradeTypeOK'
      BY <1>0, <2>1 DEF TradeTypeOK, TradeFind
    <2>2. CASE InitiateRefused(p) \/ InitiateRequest(p)
      BY <1>0, <2>2 DEF TradeTypeOK, InitiateRefused, InitiateRequest
    <2>3. ASSUME NEW t \in Txn, InitiateAccept(p, t) PROVE TradeTypeOK'
      BY <1>0, <2>3 DEF TradeTypeOK, InitiateAccept
    <2>4. ASSUME NEW i \in Item, OfferItem(p, i) PROVE TradeTypeOK'
      BY <1>0, <2>4 DEF TradeTypeOK, OfferItem, Lock
    <2>5. ASSUME NEW i \in Item, OfferItemEnd(p, i) \/ RescindItem(p, i) PROVE TradeTypeOK'
      <3>1. items' \in [Party -> SUBSET Item]
        BY <1>0, <2>5 DEF TradeTypeOK, OfferItemEnd, RescindItem
      <3>2. confirmed' \in [Party -> BOOLEAN] /\ typed' \in [Party -> {"no", "fresh", "stale"}]
        BY <1>0, <2>5, ResetTypes DEF OfferItemEnd, RescindItem, Changed
      <3>3. mgr' \in {mgr, Unlocked}
        BY <2>5 DEF OfferItemEnd, RescindItem
      <3> QED BY <1>0, <2>5, <3>1, <3>2, <3>3
              DEF TradeTypeOK, OfferItemEnd, RescindItem, Unlocked
    <2>6. ASSUME NEW n \in 1..(gold[p] + coins[p] + 1), OfferCoin(p, n) \/ RescindCoin(p, n)
          PROVE  TradeTypeOK'
      <3>1. n \in Nat /\ coins[p] \in Nat
        BY <1>0 DEF TypeOK, TradeTypeOK
      <3>2. coins' \in [Party -> Nat]
        BY <1>0, <2>6, <3>1 DEF TradeTypeOK, OfferCoin, RescindCoin
      <3>3. confirmed' \in [Party -> BOOLEAN] /\ typed' \in [Party -> {"no", "fresh", "stale"}]
        BY <1>0, <2>6, ResetTypes DEF OfferCoin, RescindCoin, Changed
      <3> QED BY <1>0, <2>6, <3>2, <3>3 DEF TradeTypeOK, OfferCoin, RescindCoin
    <2>7. CASE TypeConfirm(p) \/ ConfirmFirst(p) \/ ConfirmNotTrading(p) \/ ConfirmSwap(p)
      <3>1. mgr' \in {mgr, [op |-> "confirm", txn |-> txn[p], by |-> p]}
        BY <2>7 DEF TypeConfirm, ConfirmFirst, ConfirmNotTrading, ConfirmSwap, Lock
      <3>2. mgr' \in [op : {"free", "offer", "confirm", "cancel"}, txn : Txn \cup {NoTxn},
                      by : Party \cup {NoParty}]
        BY <1>0, <3>1 DEF TradeTypeOK
      <3>3. confirmed' \in [Party -> BOOLEAN]
        BY <1>0, <2>7 DEF TradeTypeOK, TypeConfirm, ConfirmFirst, ConfirmNotTrading,
                          ConfirmSwap, MarkConfirmed
      <3> QED BY <1>0, <2>7, <3>2, <3>3
              DEF TradeTypeOK, TypeConfirm, ConfirmFirst, ConfirmNotTrading, ConfirmSwap
    <2>8. CASE ConfirmDone(p) \/ CancelEnd(p)
      <3>1. Remove(p) /\ mgr' = Unlocked /\ UNCHANGED <<status, room, asked, typed, pending>>
        BY <2>8 DEF ConfirmDone, CancelEnd
      <3> QED BY <1>0, <3>1, ResetTypes DEF TradeTypeOK, Remove, Unlocked
    <2>9. ASSUME NEW t \in Txn, ConfirmFailed(p, t) PROVE TradeTypeOK'
      BY <1>0, <2>9, ResetTypes DEF TradeTypeOK, ConfirmFailed, Unlocked
    <2>10. CASE Cancel(p) \/ CancelNotTrading(p)
      BY <1>0, <2>10 DEF TradeTypeOK, Cancel, CancelNotTrading, Lock
    <2>11. CASE CancelFor(p)
      <3>1. mgr' \in {mgr, [op |-> "cancel", txn |-> txn[p], by |-> p]}
        BY <2>11 DEF CancelFor, Lock
      <3>2. mgr' \in [op : {"free", "offer", "confirm", "cancel"}, txn : Txn \cup {NoTxn},
                      by : Party \cup {NoParty}]
        BY <1>0, <3>1 DEF TradeTypeOK
      <3>3. UNCHANGED <<room, asked, typed, sessionVars>>
            /\ status' \in [Party -> Status] /\ pending' \in [Party -> Party \cup {NoParty}]
        BY <1>0, <2>11 DEF TradeTypeOK, CancelFor, DropRequests
      <3> QED BY <1>0, <3>2, <3>3 DEF TradeTypeOK
    <2>12. ASSUME NEW r \in Room, SetRoom(p, r) PROVE TradeTypeOK'
      BY <1>0, <2>12 DEF TradeTypeOK, SetRoom
    <2>13. CASE Hangup(p) \/ LeaveWorld(p) \/ Login(p)
      BY <1>0, <2>13 DEF TradeTypeOK, Hangup, LeaveWorld, Login
    <2> QED BY <1>2, <2>1, <2>2, <2>3, <2>4, <2>5, <2>6, <2>7, <2>8, <2>9, <2>10, <2>11,
               <2>12, <2>13 DEF Player
  <1> QED BY <1>1, <1>2 DEF TradeNext

------------------------------------------------------------------------------
(* One trade each *)

(* A step that leaves the index, the mutex and who asks whom alone, and at
   most clears requests or makes one for a player who does not trade. *)
LEMMA IndexUntouched ==
  ASSUME TradeInv, UNCHANGED <<partner, txn, used, mgr>>,
         \A p \in Party : asked'[p] # p,
         \A p \in Party : Trading(p) => pending'[p] \in {pending[p], NoParty}
  PROVE  OneTradeEach' /\ IndexFits'
  BY DEF TradeInv, OneTradeEach, IndexFits, Trading, Sides

(* The session of p leaves the index. *)
LEMMA RemoveSession ==
  ASSUME TradeInv, NEW p \in Party, Remove(p), mgr' = Unlocked, UNCHANGED <<asked, pending>>
  PROVE  OneTradeEach' /\ IndexFits'
  <1> USE EscrowAssumption
  <1>1. \A q \in Party :
          \/ q \in Sides(p) /\ partner'[q] = NoParty /\ txn'[q] = NoTxn
          \/ q \notin Sides(p) /\ partner'[q] = partner[q] /\ txn'[q] = txn[q]
    BY DEF Remove
  <1>2. \A q \in Party : q \notin Sides(p) /\ Trading(q) =>
          /\ partner[q] \in Party /\ partner[q] \notin Sides(p)
          /\ \A r \in Party : r \notin Sides(p) /\ txn[r] = txn[q] => r \in Sides(q)
    BY DEF TradeInv, TradeTypeOK, OneTradeEach, Trading, Sides
  <1>3. \A q \in Party : Trading(q) => txn[q] # NoTxn
    BY TradeAssumption DEF TradeInv, TradeTypeOK, IndexFits
  <1>4. OneTradeEach'
    BY <1>1, <1>2, <1>3 DEF TradeInv, OneTradeEach, Trading, Sides
  <1>5. IndexFits'
    BY <1>1 DEF TradeInv, IndexFits, Trading, Remove, Unlocked
  <1> QED BY <1>4, <1>5

LEMMA AcceptOpensOne ==
  ASSUME TradeInv, NEW p \in Party, NEW t \in Txn, InitiateAccept(p, t)
  PROVE  OneTradeEach' /\ IndexFits'
  <1> USE EscrowAssumption, TradeAssumption
  <1> DEFINE q == asked[p]
  <1>0. TradeTypeOK /\ OneTradeEach /\ IndexFits
    BY DEF TradeInv
  <1>1. q \in Party /\ q # p /\ ~Trading(p) /\ ~Trading(q)
    BY <1>0 DEF InitiateAccept, TradeTypeOK, IndexFits
  <1>2. /\ partner' = [partner EXCEPT ![p] = q, ![q] = p]
        /\ txn' = [txn EXCEPT ![p] = t, ![q] = t]
        /\ pending' = [pending EXCEPT ![p] = NoParty, ![q] = NoParty]
        /\ asked' = [asked EXCEPT ![p] = NoParty]
        /\ used' = used \cup {t} /\ mgr' = mgr /\ mgr = Unlocked /\ t \notin used
    BY DEF InitiateAccept, Free
  <1> HIDE DEF q
  <1>3. /\ partner'[p] = q /\ partner'[q] = p /\ txn'[p] = t /\ txn'[q] = t
        /\ pending'[p] = NoParty /\ pending'[q] = NoParty
    BY <1>0, <1>1, <1>2 DEF TradeTypeOK
  <1>4. \A r \in Party \ {p, q} :
          /\ partner'[r] = partner[r] /\ txn'[r] = txn[r] /\ pending'[r] = pending[r]
          /\ txn[r] # t
          /\ Trading(r) => partner[r] \in Party \ {p, q}
    BY <1>0, <1>1, <1>2 DEF TradeTypeOK, OneTradeEach, IndexFits, Trading
  <1>5. OneTradeEach'
    BY <1>0, <1>1, <1>3, <1>4 DEF OneTradeEach, Trading, Sides
  <1>6. IndexFits'
    BY <1>0, <1>1, <1>2, <1>3, <1>4 DEF TradeTypeOK, IndexFits, Trading, Unlocked
  <1> QED BY <1>5, <1>6

LEMMA RetryKeepsOne ==
  ASSUME TradeInv, NEW p \in Party, NEW t \in Txn, ConfirmFailed(p, t)
  PROVE  OneTradeEach' /\ IndexFits'
  <1> USE EscrowAssumption, TradeAssumption
  <1>0. TradeTypeOK /\ OneTradeEach /\ IndexFits
    BY DEF TradeInv
  <1>1. Trading(p)
    BY <1>0 DEF ConfirmFailed, Busy, IndexFits
  <1>2. \A q \in Party : \/ q \in Sides(p) /\ txn'[q] = t
                         \/ q \notin Sides(p) /\ txn'[q] = txn[q]
    BY DEF ConfirmFailed
  <1>3. /\ UNCHANGED <<partner, asked, pending>> /\ used' = used \cup {t}
        /\ mgr' = Unlocked /\ t \notin used
    BY DEF ConfirmFailed, playerVars
  <1>4. \A q \in Party : txn[q] # t
    BY <1>0, <1>3 DEF IndexFits
  <1>5. \A q \in Party : Trading(q) => \A r \in Party : r \in Sides(q) =>
            (r \in Sides(p) <=> q \in Sides(p))
    BY <1>0, <1>1 DEF OneTradeEach, TradeTypeOK, Trading, Sides
  <1>6. OneTradeEach'
    BY <1>0, <1>1, <1>2, <1>3, <1>4, <1>5 DEF OneTradeEach, TradeTypeOK, Trading, Sides
  <1>7. IndexFits'
    BY <1>0, <1>1, <1>2, <1>3 DEF OneTradeEach, IndexFits, TradeTypeOK, Trading, Sides, Unlocked
  <1> QED BY <1>6, <1>7

LEMMA StepOneTrade ==
  ASSUME TradeInv, [TradeNext]_tradeVars
  PROVE  OneTradeEach' /\ IndexFits'
  <1> USE EscrowAssumption, TradeAssumption DEF playerVars, sessionVars
  <1>0. TradeTypeOK /\ OneTradeEach /\ IndexFits
    BY DEF TradeInv
  <1>1. CASE UNCHANGED tradeVars \/ Legs \/ Elsewhere
    <2>1. UNCHANGED <<partner, txn, used, mgr, asked, pending>>
      BY <1>1 DEF tradeVars, Legs, Elsewhere
    <2> QED BY <1>0, <2>1, IndexUntouched DEF IndexFits
  <1>2. ASSUME NEW p \in Party, Player(p) PROVE OneTradeEach' /\ IndexFits'
    <2>1. ASSUME NEW q \in Party, TradeFind(p, q) PROVE OneTradeEach' /\ IndexFits'
      <3>1. UNCHANGED <<partner, txn, used, mgr, pending>> /\ \A r \in Party : asked'[r] # r
        BY <1>0, <2>1 DEF TradeFind, TradeTypeOK, IndexFits
      <3> QED BY <3>1, IndexUntouched
    <2>2. CASE InitiateRefused(p) \/ InitiateRequest(p)
      <3>1. UNCHANGED <<partner, txn, used, mgr>> /\ \A r \in Party : asked'[r] # r
        BY <1>0, <2>2 DEF InitiateRefused, InitiateRequest, TradeTypeOK, IndexFits
      <3>2. \A r \in Party : Trading(r) => pending'[r] = pending[r]
        BY <1>0, <2>2 DEF InitiateRefused, InitiateRequest, TradeTypeOK
      <3> QED BY <3>1, <3>2, IndexUntouched
    <2>3. ASSUME NEW t \in Txn, InitiateAccept(p, t) PROVE OneTradeEach' /\ IndexFits'
      BY <2>3, AcceptOpensOne
    <2>4. CASE ConfirmDone(p) \/ CancelEnd(p)
      BY <2>4, RemoveSession DEF ConfirmDone, CancelEnd
    <2>5. ASSUME NEW t \in Txn, ConfirmFailed(p, t) PROVE OneTradeEach' /\ IndexFits'
      BY <2>5, RetryKeepsOne
    <2>6. CASE \E i \in Item : OfferItem(p, i)
      <3>1. /\ UNCHANGED <<partner, txn, used, asked, pending>> /\ Trading(p)
            /\ mgr' = [op |-> "offer", txn |-> txn[p], by |-> p]
        BY <2>6 DEF OfferItem, Lock
      <3> QED BY <1>0, <3>1 DEF OneTradeEach, IndexFits, Trading, Sides
    <2>7. CASE \E i \in Item : OfferItemEnd(p, i)
      <3>1. UNCHANGED <<partner, txn, used, asked, pending>> /\ mgr' = Unlocked
        BY <2>7 DEF OfferItemEnd
      <3> QED BY <1>0, <3>1 DEF OneTradeEach, IndexFits, Trading, Sides, Unlocked
    <2>8. CASE \/ \E i \in Item : RescindItem(p, i)
               \/ \E n \in 1..(gold[p] + coins[p] + 1) : OfferCoin(p, n) \/ RescindCoin(p, n)
               \/ TypeConfirm(p) \/ ConfirmFirst(p) \/ ConfirmNotTrading(p)
               \/ \E r \in Room : SetRoom(p, r)
               \/ Hangup(p) \/ LeaveWorld(p) \/ Login(p)
      <3>1. UNCHANGED <<partner, txn, used, mgr, asked, pending>>
        BY <2>8 DEF RescindItem, OfferCoin, RescindCoin, TypeConfirm, ConfirmFirst,
                    ConfirmNotTrading, SetRoom, Hangup, LeaveWorld, Login
      <3> QED BY <1>0, <3>1, IndexUntouched DEF IndexFits
    <2>9. CASE ConfirmSwap(p) \/ Cancel(p)
      <3>1. /\ UNCHANGED <<partner, txn, used, asked, pending>> /\ Trading(p)
            /\ \E op \in {"confirm", "cancel"} : mgr' = [op |-> op, txn |-> txn[p], by |-> p]
        BY <2>9 DEF ConfirmSwap, Cancel, Lock
      <3> QED BY <1>0, <3>1 DEF OneTradeEach, IndexFits, Trading, Sides
    <2>10. CASE CancelNotTrading(p)
      <3>1. /\ UNCHANGED <<partner, txn, used, mgr, asked>>
            /\ \A r \in Party : pending'[r] \in {pending[r], NoParty}
        BY <1>0, <2>10 DEF CancelNotTrading, TradeTypeOK
      <3> QED BY <1>0, <3>1, IndexUntouched DEF IndexFits
    <2>11. CASE CancelFor(p)
      <3>1. /\ UNCHANGED <<partner, txn, used, asked>>
            /\ \A r \in Party : pending'[r] \in {pending[r], NoParty}
        BY <2>11 DEF CancelFor, DropRequests
      <3>2. CASE mgr' = mgr
        BY <1>0, <3>1, <3>2, IndexUntouched DEF IndexFits
      <3>3. CASE Trading(p) /\ mgr' = [op |-> "cancel", txn |-> txn[p], by |-> p]
        BY <1>0, <3>1, <3>3 DEF OneTradeEach, IndexFits, Trading, Sides
      <3> QED BY <2>11, <3>2, <3>3 DEF CancelFor, Lock
    <2> QED BY <1>2, <2>1, <2>2, <2>3, <2>4, <2>5, <2>6, <2>7, <2>8, <2>9, <2>10, <2>11
            DEF Player
  <1> QED BY <1>1, <1>2 DEF TradeNext

LEMMA StepTradeInv == TradeInv /\ [TradeNext]_tradeVars => TradeInv'
  <1> SUFFICES ASSUME TradeInv, [TradeNext]_tradeVars PROVE TradeInv'
    OBVIOUS
  <1>1. TypeOK'
    <2>1. CASE AnyStep
      BY <2>1, StepTypeOK DEF TradeInv
    <2>2. CASE UNCHANGED escrowVars
      BY <2>2 DEF TradeInv, TypeOK, escrowVars, vars, legVars, worldVars
    <2> QED BY <2>1, <2>2, EscrowSide
  <1> QED BY <1>1, StepTradeTypeOK, StepOneTrade DEF TradeInv

(* Type correctness of the trade manager and of the escrow under it. *)
THEOREM TradeTypes == TradeSpec => [](TypeOK /\ TradeTypeOK)
  <1>1. TradeInv => TypeOK /\ TradeTypeOK
    BY DEF TradeInv
  <1> QED BY <1>1, InitTradeInv, StepTradeInv, PTL DEF TradeSpec

(* However many players call Initiate, Confirm, Cancel and leave in whatever
   order, nobody is in two trades and no transaction serves two sessions. *)
THEOREM OneTrade == TradeSpec => []OneTradeEach
  <1>1. TradeInv => OneTradeEach
    BY DEF TradeInv
  <1> QED BY <1>1, InitTradeInv, StepTradeInv, PTL DEF TradeSpec

(* A direct trade loses and doubles no item, as long as the tick goroutine
   takes nothing out of a bag: then the unchecked removal always finds what
   was checked. *)
THEOREM TradeOnePlace == ASSUME ~TickTakes PROVE TradeSpec => []OnePlace
  <1> DEFINE Inv == TradeInv /\ EscrowInv
  <1>1. TradeInit => Inv
    BY InitTradeInv, InitEscrowInv DEF TradeInit
  <1>2. Inv /\ [TradeNext]_tradeVars => Inv'
    <2> SUFFICES ASSUME Inv, [TradeNext]_tradeVars PROVE EscrowInv'
      BY StepTradeInv
    <2>1. Careful
      BY TradeAssumption DEF Careful
    <2> QED BY <2>1, EscrowSide, StepEscrowInv, StutterEscrowInv DEF escrowVars
  <1>3. Inv => OnePlace
    BY DEF EscrowInv
  <1> QED BY <1>1, <1>2, <1>3, PTL DEF TradeSpec

(* A direct trade makes and loses no coin, whatever is offered, taken out,
   confirmed or called off, the cancels of whoever logs out included. *)
THEOREM TradeCoinConserved == ASSUME Finite PROVE TradeSpec => []CoinConserved
  <1> DEFINE Inv == TradeInv /\ CoinInv
  <1>1. TradeInit => Inv
    BY InitTradeInv, InitCoinInv DEF TradeInit
  <1>2. Inv /\ [TradeNext]_tradeVars => Inv'
    <2> SUFFICES ASSUME Inv, [TradeNext]_tradeVars PROVE CoinInv'
      BY StepTradeInv
    <2>1. CASE AnyStep
      BY <2>1, StepCoinInv
    <2>2. CASE UNCHANGED escrowVars
      BY <2>2, StutterCoinInv DEF escrowVars
    <2> QED BY <2>1, <2>2, EscrowSide
  <1>3. Inv => CoinConserved
    BY DEF CoinInv
  <1> QED BY <1>1, <1>2, <1>3, PTL DEF TradeSpec

------------------------------------------------------------------------------
(* Trades stay within a room *)

(* Who has found a partner stays where he is until his verb goes on, so two
   who have found each other are in one room; a request that is about to be
   accepted comes from this room, or from somebody who is just leaving; and a
   session spans two rooms only until the CancelFor of the one who left. *)
RoomFits ==
  /\ \A p \in Party : asked[p] # NoParty => status[p] = "in"
  /\ \A p, q \in Party : asked[p] = q /\ asked[q] = p => room[p] = room[q]
  /\ \A p, q \in Party : asked[p] = q /\ pending[q] = p =>
                            room[p] = room[q] \/ status[q] = "moving"
  /\ \A p \in Party : Trading(p) =>
       \/ room[p] = room[partner[p]]
       \/ mgr.op = "cancel" /\ mgr.txn = txn[p]
       \/ "moving" \in {status[p], status[partner[p]]}

LEMMA StepRoomFits ==
  ASSUME ~TickMoves, TradeInv, RoomFits, [TradeNext]_tradeVars
  PROVE  RoomFits'
  <1> USE EscrowAssumption, TradeAssumption DEF playerVars, sessionVars
  <1>0. TradeTypeOK /\ OneTradeEach /\ IndexFits
    BY DEF TradeInv
  <1>1. CASE UNCHANGED <<status, room, asked, pending, partner, txn, mgr>>
    BY <1>1 DEF RoomFits, Trading
  <1>2. CASE UNCHANGED tradeVars \/ Legs \/ Elsewhere
    BY <1>1, <1>2 DEF tradeVars, Legs, Elsewhere
  <1>3. ASSUME NEW p \in Party, Player(p) PROVE RoomFits'
    <2>1. ASSUME NEW q \in Party, TradeFind(p, q) PROVE RoomFits'
      <3>1. /\ asked' = [asked EXCEPT ![p] = q] /\ room[q] = room[p] /\ status[p] = "in"
            /\ UNCHANGED <<status, room, pending, partner, txn, mgr>>
        BY <2>1 DEF TradeFind, Ready, Acting
      <3> QED BY <1>0, <3>1 DEF RoomFits, TradeTypeOK, Trading
    <2>2. CASE InitiateRefused(p)
      BY <1>0, <2>2 DEF InitiateRefused, RoomFits, TradeTypeOK, Trading
    <2>3. CASE InitiateRequest(p)
      BY <1>0, <2>3 DEF InitiateRequest, RoomFits, TradeTypeOK, Trading
    <2>4. ASSUME NEW t \in Txn, InitiateAccept(p, t) PROVE RoomFits'
      <3> DEFINE q == asked[p]
      <3>1. /\ q \in Party /\ q # p /\ ~Trading(p) /\ ~Trading(q) /\ pending[q] = p
            /\ partner' = [partner EXCEPT ![p] = q, ![q] = p]
            /\ txn' = [txn EXCEPT ![p] = t, ![q] = t]
            /\ pending' = [pending EXCEPT ![p] = NoParty, ![q] = NoParty]
            /\ asked' = [asked EXCEPT ![p] = NoParty]
            /\ UNCHANGED <<status, room, mgr>>
        BY <1>0, <2>4 DEF InitiateAccept, TradeTypeOK, IndexFits
      <3>2. room[p] = room[q] \/ status[q] = "moving"
        BY <3>1 DEF RoomFits
      <3> HIDE DEF q
      <3>3. /\ partner'[p] = q /\ partner'[q] = p
            /\ \A r \in Party \ {p, q} : partner'[r] = partner[r] /\ txn'[r] = txn[r]
        BY <1>0, <3>1 DEF TradeTypeOK
      <3>4. \A r \in Party : asked'[r] \in {asked[r], NoParty} /\ pending'[r] \in {pending[r], NoParty}
        BY <1>0, <3>1 DEF TradeTypeOK
      <3>5. ASSUME NEW r \in Party, Trading(r)'
            PROVE  \/ room'[r] = room'[partner'[r]]
                   \/ mgr'.op = "cancel" /\ mgr'.txn = txn'[r]
                   \/ "moving" \in {status'[r], status'[partner'[r]]}
        <4>1. CASE r \in {p, q}
          BY <3>1, <3>2, <3>3, <4>1
        <4>2. CASE r \notin {p, q}
          <5>1. partner'[r] = partner[r] /\ txn'[r] = txn[r] /\ Trading(r)
            BY <3>3, <3>5, <4>2 DEF Trading
          <5> QED BY <3>1, <5>1 DEF RoomFits
        <4> QED BY <4>1, <4>2
      <3>6. \A r \in Party : asked'[r] # NoParty => status'[r] = "in"
        BY <3>1, <3>4 DEF RoomFits
      <3>7. ASSUME NEW r \in Party, NEW s \in Party, asked'[r] = s
            PROVE  /\ asked'[s] = r => room'[r] = room'[s]
                   /\ pending'[s] = r => room'[r] = room'[s] \/ status'[s] = "moving"
        <4>1. asked[r] = s /\ (asked'[s] = r => asked[s] = r) /\ (pending'[s] = r => pending[s] = r)
          BY <3>4, <3>7
        <4> QED BY <3>1, <4>1 DEF RoomFits
      <3> QED BY <3>5, <3>6, <3>7 DEF RoomFits
    <2>5. CASE \E i \in Item : OfferItem(p, i) \/ OfferItemEnd(p, i)
      <3>1. mgr.op # "cancel" /\ UNCHANGED <<status, room, asked, pending, partner, txn>>
        BY <2>5 DEF OfferItem, OfferItemEnd, Free, Unlocked
      <3> QED BY <3>1 DEF RoomFits, Trading
    <2>6. CASE ConfirmSwap(p) \/ Cancel(p)
      <3>1. mgr.op # "cancel" /\ UNCHANGED <<status, room, asked, pending, partner, txn>>
        BY <2>6 DEF ConfirmSwap, Confirming, Cancel, Free, Unlocked
      <3> QED BY <3>1 DEF RoomFits, Trading
    <2>7. CASE ConfirmDone(p) \/ CancelEnd(p)
      <3>1. /\ mgr.op # "free" /\ mgr.by = p /\ Remove(p) /\ mgr' = Unlocked
            /\ UNCHANGED <<status, room, asked, pending>>
        BY <2>7 DEF ConfirmDone, CancelEnd, Busy
      <3>2. mgr.txn = txn[p] /\ Trading(p)
        BY <1>0, <3>1 DEF IndexFits
      <3>3. ASSUME NEW r \in Party, Trading(r)'
            PROVE  /\ Trading(r) /\ partner'[r] = partner[r] /\ txn'[r] = txn[r]
                   /\ r \notin Sides(p)
        BY <3>1, <3>3 DEF Remove, Trading
      <3>4. \A r \in Party : Trading(r)' => txn[r] # txn[p]
        BY <1>0, <3>2, <3>3 DEF OneTradeEach, Trading, Sides
      <3> QED BY <3>1, <3>2, <3>3, <3>4 DEF RoomFits
    <2>8. ASSUME NEW t \in Txn, ConfirmFailed(p, t) PROVE RoomFits'
      <3>1. mgr.op # "cancel" /\ UNCHANGED <<status, room, asked, pending, partner>>
        BY <2>8 DEF ConfirmFailed
      <3> QED BY <3>1 DEF RoomFits, Trading
    <2>9. CASE CancelNotTrading(p)
      BY <1>0, <2>9 DEF CancelNotTrading, RoomFits, TradeTypeOK, Trading
    <2>10. ASSUME NEW r \in Room, SetRoom(p, r) PROVE RoomFits'
      <3>1. /\ asked[p] = NoParty /\ UNCHANGED <<asked, pending, partner, txn, mgr>>
            /\ status' = [status EXCEPT ![p] = "moving"]
            /\ room' = [room EXCEPT ![p] = r]
        BY <2>10 DEF SetRoom, Ready
      <3>2. status'[p] = "moving"
            /\ \A q \in Party \ {p} : status'[q] = status[q] /\ room'[q] = room[q]
        BY <1>0, <3>1 DEF TradeTypeOK
      <3>3. ASSUME NEW q \in Party, Trading(q)'
            PROVE  \/ room'[q] = room'[partner'[q]]
                   \/ mgr'.op = "cancel" /\ mgr'.txn = txn'[q]
                   \/ "moving" \in {status'[q], status'[partner'[q]]}
        BY <1>0, <3>1, <3>2, <3>3 DEF RoomFits, Trading, TradeTypeOK
      <3> QED BY <3>1, <3>2, <3>3 DEF RoomFits
    <2>11. CASE Hangup(p)
      BY <1>0, <2>11 DEF Hangup, RoomFits, TradeTypeOK, Trading
    <2>12. CASE LeaveWorld(p) \/ Login(p)
      BY <1>0, <2>12 DEF LeaveWorld, Login, RoomFits, TradeTypeOK, Trading
    <2>13. CASE CancelFor(p)
      <3>1. /\ UNCHANGED <<room, asked, partner, txn>> /\ DropRequests(p) /\ mgr.op = "free"
            /\ status[p] # "in" /\ \A q \in Party \ {p} : status'[q] = status[q]
        BY <1>0, <2>13 DEF CancelFor, TradeTypeOK, Free, Unlocked
      <3>2. asked[p] = NoParty
        BY <3>1 DEF RoomFits
      <3>3. \A q, r \in Party : pending'[q] = r => pending[q] = r /\ q # p /\ r # p
        BY <3>1 DEF DropRequests
      <3>4. Trading(p) => mgr'.op = "cancel" /\ mgr'.txn = txn[p]
        BY <2>13 DEF CancelFor, Lock
      <3>5. ASSUME NEW q \in Party, Trading(q)'
            PROVE  \/ room'[q] = room'[partner'[q]]
                   \/ mgr'.op = "cancel" /\ mgr'.txn = txn'[q]
                   \/ "moving" \in {status'[q], status'[partner'[q]]}
        <4>1. CASE q \in Sides(p) /\ Trading(p)
          BY <1>0, <3>1, <3>4, <4>1 DEF OneTradeEach, Sides, Trading
        <4>2. CASE ~(q \in Sides(p) /\ Trading(p))
          BY <1>0, <3>1, <3>5, <4>2 DEF RoomFits, OneTradeEach, Sides, Trading, TradeTypeOK
        <4> QED BY <4>1, <4>2
      <3>6. \A q \in Party : asked'[q] # NoParty => status'[q] = "in"
        BY <3>1, <3>2 DEF RoomFits
      <3> QED BY <3>1, <3>2, <3>3, <3>5, <3>6 DEF RoomFits
    <2>14. CASE \/ \E i \in Item : RescindItem(p, i)
                \/ \E n \in 1..(gold[p] + coins[p] + 1) : OfferCoin(p, n) \/ RescindCoin(p, n)
                \/ TypeConfirm(p) \/ ConfirmFirst(p) \/ ConfirmNotTrading(p)
      BY <1>1, <2>14 DEF RescindItem, OfferCoin, RescindCoin, TypeConfirm, ConfirmFirst,
                         ConfirmNotTrading
    <2> QED BY <1>3, <2>1, <2>2, <2>3, <2>4, <2>5, <2>6, <2>7, <2>8, <2>9, <2>10, <2>11,
               <2>12, <2>13, <2>14 DEF Player
  <1> QED BY <1>2, <1>3 DEF TradeNext

(* No session ever spans two rooms, but for the moment until the CancelFor of
   the one who left, as long as only a player's own commands move him. *)
THEOREM TradeSameRoom == ASSUME ~TickMoves PROVE TradeSpec => []SameRoom
  <1> DEFINE Inv == TradeInv /\ RoomFits
  <1>1. TradeInit => Inv
    <2>1. TradeInit => RoomFits
      BY EscrowAssumption DEF TradeInit, RoomFits, Trading
    <2> QED BY <2>1, InitTradeInv
  <1>2. Inv /\ [TradeNext]_tradeVars => Inv'
    BY StepTradeInv, StepRoomFits
  <1>3. Inv => SameRoom
    BY DEF RoomFits, SameRoom, Trading
  <1> QED BY <1>1, <1>2, <1>3, PTL DEF TradeSpec

------------------------------------------------------------------------------
(* What is shown is what is staged *)

(* A session whose transaction is not just being committed or rolled back. *)
Settled(p) == Trading(p) /\ ~(mgr.op \in {"confirm", "cancel"} /\ mgr.txn = txn[p])

(* Its transaction is open and its offers mirror the legs, and so does what
   has been confirmed. Who does not trade shows nothing. *)
ShownFits(p) ==
  /\ Settled(p) =>
       /\ phase[txn[p]] = "open"
       /\ items[p] = {i \in Item : owner[txn[p]][i] = p}
       /\ coins[p] = coin[txn[p]][p]
       /\ confirmed[p] => pair[p] = <<owner[txn[p]], coin[txn[p]]>>
  /\ ~Trading(p) => items[p] = {} /\ coins[p] = 0 /\ ~confirmed[p]

(* Only the operation that holds the mutex stages; a transaction not yet
   handed out is blank, and one that no session has any more is closed. *)
LifeFits(t) ==
  /\ staging[t] # NoStage => mgr.op = "offer" /\ mgr.txn = t /\ staging[t][1] = mgr.by
  /\ t \notin used => phase[t] = "open" /\ ItemLegs(t) = {} /\ CoinLegs(t) = {}
  /\ t \in used => (\E p \in Party : txn[p] = t) \/ phase[t] \in {"committed", "aborted"}
  /\ phase[t] \in {"committed", "aborted"} => CoinLegs(t) = {}

PairTypes == pair \in [Party -> [Item -> Party \cup {NoParty}] \X [Party -> Nat]]

OfferFits == PairTypes /\ (\A p \in Party : ShownFits(p)) /\ (\A t \in Txn : LifeFits(t))

OfferInv == TradeInv /\ LegsInv /\ OfferFits

LEMMA InitOfferInv == TradeInit => OfferInv
  <1> SUFFICES ASSUME TradeInit PROVE OfferInv
    OBVIOUS
  <1>1. TradeInv /\ LegsInv
    BY InitTradeInv, InitEscrowInv DEF TradeInit, EscrowInv
  <1>2. PairTypes
    BY DEF TradeInit, PairTypes, NoPair, NoLegs
  <1>3. \A p \in Party : ShownFits(p)
    BY DEF TradeInit, ShownFits, Settled, Trading
  <1>4. \A t \in Txn : LifeFits(t)
    BY DEF TradeInit, Init, LifeFits, ItemLegs, CoinLegs, NoLegs
  <1> QED BY <1>1, <1>2, <1>3, <1>4 DEF OfferInv, OfferFits

------------------------------------------------------------------------------
(* Who is not concerned by a step *)

(* r's session is as it was, and is not the one that is being worked on. *)
SameSession(r) ==
  /\ partner'[r] = partner[r] /\ txn'[r] = txn[r] /\ items'[r] = items[r]
  /\ coins'[r] = coins[r] /\ confirmed'[r] = confirmed[r] /\ pair'[r] = pair[r]

SameTxn(t) ==
  /\ phase'[t] = phase[t] /\ owner'[t] = owner[t] /\ coin'[t] = coin[t]
  /\ staging'[t] = staging[t]

LEMMA ShownStays ==
  ASSUME OfferInv, NEW r \in Party, SameSession(r), Trading(r) => SameTxn(txn[r]),
         Settled(r)' => Settled(r)
  PROVE  ShownFits(r)'
  <1>1. ShownFits(r)
    BY DEF OfferInv, OfferFits
  <1>2. Trading(r)' <=> Trading(r)
    BY DEF SameSession, Trading
  <1>3. Settled(r) => Trading(r)
    BY DEF Settled
  <1>4. ASSUME Settled(r)'
        PROVE  /\ phase'[txn'[r]] = "open"
               /\ items'[r] = {i \in Item : owner'[txn'[r]][i] = r}
               /\ coins'[r] = coin'[txn'[r]][r]
               /\ confirmed'[r] => pair'[r] = <<owner'[txn'[r]], coin'[txn'[r]]>>
    BY <1>1, <1>3, <1>4 DEF SameSession, SameTxn, ShownFits
  <1>5. ~Trading(r)' => items'[r] = {} /\ coins'[r] = 0 /\ ~confirmed'[r]
    BY <1>1, <1>2 DEF SameSession, ShownFits
  <1> QED BY <1>4, <1>5 DEF ShownFits

LEMMA LifeStays ==
  ASSUME OfferInv, NEW t \in Txn, SameTxn(t), t \in used' <=> t \in used,
         UNCHANGED mgr \/ staging[t] = NoStage,
         phase[t] \in {"committed", "aborted"} \/ \A p \in Party : txn[p] = t => txn'[p] = t
  PROVE  LifeFits(t)'
  BY DEF OfferInv, OfferFits, LifeFits, SameTxn, ItemLegs, CoinLegs

(* The session of p and the transaction it is over, which nobody else uses. *)
LEMMA OwnTxn ==
  ASSUME TradeInv, NEW p \in Party, Trading(p)
  PROVE  /\ txn[p] \in Txn /\ txn[p] \in used /\ partner[p] \in Party /\ partner[p] # p
         /\ Trading(partner[p]) /\ txn[partner[p]] = txn[p] /\ partner[partner[p]] = p
         /\ \A r \in Party : txn[r] = txn[p] <=> r \in Sides(p)
  <1> USE EscrowAssumption, TradeAssumption
  <1>1. txn[p] \in Txn /\ txn[p] \in used
    BY DEF TradeInv, TradeTypeOK, IndexFits
  <1> QED BY <1>1 DEF TradeInv, TradeTypeOK, OneTradeEach, Trading, Sides
(* A step of the escrow on p's transaction concerns p's session only. *)
LEMMA OthersAlone ==
  ASSUME OfferInv, NEW p \in Party, Trading(p), AnyOperate(txn[p]) \/ Finish(txn[p]),
         UNCHANGED <<partner, txn, used>>, mgr.op = "free" \/ mgr.txn = txn[p],
         \A r \in Party \ Sides(p) : SameSession(r)
  PROVE  /\ \A r \in Party \ Sides(p) : ShownFits(r)'
         /\ \A t \in Txn \ {txn[p]} : LifeFits(t)'
  <1>0. TypeOK /\ TradeInv
    BY DEF OfferInv, OfferFits, LegsInv
  <1>1. /\ txn[p] \in Txn
        /\ \A r \in Party : Trading(r) => txn[r] \in Txn
        /\ \A r \in Party : txn[r] = txn[p] <=> r \in Sides(p)
    BY <1>0, OwnTxn
  <1>2. \A t \in Txn \ {txn[p]} : SameTxn(t)
    BY <1>0, <1>1, OthersUntouched DEF SameTxn
  <1>3. ASSUME NEW r \in Party \ Sides(p) PROVE ShownFits(r)'
    <2>1. Trading(r) => SameTxn(txn[r])
      BY <1>1, <1>2
    <2>2. Settled(r)' => Settled(r)
      BY <1>1 DEF SameSession, Settled, Trading
    <2> QED BY <2>1, <2>2, ShownStays
  <1>4. ASSUME NEW t \in Txn \ {txn[p]} PROVE LifeFits(t)'
    <2>1. staging[t] # NoStage => mgr.op = "offer" /\ mgr.txn = t
      BY DEF OfferInv, OfferFits, LifeFits
    <2> QED BY <1>2, <2>1, LifeStays
  <1> QED BY <1>3, <1>4

(* The same when the whole session of p is as it was. *)
LEMMA SessionAlone ==
  ASSUME OfferInv, NEW p \in Party, Trading(p), AnyOperate(txn[p]) \/ Finish(txn[p]),
         UNCHANGED sessionVars, mgr.op = "free" \/ mgr.txn = txn[p],
         \A r \in Sides(p) : ShownFits(r)', LifeFits(txn[p])'
  PROVE  OfferFits'
  <1>1. \A r \in Party : SameSession(r)
    BY DEF SameSession, sessionVars
  <1>2. /\ \A r \in Party \ Sides(p) : ShownFits(r)'
        /\ \A t \in Txn \ {txn[p]} : LifeFits(t)'
    BY <1>1, OthersAlone DEF sessionVars
  <1>3. PairTypes'
    BY DEF OfferInv, OfferFits, PairTypes, sessionVars
  <1> QED BY <1>2, <1>3 DEF OfferFits, sessionVars

------------------------------------------------------------------------------
(* Offers *)

(* A change of p's offer by an operation on its transaction: it stays open,
   the confirmations are cleared, and the mirrors follow the legs. *)
LEMMA OfferChanges ==
  ASSUME OfferInv, NEW p \in Party, Trading(p), AnyOperate(txn[p]), Changed(p),
         UNCHANGED <<partner, txn, used>>, mgr.op = "free" \/ mgr.txn = txn[p],
         mgr' = Unlocked, staging'[txn[p]] = NoStage, phase'[txn[p]] = "open",
         \A r \in Party \ {p} : items'[r] = items[r] /\ coins'[r] = coins[r],
         LET q == partner[p] IN
           /\ items'[p] = {i \in Item : owner'[txn[p]][i] = p}
           /\ coins'[p] = coin'[txn[p]][p]
           /\ items[q] = {i \in Item : owner'[txn[p]][i] = q}
           /\ coins[q] = coin'[txn[p]][q]
  PROVE  OfferFits'
  <1> DEFINE q == partner[p]
  <1>0. TradeInv /\ PairTypes /\ TradeTypeOK
    BY DEF OfferInv, OfferFits, TradeInv
  <1>1. /\ txn[p] \in Txn /\ txn[p] \in used /\ q \in Party /\ q # p /\ Trading(q)
        /\ txn[q] = txn[p] /\ partner[q] = p
    BY <1>0, OwnTxn
  <1>2. /\ \A r \in Sides(p) : r \in Party /\ ~confirmed'[r]
        /\ \A r \in Party \ Sides(p) : confirmed'[r] = confirmed[r] /\ pair'[r] = pair[r]
    BY <1>0, <1>1 DEF Changed, ClearConfirmations, Sides
  <1>3. \A r \in Party \ Sides(p) : SameSession(r)
    BY <1>2 DEF SameSession, Sides
  <1>4. /\ \A r \in Party \ Sides(p) : ShownFits(r)'
        /\ \A t \in Txn \ {txn[p]} : LifeFits(t)'
    BY <1>3, OthersAlone
  <1>5. ShownFits(p)' /\ ShownFits(q)'
    <2>1. ~confirmed'[p] /\ ~confirmed'[q] /\ Trading(p)' /\ Trading(q)'
      BY <1>1, <1>2 DEF Sides, Trading
    <2>2. items'[q] = items[q] /\ coins'[q] = coins[q]
      BY <1>1
    <2> QED BY <1>1, <2>1, <2>2 DEF ShownFits
  <1>6. LifeFits(txn[p])'
    BY <1>1 DEF LifeFits
  <1>7. PairTypes'
    BY <1>0 DEF Changed, ClearConfirmations, PairTypes, NoPair, NoLegs
  <1> QED BY <1>4, <1>5, <1>6, <1>7 DEF OfferFits, Sides
(* Both sides of a settled session. *)
LEMMA BothShown ==
  ASSUME OfferInv, NEW p \in Party, Settled(p)
  PROVE  /\ Settled(partner[p])
         /\ phase[txn[p]] = "open"
         /\ \A r \in Sides(p) : /\ r \in Party
                                /\ items[r] = {i \in Item : owner[txn[p]][i] = r}
                                /\ coins[r] = coin[txn[p]][r]
                                /\ confirmed[r] => pair[r] = <<owner[txn[p]], coin[txn[p]]>>
  <1>1. Trading(p)
    BY DEF Settled
  <1>2. /\ partner[p] \in Party /\ Trading(partner[p]) /\ txn[partner[p]] = txn[p]
    BY <1>1, OwnTxn DEF OfferInv
  <1>3. Settled(partner[p])
    BY <1>2 DEF Settled
  <1> QED BY <1>2, <1>3 DEF OfferInv, OfferFits, ShownFits, Sides

LEMMA OfferItemEndFits ==
  ASSUME OfferInv, NEW p \in Party, NEW i \in Item, OfferItemEnd(p, i)
  PROVE  OfferFits'
  <1> USE EscrowAssumption, TradeAssumption
  <1> DEFINE t == txn[p]
             q == partner[p]
  <1>0. TypeOK /\ TradeInv /\ TradeTypeOK /\ StagingFits
    BY DEF OfferInv, LegsInv, TradeInv
  <1>1. mgr.op = "offer" /\ mgr.txn = t /\ Trading(p)
    BY <1>0 DEF OfferItemEnd, Busy, TradeInv, IndexFits
  <1>2. t \in Txn /\ q \in Party /\ q # p
    BY <1>0, <1>1, OwnTxn
  <1>3. Settled(p)
    BY <1>1 DEF Settled
  <1>4. /\ phase[t] = "open"
        /\ items[p] = {j \in Item : owner[t][j] = p} /\ items[q] = {j \in Item : owner[t][j] = q}
        /\ coins[p] = coin[t][p] /\ coins[q] = coin[t][q]
    BY <1>3, BothShown DEF Sides
  <1>5. /\ staging[t] = <<p, i>> /\ StageRemove(t) /\ Changed(p) /\ mgr' = Unlocked
        /\ items' = [items EXCEPT ![p] = @ \cup {i}]
        /\ UNCHANGED <<partner, txn, coins, used>>
    BY <1>1 DEF OfferItemEnd
  <1>6. owner[t][i] = NoParty
    BY <1>0, <1>2, <1>5 DEF StagingFits, NoStage
  <1>7. /\ owner' = [owner EXCEPT ![t][i] = p] /\ staging' = [staging EXCEPT ![t] = NoStage]
        /\ UNCHANGED <<phase, coin>>
    BY <1>5 DEF StageRemove
  <1> HIDE DEF t, q
  <1>8. \A j \in Item : owner'[t][j] = IF j = i THEN p ELSE owner[t][j]
    BY <1>0, <1>2, <1>7 DEF TypeOK
  <1>9. /\ items'[p] = {j \in Item : owner'[t][j] = p}
        /\ items[q] = {j \in Item : owner'[t][j] = q}
        /\ \A r \in Party \ {p} : items'[r] = items[r]
    BY <1>0, <1>2, <1>4, <1>5, <1>6, <1>8 DEF TradeTypeOK
  <1>10. staging'[t] = NoStage /\ phase'[t] = "open" /\ coin' = coin
    BY <1>0, <1>2, <1>4, <1>7 DEF TypeOK
  <1>11. AnyOperate(t)
    BY <1>5 DEF AnyOperate
  <1> QED BY <1>1, <1>4, <1>5, <1>9, <1>10, <1>11, OfferChanges DEF t, q

LEMMA RescindItemFits ==
  ASSUME OfferInv, NEW p \in Party, NEW i \in Item, RescindItem(p, i)
  PROVE  OfferFits'
  <1> USE EscrowAssumption, TradeAssumption
  <1> DEFINE t == txn[p]
             q == partner[p]
  <1>0. TypeOK /\ TradeInv /\ TradeTypeOK
    BY DEF OfferInv, LegsInv, TradeInv
  <1>1. /\ mgr = Unlocked /\ Trading(p) /\ WithdrawItem(t, p, i) /\ Changed(p)
        /\ items' = [items EXCEPT ![p] = @ \ {i}]
        /\ UNCHANGED <<partner, txn, coins, used, mgr>>
    BY DEF RescindItem, Free
  <1>2. t \in Txn /\ q \in Party /\ q # p
    BY <1>0, <1>1, OwnTxn
  <1>3. Settled(p) /\ mgr.op = "free"
    BY <1>1 DEF Settled, Unlocked
  <1>4. /\ phase[t] = "open"
        /\ items[p] = {j \in Item : owner[t][j] = p} /\ items[q] = {j \in Item : owner[t][j] = q}
        /\ coins[p] = coin[t][p] /\ coins[q] = coin[t][q]
    BY <1>3, BothShown DEF Sides
  <1>5. /\ owner[t][i] = p /\ owner' = [owner EXCEPT ![t][i] = NoParty] /\ staging[t] = NoStage
        /\ UNCHANGED <<phase, coin, staging>>
    BY <1>1 DEF WithdrawItem, Live
  <1> HIDE DEF t, q
  <1>6. \A j \in Item : owner'[t][j] = IF j = i THEN NoParty ELSE owner[t][j]
    BY <1>0, <1>2, <1>5 DEF TypeOK
  <1>7. /\ items'[p] = {j \in Item : owner'[t][j] = p}
        /\ items[q] = {j \in Item : owner'[t][j] = q}
        /\ \A r \in Party \ {p} : items'[r] = items[r]
    BY <1>0, <1>1, <1>2, <1>4, <1>5, <1>6 DEF TradeTypeOK
  <1>8. AnyOperate(t)
    BY <1>1 DEF AnyOperate
  <1> QED BY <1>1, <1>3, <1>4, <1>5, <1>7, <1>8, OfferChanges DEF t, q

(* Coin put up or taken back: the amount is the same in the leg and in the
   mirror, since the clamp of the one is the clamp of the other. *)
LEMMA OfferCoinFits ==
  ASSUME OfferInv, NEW p \in Party, NEW n \in Nat, OfferCoin(p, n) \/ RescindCoin(p, n)
  PROVE  OfferFits'
  <1> USE EscrowAssumption, TradeAssumption
  <1> DEFINE t == txn[p]
             q == partner[p]
  <1>0. TypeOK /\ TradeInv /\ TradeTypeOK
    BY DEF OfferInv, LegsInv, TradeInv
  <1>1. /\ mgr = Unlocked /\ Trading(p) /\ Changed(p)
        /\ UNCHANGED <<partner, txn, items, used, mgr>>
    BY DEF OfferCoin, RescindCoin, Free
  <1>2. t \in Txn /\ q \in Party /\ q # p
    BY <1>0, <1>1, OwnTxn
  <1>3. Settled(p) /\ mgr.op = "free"
    BY <1>1 DEF Settled, Unlocked
  <1>4. /\ phase[t] = "open"
        /\ items[p] = {j \in Item : owner[t][j] = p} /\ items[q] = {j \in Item : owner[t][j] = q}
        /\ coins[p] = coin[t][p] /\ coins[q] = coin[t][q]
    BY <1>3, BothShown DEF Sides
  <1>5. coins[p] \in Nat /\ coin[t][p] \in Nat
    BY <1>0, <1>2 DEF TypeOK, TradeTypeOK
  <1>6. \E x \in Int : /\ coin' = [coin EXCEPT ![t][p] = @ + x]
                       /\ coins' = [coins EXCEPT ![p] = @ + x]
    <2>1. CASE OfferCoin(p, n)
      <3>1. /\ n \in Int
            /\ coin' = [coin EXCEPT ![t][p] = @ + n]
            /\ coins' = [coins EXCEPT ![p] = @ + n]
        BY <2>1 DEF OfferCoin, StageCoin
      <3> HIDE DEF t
      <3> QED BY <3>1
    <2>2. CASE RescindCoin(p, n)
      <3> DEFINE back == IF n > coins[p] THEN coins[p] ELSE n
      <3>1. WithdrawCoin(t, p, back) /\ coins' = [coins EXCEPT ![p] = @ - back]
        BY <2>2 DEF RescindCoin
      <3>2. back \in Nat /\ ~(back > coin[t][p])
        BY <1>4, <1>5
      <3> HIDE DEF back
      <3>3. coin' = [coin EXCEPT ![t][p] = @ - back]
        BY <3>1, <3>2 DEF WithdrawCoin
      <3>4. -back \in Int /\ (coin[t][p] - back = coin[t][p] + (-back))
              /\ (coins[p] - back = coins[p] + (-back))
        BY <1>5, <3>2
      <3>5. /\ coin' = [coin EXCEPT ![t][p] = @ + (-back)]
            /\ coins' = [coins EXCEPT ![p] = @ + (-back)]
        BY <1>0, <1>2, <3>1, <3>3, <3>4 DEF TypeOK, TradeTypeOK
      <3> QED BY <3>4, <3>5
    <2> QED BY <2>1, <2>2
  <1>7. /\ staging[t] = NoStage /\ UNCHANGED <<owner, phase, staging>>
    BY DEF OfferCoin, StageCoin, RescindCoin, WithdrawCoin, Live
  <1>8. \E m \in Nat : StageCoin(t, p, m) \/ WithdrawCoin(t, p, m)
    BY <1>5 DEF OfferCoin, RescindCoin
  <1> HIDE DEF t, q
  <1>9. /\ coins'[p] = coin'[t][p] /\ coins[q] = coin'[t][q]
        /\ \A r \in Party \ {p} : coins'[r] = coins[r]
    BY <1>0, <1>2, <1>4, <1>6 DEF TypeOK, TradeTypeOK
  <1>10. AnyOperate(t)
    BY <1>8 DEF AnyOperate
  <1> QED BY <1>1, <1>3, <1>4, <1>7, <1>9, <1>10, OfferChanges DEF t, q

------------------------------------------------------------------------------
(* Steps that leave the offers alone *)

(* The legs, the sessions and the mutex are as they were. *)
LEMMA NothingShown ==
  ASSUME OfferInv, UNCHANGED <<phase, legVars, sessionVars, mgr>>
  PROVE  OfferFits'
  <1>1. \A r \in Party : SameSession(r) /\ (Settled(r)' <=> Settled(r))
    BY DEF SameSession, Settled, Trading, sessionVars
  <1>2. \A t \in Txn : SameTxn(t)
    BY DEF SameTxn, legVars
  <1>3. \A r \in Party : Trading(r) => txn[r] \in Txn
    BY OwnTxn DEF OfferInv
  <1>4. \A r \in Party : ShownFits(r)'
    BY <1>1, <1>2, <1>3, ShownStays
  <1>5. \A t \in Txn : LifeFits(t)'
    BY <1>2, LifeStays DEF sessionVars
  <1>6. PairTypes'
    BY DEF OfferInv, OfferFits, PairTypes, sessionVars
  <1> QED BY <1>4, <1>5, <1>6 DEF OfferFits

(* A transaction that is closed has no coin leg left. *)
LEMMA ClosedHasNoCoin ==
  ASSUME TypeOK, NEW t \in Txn, Finish(t), phase'[t] \in {"committed", "aborted"}
  PROVE  CoinLegs(t)' = {}
  <1>1. CoinLegs(t) = {} /\ UNCHANGED coin
    BY DEF Finish, DeliverItem, TakeBack, ReturnItem, ReturnItemFails, DeliverCoin,
           ReturnCoin, DeliverItemFails, CommitEnd, UndoEnd, Undoing, Forget, TypeOK
  <1> QED BY <1>1 DEF CoinLegs

(* The legs of a commit or a rollback: the session is being worked on. *)
LEMMA LegsFits == ASSUME OfferInv, Legs PROVE OfferFits'
  <1>0. TypeOK /\ TradeInv /\ LegsInv
    BY DEF OfferInv, LegsInv
  <1>1. /\ mgr.op \in {"confirm", "cancel"} /\ UNCHANGED <<sessionVars, mgr>>
        /\ Finish(mgr.txn)
    BY DEF Legs
  <1>2. PICK p \in Party : p = mgr.by
    BY <1>0, <1>1 DEF TradeInv, IndexFits
  <1>3. Trading(p) /\ mgr.txn = txn[p] /\ Finish(txn[p])
    BY <1>0, <1>1, <1>2 DEF TradeInv, IndexFits
  <1>4. /\ txn[p] \in Txn /\ txn[p] \in used
        /\ \A r \in Sides(p) : r \in Party /\ txn[r] = txn[p] /\ Trading(r)
    BY <1>0, <1>3, OwnTxn DEF Sides
  <1>5. \A r \in Sides(p) : ~Settled(r)' /\ Trading(r)'
    BY <1>1, <1>3, <1>4 DEF Settled, Trading, sessionVars
  <1>6. \A r \in Sides(p) : ShownFits(r)'
    BY <1>5 DEF ShownFits
  <1>7. LifeFits(txn[p])'
    <2>1. PICK t \in Txn : t = txn[p]
      BY <1>4
    <2>2. staging'[t] = NoStage /\ phase'[t] # "open"
      BY <1>0, <1>3, <2>1, FinishLegs
    <2>3. phase'[t] \in {"committed", "aborted"} => CoinLegs(t)' = {}
      BY <1>0, <1>3, <2>1, ClosedHasNoCoin
    <2>4. txn' = txn /\ used' = used
      BY <1>1 DEF sessionVars
    <2>5. LifeFits(t)'
      BY <1>4, <2>1, <2>2, <2>3, <2>4 DEF LifeFits
    <2> QED BY <2>1, <2>4, <2>5
  <1> QED BY <1>1, <1>3, <1>6, <1>7, SessionAlone

(* The accept path opens a session over a blank transaction, and neither
   side shows anything yet. *)
LEMMA AcceptFits ==
  ASSUME OfferInv, NEW p \in Party, NEW t \in Txn, InitiateAccept(p, t)
  PROVE  OfferFits'
  <1> USE EscrowAssumption, TradeAssumption
  <1>0. TradeInv /\ TradeTypeOK /\ IndexFits /\ OfferFits /\ TypeOK
    BY DEF OfferInv, TradeInv
  <1>1. PICK q \in Party : q = asked[p]
    BY <1>0 DEF InitiateAccept, TradeTypeOK
  <1>2. /\ q # p /\ ~Trading(p) /\ ~Trading(q) /\ t \notin used
        /\ partner' = [partner EXCEPT ![p] = q, ![q] = p]
        /\ txn' = [txn EXCEPT ![p] = t, ![q] = t]
        /\ used' = used \cup {t}
        /\ UNCHANGED <<items, coins, confirmed, pair, mgr, phase, owner, coin, staging>>
        /\ mgr = Unlocked
    BY <1>0, <1>1 DEF InitiateAccept, IndexFits, Free, escrowVars, vars, legVars
  <1>3. /\ partner'[p] = q /\ partner'[q] = p /\ txn'[p] = t /\ txn'[q] = t
        /\ \A r \in Party \ {p, q} : partner'[r] = partner[r] /\ txn'[r] = txn[r]
    BY <1>0, <1>2 DEF TradeTypeOK
  <1>4. phase[t] = "open" /\ ItemLegs(t) = {} /\ CoinLegs(t) = {} /\ staging[t] = NoStage
    BY <1>0, <1>2 DEF OfferFits, LifeFits, Unlocked
  <1>5. ASSUME NEW r \in {p, q} PROVE ShownFits(r)'
    <2>1. items'[r] = {} /\ coins'[r] = 0 /\ ~confirmed'[r]
      BY <1>0, <1>2 DEF OfferFits, ShownFits
    <2>2. phase'[t] = "open" /\ (\A i \in Item : owner'[t][i] = NoParty) /\ coin'[t][r] = 0
      BY <1>0, <1>2, <1>4 DEF ItemLegs, CoinLegs, TypeOK
    <2>3. txn'[r] = t /\ partner'[r] # NoParty
      BY <1>3
    <2> QED BY <2>1, <2>2, <2>3 DEF ShownFits, Trading
  <1>6. ASSUME NEW r \in Party \ {p, q} PROVE ShownFits(r)'
    <2>1. SameSession(r) /\ (Settled(r)' <=> Settled(r))
      BY <1>2, <1>3 DEF SameSession, Settled, Trading
    <2>2. Trading(r) => SameTxn(txn[r])
      BY <1>2 DEF SameTxn
    <2> QED BY <2>1, <2>2, ShownStays
  <1>7. ASSUME NEW u \in Txn PROVE LifeFits(u)'
    <2>1. CASE u = t
      BY <1>2, <1>3, <1>4, <2>1 DEF LifeFits, ItemLegs, CoinLegs
    <2>2. CASE u # t
      <3>1. \A r \in Party : txn[r] = u => txn'[r] = u
        BY <1>0, <1>2, <1>3 DEF TradeTypeOK, IndexFits
      <3> QED BY <1>2, <2>2, <3>1, LifeStays DEF SameTxn
    <2> QED BY <2>1, <2>2
  <1>8. PairTypes'
    BY <1>0, <1>2 DEF OfferFits, PairTypes
  <1> QED BY <1>5, <1>6, <1>7, <1>8 DEF OfferFits

------------------------------------------------------------------------------
(* Steps that take up the mutex, and those that give it back *)

(* An item is checked: nothing is staged yet. *)
LEMMA OfferItemFits ==
  ASSUME OfferInv, NEW p \in Party, NEW i \in Item, OfferItem(p, i)
  PROVE  OfferFits'
  <1> USE EscrowAssumption, TradeAssumption
  <1>0. TypeOK /\ TradeInv /\ OfferFits
    BY DEF OfferInv, LegsInv
  <1>1. /\ mgr = Unlocked /\ Trading(p) /\ StageCheck(txn[p], p, i) /\ UNCHANGED sessionVars
        /\ mgr' = [op |-> "offer", txn |-> txn[p], by |-> p]
    BY DEF OfferItem, Free, Lock
  <1>2. /\ txn[p] \in Txn /\ txn[p] \in used
        /\ \A r \in Sides(p) : r \in Party /\ txn[r] = txn[p] /\ Trading(r)
    BY <1>0, <1>1, OwnTxn DEF Sides
  <1>3. /\ UNCHANGED <<phase, owner, coin>> /\ phase[txn[p]] = "open"
        /\ staging' = [staging EXCEPT ![txn[p]] = <<p, i>>]
    BY <1>1 DEF StageCheck, Live
  <1>4. \A r \in Sides(p) : ShownFits(r)'
    BY <1>0, <1>1, <1>2, <1>3 DEF OfferFits, ShownFits, Settled, Trading, sessionVars, Unlocked
  <1>5. LifeFits(txn[p])'
    <2>1. PICK t \in Txn : t = txn[p]
      BY <1>2
    <2>2. staging'[t] = <<p, i>> /\ phase'[t] = "open" /\ mgr'.op = "offer" /\ mgr'.txn = t
            /\ mgr'.by = p /\ txn' = txn /\ used' = used
      BY <1>0, <1>1, <1>3, <2>1 DEF TypeOK, sessionVars
    <2>3. LifeFits(t)'
      BY <1>2, <2>1, <2>2 DEF LifeFits
    <2> QED BY <2>1, <2>2, <2>3
  <1>6. AnyOperate(txn[p]) /\ mgr.op = "free"
    BY <1>1 DEF AnyOperate, Unlocked
  <1> QED BY <1>1, <1>4, <1>5, <1>6, SessionAlone

(* The first confirmation is of the legs as they are. *)
LEMMA ConfirmFirstFits ==
  ASSUME OfferInv, NEW p \in Party, ConfirmFirst(p)
  PROVE  OfferFits'
  <1> USE EscrowAssumption, TradeAssumption
  <1>0. TypeOK /\ TradeInv /\ TradeTypeOK /\ OfferFits
    BY DEF OfferInv, TradeInv
  <1>1. /\ Trading(p) /\ MarkConfirmed(p)
        /\ UNCHANGED <<escrowVars, partner, txn, items, coins, used, mgr>>
    BY DEF ConfirmFirst
  <1>2. UNCHANGED <<phase, owner, coin, staging>>
    BY <1>1 DEF escrowVars, vars, legVars
  <1>3. ASSUME NEW r \in Party, r # p PROVE ShownFits(r)'
    <2>1. SameSession(r) /\ (Settled(r)' <=> Settled(r))
      BY <1>0, <1>1, <1>3 DEF SameSession, Settled, Trading, MarkConfirmed, TradeTypeOK, OfferFits,
                              PairTypes
    <2>2. Trading(r) => SameTxn(txn[r])
      BY <1>2 DEF SameTxn
    <2> QED BY <1>3, <2>1, <2>2, ShownStays
  <1>4. ShownFits(p)'
    <2>1. pair'[p] = <<owner[txn[p]], coin[txn[p]]>>
      BY <1>0, <1>1 DEF MarkConfirmed, OfferFits, PairTypes
    <2>2. ShownFits(p) /\ (Settled(p)' <=> Settled(p)) /\ Trading(p)'
      BY <1>0, <1>1 DEF OfferFits, Settled, Trading
    <2> QED BY <1>1, <1>2, <2>1, <2>2 DEF ShownFits
  <1>5. \A t \in Txn : LifeFits(t)'
    BY <1>1, <1>2, LifeStays DEF SameTxn
  <1>6. PairTypes'
    <2>1. txn[p] \in Txn
      BY <1>0, <1>1, OwnTxn
    <2> QED BY <1>0, <1>1, <2>1 DEF MarkConfirmed, OfferFits, PairTypes, TypeOK
  <1> QED BY <1>3, <1>4, <1>5, <1>6 DEF OfferFits

(* A commit or a rollback of p's transaction starts: the session is worked on
   from here. *)
LEMMA WorkStarts ==
  ASSUME OfferInv, NEW p \in Party, Trading(p), mgr = Unlocked,
         \/ \E d \in [Party -> Party \cup {NoParty}] :
               CommitBegin(txn[p], d) \/ CommitVetoed(txn[p], d)
         \/ Rollback(txn[p]),
         NEW op \in {"confirm", "cancel"}, mgr' = [op |-> op, txn |-> txn[p], by |-> p],
         UNCHANGED <<partner, txn, items, coins, used>>,
         \A r \in Party \ {p} : confirmed'[r] = confirmed[r] /\ pair'[r] = pair[r],
         PairTypes'
  PROVE  OfferFits'
  <1> USE EscrowAssumption, TradeAssumption
  <1>0. TypeOK /\ TradeInv /\ TradeTypeOK /\ OfferFits
    BY DEF OfferInv, TradeInv
  <1>1. /\ txn[p] \in Txn /\ txn[p] \in used
        /\ \A r \in Sides(p) : r \in Party /\ txn[r] = txn[p] /\ Trading(r)
    BY <1>0, OwnTxn DEF Sides
  <1>2. /\ AnyOperate(txn[p]) /\ mgr.op = "free"
        /\ \A r \in Party \ Sides(p) : SameSession(r)
    BY DEF AnyOperate, Unlocked, SameSession, Sides
  <1>3. /\ \A r \in Party \ Sides(p) : ShownFits(r)'
        /\ \A t \in Txn \ {txn[p]} : LifeFits(t)'
    BY <1>2, OthersAlone
  <1>4. \A r \in Sides(p) : ShownFits(r)'
    BY <1>1 DEF ShownFits, Settled, Trading
  <1>5. LifeFits(txn[p])'
    <2>1. PICK t \in Txn : t = txn[p]
      BY <1>1
    <2>2. phase'[t] \in {"delivering", "returning"} /\ staging'[t] = NoStage
      BY <1>0, <2>1 DEF CommitBegin, CommitVetoed, CommitReady, Rollback, Live, TypeOK, legVars
    <2>3. LifeFits(t)'
      BY <1>1, <2>1, <2>2 DEF LifeFits
    <2> QED BY <2>1, <2>3
  <1> QED BY <1>3, <1>4, <1>5 DEF OfferFits

LEMMA ConfirmSwapFits ==
  ASSUME OfferInv, NEW p \in Party, ConfirmSwap(p)
  PROVE  OfferFits'
  <1>0. TypeOK /\ TradeInv /\ TradeTypeOK /\ PairTypes
    BY DEF OfferInv, TradeInv, OfferFits
  <1>1. /\ Trading(p) /\ mgr = Unlocked /\ MarkConfirmed(p)
        /\ mgr' = [op |-> "confirm", txn |-> txn[p], by |-> p]
        /\ UNCHANGED <<partner, txn, items, coins, used>>
        /\ CommitBegin(txn[p], SwapDest(p)) \/ CommitVetoed(txn[p], SwapDest(p))
    BY DEF ConfirmSwap, Confirming, Free, Lock
  <1>2. SwapDest(p) \in [Party -> Party \cup {NoParty}]
    BY <1>0 DEF SwapDest, TradeTypeOK
  <1>3. \A r \in Party \ {p} : confirmed'[r] = confirmed[r] /\ pair'[r] = pair[r]
    BY <1>0, <1>1 DEF MarkConfirmed, TradeTypeOK, PairTypes
  <1>4. txn[p] \in Txn
    BY <1>0, <1>1, OwnTxn
  <1>5. PairTypes'
    BY <1>0, <1>1, <1>4 DEF MarkConfirmed, PairTypes, TypeOK
  <1> QED BY <1>1, <1>2, <1>3, <1>5, WorkStarts

LEMMA CancelFits ==
  ASSUME OfferInv, NEW p \in Party, Cancel(p) \/ CancelFor(p)
  PROVE  OfferFits'
  <1>1. CASE Trading(p)
    <2>1. /\ mgr = Unlocked /\ Rollback(txn[p]) /\ UNCHANGED sessionVars
          /\ mgr' = [op |-> "cancel", txn |-> txn[p], by |-> p]
      BY <1>1 DEF Cancel, CancelFor, Free, Lock
    <2>2. PairTypes'
      BY <2>1 DEF OfferInv, OfferFits, PairTypes, sessionVars
    <2> QED BY <1>1, <2>1, <2>2, WorkStarts DEF sessionVars
  <1>2. CASE ~Trading(p)
    <2>1. UNCHANGED <<phase, legVars, sessionVars, mgr>>
      BY <1>2 DEF Cancel, CancelFor, escrowVars, vars
    <2> QED BY <2>1, NothingShown
  <1> QED BY <1>1, <1>2

(* The session of p is over, its transaction closed: nobody is shown the
   legs of a transaction that no session has. *)
LEMMA EndFits ==
  ASSUME OfferInv, NEW p \in Party, ConfirmDone(p) \/ CancelEnd(p)
  PROVE  OfferFits'
  <1> USE EscrowAssumption, TradeAssumption
  <1>0. TypeOK /\ TradeInv /\ TradeTypeOK /\ IndexFits /\ OfferFits
    BY DEF OfferInv, TradeInv
  <1>1. /\ mgr.op \in {"confirm", "cancel"} /\ mgr.by = p
        /\ phase[mgr.txn] \in {"committed", "aborted"}
        /\ Remove(p) /\ mgr' = Unlocked /\ UNCHANGED <<phase, owner, coin, staging>>
    BY DEF ConfirmDone, CancelEnd, Busy, escrowVars, vars, legVars
  <1>2. Trading(p) /\ mgr.txn = txn[p]
    BY <1>0, <1>1 DEF IndexFits
  <1>3. /\ txn[p] \in Txn
        /\ \A r \in Party : txn[r] = txn[p] <=> r \in Sides(p)
        /\ \A r \in Sides(p) : r \in Party
    BY <1>0, <1>2, OwnTxn DEF Sides
  <1>4. \A r \in Party :
          IF r \in Sides(p)
          THEN /\ partner'[r] = NoParty /\ txn'[r] = NoTxn /\ items'[r] = {} /\ coins'[r] = 0
               /\ ~confirmed'[r]
          ELSE SameSession(r)
    BY <1>1 DEF Remove, ResetOffers, ClearConfirmations, SameSession
  <1>5. ASSUME NEW r \in Party PROVE ShownFits(r)'
    <2>1. CASE r \in Sides(p)
      BY <1>4, <2>1 DEF ShownFits, Settled, Trading
    <2>2. CASE r \notin Sides(p)
      <3>1. SameSession(r)
        BY <1>4, <2>2
      <3>2. Settled(r)' => Settled(r)
        BY <1>2, <1>3, <2>2, <3>1 DEF SameSession, Settled, Trading
      <3>3. Trading(r) => SameTxn(txn[r])
        BY <1>1 DEF SameTxn
      <3> QED BY <3>1, <3>2, <3>3, ShownStays
    <2> QED BY <2>1, <2>2
  <1>6. ASSUME NEW t \in Txn PROVE LifeFits(t)'
    <2>1. SameTxn(t) /\ used' = used
      BY <1>1 DEF SameTxn, Remove
    <2>2. staging[t] = NoStage
      BY <1>0, <1>1 DEF OfferFits, LifeFits
    <2>3. CASE t = txn[p]
      BY <1>1, <1>2, <2>1, <2>2, <2>3, LifeStays
    <2>4. CASE t # txn[p]
      <3>1. \A r \in Party : txn[r] = t => txn'[r] = t
        BY <1>3, <1>4, <2>4 DEF SameSession
      <3> QED BY <2>1, <2>2, <3>1, LifeStays
    <2> QED BY <2>3, <2>4
  <1>7. PairTypes'
    BY <1>0, <1>1 DEF Remove, ClearConfirmations, OfferFits, PairTypes, NoPair, NoLegs
  <1> QED BY <1>5, <1>6, <1>7 DEF OfferFits

(* A commit that failed: the session goes on with a blank transaction, and
   the old one is closed. *)
LEMMA RetryFits ==
  ASSUME OfferInv, NEW p \in Party, NEW u \in Txn, ConfirmFailed(p, u)
  PROVE  OfferFits'
  <1> USE EscrowAssumption, TradeAssumption
  <1>0. TypeOK /\ TradeInv /\ TradeTypeOK /\ IndexFits /\ OfferFits
    BY DEF OfferInv, TradeInv
  <1>1. /\ mgr.op = "confirm" /\ mgr.by = p /\ phase[mgr.txn] = "aborted"
        /\ u \notin used /\ used' = used \cup {u} /\ partner' = partner
        /\ txn' = [q \in Party |-> IF q \in Sides(p) THEN u ELSE txn[q]]
        /\ ResetOffers(p) /\ ClearConfirmations(p)
        /\ mgr' = Unlocked /\ UNCHANGED <<phase, owner, coin, staging>>
    BY DEF ConfirmFailed, Busy, escrowVars, vars, legVars
  <1>2. Trading(p) /\ mgr.txn = txn[p]
    BY <1>0, <1>1 DEF IndexFits
  <1>3. /\ txn[p] \in Txn
        /\ \A r \in Party : txn[r] = txn[p] <=> r \in Sides(p)
        /\ \A r \in Sides(p) : r \in Party /\ Trading(r)
    BY <1>0, <1>2, OwnTxn DEF Sides
  <1>4. \A r \in Party :
          IF r \in Sides(p)
          THEN txn'[r] = u /\ items'[r] = {} /\ coins'[r] = 0 /\ ~confirmed'[r]
          ELSE SameSession(r)
    BY <1>1 DEF ResetOffers, ClearConfirmations, SameSession
  <1>5. ASSUME NEW r \in Party PROVE ShownFits(r)'
    <2>1. CASE r \in Sides(p)
      <3>1. phase'[u] = "open" /\ ItemLegs(u)' = {} /\ CoinLegs(u)' = {}
        BY <1>0, <1>1 DEF OfferFits, LifeFits, ItemLegs, CoinLegs
      <3>2. (\A i \in Item : owner'[u][i] = NoParty) /\ coin'[u][r] = 0
        BY <1>0, <1>1, <3>1 DEF ItemLegs, CoinLegs, TypeOK
      <3>3. txn'[r] = u /\ items'[r] = {} /\ coins'[r] = 0 /\ ~confirmed'[r] /\ Trading(r)'
        BY <1>1, <1>3, <1>4, <2>1 DEF Trading
      <3> QED BY <3>1, <3>2, <3>3 DEF ShownFits
    <2>2. CASE r \notin Sides(p)
      <3>1. SameSession(r)
        BY <1>4, <2>2
      <3>2. Settled(r)' => Settled(r)
        BY <1>2, <1>3, <2>2, <3>1 DEF SameSession, Settled, Trading
      <3>3. Trading(r) => SameTxn(txn[r])
        BY <1>1 DEF SameTxn
      <3> QED BY <3>1, <3>2, <3>3, ShownStays
    <2> QED BY <2>1, <2>2
  <1>6. ASSUME NEW t \in Txn PROVE LifeFits(t)'
    <2>1. SameTxn(t)
      BY <1>1 DEF SameTxn
    <2>2. staging[t] = NoStage
      BY <1>0, <1>1 DEF OfferFits, LifeFits
    <2>3. CASE t = txn[p]
      <3>1. t # u /\ phase[t] = "aborted"
        BY <1>0, <1>1, <1>2, <2>3 DEF IndexFits
      <3> QED BY <1>1, <2>1, <2>2, <3>1, LifeStays
    <2>4. CASE t # txn[p] /\ t # u
      <3>1. \A r \in Party : txn[r] = t => txn'[r] = t
        BY <1>3, <1>4, <2>4 DEF SameSession
      <3> QED BY <1>1, <2>1, <2>2, <2>4, <3>1, LifeStays
    <2>5. CASE t = u
      <3>1. phase'[t] = "open" /\ staging'[t] = NoStage /\ txn'[p] = t
        BY <1>0, <1>1, <1>4, <2>2, <2>5 DEF OfferFits, LifeFits, Sides
      <3> QED BY <1>1, <2>5, <3>1 DEF LifeFits
    <2> QED BY <2>3, <2>4, <2>5
  <1>7. PairTypes'
    BY <1>0, <1>1 DEF ClearConfirmations, OfferFits, PairTypes, NoPair, NoLegs
  <1> QED BY <1>5, <1>6, <1>7 DEF OfferFits

------------------------------------------------------------------------------
LEMMA StepOfferInv == OfferInv /\ [TradeNext]_tradeVars => OfferInv'
  <1> SUFFICES ASSUME OfferInv, [TradeNext]_tradeVars PROVE OfferInv'
    OBVIOUS
  <1>0. TradeInv /\ LegsInv
    BY DEF OfferInv
  <1>1. LegsInv'
    <2>1. CASE UNCHANGED escrowVars
      BY <1>0, <2>1 DEF LegsInv, TypeOK, DestKnown, DeliveredFits, StagingFits, escrowVars, vars,
                        legVars, worldVars
    <2> QED BY <1>0, <2>1, EscrowSide, StepLegsInv
  <1>2. OfferFits'
    <2>1. CASE UNCHANGED <<phase, legVars, sessionVars, mgr>>
      BY <2>1, NothingShown
    <2>2. CASE UNCHANGED tradeVars
      BY <2>1, <2>2 DEF tradeVars, escrowVars, vars
    <2>3. CASE Legs
      BY <2>3, LegsFits
    <2>4. CASE Elsewhere
      <3>1. UNCHANGED <<phase, legVars, sessionVars, mgr>>
        BY <2>4 DEF Elsewhere, Give, TickConsume
      <3> QED BY <2>1, <3>1
    <2>5. ASSUME NEW p \in Party, Player(p) PROVE OfferFits'
      <3>1. ASSUME NEW t \in Txn, InitiateAccept(p, t) \/ ConfirmFailed(p, t) PROVE OfferFits'
        BY <3>1, AcceptFits, RetryFits
      <3>2. ASSUME NEW i \in Item, OfferItem(p, i) \/ OfferItemEnd(p, i) \/ RescindItem(p, i)
            PROVE  OfferFits'
        BY <3>2, OfferItemFits, OfferItemEndFits, RescindItemFits
      <3>3. ASSUME NEW n \in 1..(gold[p] + coins[p] + 1), OfferCoin(p, n) \/ RescindCoin(p, n)
            PROVE  OfferFits'
        <4>1. n \in Nat
          BY <1>0 DEF TradeInv, TypeOK, TradeTypeOK
        <4> QED BY <3>3, <4>1, OfferCoinFits
      <3>4. CASE \/ ConfirmFirst(p) \/ ConfirmSwap(p) \/ Cancel(p) \/ CancelFor(p)
                 \/ ConfirmDone(p) \/ CancelEnd(p)
        BY <3>4, ConfirmFirstFits, ConfirmSwapFits, CancelFits, EndFits
      <3>5. CASE \/ \E q \in Party : TradeFind(p, q)
                 \/ InitiateRefused(p) \/ InitiateRequest(p)
                 \/ TypeConfirm(p) \/ ConfirmNotTrading(p) \/ CancelNotTrading(p)
                 \/ \E r \in Room : SetRoom(p, r)
                 \/ Hangup(p) \/ LeaveWorld(p) \/ Login(p)
        <4>1. UNCHANGED <<phase, legVars, sessionVars, mgr>>
          BY <3>5 DEF TradeFind, InitiateRefused, InitiateRequest, TypeConfirm, ConfirmNotTrading,
                      CancelNotTrading, SetRoom, Hangup, LeaveWorld, Login, escrowVars, vars
        <4> QED BY <2>1, <4>1
      <3> QED BY <2>5, <3>1, <3>2, <3>3, <3>4, <3>5 DEF Player
    <2> QED BY <2>2, <2>3, <2>4, <2>5 DEF TradeNext
  <1> QED BY <1>0, <1>1, <1>2, StepTradeInv DEF OfferInv

(* What the two are shown is what is staged, in every state the manager can
   be asked about it, and a transaction with no session holds nothing. *)
THEOREM TradeOffersShown == TradeSpec => []OffersShownExactly
  <1>1. ASSUME OfferInv PROVE OffersShownExactly
    <2>0. OfferFits /\ DeliveredFits /\ TradeInv
      BY <1>1 DEF OfferInv, LegsInv
    <2>1. ASSUME Free, NEW p \in Party, Trading(p)
          PROVE  /\ items[p] = {i \in Item : owner[txn[p]][i] = p}
                 /\ coins[p] = coin[txn[p]][p]
      <3>1. Settled(p)
        BY <2>1 DEF Settled, Free, Unlocked
      <3> QED BY <2>0, <3>1 DEF OfferFits, ShownFits
    <2>2. ASSUME NEW t \in Txn, \A p \in Party : txn[p] # t
          PROVE  ItemLegs(t) = {} /\ CoinLegs(t) = {}
      <3>1. CASE t \notin used
        BY <2>0, <3>1 DEF OfferFits, LifeFits
      <3>2. CASE t \in used
        <4>1. phase[t] \in {"committed", "aborted"} /\ CoinLegs(t) = {}
          BY <2>0, <2>2, <3>2 DEF OfferFits, LifeFits
        <4> QED BY <2>0, <4>1 DEF DeliveredFits, ItemLegs
      <3> QED BY <3>1, <3>2
    <2> QED BY <2>1, <2>2 DEF OffersShownExactly
  <1> QED BY <1>1, InitOfferInv, StepOfferInv, PTL DEF TradeSpec

LEMMA OnlyConfirmSwaps ==
  ASSUME OfferInv, [TradeNext]_tradeVars, NEW t \in Txn,
         phase[t] = "open", phase'[t] = "delivering"
  PROVE  \E p \in Party : ConfirmSwap(p) /\ t = txn[p]
  <1>0. TypeOK /\ TradeInv /\ IndexFits
    BY DEF OfferInv, TradeInv
  <1>1. ASSUME NEW u \in Txn, AnyOperate(u) \/ Finish(u) PROVE u = t
    BY <1>0, <1>1, OthersUntouched
  <1>2. ~UNCHANGED phase
    OBVIOUS
  <1>3. ~UNCHANGED tradeVars /\ ~Elsewhere
    BY <1>2 DEF tradeVars, escrowVars, vars, Elsewhere, Give, TickConsume
  <1>4. ~Legs
    <2> SUFFICES ASSUME Legs PROVE FALSE
      OBVIOUS
    <2>1. mgr.txn \in Txn /\ Finish(mgr.txn)
      BY <1>0, OwnTxn DEF Legs, IndexFits
    <2>2. Finish(t)
      BY <1>1, <2>1
    <2> QED BY <1>0, <2>2 DEF Finish, DeliverItem, TakeBack, ReturnItem, ReturnItemFails, DeliverCoin,
                     ReturnCoin, DeliverItemFails, CommitEnd, UndoEnd, Undoing
  <1>5. ASSUME NEW p \in Party, Player(p) PROVE ConfirmSwap(p) /\ t = txn[p]
    <2>1. ~(Cancel(p) \/ CancelFor(p))
      <3>1. ASSUME NEW u \in Txn, Rollback(u) PROVE FALSE
        BY <1>0, <1>1, <3>1 DEF Rollback, AnyOperate, TypeOK
      <3>2. Trading(p) => txn[p] \in Txn
        BY <1>0, OwnTxn
      <3> QED BY <1>2, <3>1, <3>2 DEF Cancel, CancelFor, escrowVars, vars
    <2>2. ConfirmSwap(p)
      BY <1>2, <1>5, <2>1
         DEF Player, TradeFind, InitiateRefused, InitiateRequest, InitiateAccept, OfferItem,
             StageCheck, OfferItemEnd, StageRemove, RescindItem, WithdrawItem, OfferCoin,
             StageCoin, RescindCoin, WithdrawCoin, TypeConfirm, ConfirmFirst,
             ConfirmNotTrading, ConfirmDone, ConfirmFailed, CancelNotTrading, CancelEnd,
             SetRoom, Hangup, LeaveWorld, Login, escrowVars, vars
    <2>3. SwapDest(p) \in [Party -> Party \cup {NoParty}]
      BY <1>0 DEF SwapDest, TradeInv, TradeTypeOK
    <2>4. txn[p] \in Txn /\ AnyOperate(txn[p])
      BY <1>0, <2>2, <2>3, OwnTxn DEF ConfirmSwap, AnyOperate
    <2> QED BY <1>1, <2>2, <2>4
  <1> QED BY <1>3, <1>4, <1>5 DEF TradeNext

(* No swap happens on a confirmation of offers that have changed since: when
   a commit starts, both sides have confirmed the legs it delivers. *)
THEOREM TradeSwapOnConfirmed == TradeSpec => SwapOnConfirmedPair
  <1>1. ASSUME OfferInv, [TradeNext]_tradeVars, NEW t \in Txn,
               phase[t] = "open", phase'[t] = "delivering", NEW r \in Party, txn[r] = t
        PROVE  confirmed'[r] /\ pair'[r] = <<owner[t], coin[t]>>
    <2>0. TradeInv /\ TradeTypeOK /\ PairTypes
      BY <1>1 DEF OfferInv, OfferFits, TradeInv
    <2>1. PICK p \in Party : ConfirmSwap(p) /\ t = txn[p]
      BY <1>1, OnlyConfirmSwaps
    <2>2. /\ Trading(p) /\ mgr = Unlocked /\ confirmed[partner[p]] /\ MarkConfirmed(p)
      BY <2>1 DEF ConfirmSwap, Confirming, Free
    <2>3. r \in Sides(p) /\ partner[p] \in Party /\ partner[p] # p /\ txn[partner[p]] = t
      BY <1>1, <2>0, <2>1, <2>2, OwnTxn
    <2>4. Settled(p)
      BY <2>2 DEF Settled, Unlocked
    <2>5. pair[partner[p]] = <<owner[t], coin[t]>>
      BY <1>1, <2>1, <2>2, <2>4, BothShown DEF Sides
    <2>6. /\ confirmed'[p] /\ pair'[p] = <<owner[t], coin[t]>>
          /\ confirmed'[partner[p]] /\ pair'[partner[p]] = pair[partner[p]]
      BY <2>0, <2>1, <2>2, <2>3 DEF MarkConfirmed, TradeTypeOK, PairTypes
    <2> QED BY <2>3, <2>5, <2>6 DEF Sides
  <1>2. OfferInv /\ [TradeNext]_tradeVars =>
          [\A t \in Txn : phase[t] = "open" /\ phase'[t] = "delivering" =>
             \A p \in Party : txn[p] = t =>
                confirmed'[p] /\ pair'[p] = <<owner[t], coin[t]>>]_tradeVars
    BY <1>1
  <1> QED BY <1>2, InitOfferInv, StepOfferInv, PTL DEF TradeSpec, SwapOnConfirmedPair

==============================================================================
