---------------------------- MODULE EscrowProofs ----------------------------
(***************************************************************************)
(* Proofs about Escrow and EscrowSwap, for any parties, items and          *)
(* transactions.                                                           *)
(***************************************************************************)
EXTENDS EscrowSwap, FiniteSetTheorems, TLAPS

(* A step of the escrow with any destination map and any amount: what Next
   may do, and what a consumer of the escrow may do with it. *)
AnyOperate(t) ==
  \/ \E p \in Party, i \in Item : StageCheck(t, p, i) \/ WithdrawItem(t, p, i)
  \/ StageRemove(t)
  \/ \E p \in Party, n \in Nat : StageCoin(t, p, n) \/ WithdrawCoin(t, p, n)
  \/ \E d \in [Party -> Party \cup {NoParty}] : CommitBegin(t, d) \/ CommitVetoed(t, d)
  \/ Rollback(t)

AnyStep == World \/ \E t \in Txn : AnyOperate(t) \/ Finish(t)

LEMMA NextIsAnyStep == TypeOK /\ Next => AnyStep
  <1> SUFFICES ASSUME TypeOK, NEW t \in Txn, Operate(t) PROVE AnyOperate(t)
    BY DEF Next, AnyStep
  <1> USE EscrowAssumption
  <1>1. CASE \E p \in Party : \E n \in 1..(gold[p] + coin[t][p] + 1) :
                StageCoin(t, p, n) \/ WithdrawCoin(t, p, n)
    <2>1. \A p \in Party : 1..(gold[p] + coin[t][p] + 1) \subseteq Nat
      BY DEF TypeOK
    <2> QED BY <1>1, <2>1 DEF AnyOperate
  <1>2. CASE \E d \in DestMaps : CommitBegin(t, d) \/ CommitVetoed(t, d)
    BY <1>2 DEF AnyOperate
  <1> QED BY <1>1, <1>2 DEF Operate, AnyOperate

------------------------------------------------------------------------------
(* Types *)

LEMMA InitTypeOK == Init => TypeOK
  BY EscrowAssumption DEF Init, TypeOK, Phase, NoStage, NoLegs, NoDest

LEMMA BagChange ==
  ASSUME TypeOK, NEW i \in Item, NEW x
  PROVE  /\ Add(x, i) \in [Party -> SUBSET Item]
         /\ Take(x, i) \in [Party -> SUBSET Item]
  BY DEF TypeOK, Add, Take

LEMMA LegChange ==
  ASSUME TypeOK, NEW t \in Txn, NEW i \in Item, NEW x \in Party \cup {NoParty}
  PROVE  [owner EXCEPT ![t][i] = x] \in [Txn -> [Item -> Party \cup {NoParty}]]
  BY DEF TypeOK

LEMMA PurseChange ==
  ASSUME TypeOK, NEW x, NEW n \in Nat
  PROVE  [gold EXCEPT ![x] = @ + n] \in [Party -> Nat]
  <1>1. CASE x \in Party
    BY <1>1 DEF TypeOK
  <1>2. CASE x \notin Party
    <2>1. [gold EXCEPT ![x] = @ + n] = gold
      BY <1>2 DEF TypeOK
    <2> QED BY <2>1 DEF TypeOK
  <1> QED BY <1>1, <1>2

LEMMA StepTypeOK == TypeOK /\ AnyStep => TypeOK'
  <1> SUFFICES ASSUME TypeOK, AnyStep PROVE TypeOK'
    OBVIOUS
  <1> USE EscrowAssumption DEF TypeOK, Phase, legVars, worldVars
  <1>1. ASSUME NEW p \in Party, NEW q \in Party, NEW i \in Item, Give(p, q, i)
        PROVE  TypeOK'
    BY <1>1 DEF Give
  <1>2. ASSUME NEW p \in Party, NEW i \in Item, TickConsume(p, i) PROVE TypeOK'
    BY <1>2 DEF TickConsume, Take
  <1>3. ASSUME NEW t \in Txn, AnyOperate(t) PROVE TypeOK'
    <2>1. ASSUME NEW p \in Party, NEW i \in Item, StageCheck(t, p, i) PROVE TypeOK'
      BY <2>1 DEF StageCheck
    <2>2. ASSUME NEW p \in Party, NEW i \in Item, WithdrawItem(t, p, i) PROVE TypeOK'
      BY <2>2 DEF WithdrawItem, Add
    <2>3. CASE StageRemove(t)
      <3>1. PICK p \in Party, i \in Item : staging[t] = <<p, i>>
        BY <2>3 DEF StageRemove
      <3> QED BY <2>3, <3>1 DEF StageRemove, Take, NoStage
    <2>4. ASSUME NEW p \in Party, NEW n \in Nat, StageCoin(t, p, n) PROVE TypeOK'
      BY <2>4 DEF StageCoin
    <2>5. ASSUME NEW p \in Party, NEW n \in Nat, WithdrawCoin(t, p, n) PROVE TypeOK'
      BY <2>5 DEF WithdrawCoin
    <2>6. ASSUME NEW d \in [Party -> Party \cup {NoParty}],
                 CommitBegin(t, d) \/ CommitVetoed(t, d)
          PROVE  TypeOK'
      <3>1. [item |-> owner[t], coin |-> coin[t]]
              \in [item : [Item -> Party \cup {NoParty}], coin : [Party -> Nat]]
        OBVIOUS
      <3>2. CASE CommitBegin(t, d)
        BY <3>1, <3>2 DEF CommitBegin
      <3>3. CASE CommitVetoed(t, d)
        BY <3>3 DEF CommitVetoed
      <3> QED BY <2>6, <3>2, <3>3
    <2>7. CASE Rollback(t)
      BY <2>7 DEF Rollback
    <2> QED BY <1>3, <2>1, <2>2, <2>3, <2>4, <2>5, <2>6, <2>7 DEF AnyOperate
  <1>4. ASSUME NEW t \in Txn, Finish(t) PROVE TypeOK'
    <2>1. ASSUME NEW i \in Item, DeliverItem(t, i) PROVE TypeOK'
      <3>1. bag' \in [Party -> SUBSET Item]
        BY <2>1, BagChange DEF DeliverItem
      <3> QED BY <2>1, <3>1 DEF DeliverItem
    <2>2. ASSUME NEW i \in Item, TakeBack(t, i) PROVE TypeOK'
      <3>1. bag' \in [Party -> SUBSET Item]
        BY <2>2, BagChange DEF TakeBack
      <3>2. owner' \in [Txn -> [Item -> Party \cup {NoParty}]]
        <4>1. CASE owner' = owner
          BY <4>1
        <4>2. CASE owner' = [owner EXCEPT ![t][i] = NoParty]
          BY <4>2, LegChange
        <4> QED BY <2>2, <4>1, <4>2 DEF TakeBack
      <3>3. delivered' \in [Txn -> SUBSET Item]
        BY <2>2 DEF TakeBack
      <3> QED BY <2>2, <3>1, <3>2, <3>3 DEF TakeBack
    <2>3. ASSUME NEW i \in Item, ReturnItem(t, i) \/ ReturnItemFails(t, i) PROVE TypeOK'
      <3>1. bag' \in [Party -> SUBSET Item]
        BY <2>3, BagChange DEF ReturnItem, ReturnItemFails
      <3>2. owner' = [owner EXCEPT ![t][i] = NoParty]
        BY <2>3 DEF ReturnItem, ReturnItemFails
      <3>3. owner' \in [Txn -> [Item -> Party \cup {NoParty}]]
        BY <3>2
      <3>4. stranded' \subseteq Item
        BY <2>3 DEF ReturnItem, ReturnItemFails
      <3> QED BY <2>3, <3>1, <3>3, <3>4 DEF ReturnItem, ReturnItemFails
    <2>4. ASSUME NEW p \in Party, DeliverCoin(t, p) PROVE TypeOK'
      <3>1. gold' \in [Party -> Nat]
        <4>1. coin[t][p] \in Nat
          OBVIOUS
        <4> QED BY <2>4, <4>1, PurseChange DEF DeliverCoin
      <3> QED BY <2>4, <3>1 DEF DeliverCoin
    <2>5. ASSUME NEW p \in Party, ReturnCoin(t, p) PROVE TypeOK'
      BY <2>5 DEF ReturnCoin
    <2>6. CASE DeliverItemFails(t)
      BY <2>6 DEF DeliverItemFails
    <2>7. ASSUME NEW audited \in BOOLEAN, CommitEnd(t, audited) PROVE TypeOK'
      <3>1. record[t] \in [item : [Item -> Party \cup {NoParty}], coin : [Party -> Nat]]
        OBVIOUS
      <3>2. audit' \subseteq Txn \X [item : [Item -> Party \cup {NoParty}], coin : [Party -> Nat]]
        BY <2>7, <3>1 DEF CommitEnd
      <3> QED BY <2>7, <3>2 DEF CommitEnd, Forget, NoLegs, NoDest
    <2>8. CASE UndoEnd(t)
      BY <2>8 DEF UndoEnd, Forget, NoLegs, NoDest
    <2> QED BY <1>4, <2>1, <2>2, <2>3, <2>4, <2>5, <2>6, <2>7, <2>8 DEF Finish
  <1> QED BY <1>1, <1>2, <1>3, <1>4 DEF AnyStep, World

(* Type correctness. *)
THEOREM EscrowTypeOK == Spec => []TypeOK
  <1>1. TypeOK /\ [Next]_vars => TypeOK'
    <2>1. TypeOK /\ UNCHANGED vars => TypeOK'
      BY DEF TypeOK, vars, legVars, worldVars
    <2> QED BY <2>1, NextIsAnyStep, StepTypeOK
  <1> QED BY <1>1, InitTypeOK, PTL DEF Spec

------------------------------------------------------------------------------
(* Every item is in one place *)

(* What must be so for that: the custodian notices when the item it is to
   stage has gone, or nothing can take it between the check and the removal
   (no tick, and no unwind, which needs a failing delivery). *)
Careful == RemovalChecked \/ (~TickTakes /\ ~CustodianFails)

(* A running commit has somewhere to put each of its items. *)
DestKnown ==
  \A t \in Txn : phase[t] \in {"delivering", "unwinding"} =>
    \A i \in Item : owner[t][i] # NoParty => dest[t][owner[t][i]] \in Party

(* Only a running commit has items that are delivered and still have a leg. *)
DeliveredFits ==
  /\ \A t \in Txn : phase[t] \in {"open", "returning"} => delivered[t] = {}
  /\ \A t \in Txn : phase[t] \in {"committed", "aborted"} =>
                       \A i \in Item : owner[t][i] = NoParty

(* An item checked and not yet removed has no leg, and its transaction is
   open; a party stages in one transaction at a time. *)
StagingFits ==
  /\ \A t \in Txn : staging[t] # NoStage =>
       phase[t] = "open" /\ owner[t][staging[t][2]] = NoParty
  /\ \A t, u \in Txn : t # u /\ staging[t] # NoStage => staging[t][1] # staging[u][1]

(* With a custodian that does not look, the item is still there. *)
StagedInBag ==
  ~RemovalChecked => \A t \in Txn :
     /\ staging[t] # NoStage => staging[t][2] \in bag[staging[t][1]]
     /\ phase[t] # "unwinding"

(* These three, the types among them, need no care of the custodian. *)
LegsInv == TypeOK /\ DestKnown /\ DeliveredFits /\ StagingFits

EscrowInv == LegsInv /\ OnePlace /\ StagedInBag

LEMMA InitEscrowInv == Init => EscrowInv
  <1> SUFFICES ASSUME Init PROVE EscrowInv
    OBVIOUS
  <1> USE EscrowAssumption
  <1>1. TypeOK
    BY InitTypeOK
  <1>2. ASSUME NEW i \in Item PROVE Somewhere(i) /\ NotTwice(i)
    <2>1. \A p \in Party : i \in bag[p] <=> InitOwner[i] = p
      BY DEF Init
    <2>2. \A t \in Txn : i \notin InCustody(t)
      BY DEF Init, InCustody, ItemLegs, NoLegs
    <2>3. InitOwner[i] \in Party /\ stranded = {} /\ consumed = {}
      BY DEF Init
    <2> QED BY <2>1, <2>2, <2>3 DEF Somewhere, NotTwice
  <1>3. DestKnown /\ DeliveredFits /\ StagingFits /\ StagedInBag
    BY DEF Init, DestKnown, DeliveredFits, StagingFits, StagedInBag, NoStage, NoLegs
  <1> QED BY <1>1, <1>2, <1>3 DEF EscrowInv, LegsInv, OnePlace

(* A step leaves item j where it is. *)
Same(j) ==
  /\ \A p \in Party : j \in bag'[p] <=> j \in bag[p]
  /\ \A t \in Txn : (j \in InCustody(t))' <=> j \in InCustody(t)
  /\ j \in stranded' <=> j \in stranded
  /\ j \in consumed' <=> j \in consumed

LEMMA SameKeepsPlace ==
  ASSUME NEW j \in Item, Same(j), Somewhere(j), NotTwice(j)
  PROVE  Somewhere(j)' /\ NotTwice(j)'
  BY DEF Same, Somewhere, NotTwice

(* A step that moves at most item i, and moves that to one place. *)
LEMMA OneMoves ==
  ASSUME OnePlace, NEW i,
         \A j \in Item \ {i} : Same(j),
         i \in Item => Somewhere(i)' /\ NotTwice(i)'
  PROVE  OnePlace'
  BY SameKeepsPlace DEF OnePlace

(* The item leaves a bag, or a custody, for another: where it was is all that
   has to be known. *)
LEMMA InBagOnly ==
  ASSUME NEW i \in Item, NotTwice(i), NEW p \in Party, i \in bag[p]
  PROVE  /\ \A q \in Party : i \in bag[q] => q = p
         /\ \A t \in Txn : i \notin InCustody(t)
         /\ i \notin stranded /\ i \notin consumed
  BY DEF NotTwice

LEMMA InCustodyOnly ==
  ASSUME NEW i \in Item, NotTwice(i), NEW t \in Txn, i \in InCustody(t)
  PROVE  /\ \A q \in Party : i \notin bag[q]
         /\ \A u \in Txn : i \in InCustody(u) => u = t
         /\ i \notin stranded /\ i \notin consumed
  BY DEF NotTwice

LEMMA WorldOnePlace == EscrowInv /\ World => OnePlace'
  <1> SUFFICES ASSUME EscrowInv, World PROVE OnePlace'
    OBVIOUS
  <1> USE DEF legVars, worldVars
  <1>0. TypeOK /\ OnePlace
    BY DEF EscrowInv, LegsInv
  <1>1. ASSUME NEW p \in Party, NEW q \in Party, NEW i \in Item, Give(p, q, i)
        PROVE  OnePlace'
    <2>1. \A j \in Item \ {i} : Same(j)
      BY <1>0, <1>1 DEF Give, Same, TypeOK, InCustody, ItemLegs
    <2>2. /\ \A r \in Party : i \in bag[r] => r = p
          /\ \A t \in Txn : i \notin InCustody(t)
          /\ i \notin stranded /\ i \notin consumed
      BY <1>0, <1>1, InBagOnly DEF Give, OnePlace
    <2>3. \A r \in Party : i \in bag'[r] <=> r = q
      BY <1>0, <1>1, <2>2 DEF Give, TypeOK
    <2>4. /\ \A t \in Txn : (i \notin InCustody(t))'
          /\ i \notin stranded' /\ i \notin consumed'
      BY <1>1, <2>2 DEF Give, InCustody, ItemLegs
    <2> QED BY <1>0, <2>1, <2>3, <2>4, OneMoves DEF Somewhere, NotTwice
  <1>2. ASSUME NEW p \in Party, NEW i \in Item, TickConsume(p, i) PROVE OnePlace'
    <2>1. \A j \in Item \ {i} : Same(j)
      BY <1>0, <1>2 DEF TickConsume, Take, Same, TypeOK, InCustody, ItemLegs
    <2>2. /\ \A r \in Party : i \in bag[r] => r = p
          /\ \A t \in Txn : i \notin InCustody(t)
          /\ i \notin stranded /\ i \notin consumed
      BY <1>0, <1>2, InBagOnly DEF TickConsume, OnePlace
    <2>3. \A r \in Party : i \notin bag'[r]
      BY <1>0, <1>2, <2>2 DEF TickConsume, Take, TypeOK
    <2>4. /\ \A t \in Txn : (i \notin InCustody(t))'
          /\ i \notin stranded' /\ i \in consumed'
      BY <1>2, <2>2 DEF TickConsume, InCustody, ItemLegs
    <2> QED BY <1>0, <2>1, <2>3, <2>4, OneMoves DEF Somewhere, NotTwice
  <1> QED BY <1>1, <1>2 DEF World

LEMMA OperateOnePlace ==
  ASSUME EscrowInv, NEW t \in Txn, AnyOperate(t)
  PROVE  OnePlace'
  <1> USE DEF legVars, worldVars
  <1>0. TypeOK /\ OnePlace /\ DeliveredFits /\ StagingFits /\ StagedInBag
    BY DEF EscrowInv, LegsInv
  <1>1. ASSUME NEW p \in Party, NEW i \in Item, StageCheck(t, p, i) PROVE OnePlace'
    <2>1. \A j \in Item : Same(j)
      BY <1>1 DEF StageCheck, Same, InCustody, ItemLegs
    <2> QED BY <1>0, <2>1, SameKeepsPlace DEF OnePlace
  <1>2. ASSUME NEW p \in Party, NEW i \in Item, WithdrawItem(t, p, i) PROVE OnePlace'
    <2>1. \A j \in Item \ {i} : Same(j)
      BY <1>0, <1>2 DEF WithdrawItem, Add, Same, TypeOK, InCustody, ItemLegs
    <2>2. i \in InCustody(t)
      BY <1>0, <1>2, EscrowAssumption
      DEF WithdrawItem, Live, DeliveredFits, InCustody, ItemLegs
    <2>3. /\ \A q \in Party : i \notin bag[q]
          /\ \A u \in Txn : i \in InCustody(u) => u = t
          /\ i \notin stranded /\ i \notin consumed
      BY <1>0, <2>2, InCustodyOnly DEF OnePlace
    <2>4. \A q \in Party : i \in bag'[q] <=> q = p
      BY <1>0, <1>2, <2>3 DEF WithdrawItem, Add, TypeOK
    <2>5. /\ \A u \in Txn : (i \notin InCustody(u))'
          /\ i \notin stranded' /\ i \notin consumed'
      BY <1>0, <1>2, <2>3 DEF WithdrawItem, InCustody, ItemLegs, TypeOK
    <2> QED BY <1>0, <2>1, <2>4, <2>5, OneMoves DEF Somewhere, NotTwice
  <1>3. CASE StageRemove(t)
    <2>1. PICK p \in Party, i \in Item : staging[t] = <<p, i>>
      BY <1>0, <1>3 DEF StageRemove, TypeOK
    <2>2. /\ bag' = Take(p, i)
          /\ owner' = IF RemovalChecked /\ i \notin bag[p]
                        THEN owner ELSE [owner EXCEPT ![t][i] = p]
          /\ UNCHANGED <<delivered, stranded, consumed>>
      BY <1>3, <2>1 DEF StageRemove
    <2>3. CASE i \notin bag[p]
      <3>1. RemovalChecked
        <4>1. staging[t] # NoStage /\ staging[t][1] = p /\ staging[t][2] = i
          BY <1>3, <2>1 DEF StageRemove
        <4> QED BY <1>0, <2>3, <4>1 DEF StagedInBag
      <3>2. \A j \in Item : Same(j)
        BY <1>0, <2>2, <2>3, <3>1 DEF Take, Same, TypeOK, InCustody, ItemLegs
      <3> QED BY <1>0, <3>2, SameKeepsPlace DEF OnePlace
    <2>4. CASE i \in bag[p]
      <3>1. owner' = [owner EXCEPT ![t][i] = p]
        BY <2>2, <2>4
      <3>2. \A j \in Item \ {i} : Same(j)
        BY <1>0, <2>2, <3>1 DEF Take, Same, TypeOK, InCustody, ItemLegs
      <3>3. /\ \A q \in Party : i \in bag[q] => q = p
            /\ \A u \in Txn : i \notin InCustody(u)
            /\ i \notin stranded /\ i \notin consumed
        BY <1>0, <2>4, InBagOnly DEF OnePlace
      <3>4. \A q \in Party : i \notin bag'[q]
        BY <1>0, <2>2, <3>3 DEF Take, TypeOK
      <3>5. i \notin delivered[t]
        BY <1>0, <1>3, <2>1 DEF StageRemove, StagingFits, DeliveredFits
      <3>6. \A u \in Txn : (i \in InCustody(u))' <=> u = t
        BY <1>0, <2>2, <3>1, <3>3, <3>5, EscrowAssumption
        DEF InCustody, ItemLegs, TypeOK
      <3> QED BY <1>0, <2>2, <3>2, <3>3, <3>4, <3>6, OneMoves DEF Somewhere, NotTwice
    <2> QED BY <2>3, <2>4
  <1>4. ASSUME NEW p \in Party, NEW n \in Nat,
               StageCoin(t, p, n) \/ WithdrawCoin(t, p, n)
        PROVE  OnePlace'
    <2>1. \A j \in Item : Same(j)
      BY <1>4 DEF StageCoin, WithdrawCoin, Same, InCustody, ItemLegs
    <2> QED BY <1>0, <2>1, SameKeepsPlace DEF OnePlace
  <1>5. ASSUME NEW d \in [Party -> Party \cup {NoParty}],
               CommitBegin(t, d) \/ CommitVetoed(t, d) \/ Rollback(t)
        PROVE  OnePlace'
    <2>1. \A j \in Item : Same(j)
      BY <1>5 DEF CommitBegin, CommitVetoed, Rollback, Same, InCustody, ItemLegs
    <2> QED BY <1>0, <2>1, SameKeepsPlace DEF OnePlace
  <1>6. [Party -> Party \cup {NoParty}] # {}
    <2>1. [p \in Party |-> NoParty] \in [Party -> Party \cup {NoParty}]
      OBVIOUS
    <2> QED BY <2>1
  <1> QED BY <1>1, <1>2, <1>3, <1>4, <1>5, <1>6 DEF AnyOperate

LEMMA FinishOnePlace ==
  ASSUME EscrowInv, NEW t \in Txn, Finish(t)
  PROVE  OnePlace'
  <1> USE DEF legVars, worldVars
  <1>0. TypeOK /\ OnePlace /\ DestKnown /\ DeliveredFits
    BY DEF EscrowInv, LegsInv
  <1>1. ASSUME NEW i \in Item, DeliverItem(t, i) PROVE OnePlace'
    <2> DEFINE q == dest[t][owner[t][i]]
    <2>1. q \in Party /\ i \in InCustody(t)
      BY <1>0, <1>1 DEF DeliverItem, DestKnown, InCustody, ItemLegs
    <2>2. bag' = Add(q, i)
      BY <1>1 DEF DeliverItem
    <2> HIDE DEF q
    <2>3. \A j \in Item \ {i} : Same(j)
      BY <1>0, <1>1, <2>1, <2>2 DEF DeliverItem, Add, Same, TypeOK, InCustody, ItemLegs
    <2>4. /\ \A r \in Party : i \notin bag[r]
          /\ \A u \in Txn : i \in InCustody(u) => u = t
          /\ i \notin stranded /\ i \notin consumed
      BY <1>0, <2>1, InCustodyOnly DEF OnePlace
    <2>5. \A r \in Party : i \in bag'[r] <=> r = q
      BY <1>0, <2>1, <2>2, <2>4 DEF Add, TypeOK
    <2>6. /\ \A u \in Txn : (i \notin InCustody(u))'
          /\ i \notin stranded' /\ i \notin consumed'
      BY <1>0, <1>1, <2>4 DEF DeliverItem, InCustody, ItemLegs, TypeOK
    <2> QED BY <1>0, <2>1, <2>3, <2>5, <2>6, OneMoves DEF Somewhere, NotTwice
  <1>2. ASSUME NEW i \in Item, TakeBack(t, i) PROVE OnePlace'
    <2> DEFINE q == dest[t][owner[t][i]]
    <2>1. q \in Party /\ i \notin InCustody(t) /\ owner[t][i] # NoParty
      BY <1>0, <1>2 DEF TakeBack, DestKnown, InCustody, ItemLegs
    <2>2. CASE i \in bag[q]
      <3>1. bag' = Take(q, i) /\ UNCHANGED owner
        BY <1>2, <2>2 DEF TakeBack
      <3> HIDE DEF q
      <3>2. \A j \in Item \ {i} : Same(j)
        BY <1>0, <1>2, <2>1, <3>1 DEF TakeBack, Take, Same, TypeOK, InCustody, ItemLegs
      <3>3. /\ \A r \in Party : i \in bag[r] => r = q
            /\ \A u \in Txn : i \notin InCustody(u)
            /\ i \notin stranded /\ i \notin consumed
        BY <1>0, <2>1, <2>2, InBagOnly DEF OnePlace
      <3>4. \A r \in Party : i \notin bag'[r]
        BY <1>0, <3>1, <3>3 DEF Take, TypeOK
      <3>5. /\ \A u \in Txn : (i \in InCustody(u))' <=> u = t
            /\ i \notin stranded' /\ i \notin consumed'
        BY <1>0, <1>2, <2>1, <3>1, <3>3 DEF TakeBack, InCustody, ItemLegs, TypeOK
      <3> QED BY <1>0, <3>2, <3>4, <3>5, OneMoves DEF Somewhere, NotTwice
    <2>3. CASE i \notin bag[q]
      <3>1. UNCHANGED bag /\ owner' = [owner EXCEPT ![t][i] = NoParty]
        BY <1>2, <2>3 DEF TakeBack
      <3> HIDE DEF q
      <3>2. \A j \in Item : Same(j)
        BY <1>0, <1>2, <2>1, <3>1 DEF TakeBack, Same, TypeOK, InCustody, ItemLegs
      <3> QED BY <1>0, <3>2, SameKeepsPlace DEF OnePlace
    <2> QED BY <2>2, <2>3
  <1>3. ASSUME NEW i \in Item, ReturnItem(t, i) PROVE OnePlace'
    <2> DEFINE q == owner[t][i]
    <2>1. q \in Party /\ i \in InCustody(t)
      BY <1>0, <1>3 DEF ReturnItem, InCustody, ItemLegs, TypeOK
    <2>2. bag' = Add(q, i)
      BY <1>3 DEF ReturnItem
    <2> HIDE DEF q
    <2>3. \A j \in Item \ {i} : Same(j)
      BY <1>0, <1>3, <2>1, <2>2 DEF ReturnItem, Add, Same, TypeOK, InCustody, ItemLegs
    <2>4. /\ \A r \in Party : i \notin bag[r]
          /\ \A u \in Txn : i \in InCustody(u) => u = t
          /\ i \notin stranded /\ i \notin consumed
      BY <1>0, <2>1, InCustodyOnly DEF OnePlace
    <2>5. \A r \in Party : i \in bag'[r] <=> r = q
      BY <1>0, <2>1, <2>2, <2>4 DEF Add, TypeOK
    <2>6. /\ \A u \in Txn : (i \notin InCustody(u))'
          /\ i \notin stranded' /\ i \notin consumed'
      BY <1>0, <1>3, <2>4 DEF ReturnItem, InCustody, ItemLegs, TypeOK
    <2> QED BY <1>0, <2>1, <2>3, <2>5, <2>6, OneMoves DEF Somewhere, NotTwice
  <1>4. ASSUME NEW i \in Item, ReturnItemFails(t, i) PROVE OnePlace'
    <2>1. i \in InCustody(t)
      BY <1>4 DEF ReturnItemFails
    <2>2. \A j \in Item \ {i} : Same(j)
      BY <1>0, <1>4 DEF ReturnItemFails, Same, TypeOK, InCustody, ItemLegs
    <2>3. /\ \A r \in Party : i \notin bag[r]
          /\ \A u \in Txn : i \in InCustody(u) => u = t
          /\ i \notin stranded /\ i \notin consumed
      BY <1>0, <2>1, InCustodyOnly DEF OnePlace
    <2>4. /\ \A r \in Party : i \notin bag'[r]
          /\ \A u \in Txn : (i \notin InCustody(u))'
          /\ i \in stranded' /\ i \notin consumed'
      BY <1>0, <1>4, <2>3 DEF ReturnItemFails, InCustody, ItemLegs, TypeOK
    <2> QED BY <1>0, <2>2, <2>4, OneMoves DEF Somewhere, NotTwice
  <1>5. CASE \/ \E p \in Party : DeliverCoin(t, p) \/ ReturnCoin(t, p)
             \/ DeliverItemFails(t) \/ UndoEnd(t)
    <2>1. \A j \in Item : Same(j)
      BY <1>5 DEF DeliverCoin, ReturnCoin, DeliverItemFails, UndoEnd, Same, InCustody, ItemLegs
    <2> QED BY <1>0, <2>1, SameKeepsPlace DEF OnePlace
  <1>6. ASSUME NEW audited \in BOOLEAN, CommitEnd(t, audited) PROVE OnePlace'
    <2>1. \A j \in Item : Same(j)
      BY <1>0, <1>6 DEF CommitEnd, Same, InCustody, ItemLegs, NoLegs, TypeOK
    <2> QED BY <1>0, <2>1, SameKeepsPlace DEF OnePlace
  <1> QED BY <1>1, <1>2, <1>3, <1>4, <1>5, <1>6 DEF Finish

(* The other parts of the invariant. A step of one transaction leaves the
   others' alone. *)
LEMMA OthersUntouched ==
  ASSUME TypeOK, NEW t \in Txn, AnyOperate(t) \/ Finish(t), NEW u \in Txn, u # t
  PROVE  /\ phase'[u] = phase[u] /\ owner'[u] = owner[u] /\ dest'[u] = dest[u]
         /\ delivered'[u] = delivered[u] /\ staging'[u] = staging[u]
         /\ coin'[u] = coin[u] /\ record'[u] = record[u]
  BY DEF AnyOperate, Finish, StageCheck, WithdrawItem, StageRemove, StageCoin,
         WithdrawCoin, CommitBegin, CommitVetoed, Rollback, DeliverItem, TakeBack,
         ReturnItem, ReturnItemFails, DeliverCoin, ReturnCoin, DeliverItemFails,
         CommitEnd, UndoEnd, Forget, TypeOK, legVars, worldVars

LEMMA OperateLegs ==
  ASSUME LegsInv, NEW t \in Txn, AnyOperate(t)
  PROVE  /\ phase[t] = "open" /\ phase'[t] \in {"open", "delivering", "returning"}
         /\ delivered'[t] = {}
         /\ phase'[t] = "delivering" =>
              \A i \in Item : owner'[t][i] # NoParty => dest'[t][owner'[t][i]] \in Party
         /\ staging'[t] # NoStage =>
              /\ phase'[t] = "open" /\ owner'[t][staging'[t][2]] = NoParty
              /\ staging'[t][1] \in Party /\ Idle(staging'[t][1])
              /\ staging'[t][2] \in bag'[staging'[t][1]]
  <1> USE EscrowAssumption DEF legVars, worldVars
  <1>0. TypeOK /\ DeliveredFits /\ StagingFits
    BY DEF LegsInv
  <1>1. ASSUME NEW p \in Party, NEW i \in Item, StageCheck(t, p, i)
        PROVE  phase[t] = "open" /\ phase'[t] = "open" /\ delivered'[t] = {}
               /\ staging'[t] = <<p, i>> /\ owner'[t][i] = NoParty
               /\ Idle(p) /\ i \in bag'[p]
    BY <1>0, <1>1 DEF StageCheck, Live, DeliveredFits, TypeOK
  <1>2. CASE \/ \E p \in Party, i \in Item : WithdrawItem(t, p, i)
             \/ \E p \in Party, n \in Nat : StageCoin(t, p, n) \/ WithdrawCoin(t, p, n)
    <2>1. /\ phase[t] = "open" /\ staging[t] = NoStage
          /\ UNCHANGED <<phase, staging, delivered>>
      BY <1>2 DEF WithdrawItem, StageCoin, WithdrawCoin, Live
    <2> QED BY <1>0, <2>1 DEF DeliveredFits
  <1>3. CASE StageRemove(t)
    <2>1. phase[t] = "open" /\ UNCHANGED <<phase, delivered>>
      BY <1>0, <1>3 DEF StageRemove, StagingFits
    <2>2. staging'[t] = NoStage
      BY <1>0, <1>3 DEF StageRemove, TypeOK
    <2> QED BY <1>0, <2>1, <2>2 DEF DeliveredFits
  <1>4. ASSUME NEW d \in [Party -> Party \cup {NoParty}], CommitBegin(t, d)
        PROVE  /\ phase[t] = "open" /\ phase'[t] = "delivering" /\ delivered'[t] = {}
               /\ staging'[t] = NoStage
               /\ \A i \in Item : owner'[t][i] # NoParty => dest'[t][owner'[t][i]] \in Party
    <2>1. /\ phase[t] = "open" /\ staging[t] = NoStage
          /\ \A i \in Item : owner[t][i] # NoParty => d[owner[t][i]] # NoParty
          /\ UNCHANGED <<staging, owner, delivered>>
          /\ dest' = [dest EXCEPT ![t] = d]
          /\ phase' = [phase EXCEPT ![t] = "delivering"]
      BY <1>4 DEF CommitBegin, CommitReady, Live, Staged, ItemLegs
    <2>2. ASSUME NEW i \in Item, owner[t][i] # NoParty PROVE d[owner[t][i]] \in Party
      BY <1>0, <2>1, <2>2 DEF TypeOK
    <2> QED BY <1>0, <2>1, <2>2 DEF DeliveredFits, TypeOK
  <1>5. CASE Rollback(t) \/ \E d \in [Party -> Party \cup {NoParty}] : CommitVetoed(t, d)
    <2>1. /\ phase[t] = "open" /\ staging[t] = NoStage
          /\ phase' = [phase EXCEPT ![t] = "returning"]
          /\ UNCHANGED <<staging, delivered>>
      BY <1>5 DEF Rollback, CommitVetoed, CommitReady, Live
    <2> QED BY <1>0, <2>1 DEF DeliveredFits, TypeOK
  <1>6. CASE \E p \in Party, i \in Item : StageCheck(t, p, i)
    BY <1>1, <1>6
  <1>7. CASE \E d \in [Party -> Party \cup {NoParty}] : CommitBegin(t, d)
    BY <1>4, <1>7
  <1> QED BY <1>2, <1>3, <1>5, <1>6, <1>7 DEF AnyOperate

LEMMA FinishLegs ==
  ASSUME LegsInv, NEW t \in Txn, Finish(t)
  PROVE  /\ staging[t] = NoStage /\ UNCHANGED staging
         /\ phase'[t] \notin {"open"}
         /\ phase'[t] = "returning" => phase[t] = "returning" /\ delivered'[t] = {}
         /\ phase'[t] \in {"delivering", "unwinding"} =>
              /\ phase[t] \in {"delivering", "unwinding"}
              /\ dest'[t] = dest[t]
              /\ \A i \in Item : owner'[t][i] \in {owner[t][i], NoParty}
         /\ phase'[t] \in {"committed", "aborted"} => \A i \in Item : owner'[t][i] = NoParty
  <1> USE EscrowAssumption DEF legVars, worldVars
  <1>0. TypeOK /\ DeliveredFits /\ StagingFits
    BY DEF LegsInv
  <1>1. phase[t] \in {"delivering", "unwinding", "returning"} /\ UNCHANGED staging
    BY DEF Finish, DeliverItem, TakeBack, ReturnItem, ReturnItemFails, DeliverCoin,
           ReturnCoin, DeliverItemFails, CommitEnd, UndoEnd, Undoing, Forget
  <1>2. staging[t] = NoStage
    BY <1>0, <1>1 DEF StagingFits
  <1>3. CASE \E i \in Item : DeliverItem(t, i) \/ TakeBack(t, i)
    <2>1. /\ phase[t] \in {"delivering", "unwinding"} /\ UNCHANGED <<phase, dest>>
          /\ \/ UNCHANGED owner
             \/ \E i \in Item : owner' = [owner EXCEPT ![t][i] = NoParty]
      BY <1>3 DEF DeliverItem, TakeBack
    <2> QED BY <1>0, <1>1, <1>2, <2>1 DEF TypeOK
  <1>4. CASE \E i \in Item : ReturnItem(t, i) \/ ReturnItemFails(t, i)
    <2>1. /\ phase[t] \in {"returning", "unwinding"} /\ UNCHANGED <<phase, dest, delivered>>
          /\ \E i \in Item : owner' = [owner EXCEPT ![t][i] = NoParty]
      BY <1>4 DEF ReturnItem, ReturnItemFails, Undoing
    <2> QED BY <1>0, <1>1, <1>2, <2>1 DEF TypeOK, DeliveredFits
  <1>5. CASE \E p \in Party : DeliverCoin(t, p) \/ ReturnCoin(t, p)
    <2>1. UNCHANGED <<phase, dest, delivered, owner>>
      BY <1>5 DEF DeliverCoin, ReturnCoin
    <2> QED BY <1>0, <1>1, <1>2, <2>1 DEF DeliveredFits
  <1>6. CASE DeliverItemFails(t)
    <2>1. /\ UNCHANGED <<dest, owner>> /\ phase[t] = "delivering"
          /\ phase' = [phase EXCEPT ![t] = "unwinding"]
      BY <1>6 DEF DeliverItemFails
    <2> QED BY <1>0, <1>1, <1>2, <2>1 DEF TypeOK
  <1>7. CASE \E audited \in BOOLEAN : CommitEnd(t, audited)
    <2>1. /\ phase' = [phase EXCEPT ![t] = "committed"]
          /\ owner' = [owner EXCEPT ![t] = [i \in Item |-> NoParty]]
      BY <1>7 DEF CommitEnd, NoLegs
    <2> QED BY <1>0, <1>1, <1>2, <2>1 DEF TypeOK
  <1>8. CASE UndoEnd(t)
    <2>1. /\ phase' = [phase EXCEPT ![t] = "aborted"]
          /\ UNCHANGED owner /\ \A i \in Item : owner[t][i] = NoParty
      BY <1>8 DEF UndoEnd, ItemLegs
    <2> QED BY <1>0, <1>1, <1>2, <2>1 DEF TypeOK
  <1> QED BY <1>3, <1>4, <1>5, <1>6, <1>7, <1>8 DEF Finish

LEMMA TxnStepFits ==
  ASSUME LegsInv, NEW t \in Txn, AnyOperate(t) \/ Finish(t)
  PROVE  DestKnown' /\ DeliveredFits' /\ StagingFits'
  <1>0. TypeOK /\ DestKnown /\ DeliveredFits /\ StagingFits
    BY DEF LegsInv
  <1>1. ASSUME NEW u \in Txn, u # t
        PROVE  /\ phase'[u] = phase[u] /\ owner'[u] = owner[u] /\ dest'[u] = dest[u]
               /\ delivered'[u] = delivered[u] /\ staging'[u] = staging[u]
    BY <1>0, <1>1, OthersUntouched
  <1>2. DestKnown'
    <2>1. ASSUME phase'[t] \in {"delivering", "unwinding"}, NEW i \in Item,
                 owner'[t][i] # NoParty
          PROVE  dest'[t][owner'[t][i]] \in Party
      <3>1. CASE AnyOperate(t)
        BY <2>1, <3>1, OperateLegs
      <3>2. CASE Finish(t)
        BY <1>0, <2>1, <3>2, FinishLegs DEF DestKnown
      <3> QED BY <3>1, <3>2
    <2> QED BY <1>0, <1>1, <2>1 DEF DestKnown
  <1>3. DeliveredFits'
    <2>1. /\ phase'[t] \in {"open", "returning"} => delivered'[t] = {}
          /\ phase'[t] \in {"committed", "aborted"} => \A i \in Item : owner'[t][i] = NoParty
      BY OperateLegs, FinishLegs
    <2> QED BY <1>0, <1>1, <2>1 DEF DeliveredFits
  <1>4. StagingFits'
    <2>1. staging'[t] # NoStage =>
            /\ phase'[t] = "open" /\ owner'[t][staging'[t][2]] = NoParty
            /\ staging'[t][1] \in Party /\ Idle(staging'[t][1])
      BY OperateLegs, FinishLegs
    <2>2. ASSUME NEW u \in Txn, NEW v \in Txn, u # v, staging'[u] # NoStage
          PROVE  staging'[u][1] # staging'[v][1]
      <3>1. CASE u # t /\ v # t
        BY <1>0, <1>1, <2>2, <3>1 DEF StagingFits
      <3>2. CASE u = t
        BY <1>1, <2>1, <2>2, <3>2 DEF Idle
      <3>3. CASE v = t
        <4>1. CASE staging'[t] = NoStage
          <5>1. staging[u] \in Party \X Item
            BY <1>0, <1>1, <2>2, <3>3 DEF TypeOK
          <5> QED BY <1>1, <2>2, <3>3, <4>1, <5>1, EscrowAssumption DEF NoStage
        <4>2. CASE staging'[t] # NoStage
          BY <1>1, <2>1, <2>2, <3>3, <4>2 DEF Idle
        <4> QED BY <4>1, <4>2
      <3> QED BY <3>1, <3>2, <3>3
    <2>3. ASSUME NEW u \in Txn, staging'[u] # NoStage
          PROVE  phase'[u] = "open" /\ owner'[u][staging'[u][2]] = NoParty
      BY <1>0, <1>1, <2>1, <2>3 DEF StagingFits
    <2> QED BY <2>2, <2>3 DEF StagingFits
  <1> QED BY <1>2, <1>3, <1>4

(* A step that only adds to bags and takes from no party that is staging
   keeps what is being staged in its bag. *)
LEMMA StagedStays ==
  ASSUME EscrowInv, ~RemovalChecked, NEW u \in Txn, staging[u] # NoStage,
         staging'[u] = staging[u],
         \A p \in Party : Idle(p) \/ bag[p] \subseteq bag'[p]
  PROVE  staging'[u][2] \in bag'[staging'[u][1]]
  <1>1. staging[u][1] \in Party /\ ~Idle(staging[u][1])
    BY DEF EscrowInv, LegsInv, TypeOK, Idle, NoStage
  <1>2. staging[u][2] \in bag[staging[u][1]]
    BY DEF EscrowInv, LegsInv, StagedInBag
  <1> QED BY <1>1, <1>2

LEMMA OperateStagedInBag ==
  ASSUME EscrowInv, ~RemovalChecked, NEW t \in Txn, AnyOperate(t),
         NEW u \in Txn, staging'[u] # NoStage
  PROVE  staging'[u][2] \in bag'[staging'[u][1]]
  <1> USE DEF legVars, worldVars
  <1>0. LegsInv /\ TypeOK /\ StagingFits /\ StagedInBag
    BY DEF EscrowInv, LegsInv
  <1>1. CASE u = t
    BY <1>0, <1>1, OperateLegs
  <1>2. CASE u # t
    <2>1. staging'[u] = staging[u]
      BY <1>0, <1>2, OthersUntouched
    <2>2. CASE StageRemove(t)
      <3>1. bag' = Take(staging[t][1], staging[t][2]) /\ staging[t] # NoStage
        BY <2>2 DEF StageRemove
      <3>2. staging[t][1] # staging[u][1] /\ staging[u][1] \in Party
        BY <1>0, <1>2, <2>1, <3>1 DEF StagingFits, TypeOK
      <3>3. bag'[staging[u][1]] = bag[staging[u][1]]
        BY <1>0, <3>1, <3>2 DEF Take, TypeOK
      <3> QED BY <1>0, <2>1, <3>3 DEF StagedInBag
    <2>3. CASE \E p \in Party, i \in Item : WithdrawItem(t, p, i)
      <3>1. \A p \in Party : bag[p] \subseteq bag'[p]
        BY <1>0, <2>3 DEF WithdrawItem, Add, TypeOK
      <3> QED BY <2>1, <3>1, StagedStays
    <2>4. CASE UNCHANGED bag
      BY <2>1, <2>4, StagedStays
    <2> QED BY <2>2, <2>3, <2>4
            DEF AnyOperate, StageCheck, StageCoin, WithdrawCoin, CommitBegin,
                CommitVetoed, Rollback
  <1> QED BY <1>1, <1>2

LEMMA FinishStagedInBag ==
  ASSUME EscrowInv, ~RemovalChecked, NEW t \in Txn, Finish(t),
         NEW u \in Txn, staging'[u] # NoStage
  PROVE  staging'[u][2] \in bag'[staging'[u][1]]
  <1>0. LegsInv /\ TypeOK /\ StagedInBag
    BY DEF EscrowInv, LegsInv
  <1>1. staging'[u] = staging[u] /\ phase[t] # "unwinding"
    BY <1>0, FinishLegs DEF StagedInBag
  <1>2. \A p \in Party : bag[p] \subseteq bag'[p]
    <2>1. \/ UNCHANGED bag
          \/ \E x, i : bag' = Add(x, i)
      BY <1>1 DEF Finish, DeliverItem, TakeBack, ReturnItem, ReturnItemFails, DeliverCoin,
                  ReturnCoin, DeliverItemFails, CommitEnd, UndoEnd, Undoing
    <2>2. ASSUME NEW x, NEW i, bag' = Add(x, i), NEW p \in Party PROVE bag[p] \subseteq bag'[p]
      <3>1. DOMAIN bag = Party
        BY <1>0 DEF TypeOK
      <3> QED BY <2>2, <3>1 DEF Add
    <2> QED BY <2>1, <2>2
  <1> QED BY <1>1, <1>2, StagedStays

LEMMA WorldLegs == LegsInv /\ World => LegsInv'
  <1> SUFFICES ASSUME LegsInv, World PROVE LegsInv'
    OBVIOUS
  <1>1. UNCHANGED <<phase, legVars>>
    BY DEF World, Give, TickConsume
  <1>2. DestKnown' /\ DeliveredFits' /\ StagingFits'
    BY <1>1 DEF LegsInv, DestKnown, DeliveredFits, StagingFits, legVars
  <1>3. TypeOK'
    BY StepTypeOK DEF LegsInv, AnyStep
  <1> QED BY <1>2, <1>3 DEF LegsInv

LEMMA StutterLegsInv == LegsInv /\ UNCHANGED vars => LegsInv'
  BY DEF LegsInv, TypeOK, DestKnown, DeliveredFits, StagingFits, vars, legVars, worldVars

LEMMA StepLegsInv == LegsInv /\ AnyStep => LegsInv'
  <1>1. LegsInv /\ AnyStep => TypeOK'
    BY StepTypeOK DEF LegsInv
  <1> QED BY <1>1, WorldLegs, TxnStepFits DEF LegsInv, AnyStep

LEMMA WorldStagedInBag ==
  ASSUME EscrowInv, World, Careful
  PROVE  StagedInBag'
  <1>0. TypeOK /\ StagedInBag
    BY DEF EscrowInv, LegsInv
  <1>1. UNCHANGED <<phase, legVars>>
    BY DEF World, Give, TickConsume
  <1>2. ASSUME ~RemovalChecked, NEW u \in Txn, staging'[u] # NoStage
        PROVE  staging'[u][2] \in bag'[staging'[u][1]]
    <2>1. PICK p \in Party, q \in Party, i \in Item : Give(p, q, i)
      BY <1>2 DEF World, TickConsume, Careful
    <2>2. \A r \in Party : Idle(r) \/ bag[r] \subseteq bag'[r]
      BY <1>0, <2>1 DEF Give, TypeOK
    <2> QED BY <1>1, <1>2, <2>2, StagedStays DEF legVars
  <1> QED BY <1>0, <1>1, <1>2 DEF StagedInBag

LEMMA StepEscrowInv ==
  ASSUME EscrowInv, AnyStep, Careful
  PROVE  EscrowInv'
  <1>1. LegsInv /\ LegsInv'
    BY StepLegsInv DEF EscrowInv
  <1>2. CASE World
    BY <1>1, <1>2, WorldOnePlace, WorldStagedInBag DEF EscrowInv
  <1>3. ASSUME NEW t \in Txn, AnyOperate(t) \/ Finish(t) PROVE EscrowInv'
    <2>1. OnePlace'
      BY <1>3, OperateOnePlace, FinishOnePlace
    <2>2. ASSUME ~RemovalChecked, NEW u \in Txn PROVE phase'[u] # "unwinding"
      <3>1. phase[u] # "unwinding" /\ ~CustodianFails
        BY <2>2 DEF EscrowInv, LegsInv, StagedInBag, Careful
      <3>2. CASE u # t
        BY <1>3, <3>1, <3>2, OthersUntouched DEF EscrowInv, LegsInv
      <3>3. CASE u = t /\ AnyOperate(t)
        BY <1>1, <3>3, OperateLegs
      <3>4. CASE u = t /\ Finish(t)
        BY <3>1, <3>4
        DEF EscrowInv, LegsInv, TypeOK, Finish, DeliverItem, TakeBack, ReturnItem, ReturnItemFails,
            DeliverCoin, ReturnCoin, DeliverItemFails, CommitEnd, UndoEnd
      <3> QED BY <1>3, <3>2, <3>3, <3>4
    <2>3. StagedInBag'
      BY <1>3, <2>2, OperateStagedInBag, FinishStagedInBag DEF StagedInBag
    <2> QED BY <1>1, <2>1, <2>3 DEF EscrowInv
  <1> QED BY <1>2, <1>3 DEF AnyStep

LEMMA StutterEscrowInv == EscrowInv /\ UNCHANGED vars => EscrowInv'
  BY DEF EscrowInv, LegsInv, TypeOK, OnePlace, Somewhere, NotTwice, InCustody, ItemLegs, DestKnown,
         DeliveredFits, StagingFits, StagedInBag, vars, legVars, worldVars

(* No item is lost or doubled, whatever the commits, unwinds, failed
   deliveries and failed returns do, provided a removal that finds nothing is
   reported - or nothing can remove a staged item between check and removal. *)
THEOREM EscrowOnePlace == ASSUME Careful PROVE Spec => []OnePlace
  <1>1. Init => EscrowInv
    BY InitEscrowInv
  <1>2. EscrowInv /\ [Next]_vars => EscrowInv'
    BY NextIsAnyStep, StepEscrowInv, StutterEscrowInv DEF EscrowInv, LegsInv
  <1>3. EscrowInv => OnePlace
    BY DEF EscrowInv
  <1> QED BY <1>1, <1>2, <1>3, PTL DEF Spec

------------------------------------------------------------------------------
(* What a commit has moved, and what the audit log says of it *)

(* While a commit delivers, its legs are those it has published, and no coin
   has moved before the last item. *)
DeliveringFits ==
  \A t \in Txn : phase[t] = "delivering" =>
    /\ record[t].item = owner[t]
    /\ delivered[t] \subseteq ItemLegs(t)
    /\ InCustody(t) # {} => coin[t] = record[t].coin

AuditInv == LegsInv /\ DeliveringFits /\ UnwindKeepsCoin /\ AuditExact

(* The same for one transaction and one entry of the log. *)
CommitFits(t) ==
  /\ phase[t] = "delivering" =>
       /\ record[t].item = owner[t]
       /\ delivered[t] \subseteq ItemLegs(t)
       /\ InCustody(t) # {} => coin[t] = record[t].coin
  /\ phase[t] = "unwinding" /\ ItemLegs(t) # {} => coin[t] = record[t].coin

EntryFits(e) == /\ phase[e[1]] = "committed"
                /\ {i \in Item : e[2].item[i] # NoParty} = delivered[e[1]]

LEMMA CommitFitsAll ==
  /\ DeliveringFits /\ UnwindKeepsCoin <=> \A t \in Txn : CommitFits(t)
  /\ AuditExact <=> \A e \in audit : EntryFits(e)
  BY DEF DeliveringFits, UnwindKeepsCoin, CommitFits, AuditExact, EntryFits
LEMMA InitAuditInv == Init => AuditInv
  <1> SUFFICES ASSUME Init PROVE AuditInv
    OBVIOUS
  <1>1. LegsInv
    BY InitEscrowInv DEF EscrowInv
  <1>2. DeliveringFits /\ UnwindKeepsCoin /\ AuditExact
    BY DEF Init, DeliveringFits, UnwindKeepsCoin, AuditExact
  <1> QED BY <1>1, <1>2 DEF AuditInv

(* An operation needs an open transaction, and only CommitBegin starts to
   deliver. *)
LEMMA OperateFits ==
  ASSUME AuditInv, NEW t \in Txn, AnyOperate(t)
  PROVE  phase[t] = "open" /\ CommitFits(t)' /\ UNCHANGED audit
  <1>0. LegsInv /\ TypeOK /\ DeliveredFits
    BY DEF AuditInv, LegsInv
  <1>1. phase[t] = "open" /\ phase'[t] \in {"open", "delivering", "returning"}
        /\ delivered'[t] = {}
    BY <1>0, OperateLegs
  <1>2. UNCHANGED audit
    BY DEF AnyOperate, StageCheck, WithdrawItem, StageRemove, StageCoin, WithdrawCoin,
           CommitBegin, CommitVetoed, Rollback, worldVars
  <1>3. CASE phase'[t] = "delivering"
    <2>1. PICK d \in [Party -> Party \cup {NoParty}] : CommitBegin(t, d)
      BY <1>0, <1>1, <1>3
      DEF AnyOperate, StageCheck, WithdrawItem, StageRemove, StageCoin, WithdrawCoin,
          CommitVetoed, Rollback, TypeOK
    <2>2. record'[t] = [item |-> owner'[t], coin |-> coin'[t]]
      BY <1>0, <2>1 DEF CommitBegin, TypeOK
    <2> QED BY <1>1, <1>2, <1>3, <2>2 DEF CommitFits
  <1>4. CASE phase'[t] # "delivering"
    BY <1>1, <1>2, <1>4 DEF CommitFits
  <1> QED BY <1>3, <1>4

LEMMA FinishFits ==
  ASSUME AuditInv, NEW t \in Txn, Finish(t)
  PROVE  phase[t] # "committed" /\ CommitFits(t)'
         /\ \A e \in audit' \ audit : e[1] = t /\ EntryFits(e)'
  <1> USE EscrowAssumption DEF worldVars, legVars
  <1>0. LegsInv /\ TypeOK /\ CommitFits(t)
    BY CommitFitsAll DEF AuditInv, LegsInv
  <1>1. ASSUME NEW i \in Item, DeliverItem(t, i)
        PROVE  phase[t] # "committed" /\ CommitFits(t)' /\ UNCHANGED audit
    BY <1>0, <1>1 DEF DeliverItem, CommitFits, ItemLegs, InCustody, TypeOK
  <1>2. ASSUME NEW i \in Item,
               TakeBack(t, i) \/ ReturnItem(t, i) \/ ReturnItemFails(t, i)
        PROVE  phase[t] # "committed" /\ CommitFits(t)' /\ UNCHANGED audit
    <2>1. /\ phase[t] \in {"returning", "unwinding"}
          /\ UNCHANGED <<phase, coin, record, audit>>
          /\ UNCHANGED owner \/ owner' = [owner EXCEPT ![t][i] = NoParty]
      BY <1>2 DEF TakeBack, ReturnItem, ReturnItemFails, Undoing
    <2>2. ItemLegs(t)' \subseteq ItemLegs(t)
      BY <1>0, <2>1 DEF ItemLegs, TypeOK
    <2> QED BY <1>0, <2>1, <2>2 DEF CommitFits
  <1>3. ASSUME NEW p \in Party, DeliverCoin(t, p)
        PROVE  phase[t] # "committed" /\ CommitFits(t)' /\ UNCHANGED audit
    BY <1>0, <1>3 DEF DeliverCoin, CommitFits, ItemLegs, InCustody
  <1>4. ASSUME NEW p \in Party, ReturnCoin(t, p)
        PROVE  phase[t] # "committed" /\ CommitFits(t)' /\ UNCHANGED audit
    BY <1>0, <1>4 DEF ReturnCoin, Undoing, CommitFits, ItemLegs, InCustody
  <1>5. CASE DeliverItemFails(t)
    BY <1>0, <1>5 DEF DeliverItemFails, CommitFits, ItemLegs, InCustody, TypeOK
  <1>6. ASSUME NEW audited \in BOOLEAN, CommitEnd(t, audited)
        PROVE  phase[t] # "committed" /\ CommitFits(t)'
               /\ \A e \in audit' \ audit : e[1] = t /\ EntryFits(e)'
    <2>1. phase'[t] = "committed" /\ delivered'[t] = delivered[t]
      BY <1>0, <1>6 DEF CommitEnd, TypeOK
    <2>2. {i \in Item : record[t].item[i] # NoParty} = delivered[t]
      BY <1>0, <1>6 DEF CommitEnd, CommitFits, InCustody, ItemLegs
    <2>3. audit' \subseteq audit \cup {<<t, record[t]>>}
      BY <1>6 DEF CommitEnd
    <2> QED BY <1>6, <2>1, <2>2, <2>3 DEF CommitEnd, CommitFits, EntryFits
  <1>7. CASE UndoEnd(t)
    BY <1>0, <1>7 DEF UndoEnd, Undoing, CommitFits, TypeOK
  <1> QED BY <1>1, <1>2, <1>3, <1>4, <1>5, <1>6, <1>7 DEF Finish

LEMMA StepAuditInv == AuditInv /\ AnyStep => AuditInv'
  <1> SUFFICES ASSUME AuditInv, AnyStep PROVE AuditInv'
    OBVIOUS
  <1>0. LegsInv' /\ TypeOK
    BY StepLegsInv DEF AuditInv, LegsInv
  <1>1. CASE World
    <2>1. UNCHANGED <<phase, legVars, audit>>
      BY <1>1 DEF World, Give, TickConsume, worldVars
    <2> QED BY <1>0, <2>1
            DEF AuditInv, DeliveringFits, UnwindKeepsCoin, AuditExact, InCustody, ItemLegs, legVars
  <1>2. ASSUME NEW t \in Txn, AnyOperate(t) \/ Finish(t) PROVE AuditInv'
    <2>1. /\ phase[t] # "committed" /\ CommitFits(t)'
          /\ \A e \in audit' \ audit : EntryFits(e)'
      BY <1>2, OperateFits, FinishFits
    <2>2. ASSUME NEW u \in Txn, u # t PROVE CommitFits(u)'
      BY <1>0, <1>2, <2>2, OthersUntouched, CommitFitsAll
      DEF AuditInv, CommitFits, InCustody, ItemLegs
    <2>3. ASSUME NEW e \in audit PROVE EntryFits(e)'
      <3>1. EntryFits(e) /\ e[1] \in Txn
        BY <1>0, CommitFitsAll DEF AuditInv, TypeOK
      <3>2. e[1] # t
        BY <2>1, <3>1 DEF EntryFits
      <3> QED BY <1>0, <1>2, <3>1, <3>2, OthersUntouched DEF EntryFits
    <2>4. (\A u \in Txn : CommitFits(u)') /\ \A e \in audit' : EntryFits(e)'
      BY <2>1, <2>2, <2>3
    <2> QED BY <1>0, <2>4
            DEF AuditInv, DeliveringFits, UnwindKeepsCoin, AuditExact, CommitFits, EntryFits
  <1> QED BY <1>1, <1>2 DEF AnyStep

LEMMA AuditAlways == Spec => []AuditInv
  <1>1. AuditInv /\ [Next]_vars => AuditInv'
    <2>1. AuditInv /\ UNCHANGED vars => AuditInv'
      BY DEF AuditInv, LegsInv, TypeOK, DestKnown, DeliveredFits, StagingFits, DeliveringFits,
             UnwindKeepsCoin, AuditExact, InCustody, ItemLegs, vars, legVars, worldVars
    <2> QED BY <2>1, NextIsAnyStep, StepAuditInv DEF AuditInv, LegsInv
  <1> QED BY <1>1, InitAuditInv, PTL DEF Spec

(* An unwind never has a coin credit to reverse. *)
THEOREM EscrowUnwindKeepsCoin == Spec => []UnwindKeepsCoin
  BY AuditAlways, PTL DEF AuditInv

(* What the audit log says moved did move. *)
THEOREM EscrowAuditExact == Spec => []AuditExact
  BY AuditAlways, PTL DEF AuditInv

------------------------------------------------------------------------------
(* Sums *)

LEMMA Smallest ==
  ASSUME NEW S, IsFiniteSet(S), NEW Bad \in SUBSET (SUBSET S), Bad # {}
  PROVE  \E s \in Bad : \A r \in Bad : r \subseteq s => r = s
  <1>1. Bad \subseteq FiniteSubsetsOf(S)
    BY FS_FiniteSubsetsOfFinite
  <1>2. PICK s \in Bad : \A r \in Bad : ~(<<r, s>> \in StrictSubsetOrdering(S))
    BY <1>1, FS_StrictSubsetOrderingWellFounded, WFMin
  <1>3. \A r \in Bad : r \subseteq s => r = s
    BY <1>2 DEF StrictSubsetOrdering
  <1> QED BY <1>3

Pick(s) == CHOOSE x \in s : TRUE

(* The function by which the community modules define a sum. *)
IsSum(F, f, S) ==
  F = [s \in SUBSET S |-> IF s = {} THEN 0
                          ELSE LET x == CHOOSE x \in s : TRUE IN f[x] + F[s \ {x}]]

LEMMA SumIs ==
  ASSUME NEW f, NEW S
  PROVE  SumFunctionOnSet(f, S) = (CHOOSE H : IsSum(H, f, S))[S]
  BY DEF SumFunctionOnSet, FoldFunctionOnSet, MapThenFoldSet, IsSum

LEMMA SumAt ==
  ASSUME NEW f, NEW S, NEW F, IsSum(F, f, S), NEW s \in SUBSET S
  PROVE  /\ s = {} => F[s] = 0
         /\ s # {} => Pick(s) \in s /\ F[s] = f[Pick(s)] + F[s \ {Pick(s)}]
  BY DEF IsSum, Pick

LEMMA SumsAgree ==
  ASSUME NEW f, NEW g, NEW S, NEW T, NEW F, NEW G, IsFiniteSet(S),
         IsSum(F, f, S), IsSum(G, g, T), S \subseteq T, \A x \in S : f[x] = g[x]
  PROVE  F[S] = G[S]
  <1> DEFINE Bad == {s \in SUBSET S : F[s] # G[s]}
  <1> SUFFICES ASSUME Bad # {} PROVE FALSE
    OBVIOUS
  <1>1. PICK s \in Bad : \A r \in Bad : r \subseteq s => r = s
    <2>1. Bad \in SUBSET (SUBSET S)
      OBVIOUS
    <2> HIDE DEF Bad
    <2> QED BY <2>1, Smallest
  <1>2. s \in SUBSET S /\ s \in SUBSET T
    OBVIOUS
  <1>3. s # {}
    <2>1. s = {} => F[s] = 0 /\ G[s] = 0
      BY <1>2, SumAt
    <2> QED BY <1>1, <2>1
  <1> DEFINE x == Pick(s)
  <1>4. x \in s /\ F[s] = f[x] + F[s \ {x}] /\ G[s] = g[x] + G[s \ {x}]
    BY <1>2, <1>3, SumAt
  <1> HIDE DEF x
  <1>5. s \ {x} \in SUBSET S /\ s \ {x} \notin Bad
    BY <1>1, <1>2, <1>4
  <1>6. F[s \ {x}] = G[s \ {x}] /\ f[x] = g[x]
    BY <1>2, <1>4, <1>5
  <1> QED BY <1>1, <1>4, <1>6

LEMMA SumExists ==
  ASSUME NEW f, NEW S, IsFiniteSet(S)
  PROVE  \E F : IsSum(F, f, S)
  <1> DEFINE Bad == {s \in SUBSET S : ~\E F : IsSum(F, f, s)}
  <1> SUFFICES ASSUME Bad # {} PROVE FALSE
    OBVIOUS
  <1>1. PICK T \in Bad : \A r \in Bad : r \subseteq T => r = T
    <2>1. Bad \in SUBSET (SUBSET S)
      OBVIOUS
    <2> HIDE DEF Bad
    <2> QED BY <2>1, Smallest
  <1> DEFINE Fun(s) == CHOOSE H : IsSum(H, f, s)
             Val(s) == IF s = {} THEN 0
                       ELSE LET x == Pick(s) IN f[x] + Fun(s \ {x})[s \ {x}]
             G == [s \in SUBSET T |-> Val(s)]
  <1>2. \A s \in SUBSET T : s # T => IsSum(Fun(s), f, s) /\ IsFiniteSet(s)
    <2> SUFFICES ASSUME NEW s \in SUBSET T, s # T PROVE IsSum(Fun(s), f, s) /\ IsFiniteSet(s)
      OBVIOUS
    <2>1. s \in SUBSET S /\ s \notin Bad /\ IsFiniteSet(s)
      BY <1>1, FS_Subset
    <2>2. \E F : IsSum(F, f, s)
      BY <2>1
    <2> QED BY <2>1, <2>2
  <1> HIDE DEF Fun
  <1>3. ASSUME NEW s \in SUBSET T, s # {}, NEW x, x = Pick(s)
        PROVE  G[s \ {x}] = Fun(s \ {x})[s \ {x}]
    <2>1. x \in s
      BY <1>3 DEF Pick
    <2> DEFINE r == s \ {x}
    <2>2. r \in SUBSET T /\ r # T
      BY <2>1
    <2>3. IsSum(Fun(r), f, r) /\ IsFiniteSet(r)
      BY <1>2, <2>2
    <2> HIDE DEF r
    <2>4. CASE r = {}
      <3>1. Fun(r)[r] = 0
        BY <2>3, <2>4, SumAt
      <3>2. G[r] = 0
        BY <2>2, <2>4
      <3> QED BY <3>1, <3>2 DEF r
    <2>5. CASE r # {}
      <3> DEFINE y == Pick(r)
                 q == r \ {y}
      <3>1. y \in r /\ Fun(r)[r] = f[y] + Fun(r)[q]
        BY <2>3, <2>5, SumAt
      <3>2. G[r] = f[y] + Fun(q)[q]
        BY <2>2, <2>5
      <3> HIDE DEF y
      <3>3. q \in SUBSET T /\ q # T /\ q \subseteq r
        BY <2>2, <3>1
      <3>4. IsSum(Fun(q), f, q) /\ IsFiniteSet(q)
        BY <1>2, <3>3
      <3> HIDE DEF q
      <3>5. Fun(q)[q] = Fun(r)[q]
        BY <2>3, <3>3, <3>4, SumsAgree
      <3> QED BY <3>1, <3>2, <3>5 DEF r
    <2> QED BY <2>4, <2>5
  <1>4. IsSum(G, f, T)
    <2>1. ASSUME NEW s \in SUBSET T
          PROVE  Val(s) = IF s = {} THEN 0
                         ELSE LET x == Pick(s) IN f[x] + G[s \ {x}]
      <3>1. CASE s = {}
        BY <3>1
      <3>2. CASE s # {}
        <4> DEFINE x == Pick(s)
        <4>1. G[s \ {x}] = Fun(s \ {x})[s \ {x}]
          BY <1>3, <3>2
        <4>2. Val(s) = f[x] + Fun(s \ {x})[s \ {x}]
          BY <3>2
        <4> HIDE DEF G, Val
        <4> QED BY <3>2, <4>1, <4>2
      <3> QED BY <3>1, <3>2
    <2> HIDE DEF Val
    <2> QED BY <2>1 DEF IsSum, G, Pick
  <1> HIDE DEF G
  <1> QED BY <1>1, <1>4

LEMMA SumDef ==
  ASSUME NEW f, NEW S, IsFiniteSet(S)
  PROVE  /\ S = {} => SumFunctionOnSet(f, S) = 0
         /\ S # {} => /\ Pick(S) \in S
                      /\ SumFunctionOnSet(f, S)
                           = f[Pick(S)] + SumFunctionOnSet(f, S \ {Pick(S)})
  <1> DEFINE F == CHOOSE H : IsSum(H, f, S)
             x == Pick(S)
             G == CHOOSE H : IsSum(H, f, S \ {x})
  <1>1. IsSum(F, f, S) /\ SumFunctionOnSet(f, S) = F[S]
    BY SumExists, SumIs
  <1>2. IsFiniteSet(S \ {x})
    BY FS_Subset
  <1>3. IsSum(G, f, S \ {x}) /\ SumFunctionOnSet(f, S \ {x}) = G[S \ {x}]
    BY <1>2, SumExists, SumIs
  <1> HIDE DEF F, G
  <1>4. G[S \ {x}] = F[S \ {x}]
    BY <1>1, <1>2, <1>3, SumsAgree
  <1>5. S = {} => F[S] = 0
    BY <1>1, SumAt
  <1>6. S # {} => x \in S /\ F[S] = f[x] + F[S \ {x}]
    BY <1>1, SumAt
  <1> QED BY <1>1, <1>3, <1>4, <1>5, <1>6

LEMMA SumSame ==
  ASSUME NEW f, NEW g, NEW S, IsFiniteSet(S), \A x \in S : f[x] = g[x]
  PROVE  SumFunctionOnSet(f, S) = SumFunctionOnSet(g, S)
  <1> DEFINE F == CHOOSE H : IsSum(H, f, S)
             G == CHOOSE H : IsSum(H, g, S)
  <1>1. IsSum(F, f, S) /\ SumFunctionOnSet(f, S) = F[S]
    BY SumExists, SumIs
  <1>2. IsSum(G, g, S) /\ SumFunctionOnSet(g, S) = G[S]
    BY SumExists, SumIs
  <1> HIDE DEF F, G
  <1> QED BY <1>1, <1>2, SumsAgree

LEMMA SumType ==
  ASSUME NEW f, NEW S, IsFiniteSet(S), \A x \in S : f[x] \in Int
  PROVE  SumFunctionOnSet(f, S) \in Int
  <1> DEFINE Bad == {s \in SUBSET S : SumFunctionOnSet(f, s) \notin Int}
  <1> SUFFICES ASSUME Bad # {} PROVE FALSE
    OBVIOUS
  <1>1. PICK s \in Bad : \A r \in Bad : r \subseteq s => r = s
    <2>1. Bad \in SUBSET (SUBSET S)
      OBVIOUS
    <2> HIDE DEF Bad
    <2> QED BY <2>1, Smallest
  <1>2. IsFiniteSet(s)
    BY FS_Subset
  <1>3. s # {}
    <2>1. s = {} => SumFunctionOnSet(f, s) = 0
      BY <1>2, SumDef
    <2> QED BY <1>1, <2>1
  <1> DEFINE x == Pick(s)
  <1>4. x \in s /\ SumFunctionOnSet(f, s) = f[x] + SumFunctionOnSet(f, s \ {x})
    BY <1>2, <1>3, SumDef
  <1> HIDE DEF x
  <1>5. s \ {x} \notin Bad
    BY <1>1, <1>4
  <1> QED BY <1>1, <1>4, <1>5

(* The order of the terms does not matter. *)
LEMMA SumRemove ==
  ASSUME NEW f, NEW S, IsFiniteSet(S), \A x \in S : f[x] \in Int, NEW z \in S
  PROVE  SumFunctionOnSet(f, S) = f[z] + SumFunctionOnSet(f, S \ {z})
  <1> DEFINE Bad == {s \in SUBSET S : \E y \in s :
                       SumFunctionOnSet(f, s) # f[y] + SumFunctionOnSet(f, s \ {y})}
  <1> SUFFICES ASSUME Bad # {} PROVE FALSE
    OBVIOUS
  <1>1. PICK s \in Bad : \A r \in Bad : r \subseteq s => r = s
    <2>1. Bad \in SUBSET (SUBSET S)
      OBVIOUS
    <2> HIDE DEF Bad
    <2> QED BY <2>1, Smallest
  <1>2. PICK y \in s : SumFunctionOnSet(f, s) # f[y] + SumFunctionOnSet(f, s \ {y})
    BY <1>1
  <1>3. IsFiniteSet(s) /\ s # {}
    BY <1>2, FS_Subset
  <1> DEFINE x == Pick(s)
  <1>4. x \in s /\ SumFunctionOnSet(f, s) = f[x] + SumFunctionOnSet(f, s \ {x})
    BY <1>3, SumDef
  <1> HIDE DEF x
  <1>5. x # y
    BY <1>2, <1>4
  <1>6. \A r \in SUBSET s : r # s => \A u \in r :
           SumFunctionOnSet(f, r) = f[u] + SumFunctionOnSet(f, r \ {u})
    BY <1>1
  <1>7. SumFunctionOnSet(f, s \ {x}) = f[y] + SumFunctionOnSet(f, (s \ {x}) \ {y})
    BY <1>4, <1>5, <1>6
  <1>8. SumFunctionOnSet(f, s \ {y}) = f[x] + SumFunctionOnSet(f, (s \ {y}) \ {x})
    BY <1>4, <1>5, <1>6
  <1>9. (s \ {x}) \ {y} = (s \ {y}) \ {x}
    OBVIOUS
  <1>10. SumFunctionOnSet(f, (s \ {y}) \ {x}) \in Int
    <2>1. IsFiniteSet((s \ {y}) \ {x}) /\ \A u \in (s \ {y}) \ {x} : f[u] \in Int
      BY <1>3, FS_Subset
    <2> QED BY <2>1, SumType
  <1>11. f[x] \in Int /\ f[y] \in Int
    BY <1>4
  <1> DEFINE A == SumFunctionOnSet(f, (s \ {y}) \ {x})
  <1>12. /\ A \in Int
         /\ SumFunctionOnSet(f, s \ {x}) = f[y] + A
         /\ SumFunctionOnSet(f, s \ {y}) = f[x] + A
    BY <1>7, <1>8, <1>9, <1>10
  <1> HIDE DEF Bad, A
  <1>13. f[x] + (f[y] + A) = f[y] + (f[x] + A)
    BY <1>11, <1>12
  <1> QED BY <1>2, <1>4, <1>12, <1>13

(* One term changes. *)
LEMMA SumUpdate ==
  ASSUME NEW f, NEW g, NEW S, IsFiniteSet(S), \A x \in S : f[x] \in Int /\ g[x] \in Int,
         NEW z \in S, \A x \in S \ {z} : g[x] = f[x]
  PROVE  SumFunctionOnSet(g, S) = SumFunctionOnSet(f, S) - f[z] + g[z]
  <1>1. IsFiniteSet(S \ {z}) /\ \A x \in S \ {z} : f[x] \in Int
    BY FS_Subset
  <1>2. SumFunctionOnSet(f, S \ {z}) = SumFunctionOnSet(g, S \ {z})
    BY <1>1, SumSame
  <1>3. SumFunctionOnSet(f, S) = f[z] + SumFunctionOnSet(f, S \ {z})
    BY SumRemove
  <1>4. SumFunctionOnSet(g, S) = g[z] + SumFunctionOnSet(g, S \ {z})
    BY SumRemove
  <1>5. SumFunctionOnSet(f, S \ {z}) \in Int
    BY <1>1, SumType
  <1> QED BY <1>2, <1>3, <1>4, <1>5

LEMMA SumOrder ==
  ASSUME NEW f, NEW g, NEW S, IsFiniteSet(S),
         \A x \in S : f[x] \in Int /\ g[x] \in Int /\ f[x] <= g[x]
  PROVE  SumFunctionOnSet(f, S) <= SumFunctionOnSet(g, S)
  <1> DEFINE Bad == {s \in SUBSET S : ~(SumFunctionOnSet(f, s) <= SumFunctionOnSet(g, s))}
  <1> SUFFICES ASSUME Bad # {} PROVE FALSE
    OBVIOUS
  <1>1. PICK s \in Bad : \A r \in Bad : r \subseteq s => r = s
    <2>1. Bad \in SUBSET (SUBSET S)
      OBVIOUS
    <2> HIDE DEF Bad
    <2> QED BY <2>1, Smallest
  <1>2. IsFiniteSet(s)
    BY FS_Subset
  <1>3. s # {}
    <2>1. s = {} => SumFunctionOnSet(f, s) = 0 /\ SumFunctionOnSet(g, s) = 0
      BY <1>2, SumDef
    <2> QED BY <1>1, <2>1
  <1> DEFINE x == Pick(s)
  <1>4. x \in s /\ SumFunctionOnSet(f, s) = f[x] + SumFunctionOnSet(f, s \ {x})
        /\ SumFunctionOnSet(g, s) = g[x] + SumFunctionOnSet(g, s \ {x})
    BY <1>2, <1>3, SumDef
  <1> HIDE DEF x
  <1>5. SumFunctionOnSet(f, s \ {x}) <= SumFunctionOnSet(g, s \ {x})
    BY <1>1, <1>4
  <1>6. SumFunctionOnSet(f, s \ {x}) \in Int /\ SumFunctionOnSet(g, s \ {x}) \in Int
    <2>1. IsFiniteSet(s \ {x}) /\ \A y \in s \ {x} : f[y] \in Int /\ g[y] \in Int
      BY <1>2, FS_Subset
    <2> QED BY <2>1, SumType
  <1>7. f[x] \in Int /\ g[x] \in Int /\ f[x] <= g[x]
    BY <1>4
  <1> HIDE DEF Bad
  <1>8. SumFunctionOnSet(f, s) <= SumFunctionOnSet(g, s)
    BY <1>4, <1>5, <1>6, <1>7
  <1> QED BY <1>1, <1>8 DEF Bad

LEMMA SumZero ==
  ASSUME NEW o, NEW S, IsFiniteSet(S), \A x \in S : o[x] = 0
  PROVE  SumFunctionOnSet(o, S) = 0
  <1> DEFINE Bad == {s \in SUBSET S : SumFunctionOnSet(o, s) # 0}
  <1> SUFFICES ASSUME Bad # {} PROVE FALSE
    OBVIOUS
  <1>1. PICK s \in Bad : \A r \in Bad : r \subseteq s => r = s
    <2>1. Bad \in SUBSET (SUBSET S)
      OBVIOUS
    <2> HIDE DEF Bad
    <2> QED BY <2>1, Smallest
  <1>2. IsFiniteSet(s)
    BY FS_Subset
  <1>3. s # {}
    BY <1>1, <1>2, SumDef
  <1>4. Pick(s) \in s /\ SumFunctionOnSet(o, s) = o[Pick(s)] + SumFunctionOnSet(o, s \ {Pick(s)})
    BY <1>2, <1>3, SumDef
  <1>5. SumFunctionOnSet(o, s \ {Pick(s)}) = 0 /\ o[Pick(s)] = 0
    BY <1>1, <1>4
  <1> QED BY <1>1, <1>4, <1>5

(* At most one term is not zero. *)
LEMMA SumOne ==
  ASSUME NEW f, NEW S, IsFiniteSet(S), NEW z \in S, f[z] \in Int,
         \A x \in S \ {z} : f[x] = 0
  PROVE  SumFunctionOnSet(f, S) = f[z]
  <1> DEFINE T == S \ {z}
             o == [x \in S |-> 0]
  <1>1. IsFiniteSet(T) /\ \A x \in T : o[x] = f[x]
    BY FS_Subset
  <1>2. SumFunctionOnSet(f, T) = SumFunctionOnSet(o, T)
    BY <1>1, SumSame
  <1>3. SumFunctionOnSet(f, S) = f[z] + SumFunctionOnSet(f, T)
    BY SumRemove
  <1>4. SumFunctionOnSet(o, T) = 0
    BY <1>1, SumZero
  <1> QED BY <1>2, <1>3, <1>4

(* One summand of a function of integers changes. *)
LEMMA SumExcept ==
  ASSUME NEW S, IsFiniteSet(S), NEW f \in [S -> Int], NEW z \in S, NEW v \in Int
  PROVE  /\ SumFunction([f EXCEPT ![z] = v]) = SumFunction(f) - f[z] + v
         /\ SumFunction(f) \in Int
  <1> DEFINE g == [f EXCEPT ![z] = v]
  <1>1. /\ DOMAIN f = S /\ DOMAIN g = S /\ g[z] = v
        /\ \A x \in S : f[x] \in Int /\ g[x] \in Int
        /\ \A x \in S \ {z} : g[x] = f[x]
    OBVIOUS
  <1> HIDE DEF g
  <1>2. SumFunctionOnSet(g, S) = SumFunctionOnSet(f, S) - f[z] + g[z]
    BY <1>1, SumUpdate
  <1>3. SumFunctionOnSet(f, S) \in Int
    BY <1>1, SumType
  <1> QED BY <1>1, <1>2, <1>3 DEF SumFunction, g

------------------------------------------------------------------------------
(* Coin *)

Finite == IsFiniteSet(Party) /\ IsFiniteSet(Txn)
LegCoin == SumFunction([t \in Txn |-> SumFunction(coin[t])])

LEMMA CoinSums ==
  ASSUME Finite, TypeOK
  PROVE  /\ SumFunction(gold) \in Int
         /\ \A p \in Party, n \in Int :
              SumFunction([gold EXCEPT ![p] = @ + n]) = SumFunction(gold) + n
         /\ \A t \in Txn : SumFunction(coin[t]) \in Int
         /\ \A t \in Txn, p \in Party, n \in Int :
              SumFunction([coin[t] EXCEPT ![p] = n]) = SumFunction(coin[t]) - coin[t][p] + n
  <1>1. SumFunction(gold) \in Int
    <2>1. DOMAIN gold = Party /\ \A p \in Party : gold[p] \in Int
      BY DEF TypeOK
    <2> QED BY <2>1, SumType DEF SumFunction, Finite
  <1>2. ASSUME NEW p \in Party, NEW n \in Int
        PROVE  SumFunction([gold EXCEPT ![p] = @ + n]) = SumFunction(gold) + n
    <2>1. gold \in [Party -> Int] /\ gold[p] \in Int /\ gold[p] + n \in Int
      BY DEF TypeOK
    <2>2. SumFunction([gold EXCEPT ![p] = gold[p] + n]) = SumFunction(gold) - gold[p] + (gold[p] + n)
      BY <2>1, SumExcept DEF Finite
    <2> QED BY <1>1, <2>1, <2>2
  <1>3. ASSUME NEW t \in Txn PROVE coin[t] \in [Party -> Int]
    BY DEF TypeOK
  <1>4. ASSUME NEW t \in Txn PROVE SumFunction(coin[t]) \in Int
    <2>1. coin[t] \in [Party -> Int]
      BY <1>3
    <2>2. DOMAIN coin[t] = Party /\ \A p \in Party : coin[t][p] \in Int
      BY <2>1
    <2> QED BY <2>2, SumType DEF SumFunction, Finite
  <1>5. ASSUME NEW t \in Txn, NEW p \in Party, NEW n \in Int
        PROVE  SumFunction([coin[t] EXCEPT ![p] = n]) = SumFunction(coin[t]) - coin[t][p] + n
    <2>1. coin[t] \in [Party -> Int]
      BY <1>3
    <2> QED BY <2>1, SumExcept DEF Finite
  <1> QED BY <1>1, <1>2, <1>4, <1>5

LEMMA LegCoinChange ==
  ASSUME Finite, TypeOK, NEW t \in Txn, NEW p \in Party, NEW n \in Int,
         coin' = [coin EXCEPT ![t][p] = n]
  PROVE  LegCoin \in Int /\ LegCoin' = LegCoin - coin[t][p] + n
  <1> DEFINE f == [u \in Txn |-> SumFunction(coin[u])]
             v == SumFunction([coin[t] EXCEPT ![p] = n])
  <1>1. f \in [Txn -> Int] /\ f[t] = SumFunction(coin[t]) /\ v = f[t] - coin[t][p] + n
    BY CoinSums
  <1>2. coin[t][p] \in Int /\ f[t] \in Int
    BY <1>1 DEF TypeOK
  <1>3. v \in Int
    BY <1>1, <1>2
  <1>4. coin'[t] = [coin[t] EXCEPT ![p] = n] /\ \A u \in Txn \ {t} : coin'[u] = coin[u]
    BY DEF TypeOK
  <1>5. [u \in Txn |-> SumFunction(coin'[u])] = [f EXCEPT ![t] = v]
    <2> DEFINE g == [u \in Txn |-> SumFunction(coin'[u])]
    <2>1. g[t] = v /\ \A u \in Txn \ {t} : g[u] = f[u]
      BY <1>4
    <2>2. DOMAIN f = Txn /\ g = [u \in Txn |-> g[u]] /\ f = [u \in Txn |-> f[u]]
      OBVIOUS
    <2> HIDE DEF f, g, v
    <2>3. g = [f EXCEPT ![t] = v]
      BY <2>1, <2>2
    <2> QED BY <2>3 DEF g
  <1> HIDE DEF f, v
  <1>6. SumFunction([f EXCEPT ![t] = v]) = SumFunction(f) - f[t] + v /\ SumFunction(f) \in Int
    <2>1. IsFiniteSet(Txn) /\ f \in [Txn -> Int]
      BY <1>1 DEF Finite
    <2> QED BY <1>3, <2>1, SumExcept
  <1>7. LegCoin = SumFunction(f) /\ LegCoin' = SumFunction([f EXCEPT ![t] = v])
    BY <1>5 DEF LegCoin, f
  <1> QED BY <1>1, <1>2, <1>6, <1>7

(* A running commit has somewhere to put each coin leg, and a finished
   transaction has none. *)
CoinFits ==
  /\ \A t \in Txn : phase[t] = "delivering" =>
       \A p \in Party : coin[t][p] > 0 => dest[t][p] \in Party
  /\ \A t \in Txn : phase[t] \in {"committed", "aborted"} =>
       \A p \in Party : coin[t][p] = 0

LEMMA StepCoinFits ==
  ASSUME LegsInv, CoinFits, AnyStep
  PROVE  CoinFits'
  <1> USE DEF legVars, worldVars
  <1>0. TypeOK /\ TypeOK'
    BY StepLegsInv DEF LegsInv
  <1>1. CASE UNCHANGED <<phase, coin, dest>>
    BY <1>1 DEF CoinFits
  <1>2. CASE World
    BY <1>1, <1>2 DEF World, Give, TickConsume
  <1>3. ASSUME NEW t \in Txn, AnyOperate(t) \/ Finish(t)
        PROVE  CoinFits'
    <2>1. ASSUME NEW u \in Txn, u # t
          PROVE  phase'[u] = phase[u] /\ dest'[u] = dest[u] /\ coin'[u] = coin[u]
      BY <1>0, <1>3, <2>1, OthersUntouched
    <2> SUFFICES /\ phase'[t] = "delivering" =>
                      \A p \in Party : coin'[t][p] > 0 => dest'[t][p] \in Party
                 /\ phase'[t] \in {"committed", "aborted"} =>
                      \A p \in Party : coin'[t][p] = 0
      BY <2>1 DEF CoinFits
    <2>2. CASE phase'[t] \notin {"delivering", "committed", "aborted"}
      BY <2>2
    <2>3. ASSUME NEW d \in [Party -> Party \cup {NoParty}], CommitBegin(t, d)
          PROVE  /\ phase'[t] = "delivering"
                 /\ \A p \in Party : coin'[t][p] > 0 => dest'[t][p] \in Party
      <3>1. /\ phase' = [phase EXCEPT ![t] = "delivering"] /\ UNCHANGED coin
            /\ dest' = [dest EXCEPT ![t] = d]
            /\ \A p \in Party : coin[t][p] > 0 => d[p] # NoParty
        BY <2>3 DEF CommitBegin, CommitReady, Staged, CoinLegs
      <3>2. \A p \in Party : coin[t][p] > 0 => d[p] \in Party
        BY <3>1
      <3> QED BY <1>0, <3>1, <3>2 DEF TypeOK
    <2>4. CASE AnyOperate(t) /\ ~\E d \in [Party -> Party \cup {NoParty}] : CommitBegin(t, d)
      <3>1. phase'[t] \in {"open", "returning"}
        <4>1. CASE UNCHANGED phase
          BY <2>4, <4>1, OperateLegs
        <4>2. CASE phase' = [phase EXCEPT ![t] = "returning"]
          BY <1>0, <4>2 DEF TypeOK
        <4> QED BY <2>4, <4>1, <4>2 DEF AnyOperate, StageCheck, WithdrawItem, StageRemove,
                StageCoin, WithdrawCoin, CommitVetoed, Rollback
      <3> QED BY <3>1
    <2>5. CASE \E p \in Party : DeliverCoin(t, p) \/ ReturnCoin(t, p)
      <3>1. PICK p \in Party : coin' = [coin EXCEPT ![t][p] = 0]
        BY <2>5 DEF DeliverCoin, ReturnCoin
      <3>2. UNCHANGED <<phase, dest>>
        BY <2>5 DEF DeliverCoin, ReturnCoin
      <3> QED BY <1>0, <3>1, <3>2 DEF CoinFits, TypeOK
    <2>6. CASE (\E audited \in BOOLEAN : CommitEnd(t, audited)) \/ UndoEnd(t)
      <3>1. CoinLegs(t) = {} /\ UNCHANGED coin
        BY <2>6 DEF CommitEnd, UndoEnd
      <3>2. \A p \in Party : coin'[t][p] = 0
        BY <1>0, <3>1 DEF CoinLegs, TypeOK
      <3>3. phase'[t] # "delivering"
        BY <1>0, <2>6 DEF CommitEnd, UndoEnd, TypeOK
      <3> QED BY <3>2, <3>3
    <2>7. CASE DeliverItemFails(t)
      BY <1>0, <2>2, <2>7 DEF DeliverItemFails, TypeOK
    <2>8. CASE \E i \in Item : DeliverItem(t, i) \/ TakeBack(t, i)
                             \/ ReturnItem(t, i) \/ ReturnItemFails(t, i)
      BY <1>1, <2>8 DEF CoinFits, DeliverItem, TakeBack, ReturnItem, ReturnItemFails
    <2> QED BY <1>3, <2>3, <2>4, <2>5, <2>6, <2>7, <2>8 DEF Finish
  <1> QED BY <1>2, <1>3 DEF AnyStep

LEMMA StepCoin ==
  ASSUME Finite, LegsInv, CoinFits, AnyStep
  PROVE  SumFunction(gold') + LegCoin' = SumFunction(gold) + LegCoin
  <1> USE DEF legVars, worldVars
  <1>0. TypeOK
    BY DEF LegsInv
  <1>1. ASSUME UNCHANGED <<gold, coin>>
        PROVE  SumFunction(gold') + LegCoin' = SumFunction(gold) + LegCoin
    BY <1>1 DEF LegCoin
  <1>2. ASSUME NEW t \in Txn, NEW p \in Party, NEW q \in Party, NEW n \in Int,
               gold' = [gold EXCEPT ![q] = @ + n], coin' = [coin EXCEPT ![t][p] = coin[t][p] - n]
        PROVE  SumFunction(gold') + LegCoin' = SumFunction(gold) + LegCoin
    <2>1. coin[t][p] \in Int
      BY <1>0 DEF TypeOK
    <2>2. coin[t][p] - n \in Int
      BY <2>1
    <2>3. LegCoin \in Int /\ LegCoin' = LegCoin - coin[t][p] + (coin[t][p] - n)
      BY <1>0, <1>2, <2>2, LegCoinChange
    <2>4. SumFunction(gold) \in Int /\ SumFunction(gold') = SumFunction(gold) + n
      BY <1>0, <1>2, CoinSums
    <2> QED BY <2>1, <2>3, <2>4
  <1>3. ASSUME NEW t \in Txn, NEW p \in Party, NEW n \in Nat,
               StageCoin(t, p, n) \/ WithdrawCoin(t, p, n)
        PROVE  SumFunction(gold') + LegCoin' = SumFunction(gold) + LegCoin
    <2>0. gold[p] \in Int /\ coin[t][p] \in Int
      BY <1>0 DEF TypeOK
    <2>1. CASE StageCoin(t, p, n)
      <3>1. -n \in Int /\ gold[p] - n = gold[p] + (-n) /\ coin[t][p] + n = coin[t][p] - (-n)
        BY <2>0
      <3>2. gold' = [gold EXCEPT ![p] = gold[p] - n] /\ coin' = [coin EXCEPT ![t][p] = coin[t][p] + n]
        BY <2>1 DEF StageCoin
      <3>3. gold' = [gold EXCEPT ![p] = gold[p] + (-n)]
            /\ coin' = [coin EXCEPT ![t][p] = coin[t][p] - (-n)]
        BY <3>1, <3>2
      <3> QED BY <1>2, <3>1, <3>3
    <2>2. CASE WithdrawCoin(t, p, n)
      <3> DEFINE k == IF n > coin[t][p] THEN coin[t][p] ELSE n
      <3>1. k \in Int
        BY <2>0
      <3>2. gold' = [gold EXCEPT ![p] = @ + k] /\ coin' = [coin EXCEPT ![t][p] = coin[t][p] - k]
        BY <2>2 DEF WithdrawCoin
      <3> HIDE DEF k
      <3> QED BY <1>2, <3>1, <3>2
    <2> QED BY <1>3, <2>1, <2>2
  <1>4. ASSUME NEW t \in Txn, NEW p \in Party, DeliverCoin(t, p) \/ ReturnCoin(t, p)
        PROVE  SumFunction(gold') + LegCoin' = SumFunction(gold) + LegCoin
    <2>1. coin[t][p] \in Int /\ coin[t][p] - coin[t][p] = 0
      BY <1>0 DEF TypeOK
    <2>2. PICK q \in Party : gold' = [gold EXCEPT ![q] = @ + coin[t][p]]
      <3>1. CASE ReturnCoin(t, p)
        BY <3>1 DEF ReturnCoin
      <3>2. CASE DeliverCoin(t, p)
        <4>1. dest[t][p] \in Party
          BY <3>2 DEF DeliverCoin, CoinLegs, CoinFits
        <4> QED BY <3>2, <4>1 DEF DeliverCoin
      <3> QED BY <1>4, <3>1, <3>2
    <2>3. coin' = [coin EXCEPT ![t][p] = coin[t][p] - coin[t][p]]
      BY <1>4, <2>1 DEF DeliverCoin, ReturnCoin
    <2> QED BY <1>2, <2>1, <2>2, <2>3
  <1>5. CASE World
    BY <1>1, <1>5 DEF World, Give, TickConsume
  <1>6. ASSUME NEW t \in Txn, AnyOperate(t)
        PROVE  SumFunction(gold') + LegCoin' = SumFunction(gold) + LegCoin
    BY <1>1, <1>3, <1>6 DEF AnyOperate, StageCheck, WithdrawItem, StageRemove, CommitBegin,
       CommitVetoed, Rollback
  <1>7. ASSUME NEW t \in Txn, Finish(t)
        PROVE  SumFunction(gold') + LegCoin' = SumFunction(gold) + LegCoin
    BY <1>1, <1>4, <1>7 DEF Finish, DeliverItem, TakeBack, ReturnItem, ReturnItemFails,
       DeliverItemFails, CommitEnd, UndoEnd, Forget
  <1> QED BY <1>5, <1>6, <1>7 DEF AnyStep

LEMMA InitCoin == ASSUME Finite, Init PROVE CoinFits /\ LegCoin = 0
  <1>1. CoinFits
    BY DEF Init, CoinFits
  <1>2. \A t \in Txn : coin[t] = [p \in Party |-> 0]
    BY DEF Init, NoLegs
  <1>3. SumFunction([p \in Party |-> 0]) = 0
    BY SumZero DEF SumFunction, Finite
  <1>4. [t \in Txn |-> SumFunction(coin[t])] = [t \in Txn |-> 0]
    BY <1>2, <1>3
  <1>5. SumFunction([t \in Txn |-> 0]) = 0
    BY SumZero DEF SumFunction, Finite
  <1> QED BY <1>1, <1>4, <1>5 DEF LegCoin

(* Coin is neither made nor lost, whatever is staged, withdrawn, delivered
   or returned, for any custodian: the sums of a step's two sides agree. *)
CoinInv == LegsInv /\ CoinFits /\ CoinConserved

LEMMA StepCoinInv == ASSUME Finite, CoinInv, AnyStep PROVE CoinInv'
  <1>1. LegsInv' /\ CoinFits'
    BY StepLegsInv, StepCoinFits DEF CoinInv
  <1>2. SumFunction(gold') + LegCoin' = SumFunction(gold) + LegCoin
    BY StepCoin DEF CoinInv
  <1> QED BY <1>1, <1>2 DEF CoinInv, CoinConserved, LegCoin

LEMMA StutterCoinInv == CoinInv /\ UNCHANGED vars => CoinInv'
  BY StutterLegsInv DEF CoinInv, CoinFits, CoinConserved, vars, legVars

LEMMA InitCoinInv == ASSUME Finite, Init PROVE CoinInv
  <1>1. LegsInv /\ CoinFits /\ LegCoin = 0
    BY InitEscrowInv, InitCoin DEF EscrowInv
  <1>2. SumFunction(gold) \in Int /\ gold = InitGold
    BY <1>1, CoinSums DEF Init, LegsInv
  <1>3. SumFunction(gold) + LegCoin = SumFunction(InitGold)
    BY <1>1, <1>2
  <1> QED BY <1>1, <1>3 DEF CoinInv, CoinConserved, LegCoin

(* Whatever the custodian does, the purses and the coin legs of all the
   transactions add up to the purses there were at first. *)
THEOREM EscrowCoinConserved == ASSUME Finite PROVE Spec => []CoinConserved
  <1>1. CoinInv /\ [Next]_vars => CoinInv'
    BY StepCoinInv, StutterCoinInv, NextIsAnyStep DEF CoinInv, LegsInv
  <1>2. Init => CoinInv
    BY InitCoinInv
  <1>3. CoinInv => CoinConserved
    BY DEF CoinInv
  <1> QED BY <1>1, <1>2, <1>3, PTL DEF Spec

------------------------------------------------------------------------------
(* The escrow is an atomic swap *)

(* With a custodian that neither fails nor is robbed by the tick, nothing is
   unwound and nothing falls out of the bags and the transactions. *)
Calm == ~CustodianFails /\ ~TickTakes
NoUnwind == \A t \in Txn : phase[t] # "unwinding"
NothingLost == stranded = {} /\ consumed = {}

SwapInv == EscrowInv /\ CoinFits /\ NoUnwind /\ NothingLost

LEMMA SwapInvParts ==
  ASSUME SwapInv
  PROVE  /\ TypeOK /\ LegsInv /\ DestKnown /\ DeliveredFits /\ StagingFits /\ OnePlace
         /\ StagedInBag /\ CoinFits /\ NoUnwind /\ NothingLost
  BY DEF SwapInv, EscrowInv, LegsInv

LEMMA StepSwapInv == ASSUME Calm, SwapInv, AnyStep PROVE SwapInv'
  <1>1. Careful /\ TypeOK
    BY SwapInvParts DEF Calm, Careful
  <1>2. EscrowInv' /\ CoinFits'
    BY <1>1, StepEscrowInv, StepCoinFits DEF SwapInv, EscrowInv
  <1>3. NothingLost'
    <2> USE DEF legVars, worldVars
    <2>1. UNCHANGED <<stranded, consumed>>
      <3>1. CASE World
        BY <3>1 DEF World, Give, TickConsume, Calm
      <3>2. ASSUME NEW t \in Txn, AnyOperate(t) PROVE UNCHANGED <<stranded, consumed>>
        BY <3>2 DEF AnyOperate, StageCheck, WithdrawItem, StageRemove, StageCoin,
           WithdrawCoin, CommitBegin, CommitVetoed, Rollback
      <3>3. ASSUME NEW t \in Txn, Finish(t) PROVE UNCHANGED <<stranded, consumed>>
        BY <3>3 DEF Calm, Finish, DeliverItem, TakeBack, ReturnItem, ReturnItemFails,
           DeliverCoin, ReturnCoin, DeliverItemFails, CommitEnd, UndoEnd
      <3> QED BY <3>1, <3>2, <3>3 DEF AnyStep
    <2> QED BY <2>1 DEF SwapInv, NothingLost
  <1>4. NoUnwind'
    <2> USE DEF legVars
    <2>0. NoUnwind
      BY DEF SwapInv
    <2>1. CASE World
      BY <2>0, <2>1 DEF World, Give, TickConsume, NoUnwind
    <2>2. ASSUME NEW t \in Txn, AnyOperate(t) \/ Finish(t) PROVE NoUnwind'
      <3>1. phase'[t] # "unwinding"
        <4>1. CASE AnyOperate(t)
          BY <4>1, OperateLegs, SwapInvParts
        <4>2. CASE Finish(t)
          <5>1. phase' \in {phase, [phase EXCEPT ![t] = "committed"],
                            [phase EXCEPT ![t] = "aborted"]}
            BY <4>2 DEF Calm, Finish, DeliverItem, TakeBack, ReturnItem, ReturnItemFails,
               DeliverCoin, ReturnCoin, DeliverItemFails, CommitEnd, UndoEnd
          <5> QED BY <1>1, <2>0, <5>1 DEF NoUnwind, TypeOK
        <4> QED BY <2>2, <4>1, <4>2
      <3>2. \A u \in Txn \ {t} : phase'[u] = phase[u]
        BY <1>1, <2>2, OthersUntouched
      <3> QED BY <2>0, <3>1, <3>2 DEF NoUnwind
    <2> QED BY <2>1, <2>2 DEF AnyStep
  <1> QED BY <1>2, <1>3, <1>4 DEF SwapInv

LEMMA InitSwapInv == Init => SwapInv
  <1> SUFFICES ASSUME Init PROVE SwapInv
    OBVIOUS
  <1>1. EscrowInv
    BY InitEscrowInv
  <1>2. CoinFits /\ NoUnwind /\ NothingLost
    BY DEF Init, CoinFits, NoUnwind, NothingLost
  <1> QED BY <1>1, <1>2 DEF SwapInv

(* Where BelongsTo finds an item. *)
Owners ==
  OnePlace => \A i \in Item :
    /\ \A p \in Party : i \in bag[p] => BelongsTo(i) = p
    /\ \A t \in Txn : i \in InCustody(t) => BelongsTo(i) = Heir(t, owner[t][i])

LEMMA OwnersNow == Owners
  <1> SUFFICES ASSUME OnePlace, NEW i \in Item
               PROVE  /\ \A p \in Party : i \in bag[p] => BelongsTo(i) = p
                      /\ \A t \in Txn : i \in InCustody(t) => BelongsTo(i) = Heir(t, owner[t][i])
    BY DEF Owners
  <1>0. NotTwice(i)
    BY DEF OnePlace
  <1>1. ASSUME NEW p \in Party, i \in bag[p] PROVE BelongsTo(i) = p
    <2>1. (\A q \in Party : i \in bag[q] => q = p) /\ \A t \in Txn : i \notin InCustody(t)
      BY <1>0, <1>1, InBagOnly
    <2> QED BY <1>1, <2>1 DEF BelongsTo
  <1>2. ASSUME NEW t \in Txn, i \in InCustody(t) PROVE BelongsTo(i) = Heir(t, owner[t][i])
    <2>1. \A u \in Txn : i \in InCustody(u) => u = t
      BY <1>0, <1>2, InCustodyOnly
    <2>2. (CHOOSE u \in Txn : i \in InCustody(u)) = t
      BY <1>2, <2>1
    <2> QED BY <1>2, <2>2 DEF BelongsTo
  <1> QED BY <1>1, <1>2

LEMMA OwnersNext == Owners'
  BY OwnersNow, PTL

LEMMA Home ==
  ASSUME SwapInv, NEW i \in Item
  PROVE  (\E p \in Party : i \in bag[p]) \/ \E t \in Txn : i \in InCustody(t)
  BY SwapInvParts DEF OnePlace, Somewhere, NothingLost

(* An item stays somebody's when it moves between his bag and his legs. *)
StaysWith(i) ==
  /\ \A p \in Party : i \in bag[p] =>
       \/ i \in bag'[p]
       \/ \E t \in Txn : (i \in InCustody(t))' /\ Heir(t, owner[t][i])' = p
  /\ \A t \in Txn : i \in InCustody(t) =>
       \/ (i \in InCustody(t))' /\ Heir(t, owner[t][i])' = Heir(t, owner[t][i])
       \/ \E p \in Party : i \in bag'[p] /\ p = Heir(t, owner[t][i])

LEMMA Keeps ==
  ASSUME SwapInv, OnePlace', NEW i \in Item, StaysWith(i)
  PROVE  BelongsTo(i)' = BelongsTo(i)
  <1>0. OnePlace
    BY SwapInvParts
  <1>1. /\ \A p \in Party : i \in bag'[p] => BelongsTo(i)' = p
        /\ \A t \in Txn : (i \in InCustody(t))' => BelongsTo(i)' = Heir(t, owner[t][i])'
    BY OwnersNext DEF Owners
  <1>2. /\ \A p \in Party : i \in bag[p] => BelongsTo(i) = p
        /\ \A t \in Txn : i \in InCustody(t) => BelongsTo(i) = Heir(t, owner[t][i])
    BY <1>0, OwnersNow DEF Owners
  <1>3. ASSUME NEW p \in Party, i \in bag[p] PROVE BelongsTo(i)' = BelongsTo(i)
    BY <1>1, <1>2, <1>3 DEF StaysWith
  <1>4. ASSUME NEW t \in Txn, i \in InCustody(t) PROVE BelongsTo(i)' = BelongsTo(i)
    BY <1>1, <1>2, <1>4 DEF StaysWith
  <1> QED BY <1>3, <1>4, Home

(* Sums of amounts. *)
LEMMA SumNat ==
  ASSUME NEW S, IsFiniteSet(S), NEW f \in [S -> Nat]
  PROVE  SumFunction(f) \in Nat /\ \A z \in S : f[z] <= SumFunction(f)
  <1> DEFINE o == [x \in S |-> 0]
  <1>1. /\ DOMAIN f = S
        /\ \A x \in S : f[x] \in Int /\ o[x] \in Int /\ o[x] <= f[x] /\ o[x] = 0
    OBVIOUS
  <1> HIDE DEF o
  <1>2. \A T \in SUBSET S : SumFunctionOnSet(f, T) \in Int /\ 0 <= SumFunctionOnSet(f, T)
    <2> SUFFICES ASSUME NEW T \in SUBSET S
                 PROVE  SumFunctionOnSet(f, T) \in Int /\ 0 <= SumFunctionOnSet(f, T)
      OBVIOUS
    <2>1. /\ IsFiniteSet(T)
          /\ \A x \in T : f[x] \in Int /\ o[x] \in Int /\ o[x] <= f[x] /\ o[x] = 0
      BY <1>1, FS_Subset
    <2>2. SumFunctionOnSet(o, T) = 0
      BY <2>1, SumZero
    <2>3. SumFunctionOnSet(f, T) \in Int
      BY <2>1, SumType
    <2>4. SumFunctionOnSet(o, T) <= SumFunctionOnSet(f, T)
      BY <2>1, SumOrder
    <2> QED BY <2>2, <2>3, <2>4
  <1>3. ASSUME NEW z \in S PROVE f[z] <= SumFunctionOnSet(f, S)
    <2>1. SumFunctionOnSet(f, S) = f[z] + SumFunctionOnSet(f, S \ {z})
      BY <1>1, SumRemove
    <2>2. SumFunctionOnSet(f, S \ {z}) \in Int /\ 0 <= SumFunctionOnSet(f, S \ {z})
      BY <1>2
    <2>3. f[z] \in Int
      BY <1>1
    <2> QED BY <2>1, <2>2, <2>3
  <1>4. SumFunction(f) = SumFunctionOnSet(f, S)
    BY <1>1 DEF SumFunction
  <1>5. SumFunctionOnSet(f, S) \in Int /\ 0 <= SumFunctionOnSet(f, S)
    BY <1>2
  <1> QED BY <1>3, <1>4, <1>5

Shares(p) == [t \in Txn |-> SumFunction(Share(t, p))]

LEMMA ShareType ==
  ASSUME Finite, TypeOK, NEW p
  PROVE  /\ \A t \in Txn : Share(t, p) \in [Party -> Nat]
         /\ Shares(p) \in [Txn -> Nat]
         /\ SumFunction(Shares(p)) \in Nat
         /\ Own(p) = gold[p] + SumFunction(Shares(p))
  <1>1. ASSUME NEW t \in Txn PROVE Share(t, p) \in [Party -> Nat] /\ SumFunction(Share(t, p)) \in Nat
    <2>1. Share(t, p) \in [Party -> Nat]
      BY DEF Share, TypeOK
    <2> QED BY <2>1, SumNat DEF Finite
  <1>2. Shares(p) \in [Txn -> Nat]
    BY <1>1 DEF Shares
  <1>3. SumFunction(Shares(p)) \in Nat
    BY <1>2, SumNat DEF Finite
  <1> QED BY <1>1, <1>2, <1>3 DEF Own, Shares

LEMMA ShareExcept ==
  ASSUME Finite, TypeOK, NEW p, NEW t \in Txn, NEW r \in Party, NEW k \in Int
  PROVE  /\ SumFunction([Share(t, p) EXCEPT ![r] = k])
              = SumFunction(Share(t, p)) - Share(t, p)[r] + k
         /\ SumFunction(Share(t, p)) \in Int
  <1> DEFINE s == Share(t, p)
  <1>1. s \in [Party -> Nat]
    BY ShareType
  <1>3. IsFiniteSet(Party) /\ s \in [Party -> Int]
    BY <1>1 DEF Finite
  <1> HIDE DEF s
  <1>2. SumFunction([s EXCEPT ![r] = k]) = SumFunction(s) - s[r] + k /\ SumFunction(s) \in Int
    BY <1>3, SumExcept
  <1> QED BY <1>2 DEF s

LEMMA SharesExcept ==
  ASSUME Finite, TypeOK, NEW p, NEW t \in Txn, NEW k \in Int
  PROVE  /\ SumFunction([Shares(p) EXCEPT ![t] = k])
              = SumFunction(Shares(p)) - Shares(p)[t] + k
         /\ SumFunction(Shares(p)) \in Int
  <1> DEFINE s == Shares(p)
  <1>1. s \in [Txn -> Nat]
    BY ShareType
  <1>2. IsFiniteSet(Txn) /\ s \in [Txn -> Int]
    BY <1>1 DEF Finite
  <1> HIDE DEF s
  <1>3. SumFunction([s EXCEPT ![t] = k]) = SumFunction(s) - s[t] + k /\ SumFunction(s) \in Int
    BY <1>2, SumExcept
  <1> QED BY <1>3 DEF s

(* Nobody's coin changes when the legs keep their heirs ... *)
LEMMA OwnSame ==
  ASSUME TypeOK, TypeOK', UNCHANGED gold,
         \A t \in Txn, q \in Party : /\ coin'[t][q] = coin[t][q]
                                     /\ coin[t][q] # 0 => Heir(t, q)' = Heir(t, q),
         NEW p
  PROVE  Own(p)' = Own(p)
  <1>1. ASSUME NEW t \in Txn PROVE Share(t, p)' = Share(t, p)
    BY DEF Share
  <1>2. [t \in Txn |-> SumFunction(Share(t, p)')] = [t \in Txn |-> SumFunction(Share(t, p))]
    BY <1>1
  <1> QED BY <1>2 DEF Own

(* ... or when n moves between the purse of the heir and the leg. *)
LEMMA OwnMoves ==
  ASSUME Finite, TypeOK, TypeOK', UNCHANGED <<phase, dest>>,
         NEW t \in Txn, NEW r \in Party, NEW q \in Party, NEW n \in Int,
         gold' = [gold EXCEPT ![q] = @ + n],
         coin' = [coin EXCEPT ![t][r] = coin[t][r] - n],
         Heir(t, r) = q, NEW p \in Party
  PROVE  Own(p)' = Own(p)
  <1>0. gold[p] \in Int /\ gold'[p] \in Int
    BY DEF TypeOK
  <1>1. \A u \in Txn, x \in Party : Heir(u, x)' = Heir(u, x)
    BY DEF Heir
  <1>2. /\ \A u \in Txn \ {t} : coin'[u] = coin[u]
        /\ \A x \in Party \ {r} : coin'[t][x] = coin[t][x]
        /\ coin'[t][r] = coin[t][r] - n
        /\ coin[t][r] \in Int
    BY DEF TypeOK
  <1>3. \A u \in Txn \ {t} : Share(u, p)' = Share(u, p)
    BY <1>1, <1>2 DEF Share
  <1>4. CASE p # q
    <2>1. \A x \in Party : (IF Heir(t, x)' = p THEN coin'[t][x] ELSE 0)
                             = (IF Heir(t, x) = p THEN coin[t][x] ELSE 0)
      BY <1>1, <1>2, <1>4
    <2>2. Share(t, p)' = Share(t, p)
      BY <2>1 DEF Share
    <2>3. [u \in Txn |-> SumFunction(Share(u, p)')] = [u \in Txn |-> SumFunction(Share(u, p))]
      BY <1>3, <2>2
    <2>4. gold'[p] = gold[p]
      BY <1>4 DEF TypeOK
    <2> QED BY <2>3, <2>4 DEF Own
  <1>5. CASE p = q
    <2>1. /\ Share(t, p) \in [Party -> Int] /\ Shares(p) \in [Txn -> Int]
          /\ Share(t, p)[r] = coin[t][r] /\ coin[t][r] - n \in Int
      BY <1>2, <1>5, ShareType DEF Share
    <2>2. Share(t, p)' = [Share(t, p) EXCEPT ![r] = coin[t][r] - n]
      <3>1. \A x \in Party : (IF Heir(t, x)' = p THEN coin'[t][x] ELSE 0)
              = IF x = r THEN coin[t][r] - n ELSE Share(t, p)[x]
        BY <1>1, <1>2, <1>5 DEF Share
      <3>2. Share(t, p)' = [x \in Party |-> IF x = r THEN coin[t][r] - n ELSE Share(t, p)[x]]
        BY <3>1 DEF Share
      <3> HIDE DEF Share
      <3> QED BY <2>1, <3>2
    <2>3. SumFunction(Share(t, p)') = SumFunction(Share(t, p)) - coin[t][r] + (coin[t][r] - n)
          /\ SumFunction(Share(t, p)) \in Int
      <3> DEFINE k == coin[t][r] - n
      <3>1. k \in Int /\ Share(t, p)' = [Share(t, p) EXCEPT ![r] = k]
        BY <2>1, <2>2
      <3> HIDE DEF k
      <3>2. /\ SumFunction([Share(t, p) EXCEPT ![r] = k])
                 = SumFunction(Share(t, p)) - Share(t, p)[r] + k
            /\ SumFunction(Share(t, p)) \in Int
        BY <3>1, ShareExcept
      <3> QED BY <2>1, <3>1, <3>2 DEF k
    <2> DEFINE v == SumFunction(Share(t, p)')
    <2>4. v \in Int /\ v = SumFunction(Share(t, p)) - n
      BY <1>2, <2>3
    <2>5. Shares(p)' = [Shares(p) EXCEPT ![t] = v]
      <3>1. Shares(p)' = [u \in Txn |-> IF u = t THEN v ELSE SumFunction(Share(u, p))]
        BY <1>3 DEF Shares
      <3> HIDE DEF v
      <3> QED BY <3>1 DEF Shares
    <2> HIDE DEF v
    <2>6. SumFunction([Shares(p) EXCEPT ![t] = v]) = SumFunction(Shares(p)) - Shares(p)[t] + v
          /\ SumFunction(Shares(p)) \in Int
      BY <2>1, <2>4, SumExcept DEF Finite
    <2>7. Shares(p)[t] = SumFunction(Share(t, p)) /\ Shares(p)[t] \in Int
      BY <2>1 DEF Shares
    <2>8. gold'[p] = gold[p] + n
      BY <1>5 DEF TypeOK
    <2>9. SumFunction(Shares(p)') = SumFunction(Shares(p)) - n
      BY <2>4, <2>5, <2>6, <2>7
    <2>10. Own(p) = gold[p] + SumFunction(Shares(p)) /\ Own(p)' = gold'[p] + SumFunction(Shares(p)')
      BY DEF Own, Shares
    <2> QED BY <1>0, <2>6, <2>8, <2>9, <2>10
  <1> QED BY <1>4, <1>5

(* What is on offer is the bidder's own, and so is his purse. *)
LEMMA Afford ==
  ASSUME Finite, SwapInv, NEW p \in Party
  PROVE  LET Bids == SumFunction([t \in Txn |-> CoinOnOffer(t)[p]])
         IN  /\ Own(p) \in Nat /\ Bids \in Nat
             /\ gold[p] + Bids <= Own(p)
             /\ \A t \in Txn : CoinOnOffer(t)[p] <= Bids
  <1>0. TypeOK
    BY SwapInvParts
  <1> DEFINE f == [t \in Txn |-> CoinOnOffer(t)[p]]
             g == Shares(p)
  <1>1. f \in [Txn -> Nat]
    BY <1>0 DEF CoinOnOffer, TypeOK, NoLegs
  <1>2. g \in [Txn -> Nat] /\ SumFunction(g) \in Nat /\ Own(p) = gold[p] + SumFunction(g)
    BY <1>0, ShareType
  <1>3. ASSUME NEW t \in Txn PROVE f[t] <= g[t]
    <2>1. CASE phase[t] # "open"
      <3>1. f[t] = 0
        BY <2>1 DEF CoinOnOffer, NoLegs
      <3>2. g[t] \in Nat
        BY <1>2
      <3> QED BY <3>1, <3>2
    <2>2. CASE phase[t] = "open"
      <3>1. f[t] = coin[t][p] /\ Share(t, p)[p] = coin[t][p]
        BY <2>2 DEF CoinOnOffer, Share, Heir
      <3>2. Share(t, p) \in [Party -> Nat]
        BY <1>0, ShareType
      <3>3. Share(t, p)[p] <= SumFunction(Share(t, p))
        BY <3>2, SumNat DEF Finite
      <3>4. g[t] = SumFunction(Share(t, p))
        BY DEF Shares
      <3> QED BY <3>1, <3>3, <3>4
    <2> QED BY <2>1, <2>2
  <1>4. gold[p] \in Nat
    BY <1>0 DEF TypeOK
  <1> HIDE DEF f, g
  <1>5. SumFunction(f) \in Nat /\ \A t \in Txn : f[t] <= SumFunction(f)
    BY <1>1, SumNat DEF Finite
  <1>6. SumFunction(f) <= SumFunction(g)
    <2>1. DOMAIN f = Txn /\ DOMAIN g = Txn
      BY <1>1, <1>2
    <2>2. \A t \in Txn : f[t] \in Int /\ g[t] \in Int /\ f[t] <= g[t]
      BY <1>1, <1>2, <1>3
    <2> QED BY <2>1, <2>2, SumOrder DEF SumFunction, Finite
  <1>7. \A t \in Txn : f[t] = CoinOnOffer(t)[p]
    BY DEF f
  <1>8. Own(p) \in Nat /\ SumFunction(f) \in Nat /\ gold[p] + SumFunction(f) <= Own(p)
        /\ \A t \in Txn : CoinOnOffer(t)[p] <= SumFunction(f)
    BY <1>2, <1>4, <1>5, <1>6, <1>7
  <1> QED BY <1>8 DEF f

(* One lemma for each action of AtomicSwap: what a step must do to the
   mapped variables to be that action. *)
SameItems == \A i \in Item : BelongsTo(i)' = BelongsTo(i)
SameCoin  == \A p \in Party : Own(p)' = Own(p)
SameOffers == \A t \in Txn : OnOffer(t)' = OnOffer(t)
SameBids  == \A t \in Txn : CoinOnOffer(t)' = CoinOnOffer(t)

LEMMA MapStutter ==
  ASSUME SameItems, SameCoin, SameOffers, SameBids, UNCHANGED gifts
  PROVE  UNCHANGED Swap!vars
  BY DEF SameItems, SameCoin, SameOffers, SameBids, Swap!vars

LEMMA MapOffer ==
  ASSUME SameItems, SameCoin, SameBids, UNCHANGED gifts, NEW t \in Txn, NEW i \in Item,
         \A u \in Txn : i \notin OnOffer(u), OnOffer(t)' = OnOffer(t) \cup {i},
         \A u \in Txn \ {t} : OnOffer(u)' = OnOffer(u)
  PROVE  Swap!Next
  <1>1. Swap!Offer(t, i)
    BY DEF SameItems, SameCoin, SameBids, Swap!Offer, Swap!Free
  <1> QED BY <1>1 DEF Swap!Next

LEMMA MapRetract ==
  ASSUME SameItems, SameCoin, SameBids, UNCHANGED gifts, NEW t \in Txn, NEW i \in OnOffer(t),
         i \in Item, OnOffer(t)' = OnOffer(t) \ {i},
         \A u \in Txn \ {t} : OnOffer(u)' = OnOffer(u)
  PROVE  Swap!Next
  <1>1. Swap!Retract(t, i)
    BY DEF SameItems, SameCoin, SameBids, Swap!Retract
  <1> QED BY <1>1 DEF Swap!Next

(* The instance has a copy of the library's sum. *)
LEMMA SwapSum == ASSUME NEW f PROVE Swap!SumFunction(f) = SumFunction(f)
  <1>1. Swap!SumFunction(f) = (CHOOSE H : IsSum(H, f, DOMAIN f))[DOMAIN f]
    BY DEF Swap!SumFunction, Swap!SumFunctionOnSet, Swap!FoldFunctionOnSet,
           Swap!MapThenFoldSet, IsSum
  <1> QED BY <1>1, SumIs DEF SumFunction

LEMMA MapBids ==
  ASSUME Finite, SwapInv, NEW p \in Party
  PROVE  /\ Swap!Bids(p) \in Nat /\ gold[p] + Swap!Bids(p) <= Own(p) /\ Own(p) \in Nat
         /\ \A t \in Txn : CoinOnOffer(t)[p] <= Swap!Bids(p)
  <1> DEFINE B == SumFunction([t \in Txn |-> CoinOnOffer(t)[p]])
  <1>1. /\ Own(p) \in Nat /\ B \in Nat /\ gold[p] + B <= Own(p)
        /\ \A t \in Txn : CoinOnOffer(t)[p] <= B
    BY Afford
  <1>2. Swap!Bids(p) = B
    <2>1. [t \in Txn |-> [u \in Txn |-> CoinOnOffer(u)][t][p]] = [t \in Txn |-> CoinOnOffer(t)[p]]
      OBVIOUS
    <2> QED BY <2>1, SwapSum DEF Swap!Bids
  <1> QED BY <1>1, <1>2

LEMMA MapBid ==
  ASSUME Finite, SwapInv, SameItems, SameCoin, SameOffers, UNCHANGED gifts,
         NEW t \in Txn, NEW p \in Party, NEW n \in Nat, n > 0, n <= gold[p],
         CoinOnOffer(t)' = [CoinOnOffer(t) EXCEPT ![p] = @ + n],
         \A u \in Txn \ {t} : CoinOnOffer(u)' = CoinOnOffer(u)
  PROVE  Swap!Next
  <1>0. gold[p] \in Nat
    BY SwapInvParts DEF TypeOK
  <1>1. Own(p) \in Nat /\ Swap!Bids(p) \in Nat /\ n <= Own(p) - Swap!Bids(p) /\ n \in 1..Own(p)
    BY <1>0, MapBids
  <1>2. Swap!Bid(t, p, n)
    BY <1>1 DEF SameItems, SameCoin, SameOffers, Swap!Bid
  <1>3. n \in 1..([x \in Party |-> Own(x)][p])
    BY <1>1
  <1> QED BY <1>2, <1>3 DEF Swap!Next

LEMMA MapUnbid ==
  ASSUME Finite, SwapInv, SameItems, SameCoin, SameOffers, UNCHANGED gifts,
         NEW t \in Txn, NEW p \in Party, NEW n \in Nat, n > 0, n <= CoinOnOffer(t)[p],
         CoinOnOffer(t)' = [CoinOnOffer(t) EXCEPT ![p] = @ - n],
         \A u \in Txn \ {t} : CoinOnOffer(u)' = CoinOnOffer(u)
  PROVE  Swap!Next
  <1>0. gold[p] \in Nat /\ CoinOnOffer(t)[p] \in Nat
    BY SwapInvParts DEF TypeOK, CoinOnOffer, NoLegs
  <1>1. n \in 1..Own(p)
    BY <1>0, MapBids
  <1>2. Swap!Unbid(t, p, n)
    BY DEF SameItems, SameCoin, SameOffers, Swap!Unbid
  <1>3. n \in 1..([x \in Party |-> Own(x)][p])
    BY <1>1
  <1> QED BY <1>2, <1>3 DEF Swap!Next

(* The offers of t, and its bids, are gone. *)
ClearedOnly(t) ==
  /\ OnOffer(t)' = {} /\ CoinOnOffer(t)' = [p \in Party |-> 0]
  /\ \A u \in Txn \ {t} : OnOffer(u)' = OnOffer(u) /\ CoinOnOffer(u)' = CoinOnOffer(u)

LEMMA MapClear ==
  ASSUME NEW t \in Txn, ClearedOnly(t)
  PROVE  Swap!Clear(t)
  BY DEF ClearedOnly, Swap!Clear, Swap!NoBid

LEMMA MapAbandon ==
  ASSUME SameItems, SameCoin, UNCHANGED gifts, NEW t \in Txn, ClearedOnly(t)
  PROVE  Swap!Next
  <1>1. Swap!Abandon(t)
    BY MapClear DEF SameItems, SameCoin, Swap!Abandon
  <1> QED BY <1>1 DEF Swap!Next

LEMMA MapSettle ==
  ASSUME UNCHANGED gifts, NEW t \in Txn, NEW d \in DestMaps, ClearedOnly(t),
         \A i \in Item : BelongsTo(i)' = IF i \in OnOffer(t) THEN d[BelongsTo(i)] ELSE BelongsTo(i),
         \A p \in Party : Own(p)' = Own(p) - CoinOnOffer(t)[p]
           + SumFunction([q \in Party |-> IF d[q] = p THEN CoinOnOffer(t)[q] ELSE 0])
  PROVE  Swap!Next
  <1>1. Swap!Settle(t, d)
    <2>1. Swap!Clear(t)
      BY MapClear
    <2>2. [i \in Item |-> BelongsTo(i)'] =
            [i \in Item |-> IF i \in [u \in Txn |-> OnOffer(u)][t]
                              THEN d[[j \in Item |-> BelongsTo(j)][i]]
                              ELSE [j \in Item |-> BelongsTo(j)][i]]
      OBVIOUS
    <2>3. [p \in Party |-> Own(p)'] =
            [p \in Party |-> [r \in Party |-> Own(r)][p] - [u \in Txn |-> CoinOnOffer(u)][t][p]
               + SumFunction([q \in Party |-> IF d[q] = p THEN [u \in Txn |-> CoinOnOffer(u)][t][q]
                                                          ELSE 0])]
      OBVIOUS
    <2>4. \A p \in Party :
            Swap!SumFunction([q \in Party |-> IF d[q] = p THEN [u \in Txn |-> CoinOnOffer(u)][t][q]
                                                          ELSE 0])
              = SumFunction([q \in Party |-> IF d[q] = p THEN [u \in Txn |-> CoinOnOffer(u)][t][q]
                                                         ELSE 0])
      BY SwapSum
    <2> QED BY <2>1, <2>2, <2>3, <2>4 DEF Swap!Settle
  <1> QED BY <1>1 DEF Swap!Next

LEMMA MapGiveAway ==
  ASSUME SameCoin, SameOffers, SameBids, gifts' = 1 - gifts, NEW i \in Item, NEW q \in Party,
         \A u \in Txn : i \notin OnOffer(u), BelongsTo(i)' = q,
         \A j \in Item \ {i} : BelongsTo(j)' = BelongsTo(j)
  PROVE  Swap!Next
  <1>1. Swap!GiveAway(i, q)
    BY DEF SameCoin, SameOffers, SameBids, Swap!GiveAway, Swap!Free
  <1> QED BY <1>1 DEF Swap!Next

(* What a step does to the custody of its transaction. *)
LEMMA LegGone ==
  ASSUME TypeOK, NEW t \in Txn, NEW i \in Item,
         owner' = [owner EXCEPT ![t][i] = NoParty], UNCHANGED <<phase, delivered>>
  PROVE  /\ \A u \in Txn \ {t} : /\ owner'[u] = owner[u] /\ OnOffer(u)' = OnOffer(u)
                                 /\ InCustody(u)' = InCustody(u)
         /\ \A j \in Item \ {i} : /\ owner'[t][j] = owner[t][j]
                                  /\ (j \in InCustody(t))' <=> j \in InCustody(t)
         /\ ItemLegs(t)' = ItemLegs(t) \ {i}
  <1>1. /\ \A u \in Txn \ {t} : owner'[u] = owner[u]
        /\ \A j \in Item \ {i} : owner'[t][j] = owner[t][j]
        /\ owner'[t][i] = NoParty
    BY DEF TypeOK
  <1> QED BY <1>1 DEF OnOffer, InCustody, ItemLegs

LEMMA CoinUntouched ==
  ASSUME UNCHANGED <<gold, phase, coin, dest>>
  PROVE  SameCoin /\ SameBids /\ \A t, p : Heir(t, p)' = Heir(t, p)
  BY DEF SameCoin, SameBids, Own, Share, Heir, CoinOnOffer

LEMMA ItemsUntouched ==
  ASSUME UNCHANGED <<bag, phase, owner, dest, delivered>>
  PROVE  SameItems /\ SameOffers
  BY DEF SameItems, SameOffers, BelongsTo, Heir, InCustody, ItemLegs, OnOffer

(* An open transaction has all its legs in custody, and they are on offer. *)
LEMMA OpenLegs ==
  ASSUME SwapInv, NEW t \in Txn, phase[t] = "open"
  PROVE  /\ delivered[t] = {} /\ InCustody(t) = ItemLegs(t) /\ OnOffer(t) = ItemLegs(t)
         /\ CoinOnOffer(t) = coin[t] /\ \A p : Heir(t, p) = p
  BY SwapInvParts DEF DeliveredFits, InCustody, OnOffer, CoinOnOffer, Heir

LEMMA OfferIsCustody ==
  ASSUME SwapInv, NEW t \in Txn
  PROVE  OnOffer(t) \subseteq InCustody(t)
  BY OpenLegs DEF OnOffer

LEMMA SwapGive ==
  ASSUME SwapInv, SwapInv', NEW p \in Party, NEW q \in Party, NEW i \in Item,
         Give(p, q, i), gifts' = 1 - gifts
  PROVE  Swap!Next
  <1> USE DEF legVars
  <1>0. TypeOK /\ OnePlace /\ OnePlace'
    BY SwapInvParts DEF SwapInv, EscrowInv
  <1>1. SameCoin /\ SameBids /\ SameOffers
    BY CoinUntouched DEF Give, SameOffers, OnOffer, ItemLegs
  <1>2. i \in bag[p] /\ i \in bag'[q] /\ p # q
        /\ \A j \in Item \ {i}, x \in Party : j \in bag'[x] <=> j \in bag[x]
    BY <1>0 DEF Give, TypeOK
  <1>3. /\ \A t \in Txn : InCustody(t)' = InCustody(t) /\ owner'[t] = owner[t]
        /\ \A t, x : Heir(t, x)' = Heir(t, x)
    BY DEF Give, InCustody, ItemLegs, Heir
  <1>4. BelongsTo(i)' = q
    BY <1>0, <1>2, OwnersNext DEF Owners
  <1>5. \A u \in Txn : i \notin OnOffer(u)
    BY <1>0, <1>2, OfferIsCustody DEF OnePlace, NotTwice
  <1>6. ASSUME NEW j \in Item \ {i} PROVE BelongsTo(j)' = BelongsTo(j)
    <2>1. StaysWith(j)
      BY <1>2, <1>3 DEF StaysWith
    <2> QED BY <1>0, <2>1, Keeps
  <1> QED BY <1>1, <1>4, <1>5, <1>6, MapGiveAway

LEMMA SwapStageRemove ==
  ASSUME SwapInv, SwapInv', NEW t \in Txn, StageRemove(t), UNCHANGED gifts
  PROVE  Swap!Next \/ UNCHANGED Swap!vars
  <1> USE DEF worldVars
  <1>0. TypeOK /\ OnePlace /\ OnePlace'
    BY SwapInvParts DEF SwapInv, EscrowInv
  <1>p. PICK p \in Party, i \in Item : staging[t] = <<p, i>>
    BY <1>0 DEF StageRemove, TypeOK
  <1>1. /\ p \in Party /\ i \in Item /\ owner[t][i] = NoParty /\ phase[t] = "open"
        /\ ~RemovalChecked => i \in bag[p]
    <2>1. staging[t] # NoStage /\ staging[t][1] = p /\ staging[t][2] = i
      BY <1>p DEF StageRemove
    <2> QED BY <2>1, SwapInvParts DEF StagingFits, StagedInBag
  <1>2. /\ bag' = Take(p, i) /\ UNCHANGED <<gold, phase, coin, dest, delivered>>
        /\ owner' = IF RemovalChecked /\ i \notin bag[p] THEN owner
                    ELSE [owner EXCEPT ![t][i] = p]
    BY <1>p DEF StageRemove
  <1>3. SameCoin /\ SameBids /\ \A u, x : Heir(u, x)' = Heir(u, x)
    BY <1>2, CoinUntouched
  <1>4. CASE i \notin bag[p]
    <2>1. UNCHANGED <<bag, owner>>
      BY <1>0, <1>1, <1>2, <1>4 DEF Take, TypeOK
    <2>2. SameItems /\ SameOffers
      BY <1>2, <2>1, ItemsUntouched
    <2> QED BY <1>3, <2>2, MapStutter
  <1>5. CASE i \in bag[p]
    <2>1. owner' = [owner EXCEPT ![t][i] = p] /\ p # NoParty
      BY <1>1, <1>2, <1>5, EscrowAssumption
    <2>2. /\ \A u \in Txn \ {t} : /\ owner'[u] = owner[u] /\ OnOffer(u)' = OnOffer(u)
                                  /\ InCustody(u)' = InCustody(u)
          /\ \A j \in Item \ {i} : /\ owner'[t][j] = owner[t][j]
                                   /\ (j \in InCustody(t))' <=> j \in InCustody(t)
          /\ owner'[t][i] = p /\ ItemLegs(t)' = ItemLegs(t) \cup {i}
      <3>1. /\ \A u \in Txn \ {t} : owner'[u] = owner[u]
            /\ \A j \in Item \ {i} : owner'[t][j] = owner[t][j]
            /\ owner'[t][i] = p
        BY <1>0, <2>1 DEF TypeOK
      <3> QED BY <1>2, <2>1, <3>1 DEF OnOffer, InCustody, ItemLegs
    <2>3. /\ delivered[t] = {} /\ OnOffer(t) = ItemLegs(t) /\ \A x : Heir(t, x) = x
      BY <1>1, OpenLegs
    <2>4. OnOffer(t)' = OnOffer(t) \cup {i} /\ (i \in InCustody(t))'
      BY <1>1, <1>2, <2>2, <2>3 DEF OnOffer, InCustody
    <2>5. \A u \in Txn : i \notin InCustody(u)
      BY <1>0, <1>1, <1>5 DEF OnePlace, NotTwice
    <2>6. \A u \in Txn : i \notin OnOffer(u)
      BY <2>5, OfferIsCustody
    <2>7. \A j \in Item, x \in Party : j \in bag[x] /\ (j # i \/ x # p) => j \in bag'[x]
      BY <1>0, <1>2 DEF Take, TypeOK
    <2>8. ASSUME NEW j \in Item PROVE BelongsTo(j)' = BelongsTo(j)
      <3>1. StaysWith(j)
        <4>1. CASE j = i
          BY <1>3, <2>2, <2>3, <2>4, <2>5, <2>7, <4>1 DEF StaysWith
        <4>2. CASE j # i
          BY <1>3, <2>2, <2>7, <4>2 DEF StaysWith
        <4> QED BY <4>1, <4>2
      <3> QED BY <1>0, <3>1, Keeps
    <2> QED BY <1>1, <1>3, <2>2, <2>4, <2>6, <2>8, MapOffer DEF SameItems
  <1> QED BY <1>4, <1>5

(* An item goes from the custody of t back to the bag of its owner. *)
LEMMA BackToBag ==
  ASSUME SwapInv, SwapInv', NEW t \in Txn, NEW i \in InCustody(t), i \in Item,
         phase[t] # "delivering", bag' = Add(owner[t][i], i),
         owner' = [owner EXCEPT ![t][i] = NoParty],
         UNCHANGED <<gold, phase, coin, dest, delivered>>
  PROVE  /\ SameItems /\ SameCoin /\ SameBids
         /\ \A u \in Txn \ {t} : OnOffer(u)' = OnOffer(u)
         /\ OnOffer(t)' = OnOffer(t) \ {i}
  <1>0. TypeOK /\ OnePlace /\ OnePlace'
    BY SwapInvParts DEF SwapInv, EscrowInv
  <1>1. owner[t][i] \in Party /\ Heir(t, owner[t][i]) = owner[t][i]
    BY <1>0 DEF InCustody, ItemLegs, TypeOK, Heir
  <1>2. SameCoin /\ SameBids /\ \A u, x : Heir(u, x)' = Heir(u, x)
    BY CoinUntouched
  <1>3. /\ \A u \in Txn \ {t} : /\ owner'[u] = owner[u] /\ OnOffer(u)' = OnOffer(u)
                                /\ InCustody(u)' = InCustody(u)
        /\ \A j \in Item \ {i} : /\ owner'[t][j] = owner[t][j]
                                 /\ (j \in InCustody(t))' <=> j \in InCustody(t)
        /\ ItemLegs(t)' = ItemLegs(t) \ {i}
    BY <1>0, LegGone
  <1>4. /\ \A j \in Item, x \in Party : j \in bag[x] => j \in bag'[x]
        /\ i \in bag'[owner[t][i]]
    BY <1>0, <1>1 DEF Add, TypeOK
  <1>5. \A u \in Txn : i \in InCustody(u) => u = t
    BY <1>0 DEF OnePlace, NotTwice
  <1>6. ASSUME NEW j \in Item PROVE BelongsTo(j)' = BelongsTo(j)
    <2>1. StaysWith(j)
      <3>1. CASE j = i
        BY <1>1, <1>4, <1>5, <3>1 DEF StaysWith
      <3>2. CASE j # i
        BY <1>2, <1>3, <1>4, <3>2 DEF StaysWith
      <3> QED BY <3>1, <3>2
    <2> QED BY <1>0, <2>1, Keeps
  <1>7. OnOffer(t)' = OnOffer(t) \ {i}
    BY <1>3 DEF OnOffer
  <1> QED BY <1>2, <1>3, <1>6, <1>7 DEF SameItems

LEMMA SwapWithdrawItem ==
  ASSUME SwapInv, SwapInv', NEW t \in Txn, NEW p \in Party, NEW i \in Item,
         WithdrawItem(t, p, i), UNCHANGED gifts
  PROVE  Swap!Next
  <1>1. /\ phase[t] = "open" /\ owner[t][i] = p /\ p # NoParty /\ bag' = Add(owner[t][i], i)
        /\ owner' = [owner EXCEPT ![t][i] = NoParty]
        /\ UNCHANGED <<gold, phase, coin, dest, delivered>>
    BY EscrowAssumption DEF WithdrawItem, Live
  <1>2. i \in InCustody(t) /\ i \in OnOffer(t)
    BY <1>1, OpenLegs DEF ItemLegs
  <1>3. /\ SameItems /\ SameCoin /\ SameBids
        /\ \A u \in Txn \ {t} : OnOffer(u)' = OnOffer(u)
        /\ OnOffer(t)' = OnOffer(t) \ {i}
    BY <1>1, <1>2, BackToBag
  <1> QED BY <1>2, <1>3, MapRetract

LEMMA SwapReturnItem ==
  ASSUME SwapInv, SwapInv', NEW t \in Txn, NEW i \in Item, ReturnItem(t, i), UNCHANGED gifts
  PROVE  UNCHANGED Swap!vars
  <1>1. phase[t] = "returning"
    BY SwapInvParts DEF ReturnItem, Undoing, NoUnwind
  <1>2. /\ SameItems /\ SameCoin /\ SameBids
        /\ \A u \in Txn \ {t} : OnOffer(u)' = OnOffer(u)
        /\ OnOffer(t)' = OnOffer(t) \ {i}
    BY <1>1, BackToBag DEF ReturnItem
  <1>3. OnOffer(t) = {}
    BY <1>1 DEF OnOffer
  <1> QED BY <1>2, <1>3, MapStutter DEF SameOffers

LEMMA SwapDeliverItem ==
  ASSUME SwapInv, SwapInv', NEW t \in Txn, NEW i \in Item, DeliverItem(t, i), UNCHANGED gifts
  PROVE  UNCHANGED Swap!vars
  <1> USE DEF worldVars
  <1>0. TypeOK /\ OnePlace /\ OnePlace'
    BY SwapInvParts DEF SwapInv, EscrowInv
  <1> DEFINE q == dest[t][owner[t][i]]
  <1>1. /\ phase[t] = "delivering" /\ i \in InCustody(t) /\ bag' = Add(q, i)
        /\ delivered' = [delivered EXCEPT ![t] = @ \cup {i}]
        /\ UNCHANGED <<gold, phase, coin, dest, owner>>
    BY DEF DeliverItem
  <1>2. q \in Party /\ q = Heir(t, owner[t][i])
    BY <1>1, SwapInvParts DEF DestKnown, Heir, InCustody, ItemLegs
  <1>3. SameCoin /\ SameBids /\ SameOffers /\ \A u, x : Heir(u, x)' = Heir(u, x)
    BY <1>1, CoinUntouched DEF SameOffers, OnOffer, ItemLegs
  <1>4. \A j \in Item, u \in Txn : j \in InCustody(u) /\ (j # i \/ u # t) => (j \in InCustody(u))'
    BY <1>0, <1>1 DEF InCustody, ItemLegs, TypeOK
  <1> HIDE DEF q
  <1>5. /\ \A j \in Item, x \in Party : j \in bag[x] => j \in bag'[x]
        /\ i \in bag'[q]
    BY <1>0, <1>1, <1>2 DEF Add, TypeOK
  <1>6. ASSUME NEW j \in Item PROVE BelongsTo(j)' = BelongsTo(j)
    <2>1. StaysWith(j)
      BY <1>1, <1>2, <1>3, <1>4, <1>5 DEF StaysWith
    <2> QED BY <1>0, <2>1, Keeps
  <1> QED BY <1>3, <1>6, MapStutter DEF SameItems

LEMMA SwapStageCoin ==
  ASSUME Finite, SwapInv, SwapInv', NEW t \in Txn, NEW p \in Party, NEW n \in Nat,
         StageCoin(t, p, n), UNCHANGED gifts
  PROVE  Swap!Next
  <1>0. TypeOK /\ TypeOK'
    BY SwapInvParts DEF SwapInv, EscrowInv, LegsInv
  <1>1. /\ phase[t] = "open" /\ n > 0 /\ n <= gold[p]
        /\ gold' = [gold EXCEPT ![p] = gold[p] - n]
        /\ coin' = [coin EXCEPT ![t][p] = coin[t][p] + n]
        /\ UNCHANGED <<bag, phase, owner, dest, delivered>>
    BY DEF StageCoin, Live
  <1>2. gold[p] \in Int /\ coin[t][p] \in Int
    BY <1>0 DEF TypeOK
  <1>3. PICK k \in Int : k = -n
    OBVIOUS
  <1>4. gold' = [gold EXCEPT ![p] = gold[p] + k] /\ coin' = [coin EXCEPT ![t][p] = coin[t][p] - k]
    <2>1. gold[p] - n = gold[p] + k /\ coin[t][p] + n = coin[t][p] - k
      BY <1>2, <1>3
    <2> QED BY <1>1, <2>1
  <1>5. Heir(t, p) = p
    BY <1>1 DEF Heir
  <1>6. SameCoin
    <2>1. UNCHANGED <<phase, dest>>
      BY <1>1
    <2> QED BY <1>0, <1>4, <1>5, <2>1, OwnMoves DEF SameCoin
  <1>7. SameItems /\ SameOffers
    BY <1>1, ItemsUntouched
  <1>8. CoinOnOffer(t)' = [CoinOnOffer(t) EXCEPT ![p] = @ + n]
        /\ \A u \in Txn \ {t} : CoinOnOffer(u)' = CoinOnOffer(u)
    BY <1>0, <1>1 DEF CoinOnOffer, TypeOK
  <1> QED BY <1>1, <1>6, <1>7, <1>8, MapBid

LEMMA SwapWithdrawCoin ==
  ASSUME Finite, SwapInv, SwapInv', NEW t \in Txn, NEW p \in Party, NEW n \in Nat,
         WithdrawCoin(t, p, n), UNCHANGED gifts
  PROVE  Swap!Next
  <1>0. TypeOK /\ TypeOK'
    BY SwapInvParts DEF SwapInv, EscrowInv, LegsInv
  <1>1. coin[t][p] \in Nat
    BY <1>0 DEF TypeOK
  <1>2. PICK k \in Nat : k = IF n > coin[t][p] THEN coin[t][p] ELSE n
    BY <1>1
  <1>3. /\ phase[t] = "open" /\ n > 0 /\ coin[t][p] > 0
        /\ gold' = [gold EXCEPT ![p] = @ + k]
        /\ coin' = [coin EXCEPT ![t][p] = coin[t][p] - k]
        /\ UNCHANGED <<bag, phase, owner, dest, delivered>>
    BY <1>2 DEF WithdrawCoin, Live
  <1>4. k > 0 /\ k <= coin[t][p] /\ k \in Int
    BY <1>1, <1>2, <1>3
  <1>5. Heir(t, p) = p
    BY <1>3 DEF Heir
  <1>6. SameCoin
    BY <1>0, <1>3, <1>4, <1>5, OwnMoves DEF SameCoin
  <1>7. SameItems /\ SameOffers
    BY <1>3, ItemsUntouched
  <1>8. /\ CoinOnOffer(t)' = [CoinOnOffer(t) EXCEPT ![p] = @ - k]
        /\ \A u \in Txn \ {t} : CoinOnOffer(u)' = CoinOnOffer(u)
        /\ k <= CoinOnOffer(t)[p]
    BY <1>0, <1>3, <1>4 DEF CoinOnOffer, TypeOK
  <1> QED BY <1>4, <1>6, <1>7, <1>8, MapUnbid

LEMMA SwapMoveCoin ==
  ASSUME Finite, SwapInv, SwapInv', NEW t \in Txn, NEW p \in Party,
         DeliverCoin(t, p) \/ ReturnCoin(t, p), UNCHANGED gifts
  PROVE  UNCHANGED Swap!vars
  <1>0. TypeOK /\ TypeOK'
    BY SwapInvParts DEF SwapInv, EscrowInv, LegsInv
  <1>1. coin[t][p] \in Int /\ coin[t][p] - coin[t][p] = 0
    BY <1>0 DEF TypeOK
  <1>2. PICK q \in Party : q = Heir(t, p) /\ gold' = [gold EXCEPT ![q] = @ + coin[t][p]]
    <2>1. CASE ReturnCoin(t, p)
      <3>1. Heir(t, p) = p
        BY <2>1 DEF ReturnCoin, Undoing, Heir
      <3> QED BY <2>1, <3>1 DEF ReturnCoin
    <2>2. CASE DeliverCoin(t, p)
      <3>1. Heir(t, p) = dest[t][p] /\ dest[t][p] \in Party
        BY <2>2, SwapInvParts DEF DeliverCoin, CoinFits, CoinLegs, Heir
      <3> QED BY <2>2, <3>1 DEF DeliverCoin
    <2> QED BY <2>1, <2>2
  <1>3. /\ coin' = [coin EXCEPT ![t][p] = 0] /\ phase[t] # "open"
        /\ UNCHANGED <<bag, phase, owner, dest, delivered>>
    BY DEF DeliverCoin, ReturnCoin, Undoing
  <1>4. coin' = [coin EXCEPT ![t][p] = coin[t][p] - coin[t][p]]
    BY <1>1, <1>3
  <1>5. SameCoin
    BY <1>0, <1>1, <1>2, <1>3, <1>4, OwnMoves DEF SameCoin
  <1>6. SameItems /\ SameOffers
    BY <1>3, ItemsUntouched
  <1>7. SameBids
    BY <1>0, <1>3 DEF SameBids, CoinOnOffer, TypeOK
  <1> QED BY <1>5, <1>6, <1>7, MapStutter

(* What the legs of t are on offer for, when its phase alone changes. *)
LEMMA PhaseOnly ==
  ASSUME TypeOK, NEW t \in Txn, phase[t] = "open", NEW ph \in {"delivering", "returning"},
         phase' = [phase EXCEPT ![t] = ph], UNCHANGED <<owner, delivered, coin>>
  PROVE  /\ ClearedOnly(t) /\ phase'[t] = ph
         /\ \A u \in Txn : InCustody(u)' = InCustody(u) /\ owner'[u] = owner[u]
         /\ \A u \in Txn \ {t} : phase'[u] = phase[u]
  <1>1. phase'[t] = ph /\ \A u \in Txn \ {t} : phase'[u] = phase[u]
    BY DEF TypeOK
  <1> QED BY <1>1 DEF ClearedOnly, OnOffer, CoinOnOffer, NoLegs, InCustody, ItemLegs

LEMMA SwapAbandon ==
  ASSUME SwapInv, SwapInv', NEW t \in Txn,
         Rollback(t) \/ \E d \in DestMaps : CommitVetoed(t, d), UNCHANGED gifts
  PROVE  Swap!Next
  <1> USE DEF legVars
  <1>0. TypeOK /\ TypeOK' /\ OnePlace'
    BY SwapInvParts DEF SwapInv, EscrowInv, LegsInv
  <1>1. /\ phase[t] = "open" /\ phase' = [phase EXCEPT ![t] = "returning"]
        /\ UNCHANGED <<bag, gold, owner, coin, dest, delivered>>
    BY DEF Rollback, CommitVetoed, CommitReady, Live
  <1>2. /\ ClearedOnly(t) /\ phase'[t] = "returning"
        /\ \A u \in Txn : InCustody(u)' = InCustody(u) /\ owner'[u] = owner[u]
        /\ \A u \in Txn \ {t} : phase'[u] = phase[u]
    BY <1>0, <1>1, PhaseOnly
  <1>3. \A u \in Txn : \A x : Heir(u, x)' = Heir(u, x)
    BY <1>1, <1>2 DEF Heir
  <1>4. ASSUME NEW i \in Item PROVE BelongsTo(i)' = BelongsTo(i)
    <2>1. StaysWith(i)
      BY <1>1, <1>2, <1>3 DEF StaysWith
    <2> QED BY <1>0, <2>1, Keeps
  <1>5. SameCoin
    BY <1>0, <1>1, <1>3, OwnSame DEF SameCoin
  <1> QED BY <1>2, <1>4, <1>5, MapAbandon DEF SameItems

LEMMA SwapEnd ==
  ASSUME SwapInv, SwapInv', NEW t \in Txn,
         UndoEnd(t) \/ \E audited \in BOOLEAN : CommitEnd(t, audited), UNCHANGED gifts
  PROVE  UNCHANGED Swap!vars
  <1>0. TypeOK /\ TypeOK' /\ OnePlace'
    BY SwapInvParts DEF SwapInv, EscrowInv, LegsInv
  <1>1. /\ phase[t] # "open" /\ InCustody(t) = {} /\ CoinLegs(t) = {}
        /\ dest' = [dest EXCEPT ![t] = NoDest]
        /\ \E ph \in {"committed", "aborted"} : phase' = [phase EXCEPT ![t] = ph]
        /\ owner' = owner \/ owner' = [owner EXCEPT ![t] = NoLegs.item]
        /\ UNCHANGED <<bag, gold, coin, delivered>>
    <2>1. CASE UndoEnd(t)
      BY <2>1 DEF UndoEnd, Undoing, Forget, InCustody
    <2>2. ASSUME NEW audited \in BOOLEAN, CommitEnd(t, audited)
          PROVE  /\ phase[t] = "delivering" /\ InCustody(t) = {} /\ CoinLegs(t) = {}
                 /\ dest' = [dest EXCEPT ![t] = NoDest]
                 /\ phase' = [phase EXCEPT ![t] = "committed"]
                 /\ owner' = [owner EXCEPT ![t] = NoLegs.item]
                 /\ UNCHANGED <<bag, gold, coin, delivered>>
      BY <2>2 DEF CommitEnd, Forget
    <2> QED BY <2>1, <2>2
  <1>2. /\ \A u \in Txn \ {t} : /\ owner'[u] = owner[u] /\ dest'[u] = dest[u]
                                /\ phase'[u] = phase[u]
        /\ phase'[t] # "open" /\ phase'[t] # "delivering"
    BY <1>0, <1>1 DEF TypeOK
  <1>3. /\ \A u \in Txn \ {t} : InCustody(u)' = InCustody(u) /\ \A x : Heir(u, x)' = Heir(u, x)
    BY <1>1, <1>2 DEF InCustody, ItemLegs, Heir
  <1>4. \A q \in Party : coin[t][q] = 0
    BY <1>0, <1>1 DEF CoinLegs, TypeOK
  <1>5. ASSUME NEW i \in Item PROVE BelongsTo(i)' = BelongsTo(i)
    <2>1. StaysWith(i)
      BY <1>1, <1>2, <1>3 DEF StaysWith
    <2> QED BY <1>0, <2>1, Keeps
  <1>6. SameCoin
    <2>1. \A u \in Txn, q \in Party : /\ coin'[u][q] = coin[u][q]
                                      /\ coin[u][q] # 0 => Heir(u, q)' = Heir(u, q)
      BY <1>1, <1>3, <1>4
    <2> QED BY <1>0, <1>1, <2>1, OwnSame DEF SameCoin
  <1>7. SameOffers /\ SameBids
    BY <1>1, <1>2 DEF SameOffers, SameBids, OnOffer, CoinOnOffer, ItemLegs
  <1> QED BY <1>5, <1>6, <1>7, MapStutter DEF SameItems

(* The commit: from here on each leg belongs to its destination. *)
LEMMA SettleItems ==
  ASSUME SwapInv, SwapInv', NEW t \in Txn, NEW d \in DestMaps, CommitBegin(t, d),
         NEW i \in Item
  PROVE  BelongsTo(i)' = IF i \in OnOffer(t) THEN d[BelongsTo(i)] ELSE BelongsTo(i)
  <1>0. TypeOK /\ OnePlace /\ OnePlace' /\ DestKnown'
    BY SwapInvParts DEF SwapInv, EscrowInv, LegsInv
  <1>1. /\ phase[t] = "open" /\ phase' = [phase EXCEPT ![t] = "delivering"]
        /\ dest' = [dest EXCEPT ![t] = d]
        /\ UNCHANGED <<bag, owner, coin, delivered>>
    BY DEF CommitBegin, CommitReady, Live
  <1>2. /\ phase'[t] = "delivering" /\ dest'[t] = d
        /\ \A u \in Txn : InCustody(u)' = InCustody(u) /\ owner'[u] = owner[u]
        /\ \A u \in Txn \ {t} : \A x : Heir(u, x)' = Heir(u, x)
    BY <1>0, <1>1 DEF TypeOK, InCustody, ItemLegs, Heir
  <1>3. OnOffer(t) = InCustody(t) /\ \A x : Heir(t, x) = x
    BY <1>1, OpenLegs
  <1>4. \A x : Heir(t, x)' = d[x]
    BY <1>2 DEF Heir
  <1>5. CASE i \in OnOffer(t)
    <2>1. BelongsTo(i) = owner[t][i]
      BY <1>0, <1>3, <1>5, OwnersNow DEF Owners
    <2>2. BelongsTo(i)' = Heir(t, owner[t][i])'
      BY <1>0, <1>2, <1>3, <1>5, OwnersNext DEF Owners
    <2> QED BY <1>2, <1>4, <1>5, <2>1, <2>2
  <1>6. CASE i \notin OnOffer(t)
    <2>1. StaysWith(i)
      BY <1>1, <1>2, <1>3, <1>6 DEF StaysWith
    <2>2. BelongsTo(i)' = BelongsTo(i)
      BY <1>0, <2>1, Keeps
    <2> QED BY <1>6, <2>2
  <1> QED BY <1>5, <1>6

LEMMA SettleCoin ==
  ASSUME Finite, SwapInv, SwapInv', NEW t \in Txn, NEW d \in DestMaps, CommitBegin(t, d),
         NEW p \in Party
  PROVE  Own(p)' = Own(p) - CoinOnOffer(t)[p]
           + SumFunction([q \in Party |-> IF d[q] = p THEN CoinOnOffer(t)[q] ELSE 0])
  <1>0. TypeOK /\ TypeOK'
    BY SwapInvParts DEF SwapInv, EscrowInv, LegsInv
  <1>1. /\ phase[t] = "open" /\ phase' = [phase EXCEPT ![t] = "delivering"]
        /\ dest' = [dest EXCEPT ![t] = d] /\ UNCHANGED <<gold, coin>>
    BY DEF CommitBegin, CommitReady, Live
  <1>2. /\ phase'[t] = "delivering" /\ dest'[t] = d
        /\ \A u \in Txn \ {t} : phase'[u] = phase[u] /\ dest'[u] = dest[u]
    BY <1>0, <1>1 DEF TypeOK
  <1>3. CoinOnOffer(t) = coin[t]
    BY <1>1, OpenLegs
  <1> DEFINE v == SumFunction([q \in Party |-> IF d[q] = p THEN coin[t][q] ELSE 0])
  <1>4. SumFunction(Share(t, p)') = v /\ v \in Int
    <2>1. Share(t, p)' = [q \in Party |-> IF d[q] = p THEN coin[t][q] ELSE 0]
      BY <1>1, <1>2 DEF Share, Heir
    <2>2. [q \in Party |-> IF d[q] = p THEN coin[t][q] ELSE 0] \in [Party -> Nat]
      BY <1>0 DEF TypeOK
    <2>3. v \in Nat
      BY <2>2, SumNat DEF Finite
    <2> QED BY <2>1, <2>3
  <1>5. \A u \in Txn \ {t} : Share(u, p)' = Share(u, p)
    BY <1>1, <1>2 DEF Share, Heir
  <1>6. SumFunction(Share(t, p)) = coin[t][p] /\ coin[t][p] \in Int
    <2> DEFINE s == Share(t, p)
    <2>1. DOMAIN s = Party /\ s[p] = coin[t][p] /\ s[p] \in Int /\ \A x \in Party \ {p} : s[x] = 0
      BY <1>0, <1>1 DEF Share, Heir, TypeOK
    <2> HIDE DEF s
    <2>2. SumFunctionOnSet(s, Party) = s[p]
      <3>1. IsFiniteSet(Party)
        BY DEF Finite
      <3> QED BY <2>1, <3>1, SumOne
    <2> QED BY <2>1, <2>2 DEF SumFunction, s
  <1>7. Shares(p)' = [Shares(p) EXCEPT ![t] = v]
    <2>1. \A u \in Txn : SumFunction(Share(u, p)') = IF u = t THEN v ELSE SumFunction(Share(u, p))
      BY <1>4, <1>5
    <2> HIDE DEF v
    <2>2. [u \in Txn |-> SumFunction(Share(u, p)')]
            = [u \in Txn |-> IF u = t THEN v ELSE SumFunction(Share(u, p))]
      BY <2>1
    <2> QED BY <2>2 DEF Shares
  <1> HIDE DEF v
  <1>8. SumFunction([Shares(p) EXCEPT ![t] = v]) = SumFunction(Shares(p)) - Shares(p)[t] + v
        /\ SumFunction(Shares(p)) \in Int
    BY <1>0, <1>4, SharesExcept
  <1>9. Shares(p)[t] = coin[t][p]
    BY <1>6 DEF Shares
  <1>10. Own(p) = gold[p] + SumFunction(Shares(p)) /\ Own(p)' = gold[p] + SumFunction(Shares(p)')
    BY <1>1 DEF Own, Shares
  <1>11. gold[p] \in Int
    BY <1>0 DEF TypeOK
  <1>12. Own(p)' = Own(p) - coin[t][p] + v
    BY <1>4, <1>6, <1>7, <1>8, <1>9, <1>10, <1>11
  <1> QED BY <1>3, <1>12 DEF v

LEMMA SwapSettle ==
  ASSUME Finite, SwapInv, SwapInv', NEW t \in Txn, NEW d \in DestMaps, CommitBegin(t, d),
         UNCHANGED gifts
  PROVE  Swap!Next
  <1>1. ClearedOnly(t)
    <2>1. TypeOK
      BY SwapInvParts
    <2>2. /\ phase[t] = "open" /\ phase' = [phase EXCEPT ![t] = "delivering"]
          /\ UNCHANGED <<owner, coin, delivered>>
      BY DEF CommitBegin, CommitReady, Live
    <2> QED BY <2>1, <2>2, PhaseOnly
  <1>2. /\ \A i \in Item :
             BelongsTo(i)' = IF i \in OnOffer(t) THEN d[BelongsTo(i)] ELSE BelongsTo(i)
        /\ \A p \in Party : Own(p)' = Own(p) - CoinOnOffer(t)[p]
             + SumFunction([q \in Party |-> IF d[q] = p THEN CoinOnOffer(t)[q] ELSE 0])
    BY SettleItems, SettleCoin
  <1> QED BY <1>1, <1>2, MapSettle

------------------------------------------------------------------------------
LEMMA InitSwap == ASSUME Finite, SwapInit PROVE Swap!Init
  <1>1. SwapInv /\ Init
    BY InitSwapInv DEF SwapInit
  <1>2. OnePlace /\ TypeOK
    BY <1>1, SwapInvParts
  <1>3. ASSUME NEW i \in Item PROVE BelongsTo(i) = InitOwner[i]
    <2>1. InitOwner[i] \in Party /\ i \in bag[InitOwner[i]]
      BY <1>1, EscrowAssumption DEF Init
    <2> QED BY <1>2, <2>1, OwnersNow DEF Owners
  <1>4. ASSUME NEW p \in Party PROVE Own(p) = InitGold[p]
    <2>1. \A t \in Txn, q \in Party : coin[t][q] = 0
      BY <1>1 DEF Init, NoLegs
    <2>2. ASSUME NEW t \in Txn PROVE SumFunction(Share(t, p)) = 0
      <3> DEFINE s == Share(t, p)
      <3>1. DOMAIN s = Party /\ \A q \in Party : s[q] = 0
        BY <2>1 DEF Share
      <3> HIDE DEF s
      <3>2. SumFunctionOnSet(s, Party) = 0
        BY <3>1, SumZero DEF Finite
      <3> QED BY <3>1, <3>2 DEF SumFunction, s
    <2>3. SumFunction(Shares(p)) = 0
      <3>1. DOMAIN Shares(p) = Txn /\ \A t \in Txn : Shares(p)[t] = 0
        BY <2>2 DEF Shares
      <3>2. SumFunctionOnSet(Shares(p), Txn) = 0
        BY <3>1, SumZero DEF Finite
      <3> QED BY <3>1, <3>2 DEF SumFunction
    <2>4. gold[p] = InitGold[p] /\ gold[p] \in Nat
      BY <1>1, <1>2 DEF Init, TypeOK
    <2> QED BY <1>2, <2>3, <2>4, ShareType
  <1>5. ASSUME NEW t \in Txn PROVE OnOffer(t) = {} /\ CoinOnOffer(t) = [p \in Party |-> 0]
    BY <1>1 DEF Init, OnOffer, CoinOnOffer, ItemLegs, NoLegs
  <1>6. [i \in Item |-> BelongsTo(i)] = InitOwner /\ [p \in Party |-> Own(p)] = InitGold
    BY <1>3, <1>4, EscrowAssumption
  <1> QED BY <1>5, <1>6 DEF Swap!Init, Swap!NoBid, SwapInit

LEMMA StepSwap ==
  ASSUME Finite, Calm, SwapInv, SwapInv', SwapNext
  PROVE  Swap!Next \/ UNCHANGED Swap!vars
  <1> USE DEF legVars, worldVars
  <1>0. TypeOK
    BY SwapInvParts
  <1>1. CASE World /\ gifts' = 1 - gifts
    BY <1>1, SwapGive DEF World, TickConsume, Calm
  <1>2. ASSUME NEW t \in Txn, Operate(t), UNCHANGED gifts
        PROVE  Swap!Next \/ UNCHANGED Swap!vars
    <2>1. ASSUME NEW p \in Party, NEW i \in Item, StageCheck(t, p, i)
          PROVE  UNCHANGED Swap!vars
      <3>1. UNCHANGED <<bag, gold, phase, owner, coin, dest, delivered>>
        BY <2>1 DEF StageCheck
      <3> QED BY <1>2, <3>1, CoinUntouched, ItemsUntouched, MapStutter
    <2>2. ASSUME NEW p \in Party, NEW n \in 1..(gold[p] + coin[t][p] + 1),
                 StageCoin(t, p, n) \/ WithdrawCoin(t, p, n)
          PROVE  Swap!Next
      <3>1. n \in Nat
        BY <1>0 DEF TypeOK
      <3> QED BY <1>2, <2>2, <3>1, SwapStageCoin, SwapWithdrawCoin
    <2>3. ASSUME NEW p \in Party, NEW i \in Item, WithdrawItem(t, p, i) PROVE Swap!Next
      BY <1>2, <2>3, SwapWithdrawItem
    <2>4. CASE StageRemove(t)
      BY <1>2, <2>4, SwapStageRemove
    <2>5. ASSUME NEW d \in DestMaps, CommitBegin(t, d) PROVE Swap!Next
      BY <1>2, <2>5, SwapSettle
    <2>6. CASE Rollback(t) \/ \E d \in DestMaps : CommitVetoed(t, d)
      BY <1>2, <2>6, SwapAbandon
    <2> QED BY <1>2, <2>1, <2>2, <2>3, <2>4, <2>5, <2>6 DEF Operate
  <1>3. ASSUME NEW t \in Txn, Finish(t), UNCHANGED gifts
        PROVE  UNCHANGED Swap!vars
    <2>0. phase[t] # "unwinding"
      BY SwapInvParts DEF NoUnwind
    <2>1. ASSUME NEW i \in Item, DeliverItem(t, i) \/ ReturnItem(t, i) PROVE UNCHANGED Swap!vars
      BY <1>3, <2>1, SwapDeliverItem, SwapReturnItem
    <2>2. ASSUME NEW i \in Item PROVE ~TakeBack(t, i) /\ ~ReturnItemFails(t, i)
      BY <2>0 DEF TakeBack, ReturnItemFails, Calm
    <2>3. ~DeliverItemFails(t)
      BY DEF DeliverItemFails, Calm
    <2>4. ASSUME NEW p \in Party, DeliverCoin(t, p) \/ ReturnCoin(t, p)
          PROVE  UNCHANGED Swap!vars
      BY <1>3, <2>4, SwapMoveCoin
    <2>5. CASE UndoEnd(t) \/ \E audited \in BOOLEAN : CommitEnd(t, audited)
      BY <1>3, <2>5, SwapEnd
    <2> QED BY <1>3, <2>1, <2>2, <2>3, <2>4, <2>5 DEF Finish
  <1> QED BY <1>1, <1>2, <1>3 DEF SwapNext

(* The leg-by-leg commit, the withdrawals, the veto and the rollback are the
   single steps of AtomicSwap, for any parties, items and transactions, over
   the custodian of trade, which never fails, in a game where the tick takes
   nothing out of a bag. *)
THEOREM EscrowImplementsSwap ==
  ASSUME Finite, ~CustodianFails, ~TickTakes PROVE SwapSpec => ImplementsSwap
  <1>0. Calm
    BY DEF Calm
  <1>1. SwapInit => SwapInv /\ Swap!Init
    BY InitSwapInv, InitSwap DEF SwapInit
  <1>2. SwapInv /\ [SwapNext]_swapVars => SwapInv'
    <2> SUFFICES ASSUME SwapInv, [SwapNext]_swapVars PROVE SwapInv'
      OBVIOUS
    <2>1. CASE SwapNext
      <3>1. World \/ \E t \in Txn : Operate(t) \/ Finish(t)
        BY <2>1 DEF SwapNext
      <3>2. TypeOK /\ Next
        BY <3>1, SwapInvParts DEF Next
      <3> QED BY <1>0, <3>2, NextIsAnyStep, StepSwapInv
    <2>2. CASE UNCHANGED swapVars
      <3>1. UNCHANGED vars
        BY <2>2 DEF swapVars
      <3>2. EscrowInv'
        BY <3>1, StutterEscrowInv DEF SwapInv
      <3> QED BY <3>1, <3>2 DEF SwapInv, CoinFits, NoUnwind, NothingLost, vars, legVars, worldVars
    <2> QED BY <2>1, <2>2
  <1>3. SwapInv /\ SwapInv' /\ [SwapNext]_swapVars => [Swap!Next]_(Swap!vars)
    <2> SUFFICES ASSUME SwapInv, SwapInv', [SwapNext]_swapVars
                 PROVE  Swap!Next \/ UNCHANGED Swap!vars
      OBVIOUS
    <2>1. CASE SwapNext
      BY <1>0, <2>1, StepSwap
    <2>2. CASE UNCHANGED swapVars
      <3>1. UNCHANGED <<bag, gold, phase, owner, coin, dest, delivered, gifts>>
        BY <2>2 DEF swapVars, vars, legVars
      <3> QED BY <3>1, CoinUntouched, ItemsUntouched, MapStutter
    <2> QED BY <2>1, <2>2
  <1> QED BY <1>1, <1>2, <1>3, PTL DEF SwapSpec, ImplementsSwap, Swap!Spec
==============================================================================
