---------------------------- MODULE AuctionProofs ----------------------------
(***************************************************************************)
(* Proofs about AuctionHouse, for any players, items, prices and number of *)
(* listings, crashes and faults.                                           *)
(***************************************************************************)
EXTENDS AuctionHouse, TLAPS

(* What is in a listing: nothing at all once it is pruned. *)
LotFits(l) ==
  IF l.st = "none" THEN l = NoLot
  ELSE /\ l.seller \in Player /\ l.item \in Item
       /\ l.st = "sold" => l.buyer \in Player /\ l.collector = l.buyer
       /\ l.st \in {"expired", "cancelled"} => l.collector = l.seller

LotsFit == \A d \in Id : LotFits(house.lot[d]) /\ LotFits(file.lot[d])

(* A verb that deals with an item has one in hand. *)
VerbsFit == \A p \in Player :
              cmd[p].at \in {"number", "add", "take", "keep"} => cmd[p].item \in Item

TypeInv == AuctionTypeOK /\ LotsFit /\ VerbsFit

(* The number of a listing is used once: the counter is on disk before the
   number is; what the counter has not reached was never listed; and neither
   was the number a verb is about to list under, which is that verb's alone. *)
IdsFit ==
  /\ file.seq = house.seq \/ file = Empty
  /\ \A d \in Id : d > house.seq =>
       house.lot[d].st = "none" /\ file.lot[d].st = "none" /\ taken[d] = 0
  /\ \A p \in Player : At(p, "add") =>
       LET d == cmd[p].id IN
       /\ d \in Id /\ d <= house.seq
       /\ house.lot[d].st = "none" /\ file.lot[d].st = "none" /\ taken[d] = 0
       /\ \A q \in Player \ {p} : At(q, "add") => cmd[q].id # d

(* What has been handed out is in no listing any more, also not on disk. *)
TakenFits == \A d \in Id : \/ taken[d] = 0
                           \/ taken[d] = 1 /\ house.lot[d].st = "none" /\ file.lot[d].st = "none"

OnceInv == TypeInv /\ IdsFit /\ TakenFits

(* Where an item is after a crash, and stays whatever is saved next: in a
   listing on disk, with somebody who has collected it, or with its owner and
   in his save, unless he is just putting it out of his hand. *)
Anchored(i) ==
  \/ \E d \in Id : file.lot[d].item = i
  \/ \E p \in Player : <<p, i>> \in fresh
  \/ \E p \in Player : /\ i \in bag[p] /\ i \in save[p].bag
                       /\ ~(At(p, "take") /\ cmd[p].item = i)

(* A seller who still has to put his item away has nothing else to show for
   it: listing it took it off the list of what he has collected. *)
FreshFits == \A p \in Player : At(p, "take") => <<p, cmd[p].item>> \notin fresh

AnchorInv ==
  /\ OnceInv
  /\ FreshFits
  /\ faults = 0 => house = file /\ \A i \in Item : Anchored(i)

(* What a verb has seen still holds where it will act on it: the item it
   lists is carried, the listing it buys is the one it has paid for, if it
   is still for sale, and what it collects is not for sale and its own. *)
Seen(d) == d \in Id /\ d <= house.seq /\ \A q \in Player : At(q, "add") => cmd[q].id # d

ListsFit(p) ==
  cmd[p].at \in {"number", "add"} => cmd[p].item \in bag[p] /\ cmd[p].sum \in Price
BuysFit(p) ==
  LET d == cmd[p].id IN
  cmd[p].at \in {"charge", "sell"} =>
    Seen(d) /\ (d \in Active => Lot(d).seller # p /\ cmd[p].sum = Lot(d).price)
PicksFit(p) ==
  \A d \in cmd[p].todo : /\ Seen(d) /\ d \notin Active
                         /\ Lot(d).st # "none" => Lot(d).collector = p

MarketFits == faults = 0 =>
  /\ house = file
  /\ \A p \in Player : ListsFit(p) /\ BuysFit(p) /\ PicksFit(p)

MarketInv == OnceInv /\ MarketFits

------------------------------------------------------------------------------
(* The cut of a sale is a part of the price. *)
LEMMA CutBounds == \A n \in Nat : Cut(n) \in 0..n
  <1> SUFFICES ASSUME NEW n \in Nat PROVE Cut(n) \in 0..n
    OBVIOUS
  <1>1. PICK c \in 0..100 : c = CutPct
    BY AuctionAssumption
  <1>2. n * c \in Nat /\ n * c <= n * 100
    BY SMT
  <1>3. (n * c) \div 100 \in 0..n
    BY <1>2
  <1> QED BY <1>1, <1>3 DEF Cut

------------------------------------------------------------------------------
(* Types *)

CmdType == [at : Labels, id : 0..MaxId, item : Item \cup {None}, sum : Nat, todo : SUBSET Id]

HouseFits(h) == h \in HouseType /\ \A d \in Id : LotFits(h.lot[d])

LEMMA InitTypeInv == Init => TypeInv
  <1> SUFFICES ASSUME Init PROVE TypeInv
    OBVIOUS
  <1> USE AuctionAssumption
  <1>1. NoLot \in LotType /\ Empty \in HouseType
    BY DEF NoLot, LotType, Status, Empty, HouseType
  <1>2. AuctionTypeOK
    BY <1>1 DEF Init, AuctionTypeOK, Idle, Labels
  <1>3. LotsFit
    BY DEF Init, LotsFit, LotFits, Empty, NoLot
  <1>4. VerbsFit
    BY DEF Init, VerbsFit, Idle
  <1> QED BY <1>2, <1>3, <1>4 DEF TypeInv

(* A file that is not there is read as a house in which nothing is listed. *)
LEMMA EmptyFits ==
  /\ HouseFits(Empty) /\ Empty.seq = 0
  /\ \A d \in Id : Empty.lot[d] = NoLot /\ Empty.lot[d].st = "none"
  <1> USE AuctionAssumption
  <1>1. NoLot \in LotType /\ LotFits(NoLot) /\ NoLot.st = "none"
    BY DEF NoLot, LotType, Status, LotFits
  <1>2. Empty.seq = 0 /\ \A d \in Id : Empty.lot[d] = NoLot
    BY DEF Empty
  <1>3. Empty \in HouseType
    BY <1>1 DEF Empty, HouseType
  <1> QED BY <1>1, <1>2, <1>3 DEF HouseFits

(* What a write leaves in the memory and in the file is what they held, the
   store as the caller has changed it, or no file. *)
LEMMA StoreTypes ==
  ASSUME TypeInv, NEW h, HouseFits(h), Written(h) \/ NotWritten(h)
  PROVE  HouseFits(house') /\ HouseFits(file') /\ faults' \in 0..MaxFault
  BY AuctionAssumption, EmptyFits
     DEF TypeInv, AuctionTypeOK, LotsFit, HouseFits, Written, NotWritten, Torn, Wrong

LEMMA RolledBackTypes ==
  ASSUME TypeInv, RolledBack
  PROVE  HouseFits(house') /\ HouseFits(file') /\ faults' \in 0..MaxFault
  BY AuctionAssumption, EmptyFits
     DEF TypeInv, AuctionTypeOK, LotsFit, HouseFits, RolledBack, Torn, Wrong

LEMMA WithFits ==
  ASSUME TypeInv, NEW d \in 0..MaxId, NEW l \in LotType, LotFits(l)
  PROVE  HouseFits(With(d, l))
  <1>1. HouseFits(house)
    BY DEF TypeInv, AuctionTypeOK, LotsFit, HouseFits
  <1>2. With(d, l) = [house EXCEPT !.lot = [house.lot EXCEPT ![d] = l]]
    BY DEF With
  <1>3. With(d, l).lot \in [Id -> LotType] /\ \A e \in Id : LotFits(With(d, l).lot[e])
    BY <1>1, <1>2 DEF HouseFits, HouseType
  <1> QED BY <1>1, <1>2, <1>3 DEF HouseFits, HouseType

(* A listing that was there keeps its seller and its item. *)
LEMMA ReturnFits ==
  ASSUME TypeInv, NEW d \in Id, Lot(d).st # "none", NEW st \in {"expired", "cancelled"}
  PROVE  HouseFits(With(d, [Lot(d) EXCEPT !.st = st, !.collector = Lot(d).seller]))
  <1> DEFINE l == [Lot(d) EXCEPT !.st = st, !.collector = Lot(d).seller]
  <1>1. Lot(d) \in LotType /\ LotFits(Lot(d))
    BY DEF TypeInv, AuctionTypeOK, LotsFit, HouseType, Lot
  <1>2. l \in LotType /\ LotFits(l)
    BY <1>1 DEF LotType, LotFits, Status
  <1>3. d \in 0..MaxId
    BY AuctionAssumption DEF Id
  <1> QED BY <1>2, <1>3, WithFits

LEMMA SoldFits ==
  ASSUME TypeInv, NEW p \in Player, NEW d \in Active
  PROVE  HouseFits(Sold(p, d))
  <1> DEFINE l == Lot(d)
             m == [l EXCEPT !.st = "sold", !.buyer = p, !.collector = p]
  <1>1. d \in Id /\ l \in LotType /\ LotFits(l) /\ l.st = "active"
    BY DEF TypeInv, AuctionTypeOK, LotsFit, HouseType, Lot, Active
  <1>2. m \in LotType /\ LotFits(m)
    BY <1>1 DEF LotType, LotFits, Status
  <1>3. l.price \in Nat /\ Cut(l.price) \in 0..l.price
    BY <1>1, CutBounds DEF LotType
  <1>4. HouseFits(With(d, m))
    <2>1. d \in 0..MaxId
      BY <1>1, AuctionAssumption DEF Id
    <2> QED BY <1>2, <2>1, WithFits
  <1>5. Sold(p, d) = [With(d, m) EXCEPT !.pending[l.seller] = @ + (l.price - Cut(l.price))]
    BY DEF Sold, With
  <1> HIDE DEF l, m
  <1>6. \A h \in HouseType, k \in Nat, q \in Player :
          [h EXCEPT !.pending[q] = @ + k] \in HouseType
    BY DEF HouseType
  <1>7. l.seller \in Player /\ l.price - Cut(l.price) \in Nat
    BY <1>1, <1>3 DEF LotFits
  <1> QED BY <1>4, <1>5, <1>6, <1>7 DEF HouseFits

LEMMA RefundFits ==
  ASSUME TypeInv, NEW d \in Id, Lot(d).st = "sold",
         house.pending[Lot(d).seller] >= Lot(d).price - Cut(Lot(d).price)
  PROVE  HouseFits([house EXCEPT
            !.lot[d] = [Lot(d) EXCEPT !.st = "cancelled", !.collector = Lot(d).seller],
            !.pending = Shifted(Lot(d).seller, Lot(d).price - Cut(Lot(d).price), Lot(d).buyer, Lot(d).price)])
  <1> DEFINE l == Lot(d)
             back == l.price - Cut(l.price)
             m == [l EXCEPT !.st = "cancelled", !.collector = l.seller]
             owed == Shifted(l.seller, back, l.buyer, l.price)
  <1> SUFFICES HouseFits([house EXCEPT !.lot[d] = m, !.pending = owed])
    BY Zenon
  <1>1. l \in LotType /\ LotFits(l) /\ l.st = "sold" /\ house.pending \in [Player -> Nat]
    BY DEF TypeInv, AuctionTypeOK, LotsFit, HouseType, Lot
  <1>2. HouseFits(With(d, m))
    BY <1>1, ReturnFits
  <1>3. l.price \in Nat /\ back \in Nat /\ l.seller \in Player /\ l.buyer \in Player
    BY <1>1, CutBounds DEF LotType, LotFits
  <1>4. house.pending[l.seller] >= back
    OBVIOUS
  <1>5. [house EXCEPT !.lot[d] = m, !.pending = owed] = [With(d, m) EXCEPT !.pending = owed]
    BY DEF With
  <1> HIDE DEF l, back, m
  <1>6. owed \in [Player -> Nat]
    BY <1>1, <1>3, <1>4 DEF Shifted
  <1> HIDE DEF owed
  <1>7. [With(d, m) EXCEPT !.pending = owed] \in HouseType
    BY <1>2, <1>6 DEF HouseFits, HouseType
  <1>8. [With(d, m) EXCEPT !.pending = owed].lot = With(d, m).lot
    BY <1>2 DEF HouseFits, HouseType
  <1>9. HouseFits([With(d, m) EXCEPT !.pending = owed])
    BY <1>2, <1>7, <1>8 DEF HouseFits
  <1> QED BY <1>5, <1>9

(* The parts of the type invariant: the store, the verbs and the rest. *)
StoreOK == HouseFits(house) /\ HouseFits(file) /\ faults \in 0..MaxFault
VerbsOK == cmd \in [Player -> CmdType] /\ VerbsFit
RestOK ==
  /\ bag \in [Player -> SUBSET Item] /\ gold \in [Player -> Nat]
  /\ save \in [Player -> [bag : SUBSET Item, gold : Nat]]
  /\ late \subseteq Id /\ sweep \subseteq Id
  /\ taken \in [Id -> Nat] /\ fresh \subseteq Player \X Item
  /\ era \in 0..MaxEra

LEMMA TypeParts == TypeInv <=> StoreOK /\ VerbsOK /\ RestOK
  BY DEF TypeInv, AuctionTypeOK, LotsFit, HouseFits, StoreOK, VerbsOK, RestOK, CmdType

(* A verb under way goes on with a record of the right type, and with an item
   when it is about one. *)
LEMMA CmdChange ==
  ASSUME VerbsOK, NEW p \in Player, NEW c \in CmdType, cmd' = [cmd EXCEPT ![p] = c],
         c.at \in {"number", "add", "take", "keep"} => c.item \in Item
  PROVE  VerbsOK'
  BY DEF VerbsOK, VerbsFit

LEMMA IdleType == Idle \in CmdType
  BY AuctionAssumption DEF Idle, CmdType, Labels

LEMMA DoneFits == ASSUME VerbsOK, NEW p \in Player, Done(p) PROVE VerbsOK'
  BY IdleType, CmdChange DEF Done, Idle

(* A verb goes on to a step that needs no item it has not got. *)
LEMMA DoFits ==
  ASSUME VerbsOK, NEW p \in Player, NEW at \in Labels, Do(p, at),
         cmd[p].at \in {"number", "add", "take", "keep"}
           \/ at \notin {"number", "add", "take", "keep"}
  PROVE  VerbsOK'
  <1> DEFINE c == [cmd[p] EXCEPT !.at = at]
  <1>1. cmd[p] \in CmdType
    BY DEF VerbsOK
  <1>2. c \in CmdType /\ c.at = at /\ c.item = cmd[p].item
    BY <1>1 DEF CmdType
  <1>3. cmd' = [cmd EXCEPT ![p] = c]
    BY DEF Do
  <1>4. at \in {"number", "add", "take", "keep"} => cmd[p].item \in Item
    BY DEF VerbsOK, VerbsFit
  <1> HIDE DEF c
  <1> QED BY <1>2, <1>3, <1>4, CmdChange

LEMMA TypesFits == ASSUME TypeInv, NEW p \in Player, Types(p) PROVE TypeInv'
  <1> USE AuctionAssumption
  <1>0. StoreOK /\ VerbsOK /\ RestOK /\ \A d \in Id : d \in 0..MaxId
    BY TypeParts DEF Id
  <1> SUFFICES StoreOK' /\ VerbsOK' /\ RestOK'
    BY TypeParts, PTL
  <1>1. ASSUME NEW i \in Item, NEW n \in Price, ListBegin(p, i, n)
        PROVE  StoreOK' /\ VerbsOK' /\ RestOK'
    <2>1. StoreOK' /\ RestOK'
      BY <1>0, <1>1 DEF ListBegin, Debit, StoreOK, RestOK, storeVars, timeVars, pastVars
    <2>2. [Idle EXCEPT !.at = "number", !.item = i, !.sum = n] \in CmdType
      BY IdleType DEF CmdType, Labels
    <2> QED BY <1>0, <1>1, <2>1, <2>2, CmdChange DEF ListBegin, Idle
  <1>2. ASSUME NEW d \in Id, CancelLook(p, d) PROVE StoreOK' /\ VerbsOK' /\ RestOK'
    <2>1. StoreOK' /\ RestOK'
      BY <1>0, <1>2 DEF CancelLook, StoreOK, RestOK, actorVars, storeVars, timeVars, pastVars
    <2>2. [Idle EXCEPT !.at = "cancel", !.id = d] \in CmdType
      BY <1>0, IdleType DEF CmdType, Labels
    <2> QED BY <1>0, <1>2, <2>1, <2>2, CmdChange DEF CancelLook, Idle
  <1>3. ASSUME NEW d \in Id, BuyoutLook(p, d) PROVE StoreOK' /\ VerbsOK' /\ RestOK'
    <2>1. StoreOK' /\ RestOK'
      BY <1>0, <1>3 DEF BuyoutLook, StoreOK, RestOK, actorVars, storeVars, timeVars, pastVars
    <2>2. Lot(d).price \in Nat
      BY <1>0 DEF StoreOK, HouseFits, HouseType, LotType, Lot
    <2>3. [Idle EXCEPT !.at = "charge", !.id = d, !.sum = Lot(d).price] \in CmdType
      BY <1>0, <2>2, IdleType DEF CmdType, Labels
    <2> QED BY <1>0, <1>3, <2>1, <2>3, CmdChange DEF BuyoutLook, Idle
  <1>4. ASSUME NEW d \in Id, AdminRefund(p, d) PROVE StoreOK' /\ VerbsOK' /\ RestOK'
    <2>1. VerbsOK' /\ RestOK'
      BY <1>0, <1>4 DEF AdminRefund, VerbsOK, VerbsFit, RestOK, actorVars, timeVars, pastVars
    <2> DEFINE h == [house EXCEPT
            !.lot[d] = [Lot(d) EXCEPT !.st = "cancelled", !.collector = Lot(d).seller],
            !.pending = Shifted(Lot(d).seller, Lot(d).price - Cut(Lot(d).price), Lot(d).buyer, Lot(d).price)]
    <2>2. HouseFits(h)
      BY <1>4, RefundFits DEF AdminRefund
    <2>3. \/ Written(h) \/ NotWritten(h)
          \/ house' = h /\ file' = h /\ faults' \in 0..MaxFault
      BY <1>0, <1>4 DEF AdminRefund, Wrong, StoreOK
    <2> HIDE DEF h
    <2> QED BY <1>0, <2>1, <2>2, <2>3, StoreTypes DEF StoreOK
  <1>5. CASE ClaimCoin(p)
    <2>1. RestOK'
      BY <1>0, <1>5 DEF ClaimCoin, RestOK, actorVars, timeVars, pastVars
    <2>2. house.pending[p] \in Nat
      BY <1>0 DEF StoreOK, HouseFits, HouseType
    <2>3. CASE (UNCHANGED storeVars \/ RolledBack) /\ Do(p, "look")
      <3>1. StoreOK'
        BY <1>0, <2>3, RolledBackTypes DEF StoreOK, storeVars
      <3> QED BY <1>0, <2>1, <2>3, <3>1, DoFits DEF Labels
    <2>4. CASE /\ Written([house EXCEPT !.pending[p] = 0])
               /\ cmd' = [cmd EXCEPT ![p] = [Idle EXCEPT !.at = "pay", !.sum = house.pending[p]]]
      <3>1. HouseFits([house EXCEPT !.pending[p] = 0])
        BY <1>0 DEF StoreOK, HouseFits, HouseType
      <3>2. [Idle EXCEPT !.at = "pay", !.sum = house.pending[p]] \in CmdType
        BY <2>2, IdleType DEF CmdType, Labels
      <3>3. VerbsOK'
        BY <1>0, <2>4, <3>2, CmdChange DEF Idle
      <3> QED BY <2>1, <2>4, <3>1, <3>3, StoreTypes DEF StoreOK
    <2> QED BY <1>5, <2>3, <2>4 DEF ClaimCoin
  <1> QED BY <1>1, <1>2, <1>3, <1>4, <1>5 DEF Types

(* Coin that is paid out keeps a purse a number. *)
LEMMA GoldFits ==
  ASSUME RestOK, NEW p \in Player, NEW n \in Nat, AddGold(p, n) \/ Debit(p, n)
  PROVE  gold' \in [Player -> Nat]
  BY DEF RestOK, AddGold, Debit

LEMMA GoesOnFits == ASSUME TypeInv, NEW p \in Player, GoesOn(p) PROVE TypeInv'
  <1> USE AuctionAssumption
  <1>0. /\ StoreOK /\ VerbsOK /\ RestOK /\ (\A d \in Id : d \in 0..MaxId)
        /\ cmd[p] \in CmdType /\ cmd[p].sum \in Nat
    BY TypeParts DEF Id, VerbsOK, CmdType
  <1> SUFFICES StoreOK' /\ VerbsOK' /\ RestOK'
    BY TypeParts, PTL
  <1>1. CASE NextID(p)
    <2>1. RestOK'
      BY <1>0, <1>1, GoldFits DEF NextID, RestOK, timeVars, pastVars
    <2>2. house.seq \in 0..MaxId
      BY <1>0 DEF StoreOK, HouseFits, HouseType
    <2>3. CASE RolledBack /\ Done(p)
      BY <1>0, <2>1, <2>3, DoneFits, RolledBackTypes DEF StoreOK
    <2>4. CASE /\ Written([house EXCEPT !.seq = @ + 1])
               /\ cmd' = [cmd EXCEPT ![p].at = "add", ![p].id = house.seq + 1]
      <3>1. house.seq + 1 \in 0..MaxId
        BY <1>1, <2>2 DEF NextID
      <3>2. HouseFits([house EXCEPT !.seq = @ + 1])
        BY <1>0, <3>1 DEF StoreOK, HouseFits, HouseType
      <3>3. [cmd[p] EXCEPT !.at = "add", !.id = house.seq + 1] \in CmdType
        BY <1>0, <3>1 DEF CmdType, Labels
      <3>4. cmd' = [cmd EXCEPT ![p] = [cmd[p] EXCEPT !.at = "add", !.id = house.seq + 1]]
        BY <1>0, <2>4 DEF VerbsOK
      <3>5. cmd[p].item \in Item
        BY <1>0, <1>1 DEF NextID, At, VerbsOK, VerbsFit
      <3>6. [cmd[p] EXCEPT !.at = "add", !.id = house.seq + 1].item = cmd[p].item
        BY <1>0 DEF CmdType
      <3>7. VerbsOK'
        BY <1>0, <3>3, <3>4, <3>5, <3>6, CmdChange
      <3> QED BY <2>1, <2>4, <3>2, <3>7, StoreTypes DEF StoreOK
    <2> QED BY <1>1, <2>3, <2>4 DEF NextID
  <1>2. CASE ListAdd(p)
    <2> DEFINE c == cmd[p]
               l == [NoLot EXCEPT !.st = "active", !.seller = p, !.item = c.item, !.price = c.sum]
    <2>1. c.item \in Item /\ c.id \in 0..MaxId /\ c.at = "add"
      BY <1>0, <1>2 DEF ListAdd, At, VerbsOK, VerbsFit, CmdType
    <2>2. l \in LotType /\ LotFits(l)
      BY <1>0, <2>1 DEF NoLot, LotType, LotFits, Status
    <2>3. HouseFits(With(c.id, l))
      BY <2>1, <2>2, WithFits
    <2>4. Written(With(c.id, l)) \/ NotWritten(With(c.id, l))
      BY <1>2 DEF ListAdd
    <2>5. StoreOK'
      BY <2>3, <2>4, StoreTypes DEF StoreOK
    <2>6. RestOK'
      BY <1>0, <1>2, GoldFits DEF ListAdd, RestOK, timeVars
    <2>7. VerbsOK'
      BY <1>0, <1>2, <2>1, DoFits, DoneFits DEF ListAdd, Labels
    <2> QED BY <2>5, <2>6, <2>7
  <1>3. CASE ListTake(p)
    <2>1. StoreOK' /\ RestOK'
      BY <1>0, <1>3 DEF ListTake, StoreOK, RestOK, storeVars, timeVars, pastVars
    <2> QED BY <1>0, <1>3, <2>1, DoneFits DEF ListTake
  <1>4. CASE Cancel(p)
    <2>1. RestOK'
      BY <1>0, <1>4 DEF Cancel, RestOK, actorVars, timeVars, pastVars
    <2>2. StoreOK'
      <3>1. CASE UNCHANGED storeVars
        BY <1>0, <3>1 DEF StoreOK, storeVars
      <3>2. CASE MarkReturned(cmd[p].id, "cancelled")
        BY <3>2, ReturnFits, StoreTypes DEF MarkReturned, Active, StoreOK
      <3> QED BY <1>4, <3>1, <3>2 DEF Cancel
    <2> QED BY <1>0, <1>4, <2>1, <2>2, DoneFits DEF Cancel
  <1>5. CASE BuyoutCharge(p)
    <2>1. StoreOK' /\ RestOK'
      BY <1>0, <1>5, GoldFits DEF BuyoutCharge, StoreOK, RestOK, storeVars, timeVars, pastVars
    <2> QED BY <1>0, <1>5, <2>1, DoFits, DoneFits DEF BuyoutCharge, Labels
  <1>6. CASE BuyoutSell(p)
    <2>1. RestOK'
      BY <1>0, <1>6 DEF BuyoutSell, RestOK, actorVars, timeVars, pastVars
    <2>2. StoreOK'
      <3>1. CASE UNCHANGED storeVars
        BY <1>0, <3>1 DEF StoreOK, storeVars
      <3>2. CASE /\ cmd[p].id \in Active
                 /\ Written(Sold(p, cmd[p].id)) \/ NotWritten(Sold(p, cmd[p].id))
        BY <3>2, SoldFits, StoreTypes DEF StoreOK
      <3> QED BY <1>6, <3>1, <3>2 DEF BuyoutSell
    <2> QED BY <1>0, <1>6, <2>1, <2>2, DoFits, DoneFits DEF BuyoutSell, Labels
  <1>7. CASE BuyoutRefund(p)
    <2>1. StoreOK' /\ RestOK'
      BY <1>0, <1>7, GoldFits DEF BuyoutRefund, StoreOK, RestOK, storeVars, timeVars, pastVars
    <2> QED BY <1>0, <1>7, <2>1, DoneFits DEF BuyoutRefund
  <1>8. CASE CollectPay(p)
    <2>1. StoreOK' /\ RestOK'
      BY <1>0, <1>8, GoldFits DEF CollectPay, StoreOK, RestOK, storeVars, timeVars, pastVars
    <2>2. [Idle EXCEPT !.at = "look"] \in CmdType
      BY IdleType DEF CmdType, Labels
    <2> QED BY <1>0, <1>8, <2>1, <2>2, CmdChange DEF CollectPay, Idle
  <1>9. CASE PendingPickups(p)
    <2>1. StoreOK' /\ RestOK'
      BY <1>0, <1>9 DEF PendingPickups, StoreOK, RestOK, actorVars, storeVars, timeVars, pastVars
    <2>2. [Idle EXCEPT !.at = "pick", !.todo = HeldForPickup(p)] \in CmdType
      BY IdleType DEF CmdType, Labels, HeldForPickup
    <2> QED BY <1>0, <1>9, <2>1, <2>2, CmdChange DEF PendingPickups, Idle
  <1>10. CASE Keep(p)
    <2>1. cmd[p].item \in Item
      BY <1>0, <1>10 DEF Keep, At, VerbsOK, VerbsFit
    <2>2. StoreOK' /\ RestOK'
      BY <1>0, <1>10, <2>1 DEF Keep, StoreOK, RestOK, storeVars, timeVars, pastVars
    <2>3. /\ [cmd[p] EXCEPT !.at = "pick", !.item = None] \in CmdType
          /\ [cmd[p] EXCEPT !.at = "pick", !.item = None].at = "pick"
      BY <1>0 DEF CmdType, Labels
    <2>4. cmd' = [cmd EXCEPT ![p] = [cmd[p] EXCEPT !.at = "pick", !.item = None]]
      BY <1>0, <1>10 DEF Keep, VerbsOK
    <2> QED BY <1>0, <2>2, <2>3, <2>4, CmdChange
  <1>11. CASE CollectEnd(p)
    <2>1. StoreOK' /\ RestOK'
      BY <1>0, <1>11 DEF CollectEnd, StoreOK, RestOK, actorVars, storeVars, timeVars, pastVars
    <2> QED BY <1>0, <1>11, <2>1, DoneFits DEF CollectEnd
  <1>12. ASSUME NEW d \in Id, HoldBack(p, d) PROVE StoreOK' /\ VerbsOK' /\ RestOK'
    <2>1. StoreOK' /\ RestOK'
      BY <1>0, <1>12 DEF HoldBack, StoreOK, RestOK, actorVars, storeVars, timeVars, pastVars
    <2>2. /\ [cmd[p] EXCEPT !.todo = @ \ {d}] \in CmdType
          /\ [cmd[p] EXCEPT !.todo = @ \ {d}].at = "pick"
      BY <1>0, <1>12 DEF HoldBack, At, CmdType
    <2>3. cmd' = [cmd EXCEPT ![p] = [cmd[p] EXCEPT !.todo = @ \ {d}]]
      BY <1>0, <1>12 DEF HoldBack, VerbsOK
    <2> QED BY <1>0, <2>1, <2>2, <2>3, CmdChange
  <1>13. ASSUME NEW d \in Id, Confirm(p, d) PROVE StoreOK' /\ VerbsOK' /\ RestOK'
    <2>1. HouseFits(With(d, NoLot))
      <3>1. NoLot \in LotType /\ LotFits(NoLot)
        BY DEF NoLot, LotType, LotFits, Status
      <3> QED BY <1>0, <3>1, WithFits
    <2>2. StoreOK'
      <3>1. CASE UNCHANGED storeVars
        BY <1>0, <3>1 DEF StoreOK, storeVars
      <3>2. CASE Written(With(d, NoLot)) \/ NotWritten(With(d, NoLot))
        BY <2>1, <3>2, StoreTypes DEF StoreOK
      <3> QED BY <1>13, <3>1, <3>2 DEF Confirm, Collected
    <2>3. Lot(d).st # "none" => Lot(d).item \in Item
      BY <1>0 DEF StoreOK, HouseFits, LotFits, Lot
    <2>4. RestOK'
      BY <1>0, <1>13, <2>3 DEF Confirm, RestOK, actorVars, timeVars, pastVars
    <2> DEFINE c == [cmd[p] EXCEPT !.todo = @ \ {d}]
    <2>5. c \in CmdType /\ c.at = "pick" /\ c.item = cmd[p].item
      BY <1>0, <1>13 DEF Confirm, At, CmdType
    <2>6. CASE cmd' = [cmd EXCEPT ![p].todo = @ \ {d}]
      <3>1. cmd' = [cmd EXCEPT ![p] = c]
        BY <1>0, <2>6 DEF VerbsOK
      <3> QED BY <1>0, <2>2, <2>4, <2>5, <3>1, CmdChange
    <2>7. CASE /\ Lot(d).st # "none"
               /\ cmd' = [[cmd EXCEPT ![p].todo = @ \ {d}] EXCEPT ![p].at = "keep",
                                                                 ![p].item = Lot(d).item]
      <3>1. cmd' = [cmd EXCEPT ![p] = [c EXCEPT !.at = "keep", !.item = Lot(d).item]]
        BY <1>0, <2>7 DEF VerbsOK
      <3>2. /\ [c EXCEPT !.at = "keep", !.item = Lot(d).item] \in CmdType
            /\ [c EXCEPT !.at = "keep", !.item = Lot(d).item].item = Lot(d).item
        BY <2>3, <2>5, <2>7 DEF CmdType, Labels
      <3> HIDE DEF c
      <3> QED BY <1>0, <2>2, <2>3, <2>4, <2>7, <3>1, <3>2, CmdChange
    <2> QED BY <1>13, <2>6, <2>7 DEF Confirm
  <1> QED BY <1>1, <1>2, <1>3, <1>4, <1>5, <1>6, <1>7, <1>8, <1>9, <1>10, <1>11, <1>12, <1>13
          DEF GoesOn

LEMMA WorldFits ==
  ASSUME TypeInv,
         \/ \E p \in Player : Autosave(p) \/ UseUp(p)
         \/ Ticks \/ (\E d \in Id : Lapse(d)) \/ Crash
  PROVE  TypeInv'
  <1> USE AuctionAssumption
  <1>0. StoreOK /\ VerbsOK /\ RestOK
    BY TypeParts
  <1> SUFFICES StoreOK' /\ VerbsOK' /\ RestOK'
    BY TypeParts, PTL
  <1>1. ASSUME NEW p \in Player, Autosave(p) PROVE StoreOK' /\ VerbsOK' /\ RestOK'
    <2>1. StoreOK' /\ VerbsOK'
      BY <1>0, <1>1 DEF Autosave, StoreOK, VerbsOK, VerbsFit, storeVars
    <2>2. RestOK'
      BY <1>0, <1>1 DEF Autosave, RestOK, actorVars
    <2> QED BY <2>1, <2>2
  <1>2. ASSUME NEW p \in Player, UseUp(p) PROVE StoreOK' /\ VerbsOK' /\ RestOK'
    <2>1. StoreOK' /\ VerbsOK'
      BY <1>0, <1>2 DEF UseUp, Wrong, StoreOK, VerbsOK, VerbsFit
    <2>2. RestOK'
      BY <1>0, <1>2 DEF UseUp, RestOK, timeVars, pastVars
    <2> QED BY <2>1, <2>2
  <1>3. CASE SweepLook
    BY <1>0, <1>3 DEF SweepLook, StoreOK, VerbsOK, VerbsFit, RestOK, actorVars, storeVars,
                      pastVars
  <1>4. ASSUME NEW d \in Id, ExpireOne(d) PROVE StoreOK' /\ VerbsOK' /\ RestOK'
    <2>1. VerbsOK' /\ RestOK'
      BY <1>0, <1>4 DEF ExpireOne, VerbsOK, VerbsFit, RestOK, actorVars, pastVars
    <2>2. StoreOK'
      <3>1. CASE UNCHANGED storeVars
        BY <1>0, <3>1 DEF StoreOK, storeVars
      <3>2. CASE MarkReturned(d, "expired")
        BY <3>2, ReturnFits, StoreTypes DEF MarkReturned, Active, StoreOK
      <3> QED BY <1>4, <3>1, <3>2 DEF ExpireOne
    <2> QED BY <2>1, <2>2
  <1>5. ASSUME NEW d \in Id, Lapse(d) PROVE StoreOK' /\ VerbsOK' /\ RestOK'
    BY <1>0, <1>5 DEF Lapse, StoreOK, VerbsOK, VerbsFit, RestOK, actorVars, storeVars, pastVars
  <1>6. CASE Crash
    <2>1. StoreOK'
      <3>1. file' \in {file, Empty} /\ house' = file' /\ faults' \in 0..MaxFault
        BY <1>0, <1>6 DEF Crash, Torn, Wrong, StoreOK
      <3> QED BY <1>0, <3>1, EmptyFits DEF StoreOK
    <2>2. VerbsOK'
      BY <1>6, IdleType DEF Crash, VerbsOK, VerbsFit, Idle
    <2>3. RestOK'
      <3>1. taken' \in [Id -> Nat] /\ late' \subseteq Id
        BY <1>0, <1>6 DEF Crash, RestOK
      <3> QED BY <1>0, <1>6, <3>1 DEF Crash, RestOK
    <2> QED BY <2>1, <2>2, <2>3
  <1> QED BY <1>1, <1>2, <1>3, <1>4, <1>5, <1>6 DEF Ticks

LEMMA StepTypeInv == TypeInv /\ [Next]_vars => TypeInv'
  <1>1. CASE UNCHANGED vars
    BY <1>1 DEF TypeInv, AuctionTypeOK, LotsFit, VerbsFit, vars, actorVars, storeVars, timeVars,
                pastVars
  <1> QED BY <1>1, TypesFits, GoesOnFits, WorldFits DEF Next

(* The auction house keeps its types: in particular no purse and no ledger
   entry is ever negative, whatever is listed, bought, refunded and lost. *)
THEOREM AuctionTypes == Spec => []AuctionTypeOK
  <1>1. TypeInv => AuctionTypeOK
    BY DEF TypeInv
  <1> QED BY <1>1, InitTypeInv, StepTypeInv, PTL DEF Spec

------------------------------------------------------------------------------
(* Handed out once *)

LEMMA InitOnceInv == Init => OnceInv
  <1> SUFFICES ASSUME Init PROVE IdsFit /\ TakenFits
    BY InitTypeInv DEF OnceInv
  <1> QED BY AuctionAssumption DEF Init, IdsFit, TakenFits, Empty, NoLot, At, Idle

(* A step that makes no new listing, number or hand-out: listings only come
   to be what they were in the memory or on disk, or change in state. *)
LEMMA OnceStays ==
  ASSUME OnceInv, UNCHANGED taken, house'.seq = house.seq,
         file'.seq = house.seq \/ file' = Empty,
         \A d \in Id : house.lot[d].st = "none" /\ file.lot[d].st = "none" =>
                         house'.lot[d].st = "none" /\ file'.lot[d].st = "none",
         \A p \in Player : At(p, "add")' => At(p, "add") /\ cmd'[p].id = cmd[p].id
  PROVE  IdsFit' /\ TakenFits'
  <1>0. IdsFit /\ TakenFits
    BY DEF OnceInv
  <1>1. IdsFit'
    BY <1>0 DEF IdsFit, At
  <1>2. TakenFits'
    BY <1>0 DEF TakenFits
  <1> QED BY <1>1, <1>2

(* What the store may become without a new listing or number. *)
NothingNew(h) ==
  h.seq = house.seq /\ \A d \in Id : house.lot[d].st = "none" => h.lot[d].st = "none"

LEMMA StoreStays ==
  ASSUME OnceInv, UNCHANGED taken,
         \/ UNCHANGED storeVars
         \/ \E h : NothingNew(h) /\ house' = h /\ file' \in {h, file, Empty},
         \A p \in Player : At(p, "add")' => At(p, "add") /\ cmd'[p].id = cmd[p].id
  PROVE  IdsFit' /\ TakenFits'
  <1>1. house'.seq = house.seq /\ (file'.seq = house.seq \/ file' = Empty)
    BY DEF OnceInv, IdsFit, NothingNew, storeVars
  <1>2. \A d \in Id : house.lot[d].st = "none" /\ file.lot[d].st = "none" =>
                        house'.lot[d].st = "none" /\ file'.lot[d].st = "none"
    BY EmptyFits DEF NothingNew, storeVars
  <1> QED BY <1>1, <1>2, OnceStays

(* Whatever becomes of the write, it makes nothing new of what is not. *)
LEMMA WriteStays ==
  ASSUME NEW h, NothingNew(h), Written(h) \/ NotWritten(h)
  PROVE  \E g : NothingNew(g) /\ house' = g /\ file' \in {g, file, Empty}
  BY DEF Written, NotWritten, Torn

LEMMA RolledBackStays ==
  ASSUME RolledBack
  PROVE  \E h : NothingNew(h) /\ house' = h /\ file' \in {h, file, Empty}
  BY DEF RolledBack, Torn, NothingNew

(* With one listing changed that is none, or was there before. *)
LEMMA WithStays ==
  ASSUME TypeInv, NEW d \in 0..MaxId, NEW l, l.st = "none" \/ Lot(d).st # "none"
  PROVE  NothingNew(With(d, l))
  <1>1. house \in HouseType
    BY DEF TypeInv, AuctionTypeOK
  <1> QED BY <1>1 DEF With, Lot, NothingNew, HouseType

LEMMA TypesOnce == ASSUME OnceInv, NEW p \in Player, Types(p) PROVE IdsFit' /\ TakenFits'
  <1> USE AuctionAssumption
  <1>0. /\ TypeInv /\ house \in HouseType /\ cmd \in [Player -> CmdType]
        /\ \A d \in Id : d \in 0..MaxId
    BY DEF OnceInv, TypeInv, AuctionTypeOK, CmdType, Id
  <1>1. UNCHANGED taken
    BY DEF Types, ListBegin, CancelLook, BuyoutLook, AdminRefund, ClaimCoin, pastVars
  <1>2. \A q \in Player : At(q, "add")' => At(q, "add") /\ cmd'[q].id = cmd[q].id
    <2>1. ASSUME NEW c \in CmdType, c.at # "add", cmd' = [cmd EXCEPT ![p] = c]
          PROVE  \A q \in Player : At(q, "add")' => At(q, "add") /\ cmd'[q].id = cmd[q].id
      BY <1>0, <2>1 DEF At
    <2>2. CASE Do(p, "look")
      BY <1>0, <2>2 DEF Do, At, CmdType
    <2>3. CASE UNCHANGED cmd
      BY <2>3 DEF At
    <2>4. ASSUME NEW i \in Item, NEW n \in Price, ListBegin(p, i, n)
          PROVE  \E c \in CmdType : c.at # "add" /\ cmd' = [cmd EXCEPT ![p] = c]
      <3>1. /\ [Idle EXCEPT !.at = "number", !.item = i, !.sum = n] \in CmdType
            /\ [Idle EXCEPT !.at = "number", !.item = i, !.sum = n].at # "add"
        BY IdleType DEF CmdType, Labels
      <3> QED BY <2>4, <3>1 DEF ListBegin
    <2>5. ASSUME NEW d \in Id, CancelLook(p, d) \/ BuyoutLook(p, d)
          PROVE  \E c \in CmdType : c.at # "add" /\ cmd' = [cmd EXCEPT ![p] = c]
      <3>1. \A at \in Labels \ {"add"}, n \in Nat :
              /\ [Idle EXCEPT !.at = at, !.id = d] \in CmdType
              /\ [Idle EXCEPT !.at = at, !.id = d, !.sum = n] \in CmdType
              /\ [Idle EXCEPT !.at = at, !.id = d].at # "add"
              /\ [Idle EXCEPT !.at = at, !.id = d, !.sum = n].at # "add"
        BY <1>0, IdleType DEF CmdType
      <3>2. Lot(d).price \in Nat
        BY <1>0 DEF HouseType, LotType, Lot
      <3> QED BY <2>5, <3>1, <3>2 DEF CancelLook, BuyoutLook, Labels
    <2>6. CASE /\ ClaimCoin(p)
               /\ cmd' = [cmd EXCEPT ![p] = [Idle EXCEPT !.at = "pay", !.sum = house.pending[p]]]
      <3>1. house.pending[p] \in Nat
        BY <1>0 DEF HouseType
      <3>2. /\ [Idle EXCEPT !.at = "pay", !.sum = house.pending[p]] \in CmdType
            /\ [Idle EXCEPT !.at = "pay", !.sum = house.pending[p]].at # "add"
        BY <3>1, IdleType DEF CmdType, Labels
      <3> QED BY <2>1, <2>6, <3>2
    <2>7. CASE \E d \in Id : AdminRefund(p, d)
      BY <2>3, <2>7 DEF AdminRefund
    <2> QED BY <2>1, <2>2, <2>4, <2>5, <2>6, <2>7 DEF Types, ClaimCoin
  <1>3. ASSUME NEW d \in Id, AdminRefund(p, d)
        PROVE  \E h : NothingNew(h) /\ house' = h /\ file' \in {h, file, Empty}
    <2> DEFINE h == [house EXCEPT
            !.lot[d] = [Lot(d) EXCEPT !.st = "cancelled", !.collector = Lot(d).seller],
            !.pending = Shifted(Lot(d).seller, Lot(d).price - Cut(Lot(d).price), Lot(d).buyer, Lot(d).price)]
    <2>1. NothingNew(h)
      BY <1>0, <1>3 DEF AdminRefund, NothingNew, HouseType, Lot
    <2>2. house' = h /\ file' \in {h, file, Empty}
      BY <1>3 DEF AdminRefund, Written, NotWritten, Torn
    <2> HIDE DEF h
    <2> QED BY <2>1, <2>2
  <1>4. CASE ClaimCoin(p)
    <2>1. NothingNew([house EXCEPT !.pending[p] = 0])
      BY <1>0 DEF NothingNew, HouseType
    <2>2. UNCHANGED storeVars \/ RolledBack \/ Written([house EXCEPT !.pending[p] = 0])
      BY <1>4 DEF ClaimCoin
    <2>3. UNCHANGED storeVars \/ \E h : NothingNew(h) /\ house' = h /\ file' \in {h, file, Empty}
      BY <2>1, <2>2, WriteStays, RolledBackStays
    <2> QED BY <1>1, <1>2, <2>3, StoreStays
  <1>5. CASE UNCHANGED storeVars
    BY <1>1, <1>2, <1>5, StoreStays
  <1>6. CASE \E d \in Id : AdminRefund(p, d)
    BY <1>1, <1>2, <1>3, <1>6, StoreStays
  <1> QED BY <1>4, <1>5, <1>6 DEF Types, ListBegin, CancelLook, BuyoutLook

LEMMA SoldStays == ASSUME TypeInv, NEW p \in Player, NEW d \in Active PROVE NothingNew(Sold(p, d))
  <1>1. house \in HouseType /\ d \in Id /\ Lot(d).st # "none"
    BY DEF TypeInv, AuctionTypeOK, Active
  <1> QED BY <1>1 DEF Sold, NothingNew, HouseType, Lot

(* A number is drawn that no listing and no other verb has. *)
LEMMA NumberOnce ==
  ASSUME OnceInv, NEW p \in Player, NextID(p)
  PROVE  IdsFit' /\ TakenFits'
  <1> USE AuctionAssumption
  <1>0. /\ IdsFit /\ TakenFits /\ house \in HouseType /\ cmd \in [Player -> CmdType]
    BY DEF OnceInv, TypeInv, AuctionTypeOK, CmdType
  <1>1. CASE RolledBack /\ Done(p)
    <2>1. UNCHANGED taken
      BY DEF NextID, pastVars
    <2>2. \A q \in Player : At(q, "add")' => At(q, "add") /\ cmd'[q].id = cmd[q].id
      BY <1>0, <1>1 DEF Done, At, Idle
    <2> QED BY <1>1, <2>1, <2>2, StoreStays, RolledBackStays
  <1>2. CASE /\ Written([house EXCEPT !.seq = @ + 1])
             /\ cmd' = [cmd EXCEPT ![p].at = "add", ![p].id = house.seq + 1]
    <2> DEFINE n == house.seq + 1
    <2>1. n \in Id /\ n > house.seq /\ house.seq \in 0..MaxId
      BY <1>0 DEF NextID, Id, HouseType
    <2>2. /\ house'.seq = n /\ file'.seq = n /\ house'.lot = house.lot /\ file'.lot = house.lot
          /\ taken' = taken
      BY <1>0, <1>2 DEF Written, HouseType, NextID, pastVars
    <2>3. /\ cmd'[p].at = "add" /\ cmd'[p].id = n
          /\ \A q \in Player \ {p} : cmd'[q] = cmd[q]
      BY <1>0, <1>2 DEF CmdType
    <2> HIDE DEF n
    <2>4. /\ house.lot[n].st = "none" /\ taken[n] = 0
          /\ \A q \in Player : At(q, "add") => cmd[q].id # n
      BY <1>0, <2>1 DEF IdsFit, Id
    <2>5. \A q \in Player : At(q, "add") => cmd[q].id \in Id /\ cmd[q].id <= n
      BY <1>0, <2>1 DEF IdsFit, Id, n
    <2>6. \A d \in Id : d > n => d > house.seq
      BY <2>1 DEF Id
    <2>7. n <= n
      BY <2>1 DEF Id
    <2>8. IdsFit'
      BY <1>0, <2>1, <2>2, <2>3, <2>4, <2>5, <2>6, <2>7 DEF IdsFit, At
    <2>9. TakenFits'
      BY <1>0, <2>2 DEF TakenFits
    <2> QED BY <2>8, <2>9
  <1> QED BY <1>1, <1>2 DEF NextID

(* The listing is made under a number that is nobody else's. *)
LEMMA AddOnce ==
  ASSUME OnceInv, NEW p \in Player, ListAdd(p)
  PROVE  IdsFit' /\ TakenFits'
  <1> DEFINE d == cmd[p].id
             l == [NoLot EXCEPT !.st = "active", !.seller = p, !.item = cmd[p].item,
                                !.price = cmd[p].sum]
  <1>0. /\ IdsFit /\ TakenFits /\ house \in HouseType /\ cmd \in [Player -> CmdType]
    BY DEF OnceInv, TypeInv, AuctionTypeOK, CmdType
  <1>1. At(p, "add") /\ house' = With(d, l) /\ file' \in {house', file, Empty} /\ taken' = taken
    BY DEF ListAdd, Written, NotWritten, Torn
  <1>2. /\ d \in Id /\ d <= house.seq /\ taken[d] = 0
        /\ \A q \in Player \ {p} : At(q, "add") => cmd[q].id # d
    BY <1>0, <1>1 DEF IdsFit
  <1>3. \A q \in Player : At(q, "add")' => q # p /\ At(q, "add") /\ cmd'[q] = cmd[q]
    BY <1>0 DEF ListAdd, Do, Done, At, Idle, CmdType
  <1> HIDE DEF d, l
  <1>4. house'.seq = house.seq /\ \A e \in Id \ {d} : house'.lot[e] = house.lot[e]
    BY <1>0, <1>1 DEF With, HouseType
  <1>5. /\ file'.seq = house.seq \/ file' = Empty
        /\ \A e \in Id \ {d} : \/ file'.lot[e] \in {house.lot[e], file.lot[e]}
                               \/ file'.lot[e].st = "none"
    BY <1>0, <1>1, <1>4, EmptyFits DEF IdsFit
  <1>6. \A e \in Id : e > house.seq => e # d
    BY <1>0, <1>2 DEF Id, HouseType
  <1>7. IdsFit'
    BY <1>0, <1>1, <1>2, <1>3, <1>4, <1>5, <1>6 DEF IdsFit, At
  <1>8. TakenFits'
    BY <1>0, <1>1, <1>2, <1>4, <1>5 DEF TakenFits
  <1> QED BY <1>7, <1>8

(* The listing goes from the memory and the disk before its item is handed
   out, and only a listing that is there is handed out. *)
LEMMA ConfirmOnce ==
  ASSUME OnceInv, NEW p \in Player, NEW d \in Id, Confirm(p, d)
  PROVE  IdsFit' /\ TakenFits'
  <1> USE AuctionAssumption
  <1>0. /\ IdsFit /\ TakenFits /\ house \in HouseType /\ cmd \in [Player -> CmdType]
        /\ TypeInv /\ taken \in [Id -> Nat]
    BY DEF OnceInv, TypeInv, AuctionTypeOK, CmdType
  <1>1. \A q \in Player : At(q, "add")' => At(q, "add") /\ cmd'[q].id = cmd[q].id
    <2>1. \A q \in Player \ {p} : cmd'[q] = cmd[q]
      BY <1>0 DEF Confirm
    <2>2. cmd'[p].at \in {"pick", "keep"}
      BY <1>0 DEF Confirm, At, CmdType
    <2> QED BY <2>1, <2>2 DEF At
  <1>2. NothingNew(With(d, NoLot))
    <2>1. d \in 0..MaxId /\ NoLot.st = "none"
      BY DEF Id, NoLot
    <2> QED BY <1>0, <2>1, WithStays
  <1>3. CASE Lot(d).st # "none" /\ Collected(d) /\ taken' = [taken EXCEPT ![d] = @ + 1]
    <2>1. taken[d] = 0 /\ house.lot[d].st # "none"
      BY <1>0, <1>3 DEF TakenFits, Lot
    <2>2. /\ house' = With(d, NoLot) /\ file' = house' /\ house'.lot[d].st = "none"
          /\ house'.seq = house.seq
          /\ \A e \in Id \ {d} : house'.lot[e] = house.lot[e]
      BY <1>0, <1>3 DEF Collected, Written, With, HouseType, NoLot
    <2>3. taken'[d] = 1 /\ \A e \in Id \ {d} : taken'[e] = taken[e]
      BY <1>0, <1>3, <2>1
    <2>4. TakenFits'
      BY <1>0, <2>2, <2>3 DEF TakenFits
    <2>5. ~(d > house.seq) /\ \A q \in Player : At(q, "add") => cmd[q].id # d
      BY <1>0, <2>1 DEF IdsFit
    <2>6. \A e \in Id : house.lot[e].st = "none" /\ taken[e] = 0 =>
                          house'.lot[e].st = "none" /\ taken'[e] = 0
      BY <2>1, <2>2, <2>3
    <2>7. IdsFit'
      BY <1>0, <1>1, <2>2, <2>6 DEF IdsFit, At
    <2> QED BY <2>4, <2>7
  <1>4. CASE UNCHANGED taken /\ (UNCHANGED storeVars \/ NotWritten(With(d, NoLot)))
    <2>1. \/ UNCHANGED storeVars
          \/ \E h : NothingNew(h) /\ house' = h /\ file' \in {h, file, Empty}
      BY <1>2, <1>4, WriteStays
    <2> QED BY <1>1, <1>4, <2>1, StoreStays
  <1> QED BY <1>3, <1>4 DEF Confirm, pastVars

LEMMA GoesOnOnce == ASSUME OnceInv, NEW p \in Player, GoesOn(p) PROVE IdsFit' /\ TakenFits'
  <1> USE AuctionAssumption
  <1>a. TypeInv /\ cmd \in [Player -> CmdType]
    BY DEF OnceInv, TypeInv, AuctionTypeOK, CmdType
  <1>b. \A d \in Active : d \in 0..MaxId /\ Lot(d).st # "none"
    BY DEF Active, Id
  <1>0. TypeInv /\ cmd \in [Player -> CmdType] /\ \A d \in Active : d \in 0..MaxId /\ Lot(d).st # "none"
    BY <1>a, <1>b
  <1>1. ASSUME Done(p) \/ \E at \in Labels \ {"add"} : Do(p, at)
        PROVE  \A q \in Player : At(q, "add")' => At(q, "add") /\ cmd'[q].id = cmd[q].id
    BY <1>0, <1>1 DEF Done, Do, At, Idle, CmdType
  <1>2. CASE ListTake(p) \/ BuyoutCharge(p) \/ BuyoutRefund(p) \/ CollectEnd(p)
    <2>1. UNCHANGED <<taken, storeVars>>
      BY <1>2 DEF ListTake, BuyoutCharge, BuyoutRefund, CollectEnd, pastVars
    <2>2. Done(p) \/ \E at \in Labels \ {"add"} : Do(p, at)
      BY <1>2 DEF ListTake, BuyoutCharge, BuyoutRefund, CollectEnd, Labels
    <2> QED BY <1>1, <2>1, <2>2, StoreStays
  <1>3. CASE CollectPay(p) \/ PendingPickups(p) \/ Keep(p) \/ \E d \in Id : HoldBack(p, d)
    <2>1. UNCHANGED <<taken, storeVars>>
      BY <1>3 DEF CollectPay, PendingPickups, Keep, HoldBack, pastVars
    <2>2. \A q \in Player : At(q, "add")' => At(q, "add") /\ cmd'[q].id = cmd[q].id
      <3>1. CASE CollectPay(p) \/ PendingPickups(p)
        <4>1. \E c : c.at # "add" /\ cmd' = [cmd EXCEPT ![p] = c]
          <5>1. /\ [Idle EXCEPT !.at = "look"].at # "add"
                /\ \A t : [Idle EXCEPT !.at = "pick", !.todo = t].at # "add"
            BY DEF Idle
          <5> QED BY <3>1, <5>1 DEF CollectPay, PendingPickups
        <4> QED BY <1>0, <4>1 DEF At
      <3>2. CASE Keep(p)
        BY <1>0, <3>2 DEF Keep, At, CmdType
      <3>3. CASE \E d \in Id : HoldBack(p, d)
        BY <1>0, <3>3 DEF HoldBack, At, CmdType
      <3> QED BY <1>3, <3>1, <3>2, <3>3
    <2> QED BY <2>1, <2>2, StoreStays
  <1>4. CASE Cancel(p)
    <2>1. UNCHANGED taken /\ Done(p)
      BY <1>4 DEF Cancel, pastVars
    <2>2. \/ UNCHANGED storeVars
          \/ \E h : NothingNew(h) /\ house' = h /\ file' \in {h, file, Empty}
      BY <1>0, <1>4, WithStays, WriteStays DEF Cancel, MarkReturned
    <2> QED BY <1>1, <2>1, <2>2, StoreStays
  <1>5. CASE BuyoutSell(p)
    <2>1. UNCHANGED taken /\ (Done(p) \/ \E at \in Labels \ {"add"} : Do(p, at))
      BY <1>5 DEF BuyoutSell, pastVars, Labels
    <2>2. \/ UNCHANGED storeVars
          \/ \E h : NothingNew(h) /\ house' = h /\ file' \in {h, file, Empty}
      BY <1>0, <1>5, SoldStays, WriteStays DEF BuyoutSell
    <2> QED BY <1>1, <2>1, <2>2, StoreStays
  <1> QED BY <1>2, <1>3, <1>4, <1>5, NumberOnce, AddOnce, ConfirmOnce DEF GoesOn

LEMMA WorldOnce ==
  ASSUME OnceInv,
         \/ \E p \in Player : Autosave(p) \/ UseUp(p)
         \/ Ticks \/ (\E d \in Id : Lapse(d)) \/ Crash
  PROVE  IdsFit' /\ TakenFits'
  <1> USE AuctionAssumption
  <1>0. /\ TypeInv /\ IdsFit /\ TakenFits
        /\ \A d \in Active : d \in 0..MaxId /\ Lot(d).st # "none"
    BY DEF OnceInv, Active, Id
  <1>1. CASE Crash
    <2>1. /\ house' = file' /\ file' \in {file, Empty}
          /\ \A d \in Id : taken'[d] = IF d <= file'.seq THEN taken[d] ELSE 0
          /\ \A p \in Player : cmd'[p].at = "idle"
      BY <1>1 DEF Crash, Torn, Idle
    <2>2. CASE file' = file /\ file.seq = house.seq
      <3>1. \A d \in Id : taken'[d] \in {taken[d], 0}
        BY <2>1
      <3> QED BY <1>0, <2>1, <2>2, <3>1 DEF IdsFit, TakenFits, At
    <2>3. CASE file' = Empty
      <3>1. \A d \in Id : ~(d <= 0) /\ taken'[d] = 0
        BY <2>1, <2>3, EmptyFits DEF Id
      <3> QED BY <2>1, <2>3, <3>1, EmptyFits DEF IdsFit, TakenFits, At
    <2> QED BY <1>0, <2>1, <2>2, <2>3 DEF IdsFit
  <1>2. CASE ~Crash
    <2>1. UNCHANGED <<taken, cmd>>
      BY <1>2 DEF Autosave, UseUp, Ticks, SweepLook, ExpireOne, Lapse, pastVars
    <2>2. \/ UNCHANGED <<house, file>>
          \/ \E h : NothingNew(h) /\ house' = h /\ file' \in {h, file, Empty}
      <3>1. ASSUME NEW d \in Id, MarkReturned(d, "expired")
            PROVE  \E h : NothingNew(h) /\ house' = h /\ file' \in {h, file, Empty}
        BY <1>0, <3>1, WithStays, WriteStays DEF MarkReturned
      <3> QED BY <1>2, <3>1 DEF Autosave, UseUp, Ticks, SweepLook, ExpireOne, Lapse, storeVars
    <2>3. NothingNew(house)
      BY DEF NothingNew
    <2> QED BY <2>1, <2>2, <2>3, StoreStays DEF At
  <1> QED BY <1>1, <1>2

LEMMA StepOnceInv == OnceInv /\ [Next]_vars => OnceInv'
  <1> SUFFICES ASSUME OnceInv, [Next]_vars PROVE IdsFit' /\ TakenFits'
    BY StepTypeInv DEF OnceInv
  <1>1. CASE UNCHANGED vars
    BY <1>1, StoreStays DEF vars, pastVars, At
  <1> QED BY <1>1, TypesOnce, GoesOnOnce, WorldOnce DEF Next

(* An item is handed out once for its listing: the listing is gone from the
   memory and from the disk before that, and its number is not used again
   unless the file of the auctions is lost and nothing is listed any more,
   whatever crashes in between. *)
THEOREM AuctionCollectedOnce == Spec => []CollectedOnce
  <1>1. OnceInv => CollectedOnce
    BY DEF OnceInv, TakenFits, CollectedOnce
  <1> QED BY <1>1, InitOnceInv, StepOnceInv, PTL DEF Spec

------------------------------------------------------------------------------
(* Crashes *)

(* While nothing goes wrong writes are done, and what is undone leaves all as
   it was. *)
LEMMA WritesDone ==
  ASSUME \A what : ~Wrong(what)
  PROVE  ~Torn /\ (\A h : ~NotWritten(h)) /\ (RolledBack => UNCHANGED storeVars)
  BY DEF Torn, NotWritten, RolledBack, storeVars

(* Until something goes wrong, the file says what the memory says. *)
LEMMA NothingWrong ==
  ASSUME TypeInv, [Next]_vars, faults' = 0
  PROVE  faults = 0 /\ (house = file => house' = file') /\ (\A what : ~Wrong(what)) /\ ~Torn
  <1>1. faults \in Nat
    BY AuctionAssumption DEF TypeInv, AuctionTypeOK
  <1>2. (\A what : ~Wrong(what)) /\ ~Torn
    BY <1>1 DEF Wrong, Torn
  <1>3. \A h : ~NotWritten(h)
    BY <1>2 DEF NotWritten
  <1>4. ASSUME NEW p \in Player, Types(p) \/ GoesOn(p) \/ Autosave(p) \/ UseUp(p)
        PROVE  UNCHANGED faults /\ (house = file => house' = file')
    <2>1. CASE Types(p)
      BY <1>2, <1>3, <2>1 DEF Types, ListBegin, CancelLook, BuyoutLook, AdminRefund, ClaimCoin,
                              storeVars, Written, RolledBack
    <2>2. CASE GoesOn(p)
      BY <1>2, <1>3, <2>2
         DEF RolledBack, GoesOn, NextID, ListAdd, ListTake, Cancel, MarkReturned, BuyoutCharge, BuyoutSell,
             BuyoutRefund, CollectPay, PendingPickups, Keep, CollectEnd, Confirm, Collected,
             HoldBack, storeVars, Written
    <2>3. CASE Autosave(p) \/ UseUp(p)
      BY <1>2, <2>3 DEF Autosave, UseUp, storeVars
    <2> QED BY <1>4, <2>1, <2>2, <2>3
  <1>5. ASSUME SweepLook \/ (\E d \in Id : Lapse(d)) \/ Crash \/ UNCHANGED vars
        PROVE  UNCHANGED faults /\ (house = file => house' = file')
    BY <1>2, <1>5 DEF SweepLook, Lapse, Crash, storeVars, vars
  <1>6. ASSUME NEW d \in Id, ExpireOne(d)
        PROVE  UNCHANGED faults /\ (house = file => house' = file')
    BY <1>3, <1>6 DEF ExpireOne, MarkReturned, storeVars, Written
  <1> QED BY <1>2, <1>4, <1>5, <1>6 DEF Next, Ticks

(* Only a listing that is on disk is followed by taking the item. *)
LEMMA NewTakers ==
  ASSUME TypeInv, [Next]_vars, NEW q \in Player, At(q, "take")'
  PROVE  ListAdd(q) \/ (At(q, "take") /\ cmd'[q].item = cmd[q].item)
  <1>0. cmd \in [Player -> CmdType] /\ cmd'[q].at = "take"
    BY DEF TypeInv, AuctionTypeOK, CmdType, At
  <1> DEFINE Same == At(q, "take") /\ cmd'[q].item = cmd[q].item
  <1>1. ASSUME UNCHANGED cmd PROVE Same
    BY <1>0, <1>1 DEF At
  <1>2. ASSUME NEW p \in Player, Done(p) \/ \E at : at # "take" /\ Do(p, at) PROVE Same
    BY <1>0, <1>2 DEF Done, Do, At, Idle, CmdType
  <1>3. ASSUME NEW p \in Player, NEW c, c.at # "take", cmd' = [cmd EXCEPT ![p] = c] PROVE Same
    BY <1>0, <1>3 DEF At
  <1>4. ASSUME NEW p \in Player, Types(p) PROVE Same
    <2>1. /\ \A i, n : [Idle EXCEPT !.at = "number", !.item = i, !.sum = n].at # "take"
          /\ \A d : [Idle EXCEPT !.at = "cancel", !.id = d].at # "take"
          /\ \A d, n : [Idle EXCEPT !.at = "charge", !.id = d, !.sum = n].at # "take"
          /\ \A n : [Idle EXCEPT !.at = "pay", !.sum = n].at # "take"
      BY DEF Idle
    <2>2. \/ \E c : c.at # "take" /\ cmd' = [cmd EXCEPT ![p] = c]
          \/ UNCHANGED cmd
          \/ Do(p, "look")
      BY <1>4, <2>1 DEF Types, ListBegin, CancelLook, BuyoutLook, AdminRefund, ClaimCoin
    <2> QED BY <1>1, <1>2, <1>3, <2>2
  <1>5. ASSUME NEW p \in Player, GoesOn(p) PROVE ListAdd(q) \/ Same
    <2>1. CASE ListAdd(p)
      BY <1>0, <2>1 DEF ListAdd, Done, Do, At, Idle, CmdType
    <2>2. CASE ListTake(p) \/ Cancel(p) \/ BuyoutCharge(p) \/ BuyoutSell(p) \/ BuyoutRefund(p)
               \/ CollectEnd(p)
      <3>1. Done(p) \/ \E at : at # "take" /\ Do(p, at)
        BY <2>2 DEF ListTake, Cancel, BuyoutCharge, BuyoutSell, BuyoutRefund, CollectEnd
      <3> QED BY <1>2, <3>1
    <2>3. CASE NextID(p)
      BY <1>0, <2>3 DEF NextID, Done, At, Idle, CmdType
    <2>4. CASE CollectPay(p) \/ PendingPickups(p)
      <3>1. /\ [Idle EXCEPT !.at = "look"].at # "take"
            /\ \A t : [Idle EXCEPT !.at = "pick", !.todo = t].at # "take"
        BY DEF Idle
      <3> QED BY <1>3, <2>4, <3>1 DEF CollectPay, PendingPickups
    <2>5. CASE Keep(p)
      BY <1>0, <2>5 DEF Keep, At, CmdType
    <2>6. CASE \E d \in Id : HoldBack(p, d) \/ Confirm(p, d)
      BY <1>0, <2>6 DEF HoldBack, Confirm, At, CmdType
    <2> QED BY <1>5, <2>1, <2>2, <2>3, <2>4, <2>5, <2>6 DEF GoesOn
  <1>6. ~Crash
    BY <1>0 DEF Crash, Idle
  <1>7. CASE \/ \E p \in Player : Autosave(p) \/ UseUp(p)
             \/ Ticks \/ (\E d \in Id : Lapse(d)) \/ UNCHANGED vars
    BY <1>1, <1>7 DEF Autosave, UseUp, Ticks, SweepLook, ExpireOne, Lapse, vars
  <1> QED BY <1>4, <1>5, <1>6, <1>7 DEF Next

(* The list of what was handed out grows when an item is collected, and its
   collector is then not listing anything. *)
LEMMA FreshGrows ==
  ASSUME TypeInv, [Next]_vars
  PROVE  \/ fresh' \subseteq fresh
         \/ \E p \in Player : cmd'[p].at # "take" /\ \E i : fresh' = fresh \cup {<<p, i>>}
  <1>0. cmd \in [Player -> CmdType]
    BY DEF TypeInv, AuctionTypeOK, CmdType
  <1>1. ASSUME NEW p \in Player, NEW d \in Id, Confirm(p, d)
        PROVE  fresh' = fresh \/ (cmd'[p].at # "take" /\ fresh' = fresh \cup {<<p, Lot(d).item>>})
    BY <1>0, <1>1 DEF Confirm, pastVars, CmdType
  <1>2. ASSUME NEW p \in Player, Types(p) \/ GoesOn(p), ~\E d \in Id : Confirm(p, d)
        PROVE  fresh' \subseteq fresh
    <2>1. CASE Types(p)
      BY <2>1 DEF Types, ListBegin, CancelLook, BuyoutLook, AdminRefund, ClaimCoin, pastVars
    <2>2. CASE GoesOn(p)
      BY <1>2, <2>2
         DEF GoesOn, NextID, ListAdd, ListTake, Cancel, BuyoutCharge, BuyoutSell, BuyoutRefund,
             CollectPay, PendingPickups, Keep, CollectEnd, HoldBack, pastVars
    <2> QED BY <1>2, <2>1, <2>2
  <1>3. CASE \/ \E p \in Player : Autosave(p) \/ UseUp(p)
             \/ Ticks \/ (\E d \in Id : Lapse(d)) \/ UNCHANGED vars \/ Crash
    BY <1>3 DEF Autosave, UseUp, Ticks, SweepLook, ExpireOne, Lapse, Crash, pastVars, vars
  <1> QED BY <1>1, <1>2, <1>3 DEF Next

LEMMA StepFreshFits ==
  ASSUME TypeInv, FreshFits, [Next]_vars
  PROVE  FreshFits'
  <1> SUFFICES ASSUME NEW q \in Player, At(q, "take")' PROVE <<q, cmd'[q].item>> \notin fresh'
    BY DEF FreshFits
  <1>0. cmd \in [Player -> CmdType] /\ cmd'[q].at = "take"
    BY DEF TypeInv, AuctionTypeOK, CmdType, At
  <1>1. CASE ListAdd(q)
    BY <1>0, <1>1 DEF ListAdd, Do, Done, Idle, CmdType
  <1>2. CASE At(q, "take") /\ cmd'[q].item = cmd[q].item
    BY <1>0, <1>2, FreshGrows DEF FreshFits
  <1> QED BY <1>1, <1>2, NewTakers

(* An item stays where it is as long as listings, bags and saves keep what
   they have and nobody begins to put it away. *)
LEMMA AnchorStays ==
  ASSUME NEW i \in Item, Anchored(i),
         \A d \in Id : file.lot[d].item = i => file'.lot[d].item = i,
         fresh \subseteq fresh', save' = save,
         \A p \in Player : i \in bag[p] /\ ~(At(p, "take") /\ cmd[p].item = i) => i \in bag'[p],
         \A p \in Player : At(p, "take")' => At(p, "take") /\ cmd'[p].item = cmd[p].item
  PROVE  Anchored(i)'
  BY DEF Anchored

(* No listing loses its item but to who collects it. *)
LEMMA ItemsStay ==
  ASSUME OnceInv, [Next]_vars, house = file, ~Torn,
         ~\E p \in Player, d \in Id : Confirm(p, d),
         NEW i \in Item, NEW e \in Id, house.lot[e].item = i
  PROVE  house'.lot[e].item = i
  <1>0. TypeInv /\ house \in HouseType /\ house.lot[e].st # "none" /\ IdsFit
    <2>1. TypeInv /\ IdsFit
      BY DEF OnceInv
    <2>2. LotFits(house.lot[e])
      BY <2>1 DEF TypeInv, LotsFit
    <2> QED BY <2>1, <2>2, AuctionAssumption DEF TypeInv, AuctionTypeOK, LotFits, NoLot
  <1>1. ASSUME NEW d, NEW l, house' = With(d, l), d = e => l.item = i
        PROVE  house'.lot[e].item = i
    BY <1>0, <1>1 DEF With, HouseType
  <1>2. ASSUME NEW d \in Id, NEW st, MarkReturned(d, st) PROVE house'.lot[e].item = i
    <2> DEFINE l == [Lot(d) EXCEPT !.st = st, !.collector = Lot(d).seller]
    <2>1. house' = With(d, l)
      BY <1>2 DEF MarkReturned, Written, NotWritten
    <2>2. l.item = Lot(d).item
      BY <1>0 DEF Lot, HouseType, LotType
    <2> HIDE DEF l
    <2> QED BY <1>1, <2>1, <2>2 DEF Lot
  <1>3. ASSUME NEW p \in Player, Types(p) PROVE house'.lot[e].item = i
    <2>1. ASSUME NEW d \in Id, AdminRefund(p, d) PROVE house'.lot[e].item = i
      <3> DEFINE l == [Lot(d) EXCEPT !.st = "cancelled", !.collector = Lot(d).seller]
      <3>1. \E o : house' = [house EXCEPT !.lot[d] = l, !.pending = o]
        BY <2>1 DEF AdminRefund, Written, NotWritten
      <3>2. l.item = Lot(d).item
        BY <1>0 DEF Lot, HouseType, LotType
      <3> HIDE DEF l
      <3> QED BY <1>0, <3>1, <3>2 DEF Lot, HouseType
    <2> QED BY <1>0, <1>3, <2>1
         DEF Types, ListBegin, CancelLook, BuyoutLook, ClaimCoin, Written, RolledBack, storeVars,
             HouseType
  <1>4. ASSUME NEW p \in Player, GoesOn(p) PROVE house'.lot[e].item = i
    <2>1. CASE NextID(p)
      BY <1>0, <2>1 DEF NextID, Written, RolledBack, storeVars, HouseType
    <2>2. CASE ListAdd(p)
      <3>1. cmd[p].id # e
        BY <1>0, <2>2 DEF ListAdd, IdsFit, At
      <3> QED BY <1>1, <2>2, <3>1 DEF ListAdd, Written, NotWritten
    <2>3. CASE Cancel(p)
      <3>1. CASE MarkReturned(cmd[p].id, "cancelled")
        BY <1>2, <3>1 DEF MarkReturned, Active
      <3> QED BY <2>3, <3>1 DEF Cancel, storeVars
    <2>4. CASE BuyoutSell(p)
      <3> DEFINE d == cmd[p].id
                 l == [Lot(d) EXCEPT !.st = "sold", !.buyer = p, !.collector = p]
      <3>1. CASE UNCHANGED storeVars
        BY <3>1 DEF storeVars
      <3>2. CASE d \in Active /\ house' = Sold(p, d)
        <4>1. l.item = Lot(d).item
          BY <1>0, <3>2 DEF Lot, HouseType, LotType, Active
        <4>2. \E o, s : house' = [house EXCEPT !.lot[d] = l, !.pending[s] = o]
          BY <3>2 DEF Sold
        <4> HIDE DEF l
        <4> QED BY <1>0, <4>1, <4>2 DEF Lot, HouseType
      <3> QED BY <2>4, <3>1, <3>2 DEF BuyoutSell, Written, NotWritten
    <2>5. CASE \/ ListTake(p) \/ BuyoutCharge(p) \/ BuyoutRefund(p) \/ CollectPay(p)
               \/ PendingPickups(p) \/ Keep(p) \/ CollectEnd(p) \/ \E d \in Id : HoldBack(p, d)
      BY <2>5 DEF ListTake, BuyoutCharge, BuyoutRefund, CollectPay, PendingPickups, Keep,
                  CollectEnd, HoldBack, storeVars
    <2> QED BY <1>4, <2>1, <2>2, <2>3, <2>4, <2>5 DEF GoesOn
  <1>5. CASE \/ \E p \in Player : Autosave(p) \/ UseUp(p)
             \/ SweepLook \/ (\E d \in Id : Lapse(d)) \/ UNCHANGED vars \/ Crash
    BY <1>5 DEF Autosave, UseUp, SweepLook, Lapse, Crash, storeVars, vars
  <1>6. ASSUME NEW d \in Id, ExpireOne(d) PROVE house'.lot[e].item = i
    BY <1>2, <1>6 DEF ExpireOne, storeVars
  <1> QED BY <1>3, <1>4, <1>5, <1>6 DEF Next, Ticks

(* While nothing goes wrong every step leaves an item where a crash finds it:
   what is listed is on disk before it leaves the bag, what is collected is
   with its collector until a save has it, and a save keeps what the bag has. *)
LEMMA StepAnchored ==
  ASSUME AnchorInv, [Next]_vars, faults' = 0, NEW i \in Item
  PROVE  Anchored(i)'
  <1>0. /\ OnceInv /\ TypeInv /\ FreshFits /\ faults = 0 /\ house = file /\ house' = file'
        /\ Anchored(i) /\ cmd \in [Player -> CmdType] /\ bag \in [Player -> SUBSET Item]
        /\ (\A what : ~Wrong(what)) /\ ~Torn /\ \A h : ~NotWritten(h)
    BY NothingWrong, WritesDone DEF AnchorInv, OnceInv, TypeInv, AuctionTypeOK, CmdType
  <1>1. CASE \E p \in Player, d \in Id : Confirm(p, d)
    <2>1. PICK p \in Player, d \in Id : Confirm(p, d)
      BY <1>1
    <2>2. UNCHANGED <<bag, save>>
      BY <2>1 DEF Confirm, actorVars, timeVars
    <2>3. \A q \in Player : At(q, "take")' => At(q, "take") /\ cmd'[q].item = cmd[q].item
      BY <1>0, <2>1 DEF Confirm, At, CmdType
    <2>4. CASE Collected(d) /\ fresh' = fresh \cup {<<p, Lot(d).item>>}
      <3>1. CASE Lot(d).item = i
        BY <2>4, <3>1 DEF Anchored
      <3>2. CASE Lot(d).item # i
        <4>1. \A e \in Id : file.lot[e].item = i => file'.lot[e].item = i
          BY <1>0, <2>4, <3>2 DEF Collected, Written, With, Lot, TypeInv, AuctionTypeOK, HouseType
        <4> QED BY <1>0, <2>2, <2>3, <2>4, <4>1, AnchorStays
      <3> QED BY <3>1, <3>2
    <2>5. CASE UNCHANGED storeVars /\ UNCHANGED pastVars
      BY <1>0, <2>2, <2>3, <2>5, AnchorStays DEF storeVars, pastVars
    <2> QED BY <1>0, <2>1, <2>4, <2>5 DEF Confirm
  <1>2. ASSUME ~\E p \in Player, d \in Id : Confirm(p, d)
        PROVE  \A e \in Id : file.lot[e].item = i => file'.lot[e].item = i
    BY <1>0, <1>2, ItemsStay
  <1>3. CASE \E p \in Player : ListAdd(p)
    <2>1. PICK p \in Player : ListAdd(p)
      BY <1>3
    <2>2. /\ At(p, "add") /\ Do(p, "take") /\ fresh' = fresh \ {<<p, cmd[p].item>>}
          /\ UNCHANGED <<bag, save>>
          /\ Written(With(cmd[p].id, [NoLot EXCEPT !.st = "active", !.seller = p,
                                                   !.item = cmd[p].item, !.price = cmd[p].sum]))
      BY <1>0, <2>1 DEF ListAdd, timeVars
    <2>3. CASE cmd[p].item = i
      <3>1. cmd[p].id \in Id /\ house \in HouseType
        BY <1>0, <2>2 DEF OnceInv, IdsFit, TypeInv, AuctionTypeOK
      <3>2. file'.lot[cmd[p].id].item = i
        BY <2>2, <2>3, <3>1 DEF Written, With, HouseType, NoLot
      <3> QED BY <3>1, <3>2 DEF Anchored
    <2>4. CASE cmd[p].item # i
      <3>1. ~\E q \in Player, d \in Id : Confirm(q, d)
        <4>1. ASSUME NEW q \in Player, NEW d \in Id, Confirm(q, d) PROVE FALSE
          <5>1. cmd'[p].at = "take" /\ cmd[p].at = "add"
            BY <1>0, <2>2 DEF Do, At
          <5>2. cmd'[p].at \in {cmd[p].at, "keep"}
            BY <1>0, <4>1 DEF Confirm, CmdType
          <5> QED BY <5>1, <5>2
        <4> QED BY <4>1
      <3>2. \A e \in Id : file.lot[e].item = i => file'.lot[e].item = i
        BY <1>2, <3>1
      <3>3. \A q \in Player : At(q, "take")' /\ cmd'[q].item = i =>
                                At(q, "take") /\ cmd[q].item = i
        BY <1>0, <2>2, <2>4 DEF Do, At, CmdType
      <3> QED BY <1>0, <2>2, <2>4, <3>2, <3>3 DEF Anchored
    <2> QED BY <2>3, <2>4
  <1>4. CASE /\ ~\E p \in Player, d \in Id : Confirm(p, d)
             /\ ~\E p \in Player : ListAdd(p)
    <2>1. \A q \in Player : At(q, "take")' => At(q, "take") /\ cmd'[q].item = cmd[q].item
      BY <1>0, <1>4, NewTakers
    <2>2. \A e \in Id : file.lot[e].item = i => file'.lot[e].item = i
      BY <1>2, <1>4
    <2>3. CASE \E p \in Player : Autosave(p)
      <3>1. PICK p \in Player : Autosave(p)
        BY <2>3
      <3>2. /\ UNCHANGED <<bag, cmd>> /\ fresh' = fresh \ ({p} \X bag[p])
            /\ \A q \in Player : save'[q].bag = IF q = p THEN bag[p] ELSE save[q].bag
        BY <1>0, <3>1 DEF Autosave, actorVars, TypeInv, AuctionTypeOK
      <3>3. ASSUME NEW q \in Player, <<q, i>> \in fresh PROVE Anchored(i)'
        <4>1. CASE <<q, i>> \in fresh'
          BY <4>1 DEF Anchored
        <4>2. CASE q = p /\ i \in bag[p]
          <5>1. ~(At(q, "take") /\ cmd[q].item = i)
            BY <1>0, <3>3 DEF FreshFits
          <5> QED BY <3>2, <4>2, <5>1 DEF Anchored, At
        <4> QED BY <3>2, <3>3, <4>1, <4>2
      <3>4. ASSUME NEW q \in Player, i \in bag[q], ~(At(q, "take") /\ cmd[q].item = i),
                   i \in save[q].bag
            PROVE  Anchored(i)'
        BY <3>2, <3>4 DEF Anchored, At
      <3> QED BY <1>0, <2>2, <3>3, <3>4 DEF Anchored
    <2>4. CASE Crash
      <3>1. /\ \A q \in Player : bag'[q] = save[q].bag /\ cmd'[q].at = "idle"
            /\ UNCHANGED <<save, fresh>>
        BY <2>4 DEF Crash, pastVars, Idle
      <3> QED BY <1>0, <2>2, <3>1 DEF Anchored, At
    <2>5. CASE \E p \in Player : ListTake(p)
      <3>1. PICK p \in Player : ListTake(p)
        BY <2>5
      <3>2. /\ At(p, "take") /\ bag' = [bag EXCEPT ![p] = @ \ {cmd[p].item}]
            /\ UNCHANGED <<save, fresh>>
        BY <3>1 DEF ListTake, timeVars, pastVars
      <3>3. \A q \in Player : i \in bag[q] /\ ~(At(q, "take") /\ cmd[q].item = i) => i \in bag'[q]
        BY <1>0, <3>2
      <3> QED BY <1>0, <2>1, <2>2, <3>2, <3>3, AnchorStays
    <2>6. CASE /\ ~(\E p \in Player : Autosave(p)) /\ ~Crash
               /\ ~(\E p \in Player : ListTake(p))
      <3>1. save' = save /\ fresh' = fresh
        <4>1. ASSUME NEW p \in Player, Types(p) PROVE save' = save /\ fresh' = fresh
          BY <4>1 DEF Types, ListBegin, CancelLook, BuyoutLook, AdminRefund, ClaimCoin,
                      timeVars, pastVars
        <4>2. ASSUME NEW p \in Player, GoesOn(p) PROVE save' = save /\ fresh' = fresh
          BY <1>4, <2>6, <4>2
             DEF GoesOn, NextID, Cancel, BuyoutCharge, BuyoutSell, BuyoutRefund, CollectPay,
                 PendingPickups, Keep, CollectEnd, HoldBack, timeVars, pastVars
        <4>3. ASSUME NEW d \in Id, Lapse(d) \/ ExpireOne(d) PROVE save' = save /\ fresh' = fresh
          BY <4>3 DEF ExpireOne, Lapse, pastVars
        <4>4. CASE SweepLook \/ (\E p \in Player : UseUp(p)) \/ UNCHANGED vars
          BY <4>4 DEF UseUp, SweepLook, pastVars, vars, timeVars
        <4> QED BY <2>6, <4>1, <4>2, <4>3, <4>4 DEF Next, Ticks
      <3>2. \A q \in Player : bag[q] \subseteq bag'[q]
        <4>1. ASSUME NEW p \in Player, Types(p) PROVE bag' = bag
          BY <4>1 DEF Types, ListBegin, CancelLook, BuyoutLook, AdminRefund, ClaimCoin, actorVars
        <4>2. ASSUME NEW p \in Player, GoesOn(p) PROVE \A q \in Player : bag[q] \subseteq bag'[q]
          <5>1. CASE Keep(p)
            BY <1>0, <5>1 DEF Keep
          <5> QED BY <1>4, <2>6, <4>2, <5>1
             DEF GoesOn, NextID, Cancel, BuyoutCharge, BuyoutSell, BuyoutRefund, CollectPay,
                 PendingPickups, CollectEnd, HoldBack, actorVars
        <4>3. ASSUME NEW d \in Id, Lapse(d) \/ ExpireOne(d) PROVE bag' = bag
          BY <4>3 DEF ExpireOne, Lapse, actorVars
        <4>4. CASE SweepLook \/ UNCHANGED vars
          BY <4>4 DEF SweepLook, actorVars, vars
        <4>5. ASSUME NEW p \in Player, UseUp(p) PROVE FALSE
          BY <1>0, <4>5 DEF UseUp
        <4> QED BY <2>6, <4>1, <4>2, <4>3, <4>4, <4>5 DEF Next, Ticks
      <3> QED BY <1>0, <2>1, <2>2, <3>1, <3>2, AnchorStays
    <2> QED BY <2>3, <2>4, <2>5, <2>6
  <1> QED BY <1>1, <1>3, <1>4

LEMMA StepAnchorInv == AnchorInv /\ [Next]_vars => AnchorInv'
  <1> SUFFICES ASSUME AnchorInv, [Next]_vars PROVE AnchorInv'
    OBVIOUS
  <1>1. OnceInv' /\ FreshFits'
    BY StepOnceInv, StepFreshFits DEF AnchorInv, OnceInv
  <1>2. ASSUME faults' = 0 PROVE house' = file' /\ \A i \in Item : Anchored(i)'
    BY <1>2, NothingWrong, StepAnchored DEF AnchorInv, OnceInv
  <1> QED BY <1>1, <1>2 DEF AnchorInv

(* When every item is somebody's at the beginning, none is ever lost to a
   crash while nothing goes wrong, a kill between the two renames of a write
   of the auctions (Torn) being one of the things that can: it is in a listing
   or a save on disk, or with its collector, who has not been saved since. *)
THEOREM AuctionSurvivesCrash ==
  ASSUME \A i \in Item : \E p \in Player : i \in InitBag[p]
  PROVE  Spec => []SurvivesCrash
  <1>1. Init => AnchorInv
    <2> SUFFICES ASSUME Init PROVE AnchorInv
      OBVIOUS
    <2>1. OnceInv
      BY InitOnceInv
    <2>2. FreshFits /\ house = file
      BY DEF Init, FreshFits
    <2>3. \A i \in Item : Anchored(i)
      <3> SUFFICES ASSUME NEW i \in Item PROVE Anchored(i)
        OBVIOUS
      <3>1. PICK p \in Player : i \in InitBag[p]
        OBVIOUS
      <3>2. i \in bag[p] /\ i \in save[p].bag /\ ~At(p, "take")
        BY <3>1 DEF Init, At, Idle
      <3> QED BY <3>2 DEF Anchored
    <2> QED BY <2>1, <2>2, <2>3 DEF AnchorInv
  <1>2. AnchorInv => SurvivesCrash
    BY DEF AnchorInv, Anchored, SurvivesCrash
  <1> QED BY <1>1, <1>2, StepAnchorInv, PTL DEF Spec

------------------------------------------------------------------------------
(* The market *)

LEMMA MarketParts ==
  ASSUME MarketInv
  PROVE  /\ OnceInv /\ TypeInv /\ IdsFit /\ TakenFits /\ MarketFits
         /\ cmd \in [Player -> CmdType] /\ house \in HouseType
         /\ bag \in [Player -> SUBSET Item] /\ gold \in [Player -> Nat] /\ taken \in [Id -> Nat]
  BY DEF MarketInv, OnceInv, TypeInv, AuctionTypeOK, CmdType

(* The listings change in five ways: a number is drawn, a listing is made
   under the number drawn for it, one that is for sale is sold or goes back,
   a sale that nobody is collecting is undone, and one is collected. *)
LotBecomes(d, l) == house'.lot = [house.lot EXCEPT ![d] = l] /\ house'.seq = house.seq

LEMMA LotsMove ==
  ASSUME TypeInv, house = file, [Next]_vars, \A what : ~Wrong(what)
  PROVE  \/ house'.lot = house.lot /\ house'.seq = house.seq
         \/ \E p \in Player : NextID(p) /\ house'.lot = house.lot /\ house'.seq = house.seq + 1
         \/ \E p \in Player : \E l : At(p, "add") /\ LotBecomes(cmd[p].id, l)
         \/ \E d \in Active : \E l : l.st # "active" /\ LotBecomes(d, l)
         \/ \E d \in Id : \E l : /\ Lot(d).st = "sold" /\ ~Collecting(d)
                                 /\ l.st = "cancelled" /\ LotBecomes(d, l)
         \/ \E d \in Id : LotBecomes(d, NoLot)
  <1>0. house \in HouseType /\ ~Torn /\ (\A h : ~NotWritten(h)) /\ (RolledBack => house' = house)
    BY WritesDone DEF TypeInv, AuctionTypeOK, storeVars
  <1>1. \A d, l : With(d, l).lot = [house.lot EXCEPT ![d] = l] /\ With(d, l).seq = house.seq
    BY <1>0 DEF With, HouseType
  <1>2. ASSUME NEW d \in Id, NEW st \in {"expired", "cancelled"}, MarkReturned(d, st)
        PROVE  \E e \in Active : \E l : l.st # "active" /\ LotBecomes(e, l)
    <2> DEFINE l == [Lot(d) EXCEPT !.st = st, !.collector = Lot(d).seller]
    <2>1. house' = With(d, l) /\ d \in Active
      BY <1>0, <1>2 DEF MarkReturned, Written
    <2>2. l.st = st
      BY <1>0 DEF Lot, HouseType, LotType
    <2> HIDE DEF l
    <2>3. l.st # "active"
      BY <2>2
    <2> QED BY <1>1, <2>1, <2>3 DEF LotBecomes
  <1>3. ASSUME NEW p \in Player, NEW d \in Id, AdminRefund(p, d)
        PROVE  \E l : /\ Lot(d).st = "sold" /\ ~Collecting(d)
                      /\ l.st = "cancelled" /\ LotBecomes(d, l)
    <2> DEFINE l == [Lot(d) EXCEPT !.st = "cancelled", !.collector = Lot(d).seller]
    <2>1. \E o : house' = [house EXCEPT !.lot[d] = l, !.pending = o]
      BY <1>0, <1>3 DEF AdminRefund, Written
    <2>2. l.st = "cancelled" /\ Lot(d).st = "sold" /\ ~Collecting(d)
      BY <1>0, <1>3 DEF AdminRefund, Lot, HouseType, LotType
    <2> HIDE DEF l
    <2>3. LotBecomes(d, l)
      BY <1>0, <2>1 DEF LotBecomes, HouseType
    <2> QED BY <2>2, <2>3
  <1>4. ASSUME NEW p \in Player, NEW d \in Active, house' = Sold(p, d)
        PROVE  \E e \in Active : \E l : l.st # "active" /\ LotBecomes(e, l)
    <2> DEFINE l == [Lot(d) EXCEPT !.st = "sold", !.buyer = p, !.collector = p]
    <2>1. l.st # "active"
      BY <1>0 DEF Lot, HouseType, LotType, Active
    <2>2. \E o, s : house' = [house EXCEPT !.lot[d] = l, !.pending[s] = o]
      BY <1>4 DEF Sold
    <2> HIDE DEF l
    <2>3. LotBecomes(d, l)
      BY <1>0, <2>2 DEF LotBecomes, HouseType
    <2> QED BY <2>1, <2>3
  <1>5. ASSUME NEW p \in Player, NextID(p)
        PROVE  \/ house'.lot = house.lot /\ house'.seq = house.seq
               \/ house'.lot = house.lot /\ house'.seq = house.seq + 1
    BY <1>0, <1>5 DEF NextID, Written, storeVars, HouseType
  <1>6. ASSUME NEW p \in Player, ListAdd(p) PROVE At(p, "add") /\ \E l : LotBecomes(cmd[p].id, l)
    <2>1. At(p, "add") /\ \E l : house' = With(cmd[p].id, l)
      BY <1>0, <1>6 DEF ListAdd, Written
    <2> QED BY <1>1, <2>1 DEF LotBecomes
  <1>7. ASSUME NEW p \in Player, NEW d \in Id, Confirm(p, d)
        PROVE  house' = house \/ LotBecomes(d, NoLot)
    <2>1. UNCHANGED storeVars \/ Collected(d)
      BY <1>0, <1>7 DEF Confirm
    <2>2. house' = house \/ house' = With(d, NoLot)
      BY <2>1 DEF Collected, Written, storeVars
    <2> QED BY <1>1, <2>2 DEF LotBecomes
  <1>8. ASSUME NEW p \in Player, ClaimCoin(p)
        PROVE  house'.lot = house.lot /\ house'.seq = house.seq
    BY <1>0, <1>8 DEF ClaimCoin, Written, storeVars, HouseType
  <1>9. ASSUME NEW p \in Player, Types(p), ~ClaimCoin(p), ~\E d \in Id : AdminRefund(p, d)
        PROVE  house' = house
    BY <1>9 DEF Types, ListBegin, CancelLook, BuyoutLook, storeVars
  <1>10. ASSUME NEW p \in Player, Cancel(p)
         PROVE  house' = house \/ (MarkReturned(cmd[p].id, "cancelled") /\ cmd[p].id \in Id)
    <2>1. MarkReturned(cmd[p].id, "cancelled") => cmd[p].id \in Id
      BY DEF MarkReturned, Active
    <2> QED BY <1>10, <2>1 DEF Cancel, storeVars
  <1>11. ASSUME NEW p \in Player, BuyoutSell(p)
         PROVE  house' = house \/ \E d \in Active : house' = Sold(p, d)
    BY <1>0, <1>11 DEF BuyoutSell, storeVars, Written
  <1>12. ASSUME NEW p \in Player, GoesOn(p), ~NextID(p), ~ListAdd(p), ~Cancel(p), ~BuyoutSell(p),
                ~\E d \in Id : Confirm(p, d)
         PROVE  house' = house
    BY <1>12 DEF GoesOn, ListTake, BuyoutCharge, BuyoutRefund, CollectPay, PendingPickups, Keep,
                 CollectEnd, HoldBack, storeVars
  <1>13. CASE \/ \E p \in Player : Autosave(p) \/ UseUp(p)
              \/ SweepLook \/ (\E d \in Id : Lapse(d)) \/ UNCHANGED vars \/ Crash
    BY <1>0, <1>13 DEF Autosave, UseUp, SweepLook, Lapse, Crash, storeVars, vars
  <1>14. ASSUME NEW d \in Id, ExpireOne(d) PROVE house' = house \/ MarkReturned(d, "expired")
    BY <1>14 DEF ExpireOne, storeVars
  <1>15. CASE \E p \in Player : Types(p)
    BY <1>3, <1>8, <1>9, <1>15
  <1>16. CASE \E p \in Player : GoesOn(p)
    <2>1. PICK p \in Player : GoesOn(p)
      BY <1>16
    <2>2. CASE NextID(p)
      BY <1>5, <2>2
    <2>3. CASE ListAdd(p)
      BY <1>6, <2>3
    <2>4. CASE Cancel(p)
      BY <1>2, <1>10, <2>4
    <2>5. CASE BuyoutSell(p)
      BY <1>4, <1>11, <2>5
    <2>6. CASE \E d \in Id : Confirm(p, d)
      BY <1>7, <2>6
    <2> QED BY <1>12, <2>1, <2>2, <2>3, <2>4, <2>5, <2>6
  <1>17. CASE \E d \in Id : ExpireOne(d)
    BY <1>2, <1>14, <1>17
  <1> QED BY <1>13, <1>15, <1>16, <1>17 DEF Next, Ticks

(* Who is about to list under a number was so before, or has just drawn it. *)
LEMMA NewAdders ==
  ASSUME TypeInv, [Next]_vars, NEW q \in Player, At(q, "add")'
  PROVE  \/ At(q, "add") /\ cmd'[q].id = cmd[q].id
         \/ cmd'[q].id = house.seq + 1
  <1>0. cmd \in [Player -> CmdType] /\ cmd'[q].at = "add"
    BY DEF TypeInv, AuctionTypeOK, CmdType, At
  <1> DEFINE Same == At(q, "add") /\ cmd'[q].id = cmd[q].id
  <1>1. ASSUME UNCHANGED cmd PROVE Same
    BY <1>0, <1>1 DEF At
  <1>2. ASSUME NEW p \in Player, Done(p) \/ \E at : at # "add" /\ Do(p, at) PROVE Same
    BY <1>0, <1>2 DEF Done, Do, At, Idle, CmdType
  <1>3. ASSUME NEW p \in Player, NEW c, c.at # "add", cmd' = [cmd EXCEPT ![p] = c] PROVE Same
    BY <1>0, <1>3 DEF At
  <1>4. ASSUME NEW p \in Player, Types(p) PROVE Same
    <2>1. /\ \A i, n : [Idle EXCEPT !.at = "number", !.item = i, !.sum = n].at # "add"
          /\ \A d : [Idle EXCEPT !.at = "cancel", !.id = d].at # "add"
          /\ \A d, n : [Idle EXCEPT !.at = "charge", !.id = d, !.sum = n].at # "add"
          /\ \A n : [Idle EXCEPT !.at = "pay", !.sum = n].at # "add"
      BY DEF Idle
    <2>2. \/ \E c : c.at # "add" /\ cmd' = [cmd EXCEPT ![p] = c]
          \/ UNCHANGED cmd
          \/ Do(p, "look")
      BY <1>4, <2>1 DEF Types, ListBegin, CancelLook, BuyoutLook, AdminRefund, ClaimCoin
    <2> QED BY <1>1, <1>2, <1>3, <2>2
  <1>5. ASSUME NEW p \in Player, GoesOn(p) PROVE Same \/ cmd'[q].id = house.seq + 1
    <2>1. CASE NextID(p)
      BY <1>0, <2>1 DEF NextID, Done, At, Idle, CmdType
    <2>2. CASE ListAdd(p) \/ ListTake(p) \/ Cancel(p) \/ BuyoutCharge(p) \/ BuyoutSell(p)
               \/ BuyoutRefund(p) \/ CollectEnd(p)
      <3>1. Done(p) \/ \E at : at # "add" /\ Do(p, at)
        BY <2>2 DEF ListAdd, ListTake, Cancel, BuyoutCharge, BuyoutSell, BuyoutRefund, CollectEnd
      <3> QED BY <1>2, <3>1
    <2>4. CASE CollectPay(p) \/ PendingPickups(p)
      <3>1. /\ [Idle EXCEPT !.at = "look"].at # "add"
            /\ \A t : [Idle EXCEPT !.at = "pick", !.todo = t].at # "add"
        BY DEF Idle
      <3> QED BY <1>3, <2>4, <3>1 DEF CollectPay, PendingPickups
    <2>5. CASE Keep(p)
      BY <1>0, <2>5 DEF Keep, At, CmdType
    <2>6. CASE \E d \in Id : HoldBack(p, d) \/ Confirm(p, d)
      BY <1>0, <2>6 DEF HoldBack, Confirm, At, CmdType
    <2> QED BY <1>5, <2>1, <2>2, <2>4, <2>5, <2>6 DEF GoesOn
  <1>6. ~Crash
    BY <1>0 DEF Crash, Idle
  <1>7. CASE \/ \E p \in Player : Autosave(p) \/ UseUp(p)
             \/ Ticks \/ (\E d \in Id : Lapse(d)) \/ UNCHANGED vars
    BY <1>1, <1>7 DEF Autosave, UseUp, Ticks, SweepLook, ExpireOne, Lapse, vars
  <1> QED BY <1>4, <1>5, <1>6, <1>7 DEF Next

(* A listing somebody has seen is not listed again: it stays as it is, or
   leaves the market, and one that is being collected stays or is gone. *)
LEMMA SeenStays ==
  ASSUME TypeInv, house = file, [Next]_vars, \A what : ~Wrong(what), NEW d, Seen(d)
  PROVE  /\ Seen(d)'
         /\ d \in Active' => d \in Active /\ Lot(d)' = Lot(d)
         /\ Collecting(d) /\ d \notin Active => Lot(d)' \in {Lot(d), NoLot}
  <1>0. house \in HouseType /\ d \in Id /\ d <= house.seq /\ house.seq \in Nat
    BY DEF TypeInv, AuctionTypeOK, Seen, HouseType
  <1>1. d \in Nat /\ d < house.seq + 1
    BY <1>0 DEF Id
  <1>2. \A q \in Player : At(q, "add") => cmd[q].id # d
    BY DEF Seen
  <1>3. d <= house'.seq
    <2>1. house'.seq = house.seq \/ house'.seq = house.seq + 1
      BY LotsMove DEF LotBecomes
    <2> QED BY <1>0, <1>1, <2>1
  <1>4. Seen(d)'
    BY <1>0, <1>1, <1>2, <1>3, NewAdders DEF Seen
  <1>5. house'.lot = house.lot \/ \E e, l : LotBecomes(e, l)
    BY LotsMove
  <1>6. ASSUME d \in Active', ~(d \in Active /\ Lot(d)' = Lot(d)) PROVE FALSE
    <2>1. house'.lot[d].st = "active" /\ house'.lot[d] # house.lot[d]
      BY <1>0, <1>6 DEF Active, Lot
    <2>2. ~\E e, l : l.st # "active" /\ LotBecomes(e, l)
      BY <1>0, <2>1 DEF LotBecomes, HouseType
    <2>3. ~\E e : LotBecomes(e, NoLot)
      BY <2>2 DEF NoLot
    <2>4. ~\E p \in Player : \E l : At(p, "add") /\ LotBecomes(cmd[p].id, l)
      BY <1>0, <1>2, <2>1 DEF LotBecomes, HouseType
    <2>5. house'.lot # house.lot
      BY <2>1
    <2>6. \A l : l.st = "cancelled" => l.st # "active"
      OBVIOUS
    <2> QED BY <2>2, <2>3, <2>4, <2>5, <2>6, LotsMove
  <1>7. ASSUME Collecting(d), d \notin Active PROVE Lot(d)' \in {Lot(d), NoLot}
    BY <1>0, <1>2, <1>7, LotsMove DEF LotBecomes, Active, Lot, HouseType
  <1> QED BY <1>4, <1>6, <1>7

(* What a verb has seen holds on while it does nothing, or forgets some. *)
LEMMA FitsStay ==
  ASSUME MarketInv, [Next]_vars, faults' = 0, NEW q \in Player,
         cmd'[q].todo \subseteq cmd[q].todo,
         cmd'[q].at \in {"number", "add"} =>
           /\ cmd[q].at \in {"number", "add"} /\ cmd'[q].item \in bag'[q]
           /\ cmd'[q].sum = cmd[q].sum,
         cmd'[q].at \in {"charge", "sell"} =>
           /\ cmd[q].at \in {"charge", "sell"}
           /\ cmd'[q].id = cmd[q].id /\ cmd'[q].sum = cmd[q].sum
  PROVE  ListsFit(q)' /\ BuysFit(q)' /\ PicksFit(q)'
  <1>0. /\ TypeInv /\ house = file /\ ListsFit(q) /\ BuysFit(q) /\ PicksFit(q)
        /\ \A what : ~Wrong(what)
    BY MarketParts, NothingWrong DEF MarketFits
  <1>1. ListsFit(q)'
    BY <1>0 DEF ListsFit
  <1>2. BuysFit(q)'
    BY <1>0, SeenStays DEF BuysFit
  <1>3. PicksFit(q)'
    <2> SUFFICES ASSUME NEW d \in cmd'[q].todo
                 PROVE  /\ Seen(d)' /\ d \notin Active'
                        /\ Lot(d)'.st # "none" => Lot(d)'.collector = q
      BY DEF PicksFit
    <2>1. d \in cmd[q].todo
      OBVIOUS
    <2>2. Seen(d) /\ d \notin Active /\ (Lot(d).st # "none" => Lot(d).collector = q) /\ Collecting(d)
      BY <1>0, <2>1 DEF PicksFit, Collecting
    <2>3. Seen(d)' /\ d \notin Active' /\ Lot(d)' \in {Lot(d), NoLot}
      BY <1>0, <2>2, SeenStays
    <2> QED BY <2>2, <2>3 DEF NoLot
  <1> QED BY <1>1, <1>2, <1>3

(* The same for everybody, when one player's verb goes on. *)
LEMMA OthersFit ==
  ASSUME MarketInv, [Next]_vars, faults' = 0, NEW p \in Player,
         \A q \in Player \ {p} : cmd'[q] = cmd[q] /\ bag'[q] = bag[q],
         ListsFit(p)' /\ BuysFit(p)' /\ PicksFit(p)'
  PROVE  MarketFits'
  <1>0. TypeInv /\ house = file /\ \A q \in Player : ListsFit(q)
    BY MarketParts, NothingWrong DEF MarketFits
  <1>1. house' = file'
    BY <1>0, NothingWrong
  <1>2. ASSUME NEW q \in Player \ {p} PROVE ListsFit(q)' /\ BuysFit(q)' /\ PicksFit(q)'
    <2>1. cmd'[q].at \in {"number", "add"} => cmd'[q].item \in bag'[q]
      BY <1>0 DEF ListsFit
    <2> QED BY <2>1, FitsStay
  <1> QED BY <1>1, <1>2 DEF MarketFits

LEMMA ForgetFits ==
  ASSUME MarketInv, [Next]_vars, faults' = 0, NEW p \in Player,
         \A q \in Player \ {p} : cmd'[q] = cmd[q] /\ bag'[q] = bag[q],
         cmd'[p].todo \subseteq cmd[p].todo,
         cmd'[p].at \in {"number", "add"} =>
           /\ cmd[p].at \in {"number", "add"} /\ cmd'[p].item = cmd[p].item
           /\ cmd'[p].sum = cmd[p].sum /\ bag'[p] = bag[p],
         cmd'[p].at \in {"charge", "sell"} =>
           /\ cmd[p].at \in {"charge", "sell"}
           /\ cmd'[p].id = cmd[p].id /\ cmd'[p].sum = cmd[p].sum
  PROVE  MarketFits'
  <1>1. ListsFit(p)
    BY MarketParts, NothingWrong DEF MarketFits
  <1>2. cmd'[p].at \in {"number", "add"} => cmd'[p].item \in bag'[p]
    BY <1>1 DEF ListsFit
  <1> QED BY <1>2, FitsStay, OthersFit

LEMMA StepMarketFits == MarketInv /\ [Next]_vars => MarketFits'
  <1> SUFFICES ASSUME MarketInv, [Next]_vars, faults' = 0 PROVE MarketFits'
    BY DEF MarketFits
  <1>0. /\ cmd \in [Player -> CmdType] /\ house \in HouseType /\ bag \in [Player -> SUBSET Item]
        /\ TypeInv /\ IdsFit /\ house = file /\ faults = 0 /\ \A what : ~Wrong(what)
    BY MarketParts, NothingWrong DEF MarketFits
  <1>1. CASE UNCHANGED <<cmd, bag>>
    <2>1. \A q \in Player : ListsFit(q)
      BY MarketParts, <1>0 DEF MarketFits
    <2>2. ASSUME NEW q \in Player PROVE ListsFit(q)' /\ BuysFit(q)' /\ PicksFit(q)'
      <3>1. cmd'[q].at \in {"number", "add"} => cmd'[q].item \in bag'[q]
        BY <1>1, <2>1 DEF ListsFit
      <3> QED BY <1>1, <3>1, FitsStay
    <2> QED BY <1>0, <2>2, NothingWrong DEF MarketFits
  <1>2. ASSUME NEW p \in Player, UNCHANGED bag,
               Done(p) \/ \E at \in {"look", "take", "refund"} : Do(p, at)
        PROVE  MarketFits'
    <2>1. \A q \in Player \ {p} : cmd'[q] = cmd[q]
      BY <1>0, <1>2 DEF Done, Do
    <2>2. cmd'[p].todo \subseteq cmd[p].todo /\ cmd'[p].at \in {"idle", "look", "take", "refund"}
      BY <1>0, <1>2 DEF Done, Do, Idle, CmdType
    <2> QED BY <1>2, <2>1, <2>2, ForgetFits
  <1>3. ASSUME NEW p \in Player, NEW c, UNCHANGED bag, cmd' = [cmd EXCEPT ![p] = c], c.todo = {},
               c.at \in {"cancel", "pay", "look"}
        PROVE  MarketFits'
    <2>1. cmd'[p] = c /\ \A q \in Player \ {p} : cmd'[q] = cmd[q]
      BY <1>0, <1>3
    <2> QED BY <1>3, <2>1, ForgetFits
  <1>4. ASSUME NEW p \in Player, Types(p) PROVE MarketFits'
    <2>1. ASSUME NEW i \in Item, NEW n \in Price, ListBegin(p, i, n) PROVE MarketFits'
      <3>1. /\ cmd'[p].at = "number" /\ cmd'[p].item = i /\ cmd'[p].sum = n /\ cmd'[p].todo = {}
            /\ \A q \in Player \ {p} : cmd'[q] = cmd[q]
        BY <1>0, <2>1 DEF ListBegin, Idle
      <3>2. i \in bag'[p] /\ bag' = bag
        BY <2>1 DEF ListBegin
      <3>3. ListsFit(p)' /\ BuysFit(p)' /\ PicksFit(p)'
        BY <3>1, <3>2 DEF ListsFit, BuysFit, PicksFit
      <3> QED BY <3>1, <3>2, <3>3, OthersFit
    <2>2. ASSUME NEW d \in Id, BuyoutLook(p, d) PROVE MarketFits'
      <3>1. /\ cmd'[p].at = "charge" /\ cmd'[p].id = d /\ cmd'[p].sum = Lot(d).price
            /\ cmd'[p].todo = {} /\ \A q \in Player \ {p} : cmd'[q] = cmd[q]
        BY <1>0, <2>2 DEF BuyoutLook, Idle
      <3>2. bag' = bag /\ house' = house /\ d \in Active /\ Lot(d).seller # p
        BY <2>2 DEF BuyoutLook, actorVars, storeVars
      <3>3. Seen(d)
        <4>1. ~(d > house.seq) /\ \A q \in Player : At(q, "add") => cmd[q].id # d
          BY <1>0, <3>2 DEF IdsFit, Active, Lot
        <4> QED BY <1>0, <4>1 DEF Seen, Id, HouseType
      <3>4. Seen(d)' /\ Lot(d)' = Lot(d)
        BY <1>0, <3>2, <3>3, SeenStays DEF Lot
      <3>5. ListsFit(p)' /\ BuysFit(p)' /\ PicksFit(p)'
        BY <3>1, <3>2, <3>4 DEF ListsFit, BuysFit, PicksFit
      <3> QED BY <3>1, <3>2, <3>5, OthersFit
    <2>3. ASSUME NEW d \in Id, CancelLook(p, d) PROVE MarketFits'
      <3>1. [Idle EXCEPT !.at = "cancel", !.id = d].todo = {}
            /\ [Idle EXCEPT !.at = "cancel", !.id = d].at = "cancel"
        BY DEF Idle
      <3> QED BY <1>3, <2>3, <3>1 DEF CancelLook, actorVars
    <2>4. ASSUME NEW d \in Id, AdminRefund(p, d) PROVE MarketFits'
      BY <1>1, <2>4 DEF AdminRefund, actorVars
    <2>5. CASE ClaimCoin(p)
      <3>1. \A n : /\ [Idle EXCEPT !.at = "pay", !.sum = n].todo = {}
                   /\ [Idle EXCEPT !.at = "pay", !.sum = n].at = "pay"
        BY DEF Idle
      <3> QED BY <1>2, <1>3, <2>5, <3>1 DEF ClaimCoin, actorVars
    <2> QED BY <1>4, <2>1, <2>2, <2>3, <2>4, <2>5 DEF Types
  <1>5. ASSUME NEW p \in Player, GoesOn(p) PROVE MarketFits'
    <2>1. CASE NextID(p)
      <3>1. /\ cmd'[p].todo \subseteq cmd[p].todo
            /\ cmd'[p].at \in {"idle", "add"} /\ cmd[p].at = "number"
            /\ cmd'[p].at = "add" => cmd'[p].item = cmd[p].item /\ cmd'[p].sum = cmd[p].sum
            /\ bag' = bag /\ \A q \in Player \ {p} : cmd'[q] = cmd[q]
        BY <1>0, <2>1 DEF NextID, Done, Idle, At, CmdType
      <3> QED BY <3>1, ForgetFits
    <2>2. CASE ListAdd(p)
      BY <1>2, <2>2 DEF ListAdd
    <2>3. CASE ListTake(p)
      <3>1. /\ cmd'[p] = Idle /\ \A q \in Player \ {p} : cmd'[q] = cmd[q] /\ bag'[q] = bag[q]
        BY <1>0, <2>3 DEF ListTake, Done
      <3> QED BY <3>1, ForgetFits DEF Idle
    <2>4. CASE Cancel(p) \/ BuyoutRefund(p) \/ CollectEnd(p)
      BY <1>2, <2>4 DEF Cancel, BuyoutRefund, CollectEnd, actorVars
    <2>5. CASE BuyoutSell(p)
      BY <1>2, <2>5 DEF BuyoutSell, actorVars
    <2>6. CASE BuyoutCharge(p)
      <3>1. /\ cmd'[p].todo \subseteq cmd[p].todo
            /\ cmd'[p].at \in {"idle", "sell"} /\ cmd[p].at = "charge"
            /\ cmd'[p].at = "sell" => cmd'[p].id = cmd[p].id /\ cmd'[p].sum = cmd[p].sum
            /\ bag' = bag /\ \A q \in Player \ {p} : cmd'[q] = cmd[q]
        BY <1>0, <2>6 DEF BuyoutCharge, Done, Do, Idle, At, CmdType
      <3> QED BY <3>1, ForgetFits
    <2>7. CASE CollectPay(p)
      <3>1. [Idle EXCEPT !.at = "look"].todo = {} /\ [Idle EXCEPT !.at = "look"].at = "look"
        BY DEF Idle
      <3> QED BY <1>3, <2>7, <3>1 DEF CollectPay
    <2>8. CASE PendingPickups(p)
      <3>1. /\ cmd'[p].at = "pick" /\ cmd'[p].todo = HeldForPickup(p)
            /\ \A q \in Player \ {p} : cmd'[q] = cmd[q]
        BY <1>0, <2>8 DEF PendingPickups, Idle
      <3>2. bag' = bag /\ house' = house
        BY <2>8 DEF PendingPickups, actorVars, storeVars
      <3>3. ASSUME NEW d \in HeldForPickup(p)
            PROVE  /\ Seen(d)' /\ d \notin Active'
                   /\ Lot(d)'.st # "none" => Lot(d)'.collector = p
        <4>1. d \in Id /\ house.lot[d].st # "none" /\ d \notin Active /\ Lot(d).collector = p
          BY DEF HeldForPickup, Active, Lot
        <4>2. ~(d > house.seq) /\ \A q \in Player : At(q, "add") => cmd[q].id # d
          BY <1>0, <4>1 DEF IdsFit
        <4>3. Seen(d)
          BY <1>0, <4>1, <4>2 DEF Seen, Id, HouseType
        <4> QED BY <1>0, <3>2, <4>1, <4>3, SeenStays DEF Lot, Active
      <3>4. ListsFit(p)' /\ BuysFit(p)' /\ PicksFit(p)'
        BY <3>1, <3>3 DEF ListsFit, BuysFit, PicksFit
      <3> QED BY <3>1, <3>2, <3>4, OthersFit
    <2>9. CASE Keep(p) \/ \E d \in Id : Confirm(p, d) \/ HoldBack(p, d)
      <3>1. /\ cmd'[p].todo \subseteq cmd[p].todo /\ cmd'[p].at \in {"keep", "pick"}
            /\ \A q \in Player \ {p} : cmd'[q] = cmd[q] /\ bag'[q] = bag[q]
        <4>1. CASE Keep(p)
          BY <1>0, <4>1 DEF Keep, At, CmdType
        <4>2. CASE \E d \in Id : Confirm(p, d)
          BY <1>0, <4>2 DEF Confirm, At, CmdType, actorVars
        <4>3. CASE \E d \in Id : HoldBack(p, d)
          BY <1>0, <4>3 DEF HoldBack, At, CmdType, actorVars
        <4> QED BY <2>9, <4>1, <4>2, <4>3
      <3> QED BY <3>1, ForgetFits
    <2> QED BY <1>5, <2>1, <2>2, <2>3, <2>4, <2>5, <2>6, <2>7, <2>8, <2>9 DEF GoesOn
  <1>6. CASE Crash
    <2>1. \A q \in Player : cmd'[q] = Idle
      BY <1>6 DEF Crash
    <2>2. \A q \in Player : ListsFit(q)' /\ BuysFit(q)' /\ PicksFit(q)'
      BY <2>1 DEF ListsFit, BuysFit, PicksFit, Idle
    <2> QED BY <1>0, <2>2, NothingWrong DEF MarketFits
  <1>7. CASE \/ \E p \in Player : Autosave(p) \/ UseUp(p)
             \/ Ticks \/ (\E d \in Id : Lapse(d)) \/ UNCHANGED vars
    BY <1>0, <1>1, <1>7 DEF Autosave, UseUp, Ticks, SweepLook, ExpireOne, Lapse, actorVars, vars
  <1> QED BY <1>4, <1>5, <1>6, <1>7 DEF Next

LEMMA StepMarketInv == MarketInv /\ [Next]_vars => MarketInv'
  BY StepOnceInv, StepMarketFits DEF MarketInv

(* A step in which one player's coin and items only change hands between his
   purse, his bag, the ledger and his verb is no step of the market. *)
LEMMA MarketStutters ==
  ASSUME NEW p \in Player, Carried(p)' = Carried(p), Wealth(p)' = Wealth(p),
         \A q \in Player \ {p} : /\ gold'[q] = gold[q] /\ bag'[q] = bag[q] /\ cmd'[q] = cmd[q]
                                 /\ house'.pending[q] = house.pending[q],
         \A d \in Id : DealOf(d)' = DealOf(d), faults' = faults, era' = era
  PROVE  UNCHANGED Market!vars
  <1>1. \A q \in Player \ {p} : Carried(q)' = Carried(q) /\ Wealth(q)' = Wealth(q)
    BY DEF Carried, Wealth, At
  <1> QED BY <1>1 DEF Market!vars

LEMMA MarketSame ==
  ASSUME \A q \in Player : /\ gold'[q] = gold[q] /\ bag'[q] = bag[q] /\ cmd'[q] = cmd[q]
                           /\ house'.pending[q] = house.pending[q],
         house'.lot = house.lot, taken' = taken, faults' = faults, era' = era
  PROVE  UNCHANGED Market!vars
  <1>1. \A q \in Player : Carried(q)' = Carried(q) /\ Wealth(q)' = Wealth(q)
    BY DEF Carried, Wealth, At
  <1>2. \A d \in Id : DealOf(d)' = DealOf(d)
    BY DEF DealOf, Lot
  <1> QED BY <1>1, <1>2 DEF Market!vars

(* A deal that changes its state and its owner. *)
Deal(st, i, n, s, o) == [st |-> st, item |-> i, price |-> n, seller |-> s, owner |-> o]

Dealt(z, st, o) == [z EXCEPT !.st = st, !.owner = o]

LEMMA DealChange ==
  ASSUME NEW st, NEW i, NEW n, NEW s, NEW o, NEW st2, NEW o2
  PROVE  Dealt(Deal(st, i, n, s, o), st2, o2) = Deal(st2, i, n, s, o2)
  <1>1. PICK w : w = [Deal(st, i, n, s, o) EXCEPT !.st = st2]
    OBVIOUS
  <1>2. w = Deal(st2, i, n, s, o)
    BY <1>1 DEF Deal
  <1>3. [w EXCEPT !.owner = o2] = Deal(st2, i, n, s, o2)
    BY <1>2 DEF Deal
  <1>4. Dealt(Deal(st, i, n, s, o), st2, o2) = [w EXCEPT !.owner = o2]
    BY <1>1, Zenon DEF Dealt
  <1> QED BY <1>3, <1>4

(* The steps of the market, in the words of the house. *)
LEMMA MarketLists ==
  ASSUME NEW p \in Player, NEW i \in Item, NEW d \in Id, NEW n \in Price,
         i \in Carried(p), DealOf(d) = Market!NoDeal, Wealth(p) >= Fee,
         Carried(p)' = Carried(p) \ {i}, Wealth(p)' = Wealth(p) - Fee,
         DealOf(d)' = [st |-> "offer", item |-> i, price |-> n, seller |-> p, owner |-> p],
         \A q \in Player \ {p} : Carried(q)' = Carried(q) /\ Wealth(q)' = Wealth(q),
         \A e \in Id \ {d} : DealOf(e)' = DealOf(e), faults' = faults, era' = era
  PROVE  Market!Next
  <1>1. Market!List(p, i, d, n)
    BY DEF Market!List
  <1> QED BY <1>1 DEF Market!Next

LEMMA MarketSells ==
  ASSUME NEW d \in Id, NEW b \in Player, NEW s \in Player, NEW n,
         NEW i, DealOf(d) = Deal("offer", i, n, s, s), b # s, Wealth(b) >= n,
         DealOf(d)' = Deal("sale", i, n, s, b),
         Wealth(b)' = Wealth(b) - n, Wealth(s)' = Wealth(s) + n - Cut(n),
         \A q \in Player \ {b, s} : Wealth(q)' = Wealth(q),
         \A q \in Player : Carried(q)' = Carried(q),
         \A e \in Id \ {d} : DealOf(e)' = DealOf(e), faults' = faults, era' = era
  PROVE  Market!Next
  <1>1. Market!Cut(n) = Cut(n)
    BY DEF Market!Cut, Cut
  <1>2. PICK z : z = DealOf(d)
    OBVIOUS
  <1>3. [z EXCEPT !.st = "sale", !.owner = b] = DealOf(d)'
    <2>1. z = Deal("offer", i, n, s, s)
      BY <1>2
    <2>2. Dealt(Deal("offer", i, n, s, s), "sale", b) = Deal("sale", i, n, s, b)
      BY DealChange
    <2> QED BY <2>1, <2>2, Zenon DEF Dealt
  <1>4. z.st = "offer" /\ z.seller = s /\ z.price = n
    BY <1>2 DEF Deal
  <1>5. Market!Sell(d, b)
    BY <1>1, <1>2, <1>3, <1>4 DEF Market!Sell
  <1> QED BY <1>5 DEF Market!Next

LEMMA MarketWithdraws ==
  ASSUME NEW d \in Id, DealOf(d).st = "offer", DealOf(d)' = [DealOf(d) EXCEPT !.st = "over"],
         \A q \in Player : Carried(q)' = Carried(q) /\ Wealth(q)' = Wealth(q),
         \A e \in Id \ {d} : DealOf(e)' = DealOf(e), faults' = faults, era' = era
  PROVE  Market!Next
  <1>1. Market!Withdraw(d)
    BY DEF Market!Withdraw
  <1> QED BY <1>1 DEF Market!Next

LEMMA MarketDelivers ==
  ASSUME NEW d \in Id, NEW p \in Player,
         DealOf(d).st \in {"sale", "over"}, DealOf(d).owner = p,
         Carried(p)' = Carried(p) \cup {DealOf(d).item},
         DealOf(d)' = [Market!NoDeal EXCEPT !.st = "gone"],
         \A q \in Player \ {p} : Carried(q)' = Carried(q),
         \A q \in Player : Wealth(q)' = Wealth(q),
         \A e \in Id \ {d} : DealOf(e)' = DealOf(e), faults' = faults, era' = era
  PROVE  Market!Next
  <1>1. Market!Deliver(d)
    BY DEF Market!Deliver
  <1> QED BY <1>1 DEF Market!Next

LEMMA MarketUndoes ==
  ASSUME NEW d \in Id, NEW b \in Player, NEW s \in Player, NEW n \in Nat,
         NEW i, DealOf(d) = Deal("sale", i, n, s, b), DealOf(d)' = Deal("over", i, n, s, s),
         Wealth(s) >= n - Cut(n),
         \A q \in Player : Wealth(q)' = Wealth(q) + (IF q = b THEN n ELSE 0)
                                                - (IF q = s THEN n - Cut(n) ELSE 0),
         \A q \in Player : Carried(q)' = Carried(q),
         \A e \in Id \ {d} : DealOf(e)' = DealOf(e), faults' = faults, era' = era
  PROVE  Market!Next
  <1>1. Market!Cut(n) = Cut(n)
    BY DEF Market!Cut, Cut
  <1>2. PICK z : z = DealOf(d)
    OBVIOUS
  <1>3. [z EXCEPT !.st = "over", !.owner = s] = DealOf(d)'
    <2>1. z = Deal("sale", i, n, s, b)
      BY <1>2
    <2>2. Dealt(Deal("sale", i, n, s, b), "over", s) = Deal("over", i, n, s, s)
      BY DealChange
    <2> QED BY <2>1, <2>2, Zenon DEF Dealt
  <1>4. z.st = "sale" /\ z.seller = s /\ z.owner = b /\ z.price = n
    BY <1>2 DEF Deal
  <1>5. Market!Undo(d)
    BY <1>1, <1>2, <1>3, <1>4 DEF Market!Undo
  <1> QED BY <1>5 DEF Market!Next

(* What a player has when his verb is not holding it for him. *)
LEMMA AtRest ==
  ASSUME NEW p \in Player
  PROVE  /\ cmd[p].at \notin {"take", "keep"} => Carried(p) = bag[p]
         /\ cmd[p].at \notin {"number", "add", "sell", "refund", "pay"} =>
              Wealth(p) = gold[p] + house.pending[p] + 0
         /\ cmd[p].at \in {"number", "add"} => Wealth(p) = gold[p] + house.pending[p] + Fee
         /\ cmd[p].at \in {"sell", "refund", "pay"} =>
              Wealth(p) = gold[p] + house.pending[p] + cmd[p].sum
  BY DEF Carried, Wealth, At

LEMMA SameDeal ==
  ASSUME NEW d \in Id, house'.lot[d] = house.lot[d], taken'[d] = taken[d]
  PROVE  DealOf(d)' = DealOf(d)
  BY DEF DealOf, Lot

LEMMA SamePlayer ==
  ASSUME NEW q \in Player, gold'[q] = gold[q], bag'[q] = bag[q], cmd'[q] = cmd[q],
         house'.pending[q] = house.pending[q]
  PROVE  Carried(q)' = Carried(q) /\ Wealth(q)' = Wealth(q)
  BY DEF Carried, Wealth, At

(* A verb that takes a step of which the market sees nothing: it moves the
   player's coin between his purse, his ledger and itself. *)
LEMMA VerbStutters ==
  ASSUME MarketInv, NEW p \in Player, NEW c, cmd' = [cmd EXCEPT ![p] = c], bag' = bag,
         cmd[p].at \notin {"take", "keep"}, c.at \notin {"take", "keep"},
         gold' = [gold EXCEPT ![p] = gold'[p]],
         house'.lot = house.lot,
         house'.pending = [house.pending EXCEPT ![p] = house'.pending[p]],
         Wealth(p)' = Wealth(p), taken' = taken, faults' = faults, era' = era
  PROVE  UNCHANGED Market!vars
  <1>0. /\ cmd \in [Player -> CmdType] /\ gold \in [Player -> Nat]
        /\ house.pending \in [Player -> Nat]
    BY MarketParts DEF HouseType
  <1>1. cmd'[p] = c /\ Carried(p)' = Carried(p)
    BY <1>0 DEF Carried, At
  <1>2. \A q \in Player \ {p} : /\ gold'[q] = gold[q] /\ bag'[q] = bag[q] /\ cmd'[q] = cmd[q]
                                /\ house'.pending[q] = house.pending[q]
    BY <1>0
  <1>3. \A d \in Id : DealOf(d)' = DealOf(d)
    BY SameDeal
  <1> QED BY <1>1, <1>2, <1>3, MarketStutters

LEMMA TypesMarket ==
  ASSUME MarketInv, faults' = 0, \A what : ~Wrong(what), faults = 0,
         NEW p \in Player, Types(p)
  PROVE  Market!Next \/ UNCHANGED Market!vars
  <1> USE AuctionAssumption
  <1>0. /\ TypeInv /\ cmd \in [Player -> CmdType] /\ house \in HouseType
        /\ gold \in [Player -> Nat] /\ house.pending \in [Player -> Nat]
        /\ Fee \in Nat /\ (\A h : ~NotWritten(h)) /\ (RolledBack => UNCHANGED storeVars)
    BY MarketParts, WritesDone DEF HouseType
  <1>1. ASSUME NEW i \in Item, NEW n \in Price, ListBegin(p, i, n) PROVE UNCHANGED Market!vars
    <2> DEFINE c == [Idle EXCEPT !.at = "number", !.item = i, !.sum = n]
    <2>1. /\ cmd[p].at = "idle" /\ cmd' = [cmd EXCEPT ![p] = c] /\ c.at = "number"
          /\ bag' = bag /\ house' = house /\ taken' = taken /\ era' = era
          /\ gold' = [gold EXCEPT ![p] = gold[p] - Fee]
      BY <1>1 DEF ListBegin, Debit, At, Idle, storeVars, timeVars, pastVars
    <2> HIDE DEF c
    <2>2. cmd'[p] = c
      BY <1>0, <2>1
    <2>3. Wealth(p) = gold[p] + house.pending[p] + 0
      BY <2>1 DEF Wealth, At
    <2>4. Wealth(p)' = gold'[p] + house.pending[p] + Fee
      BY <2>1, <2>2 DEF Wealth, At
    <2>5. gold'[p] = gold[p] - Fee /\ gold[p] \in Nat /\ house.pending[p] \in Nat
      BY <1>0, <2>1
    <2>6. Wealth(p)' = Wealth(p)
      BY <1>0, <2>3, <2>4, <2>5
    <2>7. house'.pending = [house.pending EXCEPT ![p] = house'.pending[p]]
      BY <1>0, <2>1
    <2> QED BY <2>1, <2>5, <2>6, <2>7, VerbStutters
  <1>2. ASSUME NEW d \in Id, CancelLook(p, d) \/ BuyoutLook(p, d) PROVE UNCHANGED Market!vars
    <2>1. /\ \A n : [Idle EXCEPT !.at = "charge", !.id = d, !.sum = n].at = "charge"
          /\ [Idle EXCEPT !.at = "cancel", !.id = d].at = "cancel"
      BY DEF Idle
    <2>2. PICK c : cmd' = [cmd EXCEPT ![p] = c] /\ c.at \in {"charge", "cancel"}
      BY <1>2, <2>1 DEF CancelLook, BuyoutLook
    <2>3. /\ cmd[p].at = "idle" /\ cmd'[p] = c /\ bag' = bag /\ gold' = gold /\ house' = house
          /\ taken' = taken /\ era' = era
      BY <1>0, <1>2, <2>2
         DEF CancelLook, BuyoutLook, At, actorVars, storeVars, timeVars, pastVars
    <2>4. Wealth(p)' = Wealth(p)
      BY <2>2, <2>3 DEF Wealth, At
    <2>5. /\ house'.pending = [house.pending EXCEPT ![p] = house'.pending[p]]
          /\ gold' = [gold EXCEPT ![p] = gold'[p]]
      BY <1>0, <2>3
    <2> QED BY <2>2, <2>3, <2>4, <2>5, VerbStutters
  <1>3. CASE ClaimCoin(p)
    <2>1. /\ cmd[p].at = "idle" /\ bag' = bag /\ gold' = gold /\ taken' = taken /\ era' = era
      BY <1>3 DEF ClaimCoin, At, actorVars, timeVars, pastVars
    <2>2. gold[p] \in Nat /\ house.pending[p] \in Nat
      BY <1>0
    <2>3. gold' = [gold EXCEPT ![p] = gold'[p]]
      BY <1>0, <2>1
    <2>4. Wealth(p) = gold[p] + house.pending[p] + 0
      BY <2>1 DEF Wealth, At
    <2>5. CASE UNCHANGED storeVars /\ Do(p, "look")
      <3>1. /\ cmd' = [cmd EXCEPT ![p] = [cmd[p] EXCEPT !.at = "look"]]
            /\ [cmd[p] EXCEPT !.at = "look"].at = "look" /\ house' = house
        BY <1>0, <2>5 DEF Do, storeVars, CmdType
      <3>2. cmd'[p].at = "look"
        BY <1>0, <3>1
      <3>3. Wealth(p)' = gold[p] + house.pending[p] + 0
        BY <2>1, <3>1, <3>2 DEF Wealth, At
      <3>4. house'.pending = [house.pending EXCEPT ![p] = house'.pending[p]]
        BY <1>0, <3>1
      <3> QED BY <2>1, <2>3, <2>4, <3>1, <3>3, <3>4, VerbStutters
    <2>6. CASE /\ Written([house EXCEPT !.pending[p] = 0])
               /\ cmd' = [cmd EXCEPT ![p] = [Idle EXCEPT !.at = "pay", !.sum = house.pending[p]]]
      <3> DEFINE c == [Idle EXCEPT !.at = "pay", !.sum = house.pending[p]]
      <3>1. c.at = "pay" /\ c.sum = house.pending[p]
        BY DEF Idle
      <3>2. /\ house'.lot = house.lot
            /\ house'.pending = [house.pending EXCEPT ![p] = 0]
        BY <1>0, <2>6 DEF Written, HouseType
      <3>3. cmd' = [cmd EXCEPT ![p] = c] /\ cmd'[p] = c
        BY <1>0, <2>6
      <3> HIDE DEF c
      <3>4. house'.pending[p] = 0
        BY <1>0, <3>2
      <3>5. Wealth(p)' = gold[p] + 0 + house.pending[p]
        BY <2>1, <3>1, <3>3, <3>4 DEF Wealth, At
      <3>6. Wealth(p)' = Wealth(p)
        BY <2>2, <2>4, <3>5
      <3> QED BY <2>1, <2>3, <3>1, <3>2, <3>3, <3>4, <3>6, VerbStutters
    <2> QED BY <1>0, <1>3, <2>5, <2>6 DEF ClaimCoin
  <1>4. ASSUME NEW d \in Id, AdminRefund(p, d) PROVE Market!Next
    <2> DEFINE l == Lot(d)
               b == l.buyer
               s == l.seller
               n == l.price
               back == n - Cut(n)
               m == [l EXCEPT !.st = "cancelled", !.collector = s]
    <2>1. /\ l.st = "sold" /\ house.pending[s] >= back
          /\ UNCHANGED <<bag, gold, cmd, taken, era>>
          /\ house' = [house EXCEPT !.lot[d] = m, !.pending = Shifted(s, back, b, n)]
      BY <1>0, <1>4 DEF AdminRefund, Written, actorVars, timeVars, pastVars
    <2>2. b \in Player /\ s \in Player /\ n \in Nat /\ l \in LotType
      BY <1>0, <2>1 DEF TypeInv, LotsFit, LotFits, Lot, HouseType, LotType
    <2>3. Cut(n) \in 0..n
      BY <2>2, CutBounds
    <2>4. m.st = "cancelled" /\ m.seller = s /\ m.item = l.item /\ m.price = n
      BY <2>2 DEF LotType
    <2> HIDE DEF m
    <2>5. /\ house'.lot[d] = m /\ (\A e \in Id \ {d} : house'.lot[e] = house.lot[e])
          /\ house'.pending = Shifted(s, back, b, n)
      BY <1>0, <2>1 DEF HouseType
    <2>6. DealOf(d) = Deal("sale", l.item, n, s, b)
      BY <2>1 DEF DealOf, Deal
    <2>7. DealOf(d)' = Deal("over", l.item, n, s, s)
      BY <2>4, <2>5 DEF DealOf, Lot, Deal
    <2>8. \A e \in Id \ {d} : DealOf(e)' = DealOf(e)
      BY <2>1, <2>5, SameDeal
    <2>9. \A q \in Player : Carried(q)' = Carried(q)
      BY <2>1 DEF Carried, At
    <2>10. ASSUME NEW q \in Player
           PROVE  Wealth(q)' = Wealth(q) + (IF q = b THEN n ELSE 0) - (IF q = s THEN back ELSE 0)
      <3> DEFINE w == CASE At(q, "number") \/ At(q, "add") -> Fee
                        [] At(q, "sell") \/ At(q, "refund") \/ At(q, "pay") -> cmd[q].sum
                        [] OTHER -> 0
      <3>1. w \in Nat
        BY <1>0 DEF CmdType
      <3>2. Wealth(q) = gold[q] + house.pending[q] + w
        BY DEF Wealth
      <3>3. Wealth(q)' = gold[q] + house'.pending[q] + w
        BY <2>1 DEF Wealth, At
      <3> HIDE DEF w
      <3>4. house'.pending[q] = house.pending[q] - (IF q = s THEN back ELSE 0)
                                  + (IF q = b THEN n ELSE 0)
        BY <2>5 DEF Shifted
      <3>5. gold[q] \in Nat /\ house.pending[q] \in Nat /\ n \in Nat /\ Cut(n) \in Nat
        BY <1>0, <2>2, <2>3
      <3> HIDE DEF l, s, b, n
      <3> QED BY <3>1, <3>2, <3>3, <3>4, <3>5
    <2>11. Wealth(s) >= back
      <3>1. PICK w \in Nat : Wealth(s) = gold[s] + house.pending[s] + w
        BY <1>0, <2>2 DEF Wealth, CmdType
      <3>2. gold[s] \in Nat /\ house.pending[s] \in Nat /\ back \in Nat
        BY <1>0, <2>2, <2>3
      <3> HIDE DEF back, s
      <3> QED BY <2>1, <3>1, <3>2
    <2> HIDE DEF l, s, b, n
    <2>12. /\ \A q \in Player : Wealth(q)' = Wealth(q) + (IF q = b THEN n ELSE 0)
                                                     - (IF q = s THEN n - Cut(n) ELSE 0)
           /\ Wealth(s) >= n - Cut(n)
      BY <2>10, <2>11
    <2>13. era' = era /\ faults' = faults
      BY <2>1
    <2> HIDE DEF back
    <2> QED BY <2>2, <2>6, <2>7, <2>8, <2>9, <2>12, <2>13, MarketUndoes
  <1> QED BY <1>1, <1>2, <1>3, <1>4 DEF Types

(* A listing that goes back to its seller is an offer withdrawn. *)
LEMMA ReturnMarket ==
  ASSUME MarketInv, \A what : ~Wrong(what), faults' = faults, era' = era, taken' = taken,
         NEW d \in Id, NEW st \in {"expired", "cancelled"}, MarkReturned(d, st),
         \A q \in Player : Carried(q)' = Carried(q),
         \A q \in Player : house'.pending[q] = house.pending[q] => Wealth(q)' = Wealth(q)
  PROVE  Market!Next
  <1> DEFINE l == Lot(d)
             m == [l EXCEPT !.st = st, !.collector = l.seller]
  <1>1. house \in HouseType /\ \A h : ~NotWritten(h)
    BY MarketParts, WritesDone
  <1>2. house' = With(d, m) /\ d \in Active /\ l \in LotType
    BY <1>1 DEF MarkReturned, Written, HouseType, Lot
  <1>3. m.st = st /\ m.seller = l.seller /\ m.item = l.item /\ m.price = l.price
    BY <1>2 DEF LotType
  <1> HIDE DEF m
  <1>4. /\ house'.lot[d] = m /\ (\A e \in Id \ {d} : house'.lot[e] = house.lot[e])
        /\ house'.pending = house.pending
    BY <1>1, <1>2 DEF With, HouseType
  <1>5. DealOf(d) = Deal("offer", l.item, l.price, l.seller, l.seller)
    BY <1>2 DEF DealOf, Deal, Active
  <1>6. DealOf(d)' = Deal("over", l.item, l.price, l.seller, l.seller)
    BY <1>3, <1>4 DEF DealOf, Deal, Lot
  <1>7. DealOf(d).st = "offer" /\ DealOf(d)' = [DealOf(d) EXCEPT !.st = "over"]
    BY <1>5, <1>6 DEF Deal
  <1>8. \A e \in Id \ {d} : DealOf(e)' = DealOf(e)
    BY <1>4, SameDeal
  <1>9. \A q \in Player : Carried(q)' = Carried(q) /\ Wealth(q)' = Wealth(q)
    BY <1>4
  <1> HIDE DEF l
  <1> QED BY <1>7, <1>8, <1>9, MarketWithdraws

LEMMA ListMarket ==
  ASSUME MarketInv, faults' = 0, faults = 0, \A what : ~Wrong(what), NEW p \in Player, ListAdd(p)
  PROVE  Market!Next
  <1> USE AuctionAssumption
  <1>p. PICK i, n, d : i = cmd[p].item /\ n = cmd[p].sum /\ d = cmd[p].id
    OBVIOUS
  <1> DEFINE l == [NoLot EXCEPT !.st = "active", !.seller = p, !.item = i, !.price = n]
  <1>0. /\ cmd \in [Player -> CmdType] /\ house \in HouseType /\ TypeInv /\ IdsFit
        /\ gold \in [Player -> Nat] /\ house.pending \in [Player -> Nat] /\ Fee \in Nat
        /\ bag \in [Player -> SUBSET Item] /\ ListsFit(p)
    BY MarketParts DEF HouseType, MarketFits
  <1>1. /\ cmd[p].at = "add" /\ house' = With(d, l) /\ cmd' = [cmd EXCEPT ![p].at = "take"]
        /\ UNCHANGED <<bag, gold, taken, era>>
    BY <1>p, WritesDone DEF ListAdd, Written, At, Do, timeVars
  <1>2. /\ d \in Id /\ house.lot[d].st = "none" /\ taken[d] = 0
    BY <1>0, <1>1, <1>p DEF IdsFit, At
  <1>3. i \in Item /\ n \in Price /\ i \in bag[p]
    BY <1>0, <1>1, <1>p DEF ListsFit, TypeInv, VerbsFit
  <1>4. house.lot[d] = NoLot
    BY <1>0, <1>2 DEF TypeInv, LotsFit, LotFits
  <1>5. l.st = "active" /\ l.seller = p /\ l.item = i /\ l.price = n
    BY DEF NoLot
  <1>6. /\ cmd'[p].at = "take" /\ cmd'[p].item = i
        /\ \A q \in Player \ {p} : cmd'[q] = cmd[q]
    BY <1>0, <1>1, <1>p DEF CmdType
  <1> HIDE DEF l
  <1>7. /\ house'.lot[d] = l /\ (\A e \in Id \ {d} : house'.lot[e] = house.lot[e])
        /\ house'.pending = house.pending
    BY <1>0, <1>1, <1>2 DEF With, HouseType
  <1>8. DealOf(d) = Market!NoDeal
    BY <1>2, <1>4 DEF DealOf, Market!NoDeal, Lot, NoLot
  <1>9. DealOf(d)' = [st |-> "offer", item |-> i, price |-> n, seller |-> p, owner |-> p]
    BY <1>5, <1>7 DEF DealOf, Lot
  <1>10. Wealth(p) = gold[p] + house.pending[p] + Fee /\ Carried(p) = bag[p]
    BY <1>1 DEF Wealth, Carried, At
  <1>11. Wealth(p)' = gold[p] + house.pending[p] + 0 /\ Carried(p)' = bag[p] \ {i}
    BY <1>1, <1>6, <1>7 DEF Wealth, Carried, At
  <1>12. gold[p] \in Nat /\ house.pending[p] \in Nat
    BY <1>0
  <1>13. \A q \in Player \ {p} : Carried(q)' = Carried(q) /\ Wealth(q)' = Wealth(q)
    BY <1>1, <1>6, <1>7, SamePlayer
  <1>14. \A e \in Id \ {d} : DealOf(e)' = DealOf(e)
    BY <1>1, <1>7, SameDeal
  <1>15. Wealth(p) >= Fee /\ Wealth(p)' = Wealth(p) - Fee
    BY <1>0, <1>10, <1>11, <1>12
  <1>16. era' = era /\ faults' = faults
    BY <1>1
  <1>17. i \in Carried(p) /\ Carried(p)' = Carried(p) \ {i}
    BY <1>3, <1>10, <1>11
  <1> QED BY <1>2, <1>3, <1>8, <1>9, <1>13, <1>14, <1>15, <1>16, <1>17, MarketLists

(* The commit point: the item and the coin change hands in one step. *)
LEMMA SellMarket ==
  ASSUME MarketInv, faults' = 0, faults = 0, \A what : ~Wrong(what),
         NEW p \in Player, At(p, "sell"), cmd[p].id \in Active, Written(Sold(p, cmd[p].id)),
         Done(p), UNCHANGED <<bag, gold, taken, era>>
  PROVE  Market!Next
  <1>p. PICK d, l, s, n : d = cmd[p].id /\ l = Lot(d) /\ s = l.seller /\ n = l.price
    OBVIOUS
  <1> DEFINE m == [l EXCEPT !.st = "sold", !.buyer = p, !.collector = p]
  <1>0. /\ cmd \in [Player -> CmdType] /\ house \in HouseType /\ TypeInv /\ BuysFit(p)
        /\ gold \in [Player -> Nat] /\ house.pending \in [Player -> Nat]
    BY MarketParts DEF HouseType, MarketFits
  <1>1. /\ d \in Id /\ l.st = "active" /\ s # p /\ cmd[p].sum = n
    BY <1>0, <1>p DEF BuysFit, At, Active, Lot
  <1>2. l \in LotType /\ s \in Player /\ n \in Nat
    BY <1>0, <1>1, <1>p DEF TypeInv, LotsFit, LotFits, Lot, HouseType, LotType
  <1>3. Cut(n) \in 0..n
    BY <1>2, CutBounds
  <1>4. m.st = "sold" /\ m.seller = s /\ m.item = l.item /\ m.price = n /\ m.buyer = p
    BY <1>2, <1>p DEF LotType
  <1>5. house' = [house EXCEPT !.lot[d] = m,
                               !.pending[s] = house.pending[s] + (n - Cut(n))]
    <2>1. house' = Sold(p, d)
      BY <1>p DEF Written
    <2> QED BY <2>1, <1>p, <1>0, <1>2 DEF Sold, HouseType
  <1> HIDE DEF m
  <1>6. /\ house'.lot[d] = m /\ (\A e \in Id \ {d} : house'.lot[e] = house.lot[e])
        /\ house'.pending[s] = house.pending[s] + (n - Cut(n))
        /\ \A q \in Player \ {s} : house'.pending[q] = house.pending[q]
    BY <1>0, <1>1, <1>2, <1>5 DEF HouseType
  <1>7. cmd'[p].at = "idle" /\ \A q \in Player \ {p} : cmd'[q] = cmd[q]
    BY <1>0 DEF Done, Idle
  <1>8. DealOf(d) = Deal("offer", l.item, n, s, s)
    BY <1>1, <1>p DEF DealOf, Deal
  <1>9. DealOf(d)' = Deal("sale", l.item, n, s, p)
    BY <1>4, <1>6, <1>p DEF DealOf, Deal, Lot
  <1>10. Wealth(p) = gold[p] + house.pending[p] + n
    BY <1>1 DEF Wealth, At
  <1>11. Wealth(p)' = gold[p] + house.pending[p] + 0
    BY <1>1, <1>2, <1>6, <1>7 DEF Wealth, At
  <1>12. gold[p] \in Nat /\ house.pending[p] \in Nat
    BY <1>0
  <1>13. Wealth(s)' = Wealth(s) + n - Cut(n)
    <2> DEFINE w == CASE At(s, "number") \/ At(s, "add") -> Fee
                      [] At(s, "sell") \/ At(s, "refund") \/ At(s, "pay") -> cmd[s].sum
                      [] OTHER -> 0
    <2>1. w \in Nat
      BY <1>0, <1>2, AuctionAssumption DEF CmdType
    <2>2. Wealth(s) = gold[s] + house.pending[s] + w
      BY DEF Wealth
    <2>3. Wealth(s)' = gold[s] + house'.pending[s] + w
      BY <1>1, <1>2, <1>7 DEF Wealth, At
    <2> HIDE DEF w
    <2>4. gold[s] \in Nat /\ house.pending[s] \in Nat
      BY <1>0, <1>2
    <2> QED BY <1>2, <1>3, <1>6, <2>1, <2>2, <2>3, <2>4
  <1>14. \A q \in Player \ {p, s} : Wealth(q)' = Wealth(q)
    BY <1>6, <1>7, SamePlayer
  <1>15. \A q \in Player : Carried(q)' = Carried(q)
    <2>1. Carried(p) = bag[p] /\ Carried(p)' = bag[p]
      BY <1>7 DEF Carried, At
    <2>2. \A q \in Player \ {p} : Carried(q)' = Carried(q)
      BY <1>7 DEF Carried, At
    <2> QED BY <2>1, <2>2
  <1>16. \A e \in Id \ {d} : DealOf(e)' = DealOf(e)
    BY <1>6, SameDeal
  <1>17. Wealth(p) >= n /\ Wealth(p)' = Wealth(p) - n
    BY <1>2, <1>10, <1>11, <1>12
  <1> QED BY <1>1, <1>2, <1>8, <1>9, <1>13, <1>14, <1>15, <1>16, <1>17, MarketSells

(* What is collected goes to who is entitled to it. *)
LEMMA DeliverMarket ==
  ASSUME MarketInv, faults' = 0, faults = 0, \A what : ~Wrong(what),
         NEW p \in Player, NEW d \in Id, Confirm(p, d)
  PROVE  Market!Next \/ UNCHANGED Market!vars
  <1>0. /\ cmd \in [Player -> CmdType] /\ house \in HouseType /\ TypeInv /\ PicksFit(p)
        /\ house.pending \in [Player -> Nat] /\ taken \in [Id -> Nat]
        /\ \A h : ~NotWritten(h)
    BY MarketParts, WritesDone DEF HouseType, MarketFits
  <1>1. /\ cmd[p].at = "pick" /\ d \in cmd[p].todo /\ UNCHANGED <<bag, gold, era>>
    BY DEF Confirm, At, actorVars, timeVars
  <1>2. \A q \in Player \ {p} : cmd'[q] = cmd[q]
    BY <1>0 DEF Confirm
  <1>3. CASE /\ UNCHANGED storeVars /\ UNCHANGED pastVars
             /\ cmd' = [cmd EXCEPT ![p].todo = @ \ {d}]
    <2>1. cmd'[p].at = "pick" /\ house' = house /\ taken' = taken
      BY <1>0, <1>1, <1>3 DEF CmdType, storeVars, pastVars
    <2>2. Carried(p)' = Carried(p) /\ Wealth(p)' = Wealth(p)
      BY <1>1, <2>1 DEF Carried, Wealth, At
    <2>3. \A e \in Id : DealOf(e)' = DealOf(e)
      BY <2>1, SameDeal
    <2>4. era' = era /\ faults' = faults
      BY <1>1
    <2> QED BY <1>1, <1>2, <2>1, <2>2, <2>3, <2>4, MarketStutters
  <1>4. CASE /\ Lot(d).st # "none" /\ Collected(d)
             /\ cmd' = [[cmd EXCEPT ![p].todo = @ \ {d}] EXCEPT ![p].at = "keep",
                                                                 ![p].item = Lot(d).item]
             /\ taken' = [taken EXCEPT ![d] = @ + 1]
    <2> DEFINE l == Lot(d)
    <2>1. /\ cmd'[p].at = "keep" /\ cmd'[p].item = l.item
      BY <1>0, <1>4 DEF CmdType
    <2>2. /\ house' = With(d, NoLot) /\ taken'[d] > 0
          /\ \A e \in Id \ {d} : taken'[e] = taken[e]
      BY <1>0, <1>4 DEF Collected, Written
    <2>3. /\ house'.lot[d] = NoLot /\ (\A e \in Id \ {d} : house'.lot[e] = house.lot[e])
          /\ house'.pending = house.pending
      BY <1>0, <2>2 DEF With, HouseType
    <2>4. l.st # "active" /\ l.collector = p /\ l.st \in Status /\ LotFits(l)
      BY <1>0, <1>1, <1>4 DEF PicksFit, Active, Lot, HouseType, LotType, TypeInv, LotsFit
    <2>5. \/ l.st = "sold" /\ l.buyer = p
          \/ l.st \in {"expired", "cancelled"} /\ l.seller = p
      BY <1>4, <2>4 DEF Status, LotFits
    <2>6. DealOf(d).st \in {"sale", "over"} /\ DealOf(d).owner = p /\ DealOf(d).item = l.item
      BY <2>5 DEF DealOf
    <2>7. DealOf(d)' = [Market!NoDeal EXCEPT !.st = "gone"]
      BY <2>2, <2>3 DEF DealOf, Market!NoDeal, Lot, NoLot
    <2>8. Carried(p) = bag[p] /\ Carried(p)' = bag[p] \cup {l.item}
      BY <1>1, <2>1 DEF Carried, At
    <2>9. Wealth(p)' = Wealth(p)
      BY <1>1, <2>1, <2>3 DEF Wealth, At
    <2>10. \A q \in Player \ {p} : Carried(q)' = Carried(q) /\ Wealth(q)' = Wealth(q)
      BY <1>1, <1>2, <2>3, SamePlayer
    <2>11. \A e \in Id \ {d} : DealOf(e)' = DealOf(e)
      BY <2>2, <2>3, SameDeal
    <2>12. era' = era /\ faults' = faults
      BY <1>1
    <2> HIDE DEF l
    <2> QED BY <2>6, <2>7, <2>8, <2>9, <2>10, <2>11, <2>12, MarketDelivers
  <1> QED BY <1>0, <1>3, <1>4 DEF Confirm

LEMMA GoesOnMarket ==
  ASSUME MarketInv, faults' = 0, faults = 0, \A what : ~Wrong(what), NEW p \in Player, GoesOn(p)
  PROVE  Market!Next \/ UNCHANGED Market!vars
  <1> USE AuctionAssumption
  <1>0. /\ cmd \in [Player -> CmdType] /\ house \in HouseType /\ TypeInv
        /\ gold \in [Player -> Nat] /\ house.pending \in [Player -> Nat]
        /\ gold[p] \in Nat /\ house.pending[p] \in Nat /\ cmd[p].sum \in Nat
        /\ bag \in [Player -> SUBSET Item] /\ Fee \in Nat /\ (\A h : ~NotWritten(h))
        /\ (RolledBack => UNCHANGED storeVars)
    BY MarketParts, WritesDone DEF HouseType, CmdType
  <1>1. CASE NextID(p)
    <2>1. /\ cmd[p].at = "number" /\ bag' = bag /\ taken' = taken /\ era' = era
      BY <1>1 DEF NextID, At, timeVars, pastVars
    <2>2. Wealth(p) = gold[p] + house.pending[p] + Fee
      BY <2>1 DEF Wealth, At
    <2>3. CASE /\ Written([house EXCEPT !.seq = @ + 1]) /\ UNCHANGED gold
               /\ cmd' = [cmd EXCEPT ![p].at = "add", ![p].id = house.seq + 1]
      <3>0. PICK c : c = cmd'[p]
        OBVIOUS
      <3>1. cmd' = [cmd EXCEPT ![p] = c] /\ c.at = "add"
        <4>1. c.at = "add"
          BY <1>0, <2>3, <3>0 DEF CmdType
        <4>2. PICK f : f = [cmd EXCEPT ![p].at = "add"]
          OBVIOUS
        <4>3. cmd' = [f EXCEPT ![p].id = house.seq + 1]
          BY <2>3, <4>2, Zenon
        <4>4. \A x, y : [[cmd EXCEPT ![p] = x] EXCEPT ![p] = y] = [cmd EXCEPT ![p] = y]
          BY <1>0
        <4>5. \E x, y : cmd' = [[cmd EXCEPT ![p] = x] EXCEPT ![p] = y]
          BY <4>2, <4>3
        <4>6. \E y : cmd' = [cmd EXCEPT ![p] = y]
          BY <4>4, <4>5
        <4> QED BY <1>0, <3>0, <4>1, <4>6
      <3>2. /\ house'.lot = house.lot /\ house'.pending = house.pending /\ cmd'[p].at = "add"
        BY <1>0, <2>3, <3>1 DEF Written, HouseType
      <3>3. Wealth(p)' = gold[p] + house.pending[p] + Fee
        BY <2>3, <3>2 DEF Wealth, At
      <3>4. /\ house'.pending = [house.pending EXCEPT ![p] = house'.pending[p]]
            /\ gold' = [gold EXCEPT ![p] = gold'[p]]
        BY <1>0, <2>3, <3>2
      <3> QED BY <2>1, <2>2, <3>1, <3>2, <3>3, <3>4, VerbStutters
    <2>4. CASE UNCHANGED storeVars /\ AddGold(p, Fee) /\ Done(p)
      <3>1. /\ house' = house /\ cmd' = [cmd EXCEPT ![p] = Idle] /\ Idle.at = "idle"
            /\ gold' = [gold EXCEPT ![p] = gold[p] + Fee]
        BY <2>4 DEF storeVars, AddGold, Done, Idle
      <3>2. /\ gold'[p] = gold[p] + Fee /\ gold' = [gold EXCEPT ![p] = gold'[p]]
            /\ house'.pending = [house.pending EXCEPT ![p] = house'.pending[p]]
            /\ cmd'[p].at = "idle"
        BY <1>0, <3>1
      <3>3. Wealth(p)' = (gold[p] + Fee) + house.pending[p] + 0
        BY <3>1, <3>2 DEF Wealth, At
      <3>4. Wealth(p)' = Wealth(p)
        BY <1>0, <2>2, <3>3
      <3> QED BY <2>1, <3>1, <3>2, <3>4, VerbStutters
    <2> QED BY <1>0, <1>1, <2>3, <2>4 DEF NextID
  <1>2. CASE ListTake(p)
    <2>1. /\ cmd[p].at = "take" /\ bag' = [bag EXCEPT ![p] = @ \ {cmd[p].item}]
          /\ cmd' = [cmd EXCEPT ![p] = Idle] /\ UNCHANGED <<gold, house, taken, faults, era>>
      BY <1>2 DEF ListTake, At, Done, storeVars, timeVars, pastVars
    <2>2. /\ cmd'[p].at = "idle" /\ bag'[p] = bag[p] \ {cmd[p].item}
          /\ \A q \in Player \ {p} : cmd'[q] = cmd[q] /\ bag'[q] = bag[q]
      BY <1>0, <2>1 DEF Idle
    <2>3. Carried(p)' = Carried(p) /\ Wealth(p)' = Wealth(p)
      BY <2>1, <2>2 DEF Carried, Wealth, At
    <2>4. \A d \in Id : DealOf(d)' = DealOf(d)
      BY <2>1, SameDeal
    <2> QED BY <2>1, <2>2, <2>3, <2>4, MarketStutters
  <1>3. CASE Cancel(p)
    <2>1. /\ cmd[p].at = "cancel" /\ cmd' = [cmd EXCEPT ![p] = Idle]
          /\ UNCHANGED <<bag, gold, taken, era>>
      BY <1>3 DEF Cancel, At, Done, actorVars, timeVars, pastVars
    <2>2. cmd'[p].at = "idle" /\ \A q \in Player \ {p} : cmd'[q] = cmd[q]
      BY <1>0, <2>1 DEF Idle
    <2>3. \A q \in Player : /\ Carried(q)' = Carried(q)
                            /\ house'.pending[q] = house.pending[q] => Wealth(q)' = Wealth(q)
      <3>1. /\ Carried(p)' = Carried(p)
            /\ house'.pending[p] = house.pending[p] => Wealth(p)' = Wealth(p)
        BY <2>1, <2>2 DEF Carried, Wealth, At
      <3>2. \A q \in Player \ {p} :
              /\ Carried(q)' = Carried(q)
              /\ house'.pending[q] = house.pending[q] => Wealth(q)' = Wealth(q)
        BY <2>1, <2>2 DEF Carried, Wealth, At
      <3> QED BY <3>1, <3>2
    <2>4. CASE MarkReturned(cmd[p].id, "cancelled")
      <3>1. PICK d \in Id : d = cmd[p].id
        BY <2>4 DEF MarkReturned, Active
      <3>2. MarkReturned(d, "cancelled") /\ faults' = faults /\ era' = era
        BY <2>1, <2>4, <3>1 DEF MarkReturned
      <3> QED BY <2>1, <2>3, <3>2, ReturnMarket
    <2>5. CASE UNCHANGED storeVars
      <3>1. \A d \in Id : DealOf(d)' = DealOf(d)
        BY <2>1, <2>5, SameDeal DEF storeVars
      <3>2. Carried(p)' = Carried(p) /\ Wealth(p)' = Wealth(p) /\ house' = house
        BY <2>3, <2>5 DEF storeVars
      <3>3. /\ faults' = faults /\ era' = era
            /\ \A q \in Player \ {p} : /\ gold'[q] = gold[q] /\ bag'[q] = bag[q]
                                       /\ house'.pending[q] = house.pending[q]
        BY <2>1, <3>2
      <3> QED BY <2>2, <3>1, <3>2, <3>3, MarketStutters
    <2> QED BY <1>3, <2>4, <2>5 DEF Cancel
  <1>4. CASE BuyoutCharge(p)
    <2>1. /\ cmd[p].at = "charge" /\ bag' = bag /\ taken' = taken /\ era' = era /\ house' = house
      BY <1>4 DEF BuyoutCharge, At, timeVars, pastVars, storeVars
    <2>2. Wealth(p) = gold[p] + house.pending[p] + 0
      BY <2>1 DEF Wealth, At
    <2>3. house'.pending = [house.pending EXCEPT ![p] = house'.pending[p]]
      BY <1>0, <2>1
    <2>4. CASE Debit(p, cmd[p].sum) /\ Do(p, "sell")
      <3> DEFINE c == [cmd[p] EXCEPT !.at = "sell"]
      <3>1. /\ cmd' = [cmd EXCEPT ![p] = c] /\ c.at = "sell" /\ c.sum = cmd[p].sum
            /\ gold' = [gold EXCEPT ![p] = gold[p] - cmd[p].sum]
        BY <1>0, <2>4 DEF Do, Debit, CmdType
      <3> HIDE DEF c
      <3>2. /\ cmd'[p] = c /\ gold'[p] = gold[p] - cmd[p].sum
            /\ gold' = [gold EXCEPT ![p] = gold'[p]]
        BY <1>0, <3>1
      <3>3. Wealth(p)' = (gold[p] - cmd[p].sum) + house.pending[p] + cmd[p].sum
        BY <2>1, <3>1, <3>2 DEF Wealth, At
      <3>4. Wealth(p)' = Wealth(p)
        BY <1>0, <2>2, <3>3
      <3> QED BY <2>1, <2>3, <3>1, <3>2, <3>4, VerbStutters
    <2>5. CASE Done(p) /\ UNCHANGED gold
      <3>1. cmd' = [cmd EXCEPT ![p] = Idle] /\ Idle.at = "idle"
        BY <2>5 DEF Done, Idle
      <3>2. cmd'[p].at = "idle" /\ gold' = [gold EXCEPT ![p] = gold'[p]]
        BY <1>0, <2>5, <3>1
      <3>3. Wealth(p)' = Wealth(p)
        BY <2>1, <2>5, <3>2 DEF Wealth, At
      <3> QED BY <2>1, <2>3, <3>1, <3>2, <3>3, VerbStutters
    <2> QED BY <1>4, <2>4, <2>5 DEF BuyoutCharge
  <1>5. CASE BuyoutSell(p)
    <2>1. cmd[p].at = "sell" /\ UNCHANGED <<bag, gold, taken, era>>
      BY <1>5 DEF BuyoutSell, At, actorVars, timeVars, pastVars
    <2>2. CASE cmd[p].id \in Active /\ Written(Sold(p, cmd[p].id)) /\ Done(p)
      BY <1>5, <2>1, <2>2, SellMarket DEF At
    <2>3. CASE UNCHANGED storeVars /\ Do(p, "refund")
      <3> DEFINE c == [cmd[p] EXCEPT !.at = "refund"]
      <3>1. /\ cmd' = [cmd EXCEPT ![p] = c] /\ c.at = "refund" /\ c.sum = cmd[p].sum
            /\ house' = house
        BY <1>0, <2>3 DEF Do, CmdType, storeVars
      <3> HIDE DEF c
      <3>2. /\ cmd'[p] = c /\ gold' = [gold EXCEPT ![p] = gold'[p]]
            /\ house'.pending = [house.pending EXCEPT ![p] = house'.pending[p]]
        BY <1>0, <2>1, <3>1
      <3>3. Wealth(p)' = Wealth(p)
        BY <2>1, <3>1, <3>2 DEF Wealth, At
      <3> QED BY <2>1, <3>1, <3>2, <3>3, VerbStutters
    <2> QED BY <1>0, <1>5, <2>2, <2>3 DEF BuyoutSell
  <1>6. CASE BuyoutRefund(p) \/ CollectPay(p)
    <2>1. /\ cmd[p].at \in {"refund", "pay"} /\ bag' = bag /\ taken' = taken /\ era' = era
          /\ house' = house /\ gold' = [gold EXCEPT ![p] = gold[p] + cmd[p].sum]
      BY <1>6 DEF BuyoutRefund, CollectPay, At, AddGold, timeVars, pastVars, storeVars
    <2>2. PICK c : cmd' = [cmd EXCEPT ![p] = c] /\ c.at \in {"idle", "look"}
      <3>1. Idle.at = "idle" /\ [Idle EXCEPT !.at = "look"].at = "look"
        BY DEF Idle
      <3> QED BY <1>6, <3>1 DEF BuyoutRefund, CollectPay, Done
    <2>3. /\ cmd'[p] = c /\ gold'[p] = gold[p] + cmd[p].sum
          /\ gold' = [gold EXCEPT ![p] = gold'[p]]
          /\ house'.pending = [house.pending EXCEPT ![p] = house'.pending[p]]
      BY <1>0, <2>1, <2>2
    <2>4. Wealth(p) = gold[p] + house.pending[p] + cmd[p].sum
      BY <2>1 DEF Wealth, At
    <2>5. Wealth(p)' = (gold[p] + cmd[p].sum) + house.pending[p] + 0
      BY <2>1, <2>2, <2>3 DEF Wealth, At
    <2>6. Wealth(p)' = Wealth(p)
      BY <1>0, <2>4, <2>5
    <2> QED BY <2>1, <2>2, <2>3, <2>6, VerbStutters
  <1>7. CASE PendingPickups(p) \/ CollectEnd(p) \/ \E d \in Id : HoldBack(p, d)
    <2>1. /\ cmd[p].at \in {"look", "pick"}
          /\ UNCHANGED <<bag, gold, house, taken, era>>
      BY <1>7 DEF PendingPickups, CollectEnd, HoldBack, At, actorVars, timeVars, pastVars, storeVars
    <2>2. PICK c : cmd' = [cmd EXCEPT ![p] = c] /\ c.at \in {"idle", "pick"}
      <3>1. Idle.at = "idle" /\ \A t : [Idle EXCEPT !.at = "pick", !.todo = t].at = "pick"
        BY DEF Idle
      <3>2. ASSUME NEW d \in Id, HoldBack(p, d)
            PROVE  \E c : cmd' = [cmd EXCEPT ![p] = c] /\ c.at = "pick"
        <4>1. cmd' = [cmd EXCEPT ![p] = [cmd[p] EXCEPT !.todo = cmd[p].todo \ {d}]]
          BY <1>0, <3>2 DEF HoldBack
        <4>2. [cmd[p] EXCEPT !.todo = cmd[p].todo \ {d}].at = "pick"
          BY <1>0, <3>2 DEF HoldBack, At, CmdType
        <4> QED BY <4>1, <4>2
      <3> QED BY <1>7, <3>1, <3>2 DEF PendingPickups, CollectEnd, Done
    <2>3. /\ cmd'[p] = c /\ gold' = [gold EXCEPT ![p] = gold'[p]]
          /\ house'.pending = [house.pending EXCEPT ![p] = house'.pending[p]]
      BY <1>0, <2>1, <2>2
    <2>4. Wealth(p)' = Wealth(p)
      BY <2>1, <2>2, <2>3 DEF Wealth, At
    <2> QED BY <2>1, <2>2, <2>3, <2>4, VerbStutters
  <1>8. CASE Keep(p)
    <2>1. /\ cmd[p].at = "keep" /\ bag' = [bag EXCEPT ![p] = @ \cup {cmd[p].item}]
          /\ cmd' = [cmd EXCEPT ![p].at = "pick", ![p].item = None]
          /\ UNCHANGED <<gold, house, taken, faults, era>>
      BY <1>8 DEF Keep, At, storeVars, timeVars, pastVars
    <2>2. /\ cmd'[p].at = "pick" /\ bag'[p] = bag[p] \cup {cmd[p].item}
          /\ \A q \in Player \ {p} : cmd'[q] = cmd[q] /\ bag'[q] = bag[q]
      BY <1>0, <2>1 DEF CmdType
    <2>3. Carried(p)' = Carried(p) /\ Wealth(p)' = Wealth(p)
      BY <2>1, <2>2 DEF Carried, Wealth, At
    <2>4. \A d \in Id : DealOf(d)' = DealOf(d)
      BY <2>1, SameDeal
    <2> QED BY <2>1, <2>2, <2>3, <2>4, MarketStutters
  <1>9. CASE ListAdd(p)
    BY <1>9, ListMarket
  <1>10. CASE \E d \in Id : Confirm(p, d)
    BY <1>10, DeliverMarket
  <1> QED BY <1>1, <1>2, <1>3, <1>4, <1>5, <1>6, <1>7, <1>8, <1>9, <1>10 DEF GoesOn

(* Every step is a step of the market, or none of its concern. *)
LEMMA StepMarket ==
  ASSUME MarketInv, [Next]_vars
  PROVE  Market!Next \/ UNCHANGED Market!vars
  <1>0. TypeInv /\ TypeInv'
    BY MarketParts, StepTypeInv
  <1>1. CASE faults' # 0
    <2>1. faults' > 0
      BY <1>0, <1>1, AuctionAssumption DEF TypeInv, AuctionTypeOK
    <2> QED BY <2>1 DEF Market!Next
  <1>2. CASE Crash
    <2>1. era' # era
      BY <1>0, <1>2, AuctionAssumption DEF Crash, TypeInv, AuctionTypeOK
    <2> QED BY <2>1 DEF Market!Next
  <1>3. CASE faults' = 0 /\ ~Crash
    <2>1. faults = 0 /\ \A what : ~Wrong(what)
      BY <1>0, <1>3, NothingWrong
    <2>2. CASE \E p \in Player : Types(p)
      BY <1>3, <2>1, <2>2, TypesMarket
    <2>3. CASE \E p \in Player : GoesOn(p)
      BY <1>3, <2>1, <2>3, GoesOnMarket
    <2>4. CASE \E d \in Id : ExpireOne(d)
      <3>1. PICK d \in Id : ExpireOne(d)
        BY <2>4
      <3>2. UNCHANGED <<bag, gold, cmd, taken, era, faults>>
        BY <1>3, <2>1, <3>1 DEF ExpireOne, actorVars, pastVars
      <3>3. CASE MarkReturned(d, "expired")
        <4>1. \A q \in Player : /\ Carried(q)' = Carried(q)
                                /\ house'.pending[q] = house.pending[q] => Wealth(q)' = Wealth(q)
          BY <3>2 DEF Carried, Wealth, At
        <4>2. faults' = faults /\ era' = era /\ taken' = taken
          BY <3>2
        <4> QED BY <2>1, <3>3, <4>1, <4>2, ReturnMarket
      <3>4. CASE UNCHANGED storeVars
        BY <3>2, <3>4, MarketSame DEF storeVars
      <3> QED BY <3>1, <3>3, <3>4 DEF ExpireOne
    <2>5. CASE \/ \E p \in Player : Autosave(p) \/ UseUp(p)
               \/ SweepLook \/ (\E d \in Id : Lapse(d)) \/ UNCHANGED vars
      <3>1. UNCHANGED <<bag, gold, cmd, house, taken, era, faults>>
        BY <2>1, <2>5
           DEF Autosave, UseUp, SweepLook, Lapse, actorVars, storeVars, pastVars, timeVars, vars
      <3> QED BY <3>1, MarketSame
    <2> QED BY <1>3, <2>2, <2>3, <2>4, <2>5 DEF Next, Ticks
  <1> QED BY <1>1, <1>2, <1>3

(* Until something goes wrong, and but for crashes, the house is a market:
   the verbs, in all their steps and whatever comes between them, are single
   steps in which an item is listed, sold, withdrawn, refunded or delivered. *)
THEOREM AuctionIsMarket == Spec => ImplementsMarket
  <1>1. Init => MarketInv
    <2>1. Init => MarketFits
      BY DEF Init, MarketFits, ListsFit, BuysFit, PicksFit, Idle
    <2> QED BY <2>1, InitOnceInv DEF MarketInv
  <1>2. Init => Market!Init
    <2> SUFFICES ASSUME Init PROVE Market!Init
      OBVIOUS
    <2>1. \A p \in Player : Carried(p) = InitBag[p] /\ Wealth(p) = InitGold[p] + 0 + 0
      BY DEF Init, Carried, Wealth, At, Idle, Empty
    <2>2. \A d \in Id : DealOf(d) = Market!NoDeal
      BY DEF Init, DealOf, Lot, Empty, NoLot, Market!NoDeal
    <2>3. \A p \in Player : InitGold[p] \in Nat
      BY AuctionAssumption
    <2>4. /\ [p \in Player |-> Carried(p)] = InitBag /\ [p \in Player |-> Wealth(p)] = InitGold
      BY <2>1, <2>3, AuctionAssumption
    <2>5. era = 0 /\ ~(faults > 0)
      BY DEF Init
    <2> QED BY <2>2, <2>4, <2>5 DEF Market!Init
  <1>3. MarketInv /\ [Next]_vars => [Market!Next]_(Market!vars)
    BY StepMarket
  <1> QED BY <1>1, <1>2, <1>3, StepMarketInv, PTL DEF Spec, ImplementsMarket, Market!Spec

==============================================================================
