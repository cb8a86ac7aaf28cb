---------------------------- MODULE AuctionHouse ----------------------------
(***************************************************************************)
(* The auction house of src/internal/auction with the verbs of             *)
(* src/internal/command/auction.go, the expiry sweep of the tick goroutine *)
(* and the saves of the players.                                           *)
(*                                                                         *)
(* Each method of the Store holds the store's lock, changes the memory and *)
(* writes the whole file before it returns; each Debit and AddGold holds   *)
(* that of the currency service; a bag has its actor's. A verb is a        *)
(* sequence of such calls on its player's session goroutine, and everybody *)
(* else acts between two of them. The file of the auctions is written at   *)
(* once, the save of a player when the autosave comes round, and a crash   *)
(* leaves what the files say; between the two renames of a write there is  *)
(* no file of the auctions (SaveFile has the system calls).                *)
(*                                                                         *)
(* Players who have logged out are players who do nothing, and so is who   *)
(* cannot log in because a crash has torn his save (SessionLifecycle has   *)
(* that). Items to be collected or expired are taken in any order (the     *)
(* code sorts them by id), and an item is the same item before and after   *)
(* its listing, though the code gives the live copy a new entity id.       *)
(***************************************************************************)
EXTENDS Integers, FiniteSets

CONSTANTS
  Player, Admin,   \* who plays, and who of them may moderate
  Item, None,
  Price,           \* the prices asked
  Fee, CutPct,     \* Config.ListingFee, Config.SaleCutPct
  Cap,             \* Config.PerSellerCap
  InitBag, InitGold,
  MaxId,           \* how many listings are ever made
  MaxEra,          \* how many crashes happen
  MaxFault,        \* how often something goes wrong that nobody repairs
  Allowed          \* what: "disk", a write of the auctions fails; "refund", a
                   \* sale is refunded while its buyer is collecting; "tick",
                   \* an item is used up while its owner is listing it;
                   \* "torn", a crash, or a second rename that fails and is
                   \* not taken back, leaves no file of the auctions

Id == 1..MaxId

ASSUME AuctionAssumption ==
  /\ Admin \subseteq Player /\ None \notin Player \cup Item
  /\ Price \subseteq Nat /\ Fee \in Nat /\ CutPct \in 0..100 /\ Cap \in Nat
  /\ InitBag \in [Player -> SUBSET Item] /\ InitGold \in [Player -> Nat]
  /\ MaxId \in Nat /\ MaxEra \in Nat /\ MaxFault \in Nat
  /\ Allowed \subseteq {"disk", "refund", "tick", "torn"}

VARIABLES
  bag, gold,   \* player -> what the live actor holds
  cmd,         \* player -> the verb under way and its locals
  house,       \* the Store in memory: its listings, pending and seq
  file,        \* the same, as written
  faults,      \* how often something went wrong
  save,        \* player -> bag and purse, as written
  late,        \* the listings whose ExpiresAt has passed
  sweep,       \* what the sweep has found lapsed and not yet expired
  taken,       \* listing -> how often its item was handed out
  fresh,       \* who was handed what, and was not saved or relisted it since
  era          \* how many crashes there were

actorVars == <<bag, gold>>
storeVars == <<house, file, faults>>
timeVars  == <<save, late, sweep, era>>
pastVars  == <<taken, fresh>>
vars == <<actorVars, cmd, storeVars, timeVars, pastVars>>

Status == {"none", "active", "sold", "expired", "cancelled"}
NoLot == [st |-> "none", seller |-> None, item |-> None, price |-> 0, buyer |-> None, collector |-> None]
Idle == [at |-> "idle", id |-> 0, item |-> None, sum |-> 0, todo |-> {}]
Empty == [lot |-> [d \in Id |-> NoLot], pending |-> [p \in Player |-> 0], seq |-> 0]

Init ==
  /\ bag = InitBag /\ gold = InitGold
  /\ cmd = [p \in Player |-> Idle]
  /\ house = Empty /\ file = Empty /\ faults = 0
  /\ save = [p \in Player |-> [bag |-> InitBag[p], gold |-> InitGold[p]]]
  /\ late = {} /\ sweep = {} /\ era = 0
  /\ taken = [d \in Id |-> 0] /\ fresh = {}

------------------------------------------------------------------------------
(* The currency service and the store. *)

(* The sale cut, rounded down. *)
Cut(n) == (n * CutPct) \div 100

(* Mutant of Debit: the balance is not compared.                           *)
DebitUnchecked(p, n) == gold' = [gold EXCEPT ![p] = @ - n]

AddGold(p, n) == gold' = [gold EXCEPT ![p] = @ + n]
Debit(p, n) == gold[p] >= n /\ gold' = [gold EXCEPT ![p] = @ - n]

(* Mutant of Written: the change stays in the memory for a later write.    *)
WrittenLater(h) == house' = h /\ UNCHANGED <<file, faults>>

(* persistLocked after a change of the memory; some callers undo theirs    *)
(* when it fails, most do not.                                             *)
Written(h) == house' = h /\ file' = h /\ UNCHANGED faults

Wrong(what) == what \in Allowed /\ faults < MaxFault /\ faults' = faults + 1
Torn == Wrong("torn") /\ file' = Empty
NotWritten(h) == house' = h /\ (Torn \/ (Wrong("disk") /\ UNCHANGED file))
RolledBack ==
  UNCHANGED house /\ (Torn \/ ("disk" \in Allowed /\ UNCHANGED <<file, faults>>))

Lot(d) == house.lot[d]
Active == {d \in Id : Lot(d).st = "active"}
HeldForPickup(p) == {d \in Id : Lot(d).st \notin {"none", "active"} /\ Lot(d).collector = p}

(* The store with one listing changed. *)
With(d, l) == [house EXCEPT !.lot[d] = l]

Do(p, at) == cmd' = [cmd EXCEPT ![p].at = at]
Done(p) == cmd' = [cmd EXCEPT ![p] = Idle]
At(p, at) == cmd[p].at = at

------------------------------------------------------------------------------
(* auction <item> <price> *)

(* Manager.List up to the fee: the item is carried, the seller below the   *)
(* cap and able to pay.                                                    *)
ListBegin(p, i, n) ==
  /\ At(p, "idle") /\ i \in bag[p]
  /\ Cap > 0 => Cardinality({d \in Active : Lot(d).seller = p}) < Cap
  /\ Debit(p, Fee)
  /\ cmd' = [cmd EXCEPT ![p] = [Idle EXCEPT !.at = "number", !.item = i, !.sum = n]]
  /\ UNCHANGED <<bag, storeVars, timeVars, pastVars>>

(* NextID: the counter is on disk, or rolled back and the fee refunded.    *)
NextID(p) ==
  /\ At(p, "number") /\ house.seq < MaxId
  /\ \/ /\ Written([house EXCEPT !.seq = @ + 1])
        /\ cmd' = [cmd EXCEPT ![p].at = "add", ![p].id = house.seq + 1]
        /\ UNCHANGED gold
     \/ RolledBack /\ AddGold(p, Fee) /\ Done(p)
  /\ UNCHANGED <<bag, timeVars, pastVars>>

(* Store.Add. When the write fails the fee is refunded and the item stays  *)
(* in the bag, and the listing in the memory.                              *)
ListAdd(p) ==
  LET c == cmd[p]
      h == With(c.id, [NoLot EXCEPT !.st = "active", !.seller = p, !.item = c.item, !.price = c.sum])
  IN
  /\ At(p, "add")
  /\ \/ Written(h) /\ Do(p, "take") /\ fresh' = fresh \ {<<p, c.item>>} /\ UNCHANGED gold
     \/ NotWritten(h) /\ AddGold(p, Fee) /\ Done(p) /\ UNCHANGED fresh
  /\ UNCHANGED <<bag, timeVars, taken>>

(* RemoveFromInventory, whose answer nobody reads, and Untrack.            *)
ListTake(p) ==
  /\ At(p, "take")
  /\ bag' = [bag EXCEPT ![p] = @ \ {cmd[p].item}]
  /\ Done(p)
  /\ UNCHANGED <<gold, storeVars, timeVars, pastVars>>

------------------------------------------------------------------------------
(* unlist, auctionremove *)

(* Manager.Cancel looks at the owner, AdminRemove at the status.           *)
CancelLook(p, d) ==
  /\ At(p, "idle")
  /\ Lot(d).seller = p \/ (p \in Admin /\ d \in Active)
  /\ cmd' = [cmd EXCEPT ![p] = [Idle EXCEPT !.at = "cancel", !.id = d]]
  /\ UNCHANGED <<actorVars, storeVars, timeVars, pastVars>>

(* Mutant of markReturned: it does not look at the status.                 *)
ReturnsAnything(d, st) ==
  /\ Lot(d).st # "none"
  /\ LET h == With(d, [Lot(d) EXCEPT !.st = st, !.collector = Lot(d).seller])
     IN Written(h) \/ NotWritten(h)

(* Store.markReturned: an active listing goes back to its seller; failing  *)
(* to write is reported, and not undone.                                   *)
MarkReturned(d, st) ==
  /\ d \in Active
  /\ LET h == With(d, [Lot(d) EXCEPT !.st = st, !.collector = Lot(d).seller])
     IN Written(h) \/ NotWritten(h)

(* MarkCancelled, or ErrNotActive.                                         *)
Cancel(p) ==
  /\ At(p, "cancel")
  /\ \/ MarkReturned(cmd[p].id, "cancelled")
     \/ cmd[p].id \notin Active /\ UNCHANGED storeVars
  /\ Done(p)
  /\ UNCHANGED <<actorVars, timeVars, pastVars>>

------------------------------------------------------------------------------
(* buyout *)

(* Manager.Buyout up to the veto, which changes nothing.                   *)
BuyoutLook(p, d) ==
  /\ At(p, "idle") /\ d \in Active /\ Lot(d).seller # p
  /\ cmd' = [cmd EXCEPT ![p] = [Idle EXCEPT !.at = "charge", !.id = d, !.sum = Lot(d).price]]
  /\ UNCHANGED <<actorVars, storeVars, timeVars, pastVars>>

BuyoutCharge(p) ==
  /\ At(p, "charge")
  /\ \/ Debit(p, cmd[p].sum) /\ Do(p, "sell")
     \/ gold[p] < cmd[p].sum /\ Done(p) /\ UNCHANGED gold
  /\ UNCHANGED <<bag, storeVars, timeVars, pastVars>>

(* MarkSold's change: the buyer collects, the proceeds wait for the seller.*)
Sold(p, d) ==
  LET l == Lot(d) IN
  [house EXCEPT !.lot[d] = [l EXCEPT !.st = "sold", !.buyer = p, !.collector = p],
                !.pending[l.seller] = @ + (l.price - Cut(l.price))]

(* The commit point, which one buyer passes. Who does not, or cannot write,*)
(* has his coin refunded.                                                  *)
BuyoutSell(p) ==
  LET d == cmd[p].id IN
  /\ At(p, "sell")
  /\ \/ d \in Active /\ Written(Sold(p, d)) /\ Done(p)
     \/ d \in Active /\ NotWritten(Sold(p, d)) /\ Do(p, "refund")
     \/ d \notin Active /\ UNCHANGED storeVars /\ Do(p, "refund")
  /\ UNCHANGED <<actorVars, timeVars, pastVars>>

BuyoutRefund(p) ==
  /\ At(p, "refund")
  /\ AddGold(p, cmd[p].sum) /\ Done(p)
  /\ UNCHANGED <<bag, storeVars, timeVars, pastVars>>

------------------------------------------------------------------------------
(* auctionrefund *)

Collecting(d) == \E p \in Player : d \in cmd[p].todo

(* The ledger with m taken from what p is owed, and n added to what q is.  *)
Shifted(p, m, q, n) ==
  [r \in Player |-> house.pending[r] - (IF r = p THEN m ELSE 0) + (IF r = q THEN n ELSE 0)]

(* Store.RefundSale: the sale is undone if the item has not been collected *)
(* and the seller's pending coin covers the proceeds.                      *)
AdminRefund(p, d) ==
  LET l == Lot(d)
      back == l.price - Cut(l.price)
      h == [house EXCEPT !.lot[d] = [l EXCEPT !.st = "cancelled", !.collector = l.seller],
                         !.pending = Shifted(l.seller, back, l.buyer, l.price)]
  IN
  /\ p \in Admin /\ At(p, "idle")
  /\ l.st = "sold" /\ house.pending[l.seller] >= back
  /\ \/ ~Collecting(d) /\ (Written(h) \/ NotWritten(h))
     \/ Collecting(d) /\ Wrong("refund") /\ house' = h /\ file' = h
  /\ UNCHANGED <<actorVars, cmd, timeVars, pastVars>>

------------------------------------------------------------------------------
(* collect *)

(* Store.ClaimCoin: the ledger is cleared on disk before the coin is paid, *)
(* or restored.                                                            *)
ClaimCoin(p) ==
  /\ At(p, "idle")
  /\ house.pending[p] > 0 \/ HeldForPickup(p) # {}
  /\ \/ /\ house.pending[p] > 0 /\ Written([house EXCEPT !.pending[p] = 0])
        /\ cmd' = [cmd EXCEPT ![p] = [Idle EXCEPT !.at = "pay", !.sum = house.pending[p]]]
     \/ house.pending[p] > 0 /\ RolledBack /\ Do(p, "look")
     \/ house.pending[p] = 0 /\ UNCHANGED storeVars /\ Do(p, "look")
  /\ UNCHANGED <<actorVars, timeVars, pastVars>>

CollectPay(p) ==
  /\ At(p, "pay")
  /\ AddGold(p, cmd[p].sum)
  /\ cmd' = [cmd EXCEPT ![p] = [Idle EXCEPT !.at = "look"]]
  /\ UNCHANGED <<bag, storeVars, timeVars, pastVars>>

PendingPickups(p) ==
  /\ At(p, "look")
  /\ cmd' = [cmd EXCEPT ![p] = [Idle EXCEPT !.at = "pick", !.todo = HeldForPickup(p)]]
  /\ UNCHANGED <<actorVars, storeVars, timeVars, pastVars>>

(* Mutant of Collected: the listing is pruned from the memory only.        *)
CollectedInMemory(d) == house' = With(d, NoLot) /\ UNCHANGED <<file, faults>>

(* Store.MarkItemCollected, when it succeeds.                              *)
Collected(d) == Written(With(d, NoLot))

(* ConfirmItemCollected for one of the pickups found, before the item goes *)
(* into the bag: whoever is entitled to it by now, the listing is pruned,  *)
(* also when the write fails and the item is kept back.                    *)
Confirm(p, d) ==
  LET rest == [cmd EXCEPT ![p].todo = @ \ {d}] IN
  /\ At(p, "pick") /\ d \in cmd[p].todo
  /\ \/ /\ Lot(d).st # "none" /\ Collected(d)
        /\ cmd' = [rest EXCEPT ![p].at = "keep", ![p].item = Lot(d).item]
        /\ taken' = [taken EXCEPT ![d] = @ + 1] /\ fresh' = fresh \cup {<<p, Lot(d).item>>}
     \/ /\ Lot(d).st # "none" /\ NotWritten(With(d, NoLot))
        /\ cmd' = rest /\ UNCHANGED pastVars
     \/ /\ Lot(d).st = "none"                 \* ErrNotFound
        /\ cmd' = rest /\ UNCHANGED <<storeVars, pastVars>>
  /\ UNCHANGED <<actorVars, timeVars>>

(* It is too heavy, and waits for another time.                            *)
HoldBack(p, d) ==
  /\ At(p, "pick") /\ d \in cmd[p].todo
  /\ cmd' = [cmd EXCEPT ![p].todo = @ \ {d}]
  /\ UNCHANGED <<actorVars, storeVars, timeVars, pastVars>>

Keep(p) ==
  /\ At(p, "keep")
  /\ bag' = [bag EXCEPT ![p] = @ \cup {cmd[p].item}]
  /\ cmd' = [cmd EXCEPT ![p].at = "pick", ![p].item = None]
  /\ UNCHANGED <<gold, storeVars, timeVars, pastVars>>

CollectEnd(p) ==
  /\ At(p, "pick") /\ cmd[p].todo = {}
  /\ Done(p)
  /\ UNCHANGED <<actorVars, storeVars, timeVars, pastVars>>

------------------------------------------------------------------------------
(* Time, the tick goroutine and crashes. *)

Lapse(d) ==
  /\ d \in Active \ late
  /\ late' = late \cup {d}
  /\ UNCHANGED <<actorVars, cmd, storeVars, save, sweep, era, pastVars>>

(* Mutant of SweepLook: the times are compared the wrong way round.        *)
SweepEarly ==
  /\ sweep = {} /\ Active \ late # {}
  /\ sweep' = Active \ late
  /\ UNCHANGED <<actorVars, cmd, storeVars, save, late, era, pastVars>>

(* LapsedActive, at every interval of the sweep.                           *)
SweepLook ==
  /\ sweep = {} /\ Active \cap late # {}
  /\ sweep' = Active \cap late
  /\ UNCHANGED <<actorVars, cmd, storeVars, save, late, era, pastVars>>

(* expireOne: a listing that was sold or withdrawn meanwhile is passed by. *)
ExpireOne(d) ==
  /\ d \in sweep
  /\ \/ MarkReturned(d, "expired")
     \/ d \notin Active /\ UNCHANGED storeVars
  /\ sweep' = sweep \ {d}
  /\ UNCHANGED <<actorVars, cmd, save, late, era, pastVars>>

(* The autosave, or any other Persist, of one player.                      *)
Autosave(p) ==
  /\ MaxEra > 0
  /\ save' = [save EXCEPT ![p] = [bag |-> bag[p], gold |-> gold[p]]]
  /\ fresh' = fresh \ ({p} \X bag[p])
  /\ UNCHANGED <<actorVars, cmd, storeVars, late, sweep, era, taken>>

(* The tick goroutine uses up what is being listed (a craft, a burnt-out   *)
(* light); what it uses up at other times concerns nobody here.            *)
UseUp(p) ==
  /\ cmd[p].at \in {"number", "add", "take"} /\ cmd[p].item \in bag[p]
  /\ Wrong("tick")
  /\ bag' = [bag EXCEPT ![p] = @ \ {cmd[p].item}]
  /\ UNCHANGED <<gold, cmd, house, file, timeVars, pastVars>>

(* Somebody is in a method of the Store that writes.                       *)
Writing ==
  \/ \E p \in Player :
       \/ cmd[p].at \in {"number", "add"}
       \/ cmd[p].at \in {"cancel", "sell"} /\ cmd[p].id \in Active
       \/ \E d \in cmd[p].todo : Lot(d).st # "none"
       \/ At(p, "idle") /\ house.pending[p] > 0
       \/ At(p, "idle") /\ p \in Admin /\ \E d \in Id : Lot(d).st = "sold"
  \/ sweep \cap Active # {}

(* The process dies and comes back. The boot reconcile is the next sweep.  *)
(* Load takes a file that is not there for an empty house, and numbers     *)
(* begin again.                                                            *)
Crash ==
  /\ era < MaxEra /\ era' = era + 1
  /\ bag' = [p \in Player |-> save[p].bag] /\ gold' = [p \in Player |-> save[p].gold]
  /\ UNCHANGED <<file, faults>> \/ (Writing /\ Torn)
  /\ house' = file'
  /\ late' = {d \in late : d <= file'.seq}
  /\ taken' = [d \in Id |-> IF d <= file'.seq THEN taken[d] ELSE 0]
  /\ cmd' = [p \in Player |-> Idle] /\ sweep' = {}
  /\ UNCHANGED <<save, fresh>>

------------------------------------------------------------------------------

(* A verb begins because a player types it...                              *)
Types(p) ==
  \/ \E i \in Item, n \in Price : ListBegin(p, i, n)
  \/ \E d \in Id : CancelLook(p, d) \/ BuyoutLook(p, d) \/ AdminRefund(p, d)
  \/ ClaimCoin(p)

(* ... and goes on by itself.                                              *)
GoesOn(p) ==
  \/ NextID(p) \/ ListAdd(p) \/ ListTake(p) \/ Cancel(p)
  \/ BuyoutCharge(p) \/ BuyoutSell(p) \/ BuyoutRefund(p)
  \/ CollectPay(p) \/ PendingPickups(p) \/ Keep(p) \/ CollectEnd(p)
  \/ \E d \in Id : Confirm(p, d) \/ HoldBack(p, d)

Ticks == SweepLook \/ \E d \in Id : ExpireOne(d)

Next ==
  \/ \E p \in Player : Types(p) \/ GoesOn(p) \/ Autosave(p) \/ UseUp(p)
  \/ Ticks \/ \E d \in Id : Lapse(d)
  \/ Crash

Spec == Init /\ [][Next]_vars
FairSpec == Spec /\ WF_vars(Ticks)

------------------------------------------------------------------------------
(* Properties *)

LotType == [st : Status, seller : Player \cup {None}, item : Item \cup {None}, price : Nat,
            buyer : Player \cup {None}, collector : Player \cup {None}]
HouseType == [lot : [Id -> LotType], pending : [Player -> Nat], seq : 0..MaxId]
Labels == {"idle", "number", "add", "take", "cancel", "charge", "sell", "refund",
           "pay", "look", "pick", "keep"}

(* Every variable keeps its type; purses and the ledger are never negative *)
(* (store.go, currency.go).                                                *)
AuctionTypeOK ==
  /\ bag \in [Player -> SUBSET Item] /\ gold \in [Player -> Nat]
  /\ cmd \in [Player -> [at : Labels, id : 0..MaxId, item : Item \cup {None},
                         sum : Nat, todo : SUBSET Id]]
  /\ house \in HouseType /\ file \in HouseType
  /\ save \in [Player -> [bag : SUBSET Item, gold : Nat]]
  /\ late \subseteq Id /\ sweep \subseteq Id
  /\ taken \in [Id -> Nat] /\ fresh \subseteq Player \X Item
  /\ era \in 0..MaxEra /\ faults \in 0..MaxFault

(* An item is handed out once for its listing, whoever collects, however   *)
(* often, and across crashes, a file that is lost included: what was       *)
(* handed out is in no file (MarkItemCollected before AddToInventory).     *)
CollectedOnce == \A d \in Id : taken[d] <= 1

(* Whatever crash comes, unless it falls between the two renames of a      *)
(* write of the auctions, an item is in a listing or a save on disk, or    *)
(* was collected and its collector not saved since (Add before             *)
(* RemoveFromInventory, manager.go).                                       *)
SurvivesCrash == faults = 0 =>
  \A i \in Item :
    \/ \E p \in Player : i \in save[p].bag \/ <<p, i>> \in fresh
    \/ \E d \in Id : file.lot[d].item = i

(* What has lapsed leaves the market, by the sweep if by nobody else       *)
(* (SweepExpired).                                                         *)
LapsedReturns == \A d \in Id : d \in Active \cap late ~> d \notin Active

(* Coin that is a player's, wherever it is: in the purse, in the ledger,   *)
(* or in a verb under way.                                                 *)
Wealth(p) ==
  gold[p] + house.pending[p]
    + (CASE At(p, "number") \/ At(p, "add") -> Fee
         [] At(p, "sell") \/ At(p, "refund") \/ At(p, "pay") -> cmd[p].sum
         [] OTHER -> 0)

Carried(p) ==
  IF At(p, "take") THEN bag[p] \ {cmd[p].item}
  ELSE IF At(p, "keep") THEN bag[p] \cup {cmd[p].item} ELSE bag[p]

DealOf(d) ==
  LET l == Lot(d)
      r == [st |-> "offer", item |-> l.item, price |-> l.price, seller |-> l.seller, owner |-> l.seller]
  IN CASE l.st = "active" -> r
       [] l.st = "sold" -> [r EXCEPT !.st = "sale", !.owner = l.buyer]
       [] l.st \in {"expired", "cancelled"} -> [r EXCEPT !.st = "over"]
       [] OTHER -> [r EXCEPT !.st = IF taken[d] > 0 THEN "gone" ELSE "none"]

Market == INSTANCE AuctionMarket WITH
            has    <- [p \in Player |-> Carried(p)],
            wealth <- [p \in Player |-> Wealth(p)],
            deal   <- [d \in Id |-> DealOf(d)],
            wrong  <- faults > 0

(* Between two crashes, and until something goes wrong, the verbs, in all  *)
(* their steps, are single steps of a market: one buyer for an offer, a    *)
(* sale that moves item and coin at once, refusals and lost races that     *)
(* cost nothing, and the item for its owner only.                          *)
ImplementsMarket == Market!Spec
==============================================================================
