# AnotherMUD in TLA+

Models of the parts of AnotherMUD whose correctness depends on the order in
which goroutines, system calls and failures fall, with model checking (TLC) on
small instances and proofs (TLAPS) for instances of any size. Every definition
is translated from the Go source; `PROJECT.json` gives the lines of each.

1. [The system](#1-the-system)
2. [What makes it hard](#2-what-makes-it-hard)
3. [Modules](#3-modules)
4. [What each run checks](#4-what-each-run-checks)
5. [What the code does not keep](#5-what-the-code-does-not-keep)
6. [Fairness](#6-fairness)
7. [What is proved](#7-what-is-proved)
8. [What is not modelled](#8-what-is-not-modelled)
9. [Plan](#9-plan)

## 1. The system

AnotherMUD is one process. The state of the game is in memory, and the process
writes it to YAML files. Three kinds of goroutine touch it:

* a **session goroutine** for each connection. It logs a player in, reads lines
  and runs each command to its end (`internal/session`: `run`, `pump`), and
  tears the session down (`fullTeardown`, `enterLinkDeadTeardown`);
* the one **tick goroutine** (`internal/tick`), which runs some forty handlers
  in a fixed order: combat, effects, mobs, crafting, decay, respawn, autosave,
  the link-dead sweep, the auction sweep;
* the goroutines of listeners and of shutdown.

Each manager guards its own maps by a mutex, each player actor its own fields.
There is no lock above them, so anything that takes two managers, or a manager
and a player, is a sequence of steps between which the others act. The event
bus (`internal/eventbus`) is synchronous: a publisher runs its subscribers, and
those of a "pre" event may veto.

| component | state | operations | what must hold |
|---|---|---|---|
| `escrow` | legs of a transaction, its phase | stage, withdraw, commit (veto, deliver, unwind), rollback, audit | value is in one place; a commit is all or nothing; the log tells the truth |
| `trade`, `command/trade.go` | open requests, sessions with offers and confirmations | Initiate, Offer*, Rescind*, Confirm, Cancel, CancelFor | a swap only on two confirmations of what is staged; one trade each; nothing left behind |
| `persistence` and the stores above it | one file each, with `.tmp` and `.bak` | AtomicWrite, load, delete | a reader finds a whole file; a failed or interrupted write changes nothing |
| `notifications` | a queue for each player, on disk when offline | Publish, Register, Drain, Unregister, SaveAll | delivered once, in order, never lost |
| `session`, `login` | index of players by id, name and room; phase; save | Add, Remove, link-dead, reconnect, takeover, Persist, autosave | one live actor for each character; what is saved is the newest |
| `auction`, `command/auction.go` | listings, pickups, in one file | List, Cancel, Buyout, Collect, sweep, admin | every item and coin in exactly one place; one buyer |
| `player`, `account` | save files | Save, Load, Delete, migration | as persistence |
| `economy` | purse in the save | credit, debit, shops | no overdraft, no overflow |
| `combat`, `corpse`, `loot`, `scrap` | engagements, corpses with decay | round, flee, death, loot, decay | no fight with the dead; an item is looted once |
| `quest`, `questspawn`, `questwatch`, `queststore` | progress for each player | offer, advance, turn in, abandon | rewarded once; progress counts each event once |
| `tick`, `action`, `gameclock`, `pool` | handlers, scheduled actions | Register, Tick, schedule, cancel | each due action runs once |
| `eventbus` | subscriptions | Publish, Subscribe | order; a veto stops the rest |
| `crafting`, `gathering`, `spawn`, `entities`, `portal`, `transit`, `campfire` | entities with lifetimes | craft, harvest, spawn, open, step, decay | nothing is used twice or after its end |
| the rest | tables and text | | mostly data, arithmetic and layout |

`PROJECT.json` lists every package with what is modelled of it.

How those modelled here interact: the `trade` verb runs on a session goroutine
and calls the trade manager, which holds its mutex over a whole operation and
calls the escrow, which moves value through a custodian that takes the actors'
locks one leg at a time. Room changes (a command, or the tick goroutine's
respawns and flights) and teardowns call `CancelFor`. A teardown takes a player
out of the session manager, which calls back into notifications. Tells,
channels and game events publish notifications from any goroutine. The
autosave, a teardown and a publisher to an absent player write files through
`AtomicWrite`, each store with its own idea of locking. Movement, pickups and
deaths reach the quest service over the event bus, on whatever goroutine they
happen; it calls the spawner and the reward dispatcher while it holds its mutex
and saves after that, and a session that begins or ends calls the spawner too.

## 2. What makes it hard

`hazards` in `PROJECT.json` lists each at its line. In short:

* **loops of calls that look atomic**: a commit of several legs, a file
  replaced by five system calls, a login that reads a file and then installs
  what it read;
* **things looked up before a lock and used after it**: the partner in the
  room, the sink of a session, the save of a character whose other session is
  still being torn down;
* **failures half-way**: a delivery, an audit append, a rename, a drain;
* **teardown in steps**, with the player visible to others between them;
* **sessions of one character** that begin, end and replace each other on
  several connections, each in a dozen steps, over an index that looks at the
  player id and not at who is behind it;
* **the tick goroutine**, which moves players and consumes their items without
  asking the session goroutine;
* **death on two goroutines**: a round of combat kills on the tick goroutine, a
  thrown knife or a `finish` on a session's, and whoever kills runs the whole
  death flow where he is;
* **contents that are listed and then moved**, one lock at a time, by looters, a
  robber, the filling of a corpse and its decay;
* **a sale across two stores**: the auctions are written at once, the purse and
  the bag at the next autosave, and a crash falls in between;
* **a quest across three**: what is done is in `quests.yaml`, its reward in the
  player's record, its mobs and items in the world, each with a lock and a
  lifetime of its own, and all keyed by a player id that outlives the session.

## 3. Modules

| module | models | state ↔ code |
|---|---|---|
| `Escrow` | `internal/escrow` with the custodian of `internal/trade` | `bag`, `gold`: an actor's inventory and purse; `phase`, `owner`, `coin`: a Transaction's status and legs; `staging`: a `StageItem` call between its check and its removal; `delivered`, `dest`, `record`: locals of `Commit` |
| `AtomicSwap` | what an escrow promises: all legs move in one step | abstract |
| `EscrowSwap` | the refinement of the one by the other | `gifts` is a history variable |
| `DirectTrade` | `internal/trade` and its callers, over `Escrow` | `pending`, `partner`, `txn`, `items`, `coins`, `confirmed`: the manager's two maps and a Session's fields; `mgr`: who holds the mutex; `status`, `room`, `asked`, `typed`: where each session goroutine is |
| `SaveFile` | `AtomicWrite` and a store above it | `dir`, `data`: names and inodes; `pc`, `fd`, `text`, `prior`: a call of it |
| `AtomicFile` | what a saved file promises: a write is one step | abstract |
| `Notifications` | `internal/notifications` with publishers, sessions, autosave | `entry`: the player's `entityState`; `file`, `named`: the Store; `pub`/`via`/`read`, `reg`/`loaded`/`from`, `leave`/`flush`, `snap`: the locals of a Publish, a Register and Drain, an Unregister, a SaveAll |
| `SessionLifecycle` | the sessions of one character: `internal/session` (`run`, teardown, takeover, link-dead, reconnect, idle, autosave) and the roster of `internal/login` | `pc`, `who`, `loaded`: where a connection's goroutine is, its `a`, its `e.save`; `actor`: a connActor's phase, latches, `conn`, `id`, save, dirty and saveGen; `index`: byConn and byPlayerID; `job`: the locals of a Persist; `tick`: those of a sweep |
| `AuctionHouse` | `internal/auction` with the verbs of `command/auction.go`, the sweep and the players' saves | `house`, `file`: the Store in memory and on disk; `cmd`: the verb a session goroutine is in, with its locals; `late`, `sweep`: what has lapsed, and what `SweepExpired` has found; `save`: bag and purse in the player's file |
| `AuctionMarket` | what an auction house promises: a sale is one step | abstract |
| `Combat` | `internal/combat`, the death flow of `cmd/anothermud`, `internal/corpse`, the mobs' reset, and the verbs kill, throw, finish, rob, flee, loot | `foes`: the lists of the combat Manager; `place`, `tracked`: Placement and the session manager, the entity store; `down`, `out`: 0 hit points, unconscious; `cmd`, `flow`, `haul`: the turn or verb, the death flow and the moving of contents each goroutine is in; `inside`, `lies`, `coins`: Contents and the corpses |
| `QuestProgress` | `internal/quest`, `queststore`, `questspawn`, what `questwatch` passes on, and what a session loads, derives and drops | `mem`, `cached`: `Service.states` and `players`; `mu`: its mutex; `file`, `named`: the Store; `claimed`, `owned`, `world`: the Spawner's two maps and the entities; `op`: the operation each goroutine is in; `pc`, `loaded`, `left`, `index`: the sessions; `purse`, `kept`: the rewards in the player's record, in memory and on disk |
| `EscrowProofs`, `DirectTradeProofs`, `SaveFileProofs`, `NotificationsProofs`, `SessionProofs`, `AuctionProofs`, `CombatProofs`, `QuestProofs` | theorems, section 7 | |
| `MC*` | instances for TLC | |

The grain of a step is what one goroutine does under one lock, or one system
call. A goroutine that has begun an operation is between two of its steps, and
anybody else may act there, unless a mutex keeps them out.

**Escrow.** A custodian call takes one actor's lock, so each leg is a step.
`Commit` is `CommitBegin` (the checks and the pre-event), a `DeliverItem` or
`DeliverCoin` for each leg, and `CommitEnd`; a failed delivery leads through
`TakeBack` and `ReturnItem` to `UndoEnd`; a veto or `Rollback` returns each leg.
Legs of one kind go in any order, where the code goes in staging order: that
only adds behaviours. Three constants describe the custodian and the world:
`RemovalChecked` (the contract of `escrow.Custodian`, which that of `trade`
does not keep), `CustodianFails` (deliveries and returns may fail, as the
contract allows; trade's never do), `TickTakes` (the tick goroutine uses up
items meanwhile, `CompleteReadyCrafts` and ammunition).

**DirectTrade.** `TradeFind` is the verb's look for the partner in the room,
and the `Initiate*` actions are what the manager then does. `OfferItem` and
`ConfirmSwap`, `Cancel` and `CancelFor` take the mutex and keep it while the
escrow works; `OfferItemEnd`, `ConfirmDone`, `ConfirmFailed` and `CancelEnd`
give it back. A room change is `SetRoom` and then `CancelFor`; a teardown is
`Hangup`, `CancelFor`, `LeaveWorld`. `typed` records whether a `confirm` on its
way was typed for the offers as they are, and `pair` what a confirmation
confirmed: both are history.

**SaveFile.** A name leads to an inode and an inode holds data, because two
writers who share a `.tmp` write into each other's file. Every call can fail.
A crash leaves the disk as it is at any of these steps; that a completed rename
might not survive a power cut is outside the model.

**Notifications.** One player: players share nothing in this package but the
map that holds their entries. `Append1` is the queue's insertion and eviction,
exactly. A publisher that finds an entry and a free way takes the sink, releases
the lock and then delivers; one that finds none appends to the file under the
lock of the name. The circumstances of a behaviour (`env`) are chosen at its
start from the sets in `Envs`: "again", "drops", "saves", "gap", "overlap",
"disk" (the file cannot be written), "unread" (it does not open, or does not
parse, and `Store.Load` takes it for an empty queue), "crash", "torn" (a write
ends between its two renames, in a crash or because the second fails and is not
taken back, and leaves no file, which `Load` takes for an empty queue as well).
Without any of them a load that falls into somebody else's write may find no
file (`Read`). Several circumstances break a promise, and each should be seen to
break it alone. `Register` never
fails: the only error it passes on is one that `Load` never returns.

**SessionLifecycle.** One character and several connections, each used once:
characters share only the maps of the manager, which are keyed by id. A
connection's goroutine is a program counter through login, takeover or
reconnect, play and teardown; the tick goroutine is another. The progress of a
character is a set of changes; a save record is named after the connection
that read it, because a takeover hands the pointer on and two actors may then
write into one record. `Persist` copies the record under the actor's lock and
writes it without. Registries keyed by the player id (proficiencies, quests,
effects) are `kept`, the actor that filled them last. What of the real
environment may happen is the constant `Allowed`, one name for each
circumstance, so that each can be seen to break a promise by itself:
"overlap" (a session begins or ends in the middle of another's beginning or
end), "stale" (a takeover prompt is answered when its session has ended),
"menu" (the file has changed since the roster was read), "saves" (two saves of
the character at once), "late" (a displaced session, which is indexed and
pumping until it is removed and its connection closed, changes the record after
the takeover's `Persist` has copied it), "disk" (saves fail), "crash". Before that
copy a displaced session may change its record in any behaviour (`Play`,
`Uncopied`). A crash in the middle of a `Persist` may leave no file; then nobody can
enter any more, since the roster calls such a character not loadable.

**AuctionHouse.** Each Store method changes the memory and writes the file
under its lock, so for everybody else it is one step: `Written`; `NotWritten`, when
the memory keeps the change that the file has not; or `RolledBack`, when it does
not. A crash may fall into such a step (`Writing`): before the renames or after
them the file is the old one or the new one, and between them there is none, which
is "torn". `Load` takes that for an empty house (`Crash`). What lies between
two methods, a charge, a credit, a change of the bag, is a step of its own. A
verb begins because somebody types it (`Types`) and goes on by itself
(`GoesOn`). `Allowed` names what may go wrong without the code repairing it
("disk", "refund", "tick", "torn": section 5), `faults` counts it, and with each crash
a new `era` of the market begins. `taken` and `fresh` are history.

**Combat.** What may be typed in a behaviour is a set of verbs, `play`, chosen at
the start: all verbs at once would be too many states, and each set is one
that meet in the same data. Hit points are abstracted to being down or not, so
a blow may fell at any time, and hit rolls, range bands, stances and
resistances, which only decide whether it does, are left out. The tick
goroutine runs one handler after another and one turn after another (`Free`);
what it does in a turn is cut where it looks something up and uses it later. A
death flow belongs to the goroutine that struck the blow. Two names in a play
are circumstances: "busy" (a session kills the one the tick goroutine is just
busy with) and "late" (a mob is robbed that has died since the verb found it).

**QuestProgress.** One player: players share only maps keyed by their id. The
service keeps its mutex while its events run, so that a spawner's steps
(`Activate`, `SpawnAll`, `Record`; `Cleanup`, `Despawn`) fall inside an
`Accept`, a `TurnIn` or a `Hit`, and `Unlock` takes the snapshot that `Save`
writes afterwards. A session goes from `Load` over `Install`, `Add` and
`Derive` to play, and from `Quit` (or `Reap`, by the tick goroutine) over
`CleanupPlayer`, `Persist`, `DropState` and `Forget` to its end. An objective
counts to 1: one that is part of the way behaves as one that has not begun. As
in `Notifications`, the circumstances of a behaviour are chosen at its start:
"again" (the player comes back), "saves" (an operation begins while another has
still to be saved), "gap" (the tick goroutine advances or grants a quest while
a session begins or ends), "overlap" (a session begins, or takes over, before
the last has ended), "broken" (a spawn fails), "disk", "crash". With neither
"gap" nor "saves" the tick goroutine does nothing, since it would do what the
session does anyhow. While `quests.yaml` is being written a load may find none,
and a crash, or with "disk" a failed rename, may leave none (`Saving`).
Everything that goes wrong with the player's record itself when sessions
overlap is in `SessionLifecycle`, not here.

## 4. What each run checks

| run | instance | states | shows |
|---|---|---|---|
| `escrow` | 3 parties, 2 items, 1 coin, 2 transactions, failures, vetoes, consumption | 384 400 | `OnePlace`, `CoinConserved`, `UnwindKeepsCoin`, `AuditExact`; `CommitTerminates` |
| `escrow_swap` | the same, trade's custodian, no consumption | 153 300 | `ImplementsSwap` |
| `direct_trade` | 2 players, 2 items, 1 coin, 2 rooms, 2 transactions | | `OffersShownExactly`, `SwapOnConfirmedPair`, `SameRoom` |
| `trade_three` | 3 players with nothing to offer, fair | 117 200 | `OneTradeEach`, `LeavingEndsTrade` |
| `save_file` | 2 writers with the mutex, 2 contents, failures, crashes | 272 400 | `NoHalfFile`, `ImplementsFile` |
| `notify` | 3 messages, cap 2, 2 sessions; with "again" and "drops"; with "again" and "unread"; with "drops", "saves", "gap", "overlap", "disk" and "crash"; and with "saves", "disk", "crash" and "torn"; symmetric in the sessions | 2 778 900 | `NotifyTypeOK` (queues sorted, bounded, no duplicates), `OfflineKept`, `Kept` |
| `session` | 3 connections, 2 changes, "disk", "crash"; symmetric in the connections | 1 218 200 | `OneLive`, `Findable`, `NoGhost`, `ProgressKept`, `NoRollback` |
| `session_ends` | 2 connections, 1 change, every circumstance, fair | 220 100 | `OneWinner`, `LinkDeadEnds` |
| `auction` | 3 players, one an administrator, 1 item, 1 listing, 1 crash, 1 fault, fair | 1 075 000 | `AuctionTypeOK`, `CollectedOnce`, `SurvivesCrash`; `ImplementsMarket`, `LapsedReturns` |
| `combat` | 2 players, 1 mob that is spawned with 1 item, 2 rooms, 6 plays, fair | 264 500 | `CombatTypeOK`, `OneDeath`, `LootOnce`; `GoneLeaveFights` |
| `quest` | 1 player, a run of two stages and a bounty, 2 spawns, 2 sessions, 6 sets of circumstances; symmetric in the sessions | 705 200 | `QuestTypeOK`, `PaidOnce`, `SpawnsFit` |
| `session_twice` | as `session`, with "stale" | | violated, see section 5 |

*Why the bounds are enough.* In the escrow two items let one be delivered while
another fails; three parties let a destination pass on what it has received to
somebody else; a coin next to them shows the order of items and coin; two
transactions compete for one item. In a trade two items and a coin make every
change of an offer that both sides can make, a second transaction shows what
the first left behind, and a third player is who makes "one trade each" more
than a matter of pairs: he has nothing to offer there, since what is offered
does not decide who trades with whom. Two writers are enough for every way two
calls of `AtomicWrite` overlap, and four inodes for three names and a descriptor.
Three messages of two priorities overfill a queue of two, from above and from
below the tier that is there. An amount is tried one beyond what there is,
since the code clamps or refuses it there. Three connections are a session, one
that takes over or reconnects, and one that does so again or logs in behind
their backs, which is what every counterexample of section 5 needs at most;
two changes tell a save that is old from one that is merely incomplete.
One listing is what a seller who withdraws it, two buyers, an administrator
and the sweep compete for, and nothing in the Store relates two listings but
the seller's cap and his pending coin; the price of 2 has a cut of 1, a buyer's
purse of 3 pays it once, and one crash shows what the files say at every step.
In a fight, two players and a mob are an attacker, a victim and somebody who
interferes from another goroutine; the mob carries one item and may have a
purse, which is what a robber, a looter, the corpse and its decay want; a mob
that has died does not come back, as a new one would be another entity. Of the
two quests one is turned in and one is paid at once, one bars the other; a
second stage with two objectives shows what an advance resets and what a relog
derives of a half-done stage (a mob that is due again, an item that is not);
a kill advances both quests in one pass. Two sessions are one that leaves
something behind and one that finds it, and a second copy of a spawn is what
`SpawnsFit` forbids.

*What the restrictions of the passing runs mean.* `escrow` has
`RemovalChecked`, the contract; `direct_trade` has the code's custodian and no
consumption, and `TickMoves` off; with either on, section 5 shows what happens.
`save_file` has the store's mutex (`Serialized`), which `player.Store` holds.
`Kept` of `notify` speaks of behaviours without "gap", "saves" and "overlap",
since each of them loses or misroutes a message by itself, and without
failures; `OfflineKept` of all without "unread" and "torn", crashes at any
other step and overlapping publishes included; and `NotifyTypeOK` of all.
`session` checks what holds when the beginnings and ends of sessions take
turns, prompts and rosters are fresh, saves do not overlap, and a displaced
session leaves its record alone once the takeover has copied it: within that,
everything interleaves (play, hangups, idle timeouts, sweeps, failures,
crashes, several connections at menus and prompts). Each of the five excluded
circumstances breaks one of its properties by itself, so none could be left in.
`session_ends` checks what holds with them. `auction` has everything on;
`ImplementsMarket` and `SurvivesCrash` promise nothing once a fault has been
counted, of which a crash that tears a write is one, `CollectedOnce` and
`LapsedReturns` hold all the same. `combat` has no play with "busy" or "late".
In `quest`, `PaidOnce` speaks of behaviours in which sessions and operations
take turns and nothing but a spawn fails, since each other circumstance pays
twice by itself; `SpawnsFit` of all but "gap" and "overlap", so failed and late
saves and crashes included; and `QuestTypeOK` of all.

The types of the state are one conjunct of `TypeOK`, `TradeTypeOK`,
`NotifyTypeOK`, `AuctionTypeOK`, `CombatTypeOK` and `QuestTypeOK`, which also
say what the code relies on about the shape of its data (that purses are not
negative, that no file has two names, that queues are in order, that a fight is
in both lists, that no State in memory, on disk or on its way has a stage that
is done and still current). Deadlock is not checked: the system may rest when nobody has
anything left to do, as players may stop typing, writers saving, and the two
transactions and three messages be used up.

## 5. What the code does not keep

A run that TLC refutes, with the sentence of the repository it contradicts in
`PROJECT.json`'s `findings`:

* `session_twice` (`OneLive`): the takeover prompt of a connection asks about
  the session it has found. When that session ends before the answer, and
  another connection logs in meanwhile, a "yes" still claims the dead actor;
  `Manager.Remove` then deletes `byPlayerID`, whoever is entered there, and the
  character is played by two connections at once.

Formulas that no run checks like this, because the code does not keep them
either; TLC refutes each on the instance named:

| formula | instance | what happens |
|---|---|---|
| `OneLive` (`SessionLifecycle`) | that of `session` with "overlap" | two logins both find no session (`session.go:762`) before either is added (`:1225`) |
| `Findable` (`SessionLifecycle`) | that of `session` with "overlap" | a teardown under way when a new session is added removes that one from the index and drops its quests and effects, since `Remove` (`manager.go:350`) and `Drop` go by the player id; a late `RemoveConnectionOnly` unbinds a session that has been resumed meanwhile |
| `NoRollback` (`SessionLifecycle`) | that of `session` with "menu" | the save comes from the roster (`login.go:459`), and the player may enter from the menu much later; only a takeover replaces the record (`session.go:782`), so if the other session has quit, its progress is overwritten by the next save |
| `NoRollback`, `ProgressKept` (`SessionLifecycle`) | that of `session` with "saves" | `players.Save` runs after the actor's lock is released, so the autosave's older snapshot may be written after the teardown's newer one |
| `ProgressKept`, `NoRollback` (`SessionLifecycle`) | that of `session` with "late" | the displaced session is in the index and its pump runs between the takeover's `Persist` (`takeover.go:93`) and `Remove` and `Close` (`:115`, `:118`): what it changes there is in the record the new session inherits, but the new session does not know that it is dirty, against the comments at `takeover.go:67` ("preserve any mutations the displaced session had not yet autosaved (location, dirty flags ...)") and `:101` |
| `OnePlace` (`Escrow`) | that of `direct_trade` with `TickTakes` | `StageItem` (`trade/custodian.go:53`) ignores what `RemoveFromInventory` returns: an item the tick goroutine has used up in between is staged and delivered, against the contract at `escrow/escrow.go:77` |
| `SameRoom` (`DirectTrade`) | that of `direct_trade` with `TickMoves` | the verb finds the partner in the room, the tick goroutine moves one of them, and the session opens between two rooms, where no `CancelFor` will come, against `docs/specs/direct-trade.md:165` |
| `NoHalfFile` (`SaveFile`) | that of `save_file` without `Serialized` | `notifications.Store.Save` and `queststore.Store.Save` hold no lock across `AtomicWrite`: two calls for one player share a `.tmp`, and one promotes what the other has truncated, against `docs/specs/persistence.md:244` |
| `Kept` (`Notifications`) | that of `notify`, for `env \subseteq {"again", "gap"}` | a publish between `Register`'s read of the file and the installation of the entry, or between `Unregister`'s removal of the entry and its save, is acknowledged and lost, against `docs/specs/notifications.md:37` |
| `OfflineKept` (`Notifications`) | that of `notify`, without its condition on "unread" | `Store.Load` takes a file it cannot read or parse for an empty queue (`notifications/store.go:101`, `:110`), so the next publish to an absent player overwrites the backlog, against `docs/specs/notifications.md:37` |
| `OfflineKept` (`Notifications`) | that of `notify`, without its condition on "torn" | a crash between the renames of a write (`persistence/atomic.go:50`, `:61`), or a second rename that fails and cannot be taken back, leaves the backlog under the name of the `.bak`; `Store.Load` takes the missing file for an empty queue (`notifications/store.go:101`), and the next publish writes it, against `docs/specs/notifications.md:37` |
| `ActiveIsRegistered` (`Notifications`) | that of `notify` with `{"again", "overlap"}` | a session taken over while it registers installs its sink over that of the session that took it over |
| `NoStaleRequest` (`DirectTrade`) | that of `direct_trade` | a request recorded between a teardown's `CancelFor` and `Manager.Remove` survives the player it names, against the comment at `trade/manager.go:335` |
| `SwapOnSeenPair` (`DirectTrade`) | that of `direct_trade` | a swap fires on a `confirm` typed before the other side changed its offer and confirmed again, against `docs/specs/direct-trade.md:110`; `SwapOnConfirmedPair` is what does hold |
| `ReadersSeeFile` (`SaveFile`) | that of `save_file` | a load between the two renames finds no file, although nothing has failed, against the comment at `player/player.go:634` |
| `CrashLeavesFile` (`SaveFile`) | that of `save_file` | a crash between the two renames leaves only the `.bak`, which nothing reads, against the comment at `persistence/atomic.go:28`; what the stores make of it is in the rows "torn" |
| `Kept` (`Notifications`) | that of `notify`, for `env \subseteq {"drops", "saves"}` | an autosave during a drain that then fails marks clean what the drain puts back, and the logout drops it |
| `DrainOrder` (`Notifications`) | that of `notify` | what is published during a drain overtakes more urgent messages still to be drained |
| `ReconnectDrains` (`Notifications`) | that of `notify`, fair | what is queued while a player is link-dead is not delivered on reconnect |
| `OneDeath` (`Combat`) | play `{"kill", "throw", "cast", "move", "busy"}` | the ability's resolver looks for HP <= 0, by whomever (`progression/resolution.go:411`): when a thrown knife kills between its damage and its look, the death flow runs twice, with two corpses and two rewards, against the comment at `cmd/anothermud/main.go:3613` |
| `OneDeath` (`Combat`) | play `{"throw", "wimpy", "move", "busy"}` | `combatMover` asks where the mob is and then places it (`main.go:5768`); killed in between, it is placed again after its removal, and stays in the room without being in the store |
| `LootOnce` (`Combat`) | play `{"subdue", "rob", "finish", "move", "late"}` | `RobHandler` claims the mob after `CreateOnDeath` has asked `IsLooted`, and both roll its purse, against `corpse/downed.go:93` |
| `ImplementsMarket` (`AuctionHouse`) | that of `auction`, "refund" not counted as a fault | a sale that is refunded between the buyer's `PendingPickups` and his `ConfirmItemCollected` returns the coin, and the buyer has the item, against `auction/admin.go:39` "no dupes" |
| `ImplementsMarket`, `SurvivesCrash` (`AuctionHouse`) | that of `auction`, "disk" not counted | `ListAdd`, whose write fails, refunds the fee and keeps the item with the seller, but the listing stays in memory and can be sold (`auction/manager.go:169`); a collection whose write fails has pruned the listing from memory, against the comment at `auction/collect.go:53` |
| `SurvivesCrash` (`AuctionHouse`) | that of `auction`, "torn" not counted | after a crash between the renames of a write `Store.Load` takes the missing file for an empty house (`auction/store.go:97`): every listing and every pending coin is gone and numbers begin again, against the comments at `persistence/atomic.go:30` ("a reader sees one valid file in either case") and `auction/store.go:91` ("must not silently start empty") |
| `ImplementsMarket` (`AuctionHouse`) | that of `auction`, "tick" not counted | `List` does not look at what `RemoveFromInventory` answers (`auction/manager.go:177`): an item used up meanwhile is for sale |
| `PaidOnce` (`QuestProgress`) | that of `quest`, asserted for `{"again", "saves"}` | the snapshot is taken under the service's mutex and written after it: two saves may land in the wrong order, and after a reap, which drops nothing but is followed by a load, the older one is what counts, so the quest is done and paid again |
| `PaidOnce` (`QuestProgress`) | asserted for `{"again", "gap"}` | a quest granted by the tick goroutine after `DropState` and before `Forget` (`session.go:1553`) makes a new, almost empty State, which is saved over the file: the history is lost, against the comment at `session.go:1550` that the drop is "a pure memory release" |
| `PaidOnce` (`QuestProgress`) | asserted for `{"overlap"}` | the session of a takeover loads the file while the completion of the one it displaced has still to be saved, and installs what it has read over the newer State |
| `PaidOnce` (`QuestProgress`) | asserted for `{"again", "crash"}`, or `"disk"` | the completion is saved at once and the reward with the player's record at the next autosave: a crash in between pays never or, the other way round, twice; a failed save of the completion, which is only logged, is forgotten by the next login |
| `SpawnsFit` (`QuestProgress`) | that of `quest`, asserted for "gap" | a stage is spawned between `SpawnAll` and `Record` when `CleanupPlayer` runs: the entities are recorded for a player who has gone and stay in the world, against `docs/specs/quest-spawns.md:240` |
| `SpawnsFit` (`QuestProgress`) | asserted for "overlap" | the late end of a session drops the State of the next one, or its cleanup has the stage spawned twice, against `docs/specs/quest-spawns.md:210` |

The auction's crash consistency is one-sided: `SurvivesCrash` says that, unless
a write is torn, nothing is lost on disk, not that nothing is there twice. A
crash after `Collect` has saved nothing leaves the item neither in the listing
nor in the bag (that is the `fresh` of the property), and one after `List` has
it in the listing and in the seller's save, although
`docs/specs/auction-house.md` §4 says "never duplicated".

Seen while modelling fights, and part of the model: `Contents.Take` does not say
which container it takes from, so a looter may take an item from where the
decay or another transfer has put it meanwhile; it cannot double one. The loot
tables are rolled on whatever goroutine kills, although `main.go:1530` says that
their generator is confined to the tick goroutine. What keeps a turn that
cleaves finite is only that nobody is struck twice.

Seen while modelling the sessions, and part of the model: a takeover whose
`Persist` fails hands on the record but not its dirty mark, so that nothing is
written until the next change, against the comment at `takeover.go:80` (that is
why `ProgressKept` and `NoRollback` ask that no save has failed); the reaping of
a link-dead session drops follow and party edges but not the registries that
`fullTeardown` drops, against `docs/specs/session-lifecycle.md` §7.3 "run the
same teardown" (`SweepSave` leaves `kept` alone); the fallback of
`enterLinkDeadTeardown` cannot be reached as long as nobody else holds the
actor, which `HeldAlone` of `SessionProofs` shows.

Seen while modelling quests: the reward dispatcher knows a player only since he
has accepted or turned in something in this process (`cached`), so a quest that
pays of itself and is completed after a relog pays nothing; `docs/specs/quests.md`
§4.3 has the case of a completion before any acceptance, but not this one, and
`PaidOnce` therefore asks for payment of turned-in quests only. The reaping of a
link-dead session drops neither the State nor the name. At a logout
`CleanupPlayer` runs after the session has left the index, so the despawn of an
item does not reach the bag it is in. The notifier writes to the client while
the service holds its mutex, although `quest/events.go:63` wants sinks that do
not block.

Three promises of `docs/specs/notifications.md` have no code at all, so nothing
is modelled: an id that makes a second publish of a notification a no-op, a
time to live, and a limit on how many are drained at once.

## 6. Fairness

Fairness is assumed only for a goroutine that has begun something: the Go
scheduler runs every runnable goroutine, and none of the modelled loops waits
for a player. `WF(Finish)`: a commit or a rollback runs to its end, since
custodian calls only take an actor's lock for a moment. `WF` of the `*End` and
`*Done` actions of `DirectTrade`: an operation that holds the manager's mutex
gives it back. `SF(CancelFor)`: a teardown that waits for that mutex gets it
although others take it again and again, which is what `sync.Mutex`'s
starvation mode promises; weak fairness would not be enough, as the mutex is
not free all the time. In `SessionLifecycle`, `SF(Runs)`: a goroutine in the
middle of a login or a teardown goes on, although it may have to wait for the
manager's mutex or for another save; `WF` of `Unwind` on a closed connection:
the read of a closed connection fails; `SF(Sweep)` and `WF(TickRuns)`: the tick
loop calls the sweep again and again and each handler returns;
`SF(SweepClaim)`: a session that is still link-dead at one sweep after another
has at some time been so for the timeout. In `AuctionHouse`, `WF(Ticks)`: the
sweep is called every interval and goes through what it has found. In `Combat`,
`WF(Handles)`: a handler of the tick goroutine returns; `SF(Attack(x))`: every
round gives each combatant its turn, among others that may keep the goroutine
busy in between. A session need not go on there. A player never has to type
anything, and no message has to be published.

## 7. What is proved

By TLAPS, for every value of the constants (any number of players, parties,
items, transactions, rooms, writers, connections, listings, mobs, quests), without
bounds. `Spec` is that of the component the module's name says.

| theorem | assumption | invariant |
|---|---|---|
| `EscrowTypeOK`: `Spec => []TypeOK` | | inductive as it stands |
| `EscrowOnePlace`: `Spec => []OnePlace` | `Careful`: the custodian checks its removals, or nothing is consumed and nothing fails | `EscrowInv` |
| `EscrowUnwindKeepsCoin`, `EscrowAuditExact`: `[]UnwindKeepsCoin`, `[]AuditExact` | | `AuditInv` |
| `EscrowCoinConserved`: `Spec => []CoinConserved` | `Finite`: finitely many parties and transactions | `CoinInv` |
| `EscrowImplementsSwap`: `SwapSpec => ImplementsSwap` | `Finite`, `~CustodianFails`, `~TickTakes` | `SwapInv`; refinement, step by step |
| `TradeTypes`: `TradeSpec => [](TypeOK /\ TradeTypeOK)` | | each step of the trade is a step of the escrow or leaves it alone (`EscrowSide`) |
| `OneTrade`: `TradeSpec => []OneTradeEach` | | `TradeInv` |
| `TradeOnePlace`: `TradeSpec => []OnePlace` | `~TickTakes` | `EscrowSide` and `EscrowInv` |
| `TradeCoinConserved`: `TradeSpec => []CoinConserved` | `Finite` | `EscrowSide` and `CoinInv` |
| `TradeSameRoom`: `TradeSpec => []SameRoom` | `~TickMoves` | `RoomFits` |
| `TradeOffersShown`, `TradeSwapOnConfirmed`: `[]OffersShownExactly`, `SwapOnConfirmedPair` | | `OfferInv` |
| `SaveTypeOK`, `WholeFileAlways`: `[]TypeOK`, `[]NoHalfFile` | `Serialized` | `SaveInv` |
| `WriteIsAtomic`: `Spec => ImplementsFile` | `Serialized` | refinement, step by step |
| `NotifyTypes`: `[]NotifyTypeOK` | any circumstances | `NotifyIInv` |
| `NotifyOfflineKept`: `[]OfflineKept` | none beyond the circumstances the property names | with it, `OfflineIInv` |
| `NotifyKept`: `[]Kept`; `NotifyRegistered`: `ActiveIsRegistered`, in the same circumstances | the same | with both, `KeptIInv` |
| `SessionTypeOK`, `SessionOneWinner`: `[]TypeOK`, `[]OneWinner` | any `Allowed` | `SessionInv` |
| `SessionOneLive`, `SessionFindable`, `SessionNoGhost` | `Orderly`: no "overlap", no "stale" | `OrderInv` |
| `SessionProgressKept`, `SessionNoRollback`: `[]ProgressKept`, `NoRollback` | `InTurn`: `Orderly`, no "menu", no "saves", no "late" | `RecordInv` |
| `AuctionTypes`: `[]AuctionTypeOK` | | `TypeInv` of `AuctionProofs` |
| `AuctionCollectedOnce`: `[]CollectedOnce` | | `OnceInv` |
| `AuctionSurvivesCrash`: `[]SurvivesCrash` | each item is in somebody's bag at the beginning | `AnchorInv` |
| `AuctionIsMarket`: `Spec => ImplementsMarket` | | `MarketInv`; refinement, step by step |
| `CombatTypes`: `[]CombatTypeOK` | | `TypeInv` of `CombatProofs` |
| `CombatOneDeath`: `[]OneDeath` | `NotBusy`: no play has "busy" | `DeathInv` |
| `CombatLootOnce`: `[]LootOnce` | `NotBusy`, and `NotLate`: no play has "late" | `LootInv` |
| `QuestTypes`: `[]QuestTypeOK` | | `TypeInv` of `QuestProofs` |
| `QuestPaidOnce`: `[]PaidOnce` | none beyond the circumstances the property names | `PaidInv` |
| `QuestSpawnsFit`: `[]SpawnsFit` | the same | `FitInv` |

*Assumptions on constants* are the `ASSUME`s of the modules: nobody is not a
party, the initial owners are parties, the destinations are parties or nobody,
the switches are Booleans; a corpse is neither a fighter nor nothing; a stage
of a quest has objectives, which `Registry.Register` demands
(`quest/registry.go:60`), and a spawn is the declaration of one stage, even
where two declare the same template; priorities and the cap are natural
numbers, an entry is not "no entry". `Finite` is what a sum needs, and true of any
process. The other
assumptions of the second column are what the code has to provide; where it
does not, section 5 has the counterexample (for a custodian that fails, the
unwind itself is not a step of the swap), so none of them can be dropped.
All are met by the passing run that checks the property, except where the run
needs less than the theorem: `escrow` has `RemovalChecked`, `direct_trade`
neither `TickTakes` nor `TickMoves`, `session` is `InTurn`, `combat` is
`NotBusy` and `NotLate`.

*One place.* That every item is in exactly one place is not inductive: a
delivery could go to nobody, an item could be marked delivered without a leg,
and an item being staged could have left the bag. `EscrowInv` adds that a leg's
destination is a party while it is delivered (`DestKnown`), that only items
with legs are delivered while the commit runs (`DeliveredFits`), that a staging
call belongs to an open transaction and an item without a leg
(`StagingFits`), and that what a party has checked is still in its bag
(`StagedInBag`, which is where `Careful` comes in: a player runs one command at
a time, so only the tick could have taken it). An action changes the place of
at most one item (`OneMoves`), so the proof of each action is that of one item.

*The log.* `AuditInv` needs nothing of `Careful`, since the log speaks of legs
and not of bags. It adds `DeliveringFits`: during a commit the record drawn up
at its beginning has the legs as they are, and as long as an item is still in
custody no coin has been credited. That holds because items are delivered
first, and it is why an unwind, which only an item's failure can cause, finds
every coin where it was.

*Coin.* `CoinConserved` is a sum over all purses and over the legs of all
transactions. The library's induction over finite sets takes an operator as a
parameter and cannot be used here, so what a sum does (`SumRemove`, `SumUpdate`,
`SumOrder`, `SumExcept`) is shown by way of a smallest subset that is a
counterexample. With that, each step moves some amount between one purse and
one leg, or none. `CoinInv` adds what makes this true at the end of a
transaction (`CoinFits`): a leg with coin has a destination while it is
delivered, and a transaction that is over has no coin left.

*All at once.* `SwapInv` says that over trade's custodian nothing is ever
unwound (`NoUnwind`) and nothing lost (`NothingLost`). `Owners` says of each
item whose it is in the abstract state: in the bag or in a leg of that party,
or, once the commit has begun, of whoever it will be delivered to. What moves
between a leg and the bag or purse of him whose it is changes nothing of this
(`StaysWith`, `OwnMoves`): a delivery or a return is a stutter of the swap, an
offer or a withdrawal only one of the abstract offers. What is left, the commit,
the veto, the rollback and the gifts, has a lemma for each abstract action.
That nobody's abstract purse goes below nothing (`Afford`) is a
comparison of sums.

*One trade each.* `OneTradeEach` says that sessions are symmetric: my partner's
partner is me, over the same transaction, that nobody else uses. `TradeInv`
adds that the index fits (`IndexFits`): who has a partner has a transaction,
one of those handed out. Only three things touch the index: `InitiateAccept`,
`Remove`, and `ConfirmFailed`, which gives both sides a new transaction.

*What is shown.* `RoomFits` follows a request from the look in the room to the
session: who asks is there, two who ask each other are in one room, and a
session over two rooms has somebody on the move whose `CancelFor` is still to
come, or is being cancelled. `OfferInv` compares the session's offers with the
escrow's legs, but only while the session is `Settled`: in the middle of a
commit or a rollback the legs go first and the offers with the session. A
transaction that nobody has been handed is blank, and one that no session has
any more is closed (`LifeFits`); so nothing that was staged is forgotten. A
confirmation that stands was given for these legs, because every change of a
leg takes both confirmations back under the same mutex.

*Whole files.* `SaveInv` says that at most one writer is under way
(`OneWriter`), that `file` and `bak` lead to whole contents (`WholeFiles`),
which names exist at each step of a call (`NamesAt`), and that the descriptor
leads to the `.tmp` (`OpenFiles`). `WriteIsAtomic` maps the save to the file,
or to the `.bak` while there is no file; the promotion is the one step that
changes it, and every other system call, failure and crash is a stutter or an
answer to the caller.

*Queues.* That `Append1` makes of a queue a queue (`IsQueue`: no message twice,
in drain order) needs only that the message is new to it and that its place is
where `sort.Search` finds it; that the queue stays within the cap is the
eviction. `AppendEach`, the loop that puts back what a failed drain has not
delivered, is followed round by round (`IsAfter`). It needs that the drained and
the live queue have nothing in common, which is `DrainsApart`; and a
message that nobody has published yet is in no queue (`NotYetQueued`). These hold
in any circumstances. `OfflineIInv` says that what is being saved under the lock
of the name contains all that is owed (`SavesAllOwed`), by one publisher at a
time (`OneSaving`). `KeptIInv` holds while sessions take turns: one is alive at
a time, it has the entry, a queue that is not marked dirty is the file's
(`CleanIsSaved`, which is what lets a logout skip the write), and what is owed
waits where the session's next step takes it from (`OwedWaits`).

*One winner.* `OneWinner` speaks of connections, but what decides is the phase
and the latch of the actor. `SessionInv` says that an actor is built once, by
the connection it is named after (`BuiltLate`), that whatever is looked up,
served, indexed or saved has been built (`BuiltOnly`), that a goroutine that
plays or resumes an actor does so alone and that its phase is then "playing"
(`HeldAlone`), and that the sweep's actor is "tearing" and a displaced one
latched, by one connection (`Claimed`). Only four steps take hold of an actor
or let it go (`Build`, `Reattach`, `Claim`, `SweepClaim`); the others go
through `Walk`, `StillBuilt` or `OneMoves`, which say what such a step may not
disturb. It needs no restriction of the circumstances.

*One session.* `OrderInv` says which session the index holds, from where the
goroutines are: at each step of a takeover, a resumption, a link-death or a
teardown it is that one's or nobody's, and so are the registries
(`OneIndexed`); what each goroutine's actor looks like at that step (`Marked`);
and that a displaced session that is still indexed has its displacer
(`Displaced`). `NoGhost` is a part of it. `RecordInv` adds the saves: one
Persist at a time, of an actor that is dirty (`OneSaves`), the record of the
session that is current has every change and knows what the file has not
(`RecordFits`), and what is being written contains what has been written
(`TextFits`). The last is why the generation counter matters: a Persist that
finds it unchanged has written the record as it is, and only then clears the
mark.

*The auction.* `TypeInv` says of each step of a verb what its locals hold, and
that no sum is negative; the arithmetic it needs is `CutBounds`: the cut of a
sale lies between 0 and the price. `OnceInv` adds that listings have numbers
already given out and that what a player has taken is no longer in the house,
on disk or in memory: a number is never used again, because the counter is
written with the listing, and when the file is lost the listings are lost with
it. `AnchorInv` says where an item is after a crash, as long as no fault has
been counted: in a listing on disk, with a collector who has not been saved
since, or in the bag of its owner and in his save, unless he is just taking it
out of the bag for a listing. `MarketInv` is what makes each step of a verb a
step of the market or a stutter: what the verb has seen still holds where it
acts on it (`ListsFit`, `BuysFit`, `PicksFit`), as long as nothing has gone
wrong. The mapping counts a player's pending coin as his, so the charge, the
sale and the collection are one sale at the moment the listing is closed.

*One death.* `DeathInv` says that a mob that is down and still in the store is
being buried by exactly one goroutine (`FelledOnce`), that whoever is in the
game at 0 hit points is about to be buried, revived or looked at
(`CaredFor`), and that whom the tick goroutine has in hand is as it was when it
looked (`StillThere`), which is false with "busy". `LootInv` adds where each
item is (`ItemOnce`, with `Cardinality` only in the last step, `LootOnce`) and
that a purse comes into being at the robber's hand or at the death, by one
goroutine, after `ClaimLooted` (`PurseOnce`).

*Quests.* `TypeInv` follows a State from memory over the snapshot to the file
and back. `TurnInv` says what it means that sessions take turns: one session at
a time is neither out nor gone, its operations are where it is, and the tick
goroutine's only while somebody is in the game; so whoever is at the spawner is alone
there (`OneBusy`), although the login derives its stages without the service's
mutex. `RecordInv` of `QuestProofs` says which State accounts for what has been
paid: the one in memory while a session has it, the one on disk otherwise, and
an operation that has changed it will save it (`Unsaved`). `SpawnInv` relates
the world to the State: what lives is owned or in somebody's hand, once each
(`HeldInv`); what is owned has been claimed, for a stage that an active quest
has reached, unless the quest is about to be swept (`ClaimInv`); an activation
is of the current stage, and nothing of that stage exists before it spawns
(`StageInv`); and what an active quest should show is there, or a worker is
about to put it there, or a login is about to derive it (`ShownInv`). That
spawns of different stages differ is used once: an unclaimed stage has nothing
in the world (`Unclaimed`). Both invariants hold vacuously under the
circumstances their property excludes, and `TypeInv` under all.

*Only model-checked.* Every safety property the passing runs check, and every
refinement, is stated by a theorem. What is left is liveness
(`CommitTerminates`, `LeavingEndsTrade`, `LinkDeadEnds`, `LapsedReturns`,
`GoneLeaveFights`): fairness and `ENABLED` are out of the prover's reach.

## 8. What is not modelled

Text, layout, encodings and file formats; content packs, Lua scripts and the
tables of the game; telnet and WebSocket. They hold little state that others
share. The arithmetic of stats, saves and damage is sequential and tested case
by case. Of the modelled components: the directories and the path checks of the
stores, the migration of old saves, more than one recipient of a notification,
and the text that is delivered; of the sessions the indices by name, account and
room, character creation and deletion, the flood gate and the panels of the
clients; of the auctions the browsing and the text, and what a listing keeps of
its item to build it anew; of combat everything that only decides whether a
blow hits and how hard, the pools other than hit points, ranged fire from
another room, and the tags that forbid a fight; of quests the counts of an
objective, the gates on level, class and faction, which fields of an event must
match, offers, markers, banners, and quests that have left the content since
they were saved. `PROJECT.json` names each package left out and
why.

## 9. Plan

In this order:

1. `TradeSaves`: `DirectTrade` with the players' saves, for a crash between an
   autosave and the end of a trade, and for a takeover of a trading session.
2. `EventBus` with `TickLoop`, then shops and crafting.
