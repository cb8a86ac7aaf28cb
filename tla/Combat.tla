------------------------------- MODULE Combat -------------------------------
(***************************************************************************)
(* Fights: src/internal/combat, the death flow of cmd/anothermud, corpses  *)
(* (src/internal/corpse), the respawn of mobs (src/internal/spawn) and the *)
(* verbs kill, throw, finish, rob, flee and loot.                          *)
(*                                                                         *)
(* The tick goroutine runs the rounds of combat, the decay of corpses and  *)
(* the reset of areas, one handler after the other. Each player's session  *)
(* goroutine runs verbs, and some verbs kill: then the whole death flow    *)
(* runs there, next to a round that may be under way. The lists of the     *)
(* combat manager, the placements, the contents of containers, a vital and *)
(* a bag have a lock each, which is the grain of the steps.                *)
(*                                                                         *)
(* Hit points are abstracted to being down (at 0) or not: a blow fells or  *)
(* changes nothing. Left open are the primary one of several opponents, as *)
(* a player may promote any, and who of the combatants has the next turn   *)
(* in which phase of a round. Time is left out: an effect, a looting       *)
(* window and a corpse may end at any time, a flee cooldown at once.       *)
(***************************************************************************)
EXTENDS Integers, FiniteSets

CONSTANTS
  Player, Mob, Item, Room, None, Nowhere,
  Tick,          \* the tick goroutine
  Start, Lair,   \* where players wake up, where mobs are spawned
  Carries,       \* item -> the mob that is spawned with it
  InitMob,       \* the mobs that are there at first
  Population,    \* SpawnRule.Count
  Plays          \* sets of verbs that are typed together. Two names stand for
                 \* circumstances: "busy", a session kills whom the tick is busy
                 \* with; "late", a mob is robbed that has died meanwhile

Fighter == Player \cup Mob
Worker == Player \cup {Tick}
Corpse(m) == <<m>>

ASSUME CombatAssumption ==
  /\ Player \cap Mob = {} /\ Tick \notin Player
  /\ None \notin Fighter \cup Item /\ Nowhere \notin Room
  /\ Start \in Room /\ Lair \in Room /\ Carries \in [Item -> Mob]
  /\ InitMob \subseteq Mob /\ Population \in Nat
  /\ \A m \in Mob : Corpse(m) \notin Fighter \cup {None}

VARIABLES
  place,    \* fighter -> where it is, by Placement or the session manager
  tracked,  \* the mobs in the entity store
  down,     \* who has 0 hit points
  out,      \* who is unconscious
  foes,     \* fighter -> its combat list
  cmd,      \* goroutine -> the verb, or the turn of the round, under way
  flow,     \* goroutine -> the death flow it runs
  haul,     \* goroutine -> the contents it is moving
  hit,      \* whom the turn under way has struck at (`excluded` of a cleave)
  inside,   \* item -> the mob or corpse it is in, by Contents
  bag,      \* player -> what he carries
  gone,     \* items destroyed
  lies,     \* mob -> where its corpse lies
  coins,    \* the mobs whose corpse holds coins
  looted,   \* the mobs that were robbed
  minted,   \* mob -> how often its purse was rolled
  deaths,   \* mob -> how often mob.killed was published for it
  play      \* the verbs of this behaviour

bodyVars  == <<place, tracked, down, out>>
lootVars  == <<inside, bag, gone, lies, coins, looted, minted>>
workVars  == <<cmd, flow, haul>>
restVars  == <<hit, deaths, play>>
vars == <<bodyVars, foes, lootVars, workVars, restVars>>

Idle == [at |-> "idle", who |-> None, on |-> None, room |-> Nowhere]
NoFlow == [at |-> "none", who |-> None, by |-> None]
NoHaul == [of |-> None, to |-> None, todo |-> {}]

Init ==
  /\ place = [x \in Fighter |-> IF x \in Player THEN Start ELSE IF x \in InitMob THEN Lair ELSE Nowhere]
  /\ tracked = InitMob /\ down = {} /\ out = {}
  /\ foes = [x \in Fighter |-> {}]
  /\ cmd = [g \in Worker |-> Idle]
  /\ flow = [g \in Worker |-> NoFlow]
  /\ haul = [g \in Worker |-> NoHaul]
  /\ hit = {} /\ inside = Carries /\ bag = [p \in Player |-> {}] /\ gone = {}
  /\ lies = [m \in Mob |-> Nowhere] /\ coins = {} /\ looted = {}
  /\ minted = [m \in Mob |-> 0] /\ deaths = [m \in Mob |-> 0]
  /\ play \in Plays

------------------------------------------------------------------------------
(* The combat manager, and who is where. *)

(* LookupCombatant: a mob in the store, a player with a session.           *)
Known(x) == IF x \in Mob THEN x \in tracked ELSE place[x] # Nowhere
Together(x, y) == place[x] = place[y] /\ place[x] # Nowhere
InCombat(x) == foes[x] # {}

Engaged(x, y) ==
  IF y \in foes[x] THEN foes ELSE [foes EXCEPT ![x] = @ \cup {y}, ![y] = @ \cup {x}]

Disengaged(x, y) == [foes EXCEPT ![x] = @ \ {y}, ![y] = @ \ {x}]

(* Mutant of OutOfAll: the opponents keep the one who leaves.              *)
OutOfOwn(x) == [foes EXCEPT ![x] = {}]

(* DisengageAll.                                                           *)
OutOfAll(x) ==
  [y \in Fighter |-> IF y = x THEN {} ELSE IF y \in foes[x] THEN foes[y] \ {x} ELSE foes[y]]

Calm(g) == flow[g].at = "none" /\ haul[g].of = None
Free(g) == cmd[g].at = "idle" /\ Calm(g)
At(g, at) == cmd[g].at = at /\ Calm(g)
Do(g, at) == cmd' = [cmd EXCEPT ![g].at = at]
Done(g) == cmd' = [cmd EXCEPT ![g] = Idle]

------------------------------------------------------------------------------
(* Blows *)

(* Mutant of Falls: whoever is down already falls once more.               *)
FallsAgain(g, x, y, how) ==
  /\ down' = down \cup {y}
  /\ flow' = [flow EXCEPT ![g] = [at |-> how, who |-> y, by |-> x]]

(* ApplyDamageIfAlive or Deplete brings y to 0: who does that, and nobody  *)
(* else, runs the death flow, or the knock-out of a subdual weapon.        *)
Falls(g, x, y, how) ==
  /\ y \notin down
  /\ down' = down \cup {y}
  /\ flow' = [flow EXCEPT ![g] = [at |-> how, who |-> y, by |-> x]]

Dies(y) == IF y \in Mob THEN "corpse" ELSE "revive"

(* A blow of one goroutine: it falls short, or fells.                      *)
Blow(g, x, y) ==
  \/ UNCHANGED <<down, flow>>
  \/ Falls(g, x, y, Dies(y))
  \/ "subdue" \in play /\ Falls(g, x, y, "knock")

(* The tick goroutine has looked at y and not finished with it.            *)
TickBusy(y) ==
  \/ cmd[Tick].at \in {"cast", "probe"} /\ cmd[Tick].on = y
  \/ cmd[Tick].at \in {"part", "go"} /\ cmd[Tick].who = y

------------------------------------------------------------------------------
(* Verbs of a player *)

Types(p, verb) == verb \in play /\ Free(p) /\ place[p] # Nowhere

(* kill and throw up to Engage's own checks; safe rooms and tags refuse,   *)
(* and change nothing.                                                     *)
Look(p, y, verb) ==
  /\ Types(p, verb) /\ y # p /\ Known(y) /\ Together(p, y)
  /\ y \in Mob \/ "pvp" \in play
  /\ cmd' = [cmd EXCEPT ![p] = [at |-> verb, who |-> p, on |-> y, room |-> Nowhere]]
  /\ UNCHANGED <<bodyVars, foes, lootVars, flow, haul, restVars>>

(* Both lists change under one lock. A throw goes on.                      *)
Engage(p) ==
  /\ cmd[p].at \in {"kill", "throw", "met"} /\ Calm(p)
  /\ foes' = Engaged(cmd[p].who, cmd[p].on)
  /\ IF At(p, "throw") THEN Do(p, "hurl") ELSE Done(p)
  /\ UNCHANGED <<bodyVars, lootVars, flow, haul, restVars>>

(* ResolveSingleAttack, on the session goroutine.                          *)
Hurl(p) ==
  LET y == cmd[p].on IN
  /\ At(p, "hurl")
  /\ \/ ~Known(y) /\ UNCHANGED <<down, flow>>
     \/ /\ Known(y) /\ Blow(p, p, y)
        /\ "busy" \in play \/ ~TickBusy(y)
  /\ Done(p)
  /\ UNCHANGED <<place, tracked, out, foes, lootVars, haul, restVars>>

(* finish and rob look for a helpless mob...                               *)
LookDowned(p, m, verb) ==
  /\ Types(p, verb) /\ m \in tracked \cap out /\ Together(p, m)
  /\ cmd' = [cmd EXCEPT ![p] = [at |-> verb, who |-> p, on |-> m, room |-> Nowhere]]
  /\ UNCHANGED <<bodyVars, foes, lootVars, flow, haul, restVars>>

(* ...and finish kills it, unless somebody else has.                       *)
Finish(p) ==
  LET m == cmd[p].on IN
  /\ At(p, "finish")
  /\ \/ Known(m) /\ Falls(p, p, m, "corpse") /\ ("busy" \in play \/ ~TickBusy(m))
     \/ (~Known(m) \/ m \in down) /\ UNCHANGED <<down, flow>>
  /\ Done(p)
  /\ UNCHANGED <<place, tracked, out, foes, lootVars, haul, restVars>>

(* Contents.In: what c holds now is to be moved to somebody.               *)
Hauls(g, c, to) ==
  haul' = [haul EXCEPT ![g] = [of |-> c, to |-> to, todo |-> {i \in Item : inside[i] = c}]]

(* Mutant of Rob: a mob that was robbed before is robbed again.            *)
RobUnclaimed(p) ==
  LET m == cmd[p].on IN
  /\ At(p, "rob")
  /\ "late" \in play \/ m \notin down
  /\ Hauls(p, m, p) /\ looted' = looted \cup {m} /\ Done(p)
  /\ UNCHANGED <<bodyVars, foes, inside, bag, gone, lies, coins, minted, flow, restVars>>

(* ClaimLooted, once for each mob; the purse is rolled after the items.    *)
Rob(p) ==
  LET m == cmd[p].on IN
  /\ At(p, "rob")
  /\ "late" \in play \/ m \notin down
  /\ IF m \in looted THEN UNCHANGED <<haul, looted>>
     ELSE Hauls(p, m, p) /\ looted' = looted \cup {m}
  /\ Done(p)
  /\ UNCHANGED <<bodyVars, foes, inside, bag, gone, lies, coins, minted, flow, restVars>>

(* Whoever flees finds an exit...                                          *)
FleeLook(g, x, r) ==
  /\ Known(x) /\ place[x] # Nowhere /\ r \in Room \ {place[x]}
  /\ cmd' = [cmd EXCEPT ![g] = [at |-> "part", who |-> x, on |-> None, room |-> r]]
  /\ UNCHANGED <<bodyVars, foes, lootVars, flow, haul, restVars>>

(* ...leaves the fight, looked for by combatMover.Move...                  *)
FleePart(g) ==
  LET x == cmd[g].who IN
  /\ At(g, "part")
  /\ foes' = OutOfAll(x)
  /\ IF place[x] # Nowhere THEN Do(g, "go") ELSE Done(g)
  /\ UNCHANGED <<bodyVars, lootVars, flow, haul, restVars>>

(* ...and is moved; a player who has left meanwhile stays away.            *)
FleeGo(g) ==
  LET x == cmd[g].who IN
  /\ At(g, "go")
  /\ place' = IF x \in Player /\ ~Known(x) THEN place ELSE [place EXCEPT ![x] = cmd[g].room]
  /\ Done(g)
  /\ UNCHANGED <<tracked, down, out, foes, lootVars, flow, haul, restVars>>

(* A mob that is there and hostile engages who comes in (mob.aggro).       *)
Move(p, r) ==
  /\ Types(p, "move") /\ r # place[p]
  /\ place' = [place EXCEPT ![p] = r]
  /\ \/ UNCHANGED cmd
     \/ \E m \in tracked : place[m] = r
          /\ cmd' = [cmd EXCEPT ![p] = [at |-> "met", who |-> m, on |-> p, room |-> Nowhere]]
  /\ UNCHANGED <<tracked, down, out, foes, lootVars, flow, haul, restVars>>

(* A session ends, at whatever hit points; its effects go, its fights stay.*)
Quit(p) ==
  /\ Types(p, "quit")
  /\ place' = [place EXCEPT ![p] = Nowhere] /\ out' = out \ {p}
  /\ UNCHANGED <<tracked, down, foes, lootVars, workVars, restVars>>

(* The next one begins with one at least (restorePlayerVitals).            *)
Login(p) ==
  /\ Free(p) /\ place[p] = Nowhere
  /\ place' = [place EXCEPT ![p] = Start] /\ down' = down \ {p}
  /\ UNCHANGED <<tracked, out, foes, lootVars, workVars, restVars>>

(* MayLoot's refusal changes nothing.                                      *)
Loot(p, m) ==
  /\ Types(p, "loot") /\ lies[m] = place[p]
  /\ Hauls(p, Corpse(m), p)
  /\ UNCHANGED <<bodyVars, foes, lootVars, cmd, flow, restVars>>

------------------------------------------------------------------------------
(* Moving contents: loot, autoloot, rob, the filling of a corpse, decay. *)

(* Where an item goes that was taken: AddToInventory, Contents.Put, or     *)
(* nowhere (Untrack).                                                      *)
Moves(i, to) ==
  /\ bag' = IF to \in Player THEN [bag EXCEPT ![to] = @ \cup {i}] ELSE bag
  /\ inside' = [inside EXCEPT ![i] = IF to \in Player THEN None ELSE to]
  /\ gone' = IF to = None THEN gone \cup {i} ELSE gone

(* Mutant of Take: it does not ask whether the item is still in there.     *)
TakeBlind(g, i) ==
  /\ i \in haul[g].todo
  /\ haul' = [haul EXCEPT ![g].todo = @ \ {i}]
  /\ Moves(i, haul[g].to)
  /\ UNCHANGED <<bodyVars, foes, lies, coins, looted, minted, cmd, flow, restVars>>

(* Contents.Take of one item found: one of several wins it. It asks that   *)
(* the item is in something, not that it is still in the same.             *)
Take(g, i) ==
  /\ i \in haul[g].todo
  /\ haul' = [haul EXCEPT ![g].todo = @ \ {i}]
  /\ IF inside[i] = None THEN UNCHANGED <<inside, bag, gone>> ELSE Moves(i, haul[g].to)
  /\ UNCHANGED <<bodyVars, foes, lies, coins, looted, minted, cmd, flow, restVars>>

(* The last step of moving c's contents, when all is taken that was found. *)
Moved(g, to) == haul[g].of # None /\ haul[g].to = to /\ haul[g].todo = {} /\ haul' = [haul EXCEPT ![g] = NoHaul]

(* rob: RobCoins rolls the purse and credits it, if there is one.          *)
RobEnd(p) ==
  LET m == haul[p].of IN
  /\ Moved(p, p) /\ m \in Mob
  /\ \E purse \in {0, 1} : minted' = [minted EXCEPT ![m] = @ + purse]
  /\ UNCHANGED <<bodyVars, foes, inside, bag, gone, lies, coins, looted, cmd, flow, restVars>>

(* TransferCorpse: ClaimCoins, and an empty corpse is removed.             *)
LootEnd(g, p, m) ==
  /\ Moved(g, p) /\ haul[g].of = Corpse(m)
  /\ coins' = coins \ {m}
  /\ lies' = IF \E i \in Item : inside[i] = Corpse(m) THEN lies ELSE [lies EXCEPT ![m] = Nowhere]
  /\ UNCHANGED <<bodyVars, foes, inside, bag, gone, looted, minted, cmd, flow, restVars>>

(* CreateOnDeath: the filled corpse is placed.                             *)
CorpsePlaced(g, m) ==
  /\ Moved(g, Corpse(m))
  /\ lies' = [lies EXCEPT ![m] = place[m]]
  /\ UNCHANGED <<bodyVars, foes, inside, bag, gone, coins, looted, minted, cmd, flow, restVars>>

(* DecaySweep: the corpse goes, and its coins with it.                     *)
DecayEnd(m) ==
  /\ Moved(Tick, None) /\ haul[Tick].of = Corpse(m)
  /\ coins' = coins \ {m}
  /\ UNCHANGED <<bodyVars, foes, inside, bag, gone, lies, looted, minted, cmd, flow, restVars>>

------------------------------------------------------------------------------
(* The death flow: OnVitalDepleted and those who listen to Kill and        *)
(* MobKilled, in their order, on the goroutine of the killer.              *)

Flows(g, at) == flow[g].at = at /\ haul[g].of = None
FlowTo(g, at) == flow' = [flow EXCEPT ![g].at = at]

(* Mutant of KnockOut: who is knocked out is not brought back to 1.        *)
KnockOutCold(g) ==
  /\ Flows(g, "knock")
  /\ out' = out \cup {flow[g].who} /\ FlowTo(g, "end")
  /\ UNCHANGED <<place, tracked, down, foes, lootVars, cmd, haul, restVars>>

(* knockOut: back to 1, unconscious; who cannot be found dies after all.   *)
KnockOut(g) ==
  LET y == flow[g].who IN
  /\ Flows(g, "knock")
  /\ IF Known(y) THEN down' = down \ {y} /\ out' = out \cup {y} /\ FlowTo(g, "end")
     ELSE FlowTo(g, Dies(y)) /\ UNCHANGED <<down, out>>
  /\ UNCHANGED <<place, tracked, foes, lootVars, cmd, haul, restVars>>

(* A player is healed first, if his session is still there...              *)
Revive(g) ==
  LET y == flow[g].who IN
  /\ Flows(g, "revive")
  /\ IF Known(y) THEN down' = down \ {y} /\ FlowTo(g, "wake")
     ELSE FlowTo(g, "end") /\ UNCHANGED down
  /\ UNCHANGED <<place, tracked, out, foes, lootVars, cmd, haul, restVars>>

(* ...and then moved; the room of who has left meanwhile is of no use.     *)
Wake(g) ==
  LET y == flow[g].who IN
  /\ Flows(g, "wake")
  /\ place' = IF Known(y) THEN [place EXCEPT ![y] = Start] ELSE place
  /\ FlowTo(g, "end")
  /\ UNCHANGED <<tracked, down, out, foes, lootVars, cmd, haul, restVars>>

(* MobKilled: the credits, and CreateOnDeath: what the mob holds, a purse  *)
(* that is rolled unless the mob was robbed, and a corpse if there is      *)
(* anything.                                                               *)
MobKilled(g) ==
  LET m == flow[g].who
      full == \E i \in Item : inside[i] = m IN
  /\ Flows(g, "corpse")
  /\ deaths' = [deaths EXCEPT ![m] = @ + 1]
  /\ \E purse \in IF m \in looted THEN {0} ELSE {0, 1} :
       /\ minted' = [minted EXCEPT ![m] = @ + purse]
       /\ coins' = IF purse = 1 THEN coins \cup {m} ELSE coins
       /\ IF full \/ purse = 1 THEN Hauls(g, m, Corpse(m)) /\ FlowTo(g, "auto")
          ELSE FlowTo(g, "untrack") /\ UNCHANGED haul
  /\ UNCHANGED <<bodyVars, foes, inside, bag, gone, lies, looted, cmd, hit, play>>

(* Autoloot, for a killer who wants it and is there.                       *)
Autoloot(g) ==
  LET p == flow[g].by
      m == flow[g].who IN
  /\ Flows(g, "auto")
  /\ \/ "autoloot" \in play /\ p \in Player /\ place[p] = lies[m] /\ Hauls(g, Corpse(m), p)
     \/ UNCHANGED haul
  /\ FlowTo(g, "untrack")
  /\ UNCHANGED <<bodyVars, foes, lootVars, cmd, restVars>>

(* The mob leaves the store and its room; nobody asks for one of the two.  *)
Untrack(g) ==
  LET m == flow[g].who IN
  /\ Flows(g, "untrack")
  /\ tracked' = tracked \ {m} /\ place' = [place EXCEPT ![m] = Nowhere]
  /\ FlowTo(g, "end")
  /\ UNCHANGED <<down, out, foes, lootVars, cmd, haul, restVars>>

FlowEnd(g) ==
  /\ Flows(g, "end")
  /\ foes' = OutOfAll(flow[g].who)
  /\ flow' = [flow EXCEPT ![g] = NoFlow]
  /\ UNCHANGED <<bodyVars, lootVars, cmd, haul, restVars>>

------------------------------------------------------------------------------
(* The tick goroutine: turns of combat, decay, resets. *)

(* A player's ability that is queued: its target is resolved...            *)
Cast(x, y) ==
  /\ "cast" \in play /\ Free(Tick)
  /\ x \in Player /\ Known(x) /\ y \in foes[x] /\ Known(y)
  /\ "busy" \in play \/ y \notin down
  /\ cmd' = [cmd EXCEPT ![Tick] = [at |-> "cast", who |-> x, on |-> y, room |-> Nowhere]]
  /\ UNCHANGED <<bodyVars, foes, lootVars, flow, haul, restVars>>

(* ...it does its damage...                                                *)
CastHits ==
  LET y == cmd[Tick].on IN
  /\ At(Tick, "cast")
  /\ \/ UNCHANGED down
     \/ Known(y) /\ down' = down \cup {y}
  /\ Do(Tick, "probe")
  /\ UNCHANGED <<place, tracked, out, foes, lootVars, flow, haul, restVars>>

(* ...and the resolver looks whether the target is down, by whomever.      *)
Probe ==
  LET c == cmd[Tick] IN
  /\ At(Tick, "probe")
  /\ flow' = IF Known(c.on) /\ c.on \in down
               THEN [flow EXCEPT ![Tick] = [at |-> Dies(c.on), who |-> c.on, by |-> c.who]]
               ELSE flow
  /\ Done(Tick)
  /\ UNCHANGED <<bodyVars, foes, lootVars, haul, restVars>>

(* Mutant of HasTurn: who cannot be found is passed over.                  *)
KnownHasTurn(x) == Free(Tick) /\ InCombat(x) /\ Known(x)

(* runPhase calls on everybody who is still in a fight.                    *)
HasTurn(x) == Free(Tick) /\ InCombat(x)

(* runAutoAttack before its swings: who is gone leaves all fights, an      *)
(* opponent who is gone, down or elsewhere leaves this one.                *)
Attack(x) ==
  /\ HasTurn(x)
  /\ IF ~Known(x) \/ place[x] = Nowhere THEN foes' = OutOfAll(x) /\ UNCHANGED <<cmd, hit>>
     ELSE \E y \in foes[x] :
       IF ~Known(y) \/ y \in down \/ ~Together(x, y) THEN foes' = Disengaged(x, y) /\ UNCHANGED <<cmd, hit>>
       ELSE /\ x \notin out /\ UNCHANGED foes
            /\ cmd' = [cmd EXCEPT ![Tick] = [at |-> "swing", who |-> x, on |-> y, room |-> place[x]]]
            /\ hit' = {y}
  /\ UNCHANGED <<bodyVars, lootVars, flow, haul, deaths, play>>

(* One swing or several; a kill may be followed up.                        *)
Swing ==
  LET c == cmd[Tick] IN
  /\ At(Tick, "swing")
  /\ Blow(Tick, c.who, c.on)
  /\ IF down' = down THEN Done(Tick) /\ hit' = {} ELSE Do(Tick, "cleave") /\ UNCHANGED hit
  /\ UNCHANGED <<place, tracked, out, foes, lootVars, haul, deaths, play>>

(* Mutant of Cleave: the same one may be struck again.                     *)
CleaveAgain ==
  LET c == cmd[Tick] IN
  /\ At(Tick, "cleave")
  /\ \E y \in foes[c.who] :
       /\ Known(y) /\ y \notin down /\ place[y] = c.room
       /\ cmd' = [cmd EXCEPT ![Tick].at = "swing", ![Tick].on = y]
  /\ UNCHANGED <<bodyVars, foes, lootVars, flow, haul, restVars>>

(* cleaveFollowUp: another opponent who is there, each at most once.       *)
Cleave ==
  LET c == cmd[Tick] IN
  /\ At(Tick, "cleave")
  /\ \E y \in foes[c.who] \ hit :
       /\ Known(y) /\ y \notin down /\ place[y] = c.room
       /\ cmd' = [cmd EXCEPT ![Tick].at = "swing", ![Tick].on = y]
       /\ hit' = hit \cup {y}
  /\ UNCHANGED <<bodyVars, foes, lootVars, flow, haul, deaths, play>>

(* Not everybody cleaves, nor for ever.                                    *)
CleaveEnd ==
  /\ At(Tick, "cleave")
  /\ hit' = {} /\ Done(Tick)
  /\ UNCHANGED <<bodyVars, foes, lootVars, flow, haul, deaths, play>>

(* Wimpy, or frightened.                                                   *)
Wimpy(x, r) == "wimpy" \in play /\ HasTurn(x) /\ x \notin down /\ FleeLook(Tick, x, r)

(* DecaySweep, once a corpse is old: it claims the corpse first.           *)
Decay(m) ==
  /\ Free(Tick) /\ lies[m] # Nowhere
  /\ lies' = [lies EXCEPT ![m] = Nowhere]
  /\ Hauls(Tick, Corpse(m), None)
  /\ UNCHANGED <<bodyVars, foes, inside, bag, gone, coins, looted, minted, cmd, flow, restVars>>

(* applyRule: as many new mobs as are missing.                             *)
Reset(m) ==
  /\ Free(Tick) /\ m \notin tracked /\ deaths[m] = 0
  /\ Cardinality(tracked) < Population
  /\ tracked' = tracked \cup {m} /\ place' = [place EXCEPT ![m] = Lair]
  /\ UNCHANGED <<down, out, foes, lootVars, workVars, restVars>>

(* An effect ends.                                                         *)
ComesTo(x) ==
  /\ Free(Tick) /\ x \in out
  /\ out' = out \ {x}
  /\ UNCHANGED <<place, tracked, down, foes, lootVars, workVars, restVars>>

------------------------------------------------------------------------------

Begins(p) ==
  \/ \E y \in Fighter : Look(p, y, "kill") \/ Look(p, y, "throw")
  \/ \E m \in Mob : LookDowned(p, m, "finish") \/ LookDowned(p, m, "rob") \/ Loot(p, m)
  \/ \E r \in Room : Move(p, r) \/ (Types(p, "flee") /\ FleeLook(p, p, r))
  \/ Quit(p) \/ Login(p)

(* What a goroutine does by itself once it has begun.                      *)
GoesOn(g) ==
  \/ FleePart(g) \/ FleeGo(g)
  \/ \E i \in Item : Take(g, i)
  \/ \E m \in Mob : CorpsePlaced(g, m) \/ \E p \in Player : LootEnd(g, p, m)
  \/ KnockOut(g) \/ Revive(g) \/ Wake(g) \/ MobKilled(g) \/ Autoloot(g)
  \/ Untrack(g) \/ FlowEnd(g)

Verbs(p) == Engage(p) \/ Hurl(p) \/ Finish(p) \/ Rob(p) \/ RobEnd(p) \/ GoesOn(p)

Handles == CastHits \/ Probe \/ Swing \/ Cleave \/ CleaveEnd \/ (\E m \in Mob : DecayEnd(m)) \/ GoesOn(Tick)

Next ==
  \/ \E p \in Player : Begins(p) \/ Verbs(p)
  \/ \E x \in Fighter : \/ \E y \in Fighter : Cast(x, y)
                        \/ \E r \in Room : Wimpy(x, r)
                        \/ Attack(x) \/ ComesTo(x)
  \/ \E m \in Mob : Decay(m) \/ Reset(m)
  \/ Handles

Spec == Init /\ [][Next]_vars

(* The tick goroutine runs, and every round gives each combatant its turn; *)
(* no session has to go on.                                                *)
FairSpec == Spec /\ WF_vars(Handles) /\ \A x \in Fighter : SF_vars(Attack(x))

------------------------------------------------------------------------------
(* Properties *)

CmdAt == {"idle", "kill", "throw", "met", "hurl", "finish", "rob", "part", "go",
          "cast", "probe", "swing", "cleave"}
FlowAt == {"none", "knock", "revive", "wake", "corpse", "auto", "untrack", "end"}
Holder == Mob \cup {Corpse(m) : m \in Mob}
Anybody == Fighter \cup {None}

(* Every variable keeps its type, and a fight is always one of two: if I   *)
(* have you in my combat list, you have me in yours (combat.Manager).      *)
CombatTypeOK ==
  /\ place \in [Fighter -> Room \cup {Nowhere}] /\ tracked \subseteq Mob
  /\ down \subseteq Fighter /\ out \subseteq Fighter
  /\ foes \in [Fighter -> SUBSET Fighter]
  /\ \A x, y \in Fighter : y \in foes[x] <=> x \in foes[y]
  /\ cmd \in [Worker -> [at : CmdAt, who : Anybody, on : Anybody, room : Room \cup {Nowhere}]]
  /\ flow \in [Worker -> [at : FlowAt, who : Anybody, by : Anybody]]
  /\ haul \in [Worker -> [of : Holder \cup {None}, to : Player \cup Holder \cup {None}, todo : SUBSET Item]]
  /\ inside \in [Item -> Holder \cup {None}] /\ bag \in [Player -> SUBSET Item] /\ gone \subseteq Item
  /\ lies \in [Mob -> Room \cup {Nowhere}] /\ coins \subseteq Mob /\ looted \subseteq Mob
  /\ minted \in [Mob -> Nat] /\ deaths \in [Mob -> Nat] /\ hit \subseteq Fighter /\ play \in Plays

Tended(x) == \E g \in Worker : flow[g].who = x \/ (cmd[g].at = "probe" /\ cmd[g].on = x)

(* A mob dies once, whoever strikes it and on whatever goroutine: one      *)
(* mob.killed, so one corpse and one reward (the comments of               *)
(* ApplyDamageIfAlive and of the wiring of finish). And nobody stays half  *)
(* dead: whoever is in the game at 0 hit points, where no blow kills any   *)
(* more, is about to be buried or healed by somebody; a mob that has left  *)
(* the store has left its room.                                            *)
OneDeath ==
  /\ \A m \in Mob : deaths[m] <= 1
  /\ \A x \in down : Known(x) => Tended(x)
  /\ \A m \in Mob \ tracked : place[m] = Nowhere

(* However the looters, a robber, the death flow and the decay race: each  *)
(* item is in one container, one bag or destroyed, and a mob's purse comes *)
(* into being once, for its robber or in its corpse (ClaimLooted,          *)
(* Contents.Take).                                                         *)
LootOnce ==
  /\ \A i \in Item :
       (IF inside[i] = None THEN 0 ELSE 1) + (IF i \in gone THEN 1 ELSE 0)
         + Cardinality({p \in Player : i \in bag[p]}) = 1
  /\ \A m \in Mob : minted[m] <= 1

(* Who has gone leaves his fights, by the rounds if by nothing else (the   *)
(* comment of combat.Manager).                                             *)
GoneLeaveFights == \A x \in Fighter : ~Known(x) /\ InCombat(x) ~> Known(x) \/ ~InCombat(x)
==============================================================================
