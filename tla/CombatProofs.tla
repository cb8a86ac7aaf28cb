---------------------------- MODULE CombatProofs ----------------------------
(***************************************************************************)
(* Theorems about Combat, for any players, mobs, items and verbs.          *)
(***************************************************************************)
EXTENDS Combat, FiniteSetTheorems, TLAPS

(* Whom a goroutine that is in the middle of something deals with.         *)
CmdFits ==
  \A g \in Worker : LET c == cmd[g] IN
    /\ c.at # "idle" => c.who \in Fighter
    /\ c.at \notin {"idle", "part", "go"} => c.on \in Fighter
    /\ c.at \in {"kill", "throw", "met"} => c.who # c.on
    /\ c.at \in {"finish", "rob"} => c.on \in Mob

FlowFits ==
  \A g \in Worker :
    /\ flow[g].at # "none" => flow[g].who \in Fighter
    /\ flow[g].at \in {"corpse", "auto", "untrack"} => flow[g].who \in Mob
    /\ flow[g].at \in {"revive", "wake"} => flow[g].who \in Player

(* Nobody fights himself.                                                  *)
NoneAlone == \A x \in Fighter : x \notin foes[x]

TypeInv == CombatTypeOK /\ CmdFits /\ FlowFits /\ NoneAlone

(* A mob that is about to die, until it has been taken out of the game.    *)
Dying == {"knock", "corpse", "auto", "untrack"}
DyingOf(g, m) == flow[g].at \in Dying /\ flow[g].who = m

(* A mob is felled once before it dies: by one goroutine, which has buried *)
(* it when it leaves the store.                                            *)
FelledOnce ==
  /\ \A m \in Mob : \A g, h \in Worker : DyingOf(g, m) /\ DyingOf(h, m) => g = h
  /\ \A m \in Mob : \A g \in Worker : DyingOf(g, m) =>
       m \in down /\ (deaths[m] = 0 <=> flow[g].at \in {"knock", "corpse"})
  /\ \A m \in Mob : /\ deaths[m] <= 1 /\ (deaths[m] > 0 => m \in down)
                    /\ m \in down /\ deaths[m] = 0 => m \in tracked
                    /\ m \notin tracked => place[m] = Nowhere

(* Whom the tick goroutine has looked at is as it was then, but for what   *)
(* that goroutine has done itself.                                         *)
StillThere ==
  LET c == cmd[Tick] IN
  /\ c.at = "cast" /\ c.on \in Mob => c.on \notin down
  /\ c.at = "probe" /\ c.on \in Mob \cap down =>
       deaths[c.on] = 0 /\ \A g \in Worker : ~DyingOf(g, c.on)
  /\ c.at \in {"part", "go"} /\ c.who \in Mob => c.who \in tracked \ down
  /\ c.at = "swing" /\ c.on \in Mob => c.on \in tracked \cup down
  /\ \A p \in Player : cmd[p].at \in {"part", "go"} => cmd[p].who = p

(* Whoever is in the game at 0 hit points is about to be buried or healed. *)
Cared(x) ==
  \/ \E g \in Worker : flow[g].at \in Dying \cup {"revive"} /\ flow[g].who = x
  \/ cmd[Tick].at = "probe" /\ cmd[Tick].on = x

CaredFor == \A x \in down : Known(x) => Cared(x)

DeathInv == TypeInv /\ FelledOnce /\ StillThere /\ CaredFor

(* An item is in one container, one bag or destroyed.                      *)
ItemOnce ==
  \A i \in Item :
    /\ inside[i] # None => i \notin gone /\ \A p \in Player : i \notin bag[p]
    /\ i \in gone => \A p \in Player : i \notin bag[p]
    /\ \A p, q \in Player : i \in bag[p] /\ i \in bag[q] => p = q
    /\ inside[i] # None \/ i \in gone \/ \E p \in Player : i \in bag[p]

(* A purse is rolled by the robber, or else at the mob's death.            *)
Robs(g, m) == haul[g].of = m /\ haul[g].to \in Player
PurseOnce ==
  \A m \in Mob :
    /\ minted[m] <= 1
    /\ m \notin looted /\ deaths[m] = 0 => minted[m] = 0
    /\ \A g \in Worker : Robs(g, m) => m \in looted /\ minted[m] = 0
    /\ \A g, h \in Worker : Robs(g, m) /\ Robs(h, m) => g = h

USE CombatAssumption DEF bodyVars, lootVars, workVars, restVars, Worker, Fighter

(* The types of each lock's state.                                         *)
BodyOK ==
  /\ place \in [Fighter -> Room \cup {Nowhere}] /\ tracked \subseteq Mob
  /\ down \subseteq Fighter /\ out \subseteq Fighter
FoesOK ==
  /\ foes \in [Fighter -> SUBSET Fighter] /\ NoneAlone
  /\ \A x, y \in Fighter : y \in foes[x] <=> x \in foes[y]
CmdOK ==
  /\ cmd \in [Worker -> [at : CmdAt, who : Anybody, on : Anybody, room : Room \cup {Nowhere}]]
  /\ CmdFits
FlowOK == flow \in [Worker -> [at : FlowAt, who : Anybody, by : Anybody]] /\ FlowFits
HaulOK ==
  haul \in [Worker -> [of : Holder \cup {None}, to : Player \cup Holder \cup {None}, todo : SUBSET Item]]
ItemsOK ==
  /\ inside \in [Item -> Holder \cup {None}] /\ bag \in [Player -> SUBSET Item] /\ gone \subseteq Item
PurseOK ==
  /\ lies \in [Mob -> Room \cup {Nowhere}] /\ coins \subseteq Mob /\ looted \subseteq Mob
  /\ minted \in [Mob -> Nat] /\ deaths \in [Mob -> Nat] /\ hit \subseteq Fighter /\ play \in Plays

LEMMA Parts ==
  TypeInv <=> BodyOK /\ FoesOK /\ CmdOK /\ FlowOK /\ HaulOK /\ ItemsOK /\ PurseOK
  BY DEF TypeInv, CombatTypeOK, BodyOK, FoesOK, CmdOK, FlowOK, HaulOK, ItemsOK, PurseOK

LEMMA Whole ==
  BodyOK' /\ FoesOK' /\ CmdOK' /\ FlowOK' /\ HaulOK' /\ ItemsOK' /\ PurseOK' => TypeInv'
  BY DEF TypeInv, CombatTypeOK, BodyOK, FoesOK, CmdOK, FlowOK, HaulOK, ItemsOK, PurseOK

LEMMA InitTypes == Init => TypeInv
<1> SUFFICES ASSUME Init PROVE TypeInv
  OBVIOUS
<1>1. BodyOK /\ FoesOK
  BY DEF Init, BodyOK, FoesOK, NoneAlone
<1>2. CmdOK /\ FlowOK /\ HaulOK
  BY DEF Init, CmdOK, FlowOK, HaulOK, Idle, NoFlow, NoHaul, CmdFits, FlowFits, CmdAt, FlowAt, Anybody
<1>3. ItemsOK
  BY DEF Init, ItemsOK, Holder
<1>4. PurseOK
  BY DEF Init, PurseOK
<1> QED
  BY <1>1, <1>2, <1>3, <1>4, Parts

(* What the combat manager does to the lists.                              *)
LEMMA EngagedFits ==
  ASSUME FoesOK, NEW x \in Fighter, NEW y \in Fighter, x # y, foes' = Engaged(x, y)
  PROVE  FoesOK'
<1>1. foes' \in [Fighter -> SUBSET Fighter]
  BY DEF FoesOK, Engaged
<1>2. CASE y \in foes[x]
  BY <1>2 DEF FoesOK, Engaged, NoneAlone
<1>3. CASE y \notin foes[x]
  <2>1. \A z \in Fighter : foes'[z] = IF z = x THEN foes[z] \cup {y}
                                      ELSE IF z = y THEN foes[z] \cup {x} ELSE foes[z]
    BY <1>3 DEF FoesOK, Engaged
  <2>2. \A v, w \in Fighter : (w \in foes[v] <=> v \in foes[w]) /\ v \notin foes[v]
    BY DEF FoesOK, NoneAlone
  <2>3. ASSUME NEW v \in Fighter, NEW w \in Fighter
        PROVE  (w \in foes'[v] <=> v \in foes'[w]) /\ v \notin foes'[v]
    <3>1. w \in foes'[v] <=> w \in foes[v] \/ (v = x /\ w = y) \/ (v = y /\ w = x)
      BY <2>1
    <3>2. v \in foes'[w] <=> v \in foes[w] \/ (v = x /\ w = y) \/ (v = y /\ w = x)
      BY <2>1
    <3>3. v \in foes'[v] <=> v \in foes[v] \/ (v = x /\ v = y)
      BY <2>1
    <3> QED
      BY <2>2, <3>1, <3>2, <3>3
  <2> QED
    BY <1>1, <2>3 DEF FoesOK, NoneAlone
<1> QED
  BY <1>2, <1>3

LEMMA DisengagedFits ==
  ASSUME FoesOK, NEW x \in Fighter, NEW y \in Fighter, x # y, foes' = Disengaged(x, y)
  PROVE  FoesOK'
<1>1. foes' \in [Fighter -> SUBSET Fighter]
  BY DEF FoesOK, Disengaged
<1>2. \A z \in Fighter : foes'[z] = IF z = x THEN foes[z] \ {y}
                                    ELSE IF z = y THEN foes[z] \ {x} ELSE foes[z]
  BY DEF FoesOK, Disengaged
<1>3. \A v, w \in Fighter : (w \in foes[v] <=> v \in foes[w]) /\ v \notin foes[v]
  BY DEF FoesOK, NoneAlone
<1>5. \A v, w \in Fighter : w \in foes'[v] <=> w \in foes[v] /\ ~(v = x /\ w = y) /\ ~(v = y /\ w = x)
  <2> SUFFICES ASSUME NEW v \in Fighter, NEW w \in Fighter
               PROVE  w \in foes'[v] <=> w \in foes[v] /\ ~(v = x /\ w = y) /\ ~(v = y /\ w = x)
    OBVIOUS
  <2>1. foes'[v] = IF v = x THEN foes[v] \ {y} ELSE IF v = y THEN foes[v] \ {x} ELSE foes[v]
    BY <1>2
  <2> QED
    BY <2>1
<1>4. ASSUME NEW v \in Fighter, NEW w \in Fighter
      PROVE  (w \in foes'[v] <=> v \in foes'[w]) /\ v \notin foes'[v]
  <2>1. w \in foes'[v] <=> w \in foes[v] /\ ~(v = x /\ w = y) /\ ~(v = y /\ w = x)
    BY <1>5
  <2>2. v \in foes'[w] <=> v \in foes[w] /\ ~(v = x /\ w = y) /\ ~(v = y /\ w = x)
    BY <1>5
  <2>3. v \in foes'[v] => v \in foes[v]
    BY <1>5
  <2> QED
    BY <1>3, <2>1, <2>2, <2>3
<1> QED
  BY <1>1, <1>4 DEF FoesOK, NoneAlone

LEMMA OutOfAllFits ==
  ASSUME FoesOK, NEW x \in Fighter, foes' = OutOfAll(x)
  PROVE  FoesOK'
<1>1. \A z \in Fighter : foes'[z] = IF z = x THEN {} ELSE IF z \in foes[x] THEN foes[z] \ {x} ELSE foes[z]
  BY DEF OutOfAll
<1>2. foes' \in [Fighter -> SUBSET Fighter]
  BY DEF FoesOK, OutOfAll
<1>3. \A v, w \in Fighter : (w \in foes[v] <=> v \in foes[w]) /\ v \notin foes[v]
  BY DEF FoesOK, NoneAlone
<1>4. ASSUME NEW v \in Fighter, NEW w \in Fighter
      PROVE  (w \in foes'[v] <=> v \in foes'[w]) /\ v \notin foes'[v]
  <2>1. w \in foes'[v] <=> w \in foes[v] /\ v # x /\ ~(v \in foes[x] /\ w = x)
    BY <1>1
  <2>2. v \in foes'[w] <=> v \in foes[w] /\ w # x /\ ~(w \in foes[x] /\ v = x)
    BY <1>1
  <2>3. foes'[v] \subseteq foes[v]
    BY <1>1
  <2> QED
    BY <1>3, <2>1, <2>2, <2>3
<1> QED
  BY <1>2, <1>4 DEF FoesOK, NoneAlone

(* A goroutine turns to something, and its command ends.                   *)
LEMMA Turns ==
  ASSUME CmdOK, NEW g \in Worker, NEW at \in CmdAt, NEW x \in Anybody, NEW y \in Anybody,
         NEW r \in Room \cup {Nowhere}, cmd' = [cmd EXCEPT ![g] = [at |-> at, who |-> x, on |-> y, room |-> r]],
         at # "idle" => x \in Fighter, at \notin {"idle", "part", "go"} => y \in Fighter,
         at \in {"kill", "throw", "met"} => x # y, at \in {"finish", "rob"} => y \in Mob
  PROVE  CmdOK'
  BY DEF CmdOK, CmdFits

LEMMA Ends == ASSUME CmdOK, NEW g \in Worker, Done(g) PROVE CmdOK'
  BY Turns DEF Done, Idle, CmdAt, Anybody

LEMMA GoesTo ==
  ASSUME CmdOK, NEW g \in Worker, NEW at \in CmdAt \ {"kill", "throw", "met", "finish", "rob"},
         cmd[g].at # "idle", at \notin {"idle", "part", "go"} => cmd[g].at \notin {"part", "go"}, Do(g, at)
  PROVE  CmdOK'
  BY DEF CmdOK, CmdFits, Do

(* The death flow begins, and goes on.                                     *)
LEMMA Flowing ==
  ASSUME FlowOK, NEW g \in Worker, NEW at \in FlowAt, NEW y \in Anybody, NEW x \in Anybody,
         flow' = [flow EXCEPT ![g] = [at |-> at, who |-> y, by |-> x]],
         at # "none" => y \in Fighter, at \in {"corpse", "auto", "untrack"} => y \in Mob,
         at \in {"revive", "wake"} => y \in Player
  PROVE  FlowOK'
  BY DEF FlowOK, FlowFits

LEMMA FlowingOn ==
  ASSUME FlowOK, NEW g \in Worker, NEW at \in FlowAt, FlowTo(g, at), flow[g].at # "none",
         at \in {"corpse", "auto", "untrack"} => flow[g].who \in Mob,
         at \in {"revive", "wake"} => flow[g].who \in Player
  PROVE  FlowOK'
  BY DEF FlowOK, FlowFits, FlowTo

LEMMA FallsFits ==
  ASSUME FlowOK, BodyOK, NEW g \in Worker, NEW x \in Fighter, NEW y \in Fighter, Blow(g, x, y)
  PROVE  FlowOK' /\ down' \subseteq Fighter
<1>1. CASE UNCHANGED <<down, flow>>
  BY <1>1 DEF FlowOK, FlowFits, BodyOK
<1>2. ASSUME NEW how \in {Dies(y), "knock"}, Falls(g, x, y, how)
      PROVE  FlowOK' /\ down' \subseteq Fighter
  <2>1. FlowOK'
    BY <1>2, Flowing DEF Falls, Dies, FlowAt, Anybody
  <2> QED
    BY <1>2, <2>1 DEF Falls, BodyOK
<1> QED
  BY <1>1, <1>2 DEF Blow

(* The contents of something begin to be moved.                            *)
LEMMA Hauling ==
  ASSUME HaulOK, NEW g \in Worker, NEW c \in Holder, NEW t \in Player \cup Holder \cup {None}, Hauls(g, c, t)
  PROVE  HaulOK'
  BY DEF HaulOK, Hauls

LEMMA MovedFits ==
  ASSUME HaulOK, NEW g \in Worker, NEW t, Moved(g, t)
  PROVE  HaulOK'
  BY DEF HaulOK, Moved, NoHaul

(* What a step leaves alone keeps its type.                                *)
LEMMA Kept ==
  ASSUME TypeInv
  PROVE  /\ UNCHANGED bodyVars => BodyOK'
         /\ UNCHANGED foes => FoesOK'
         /\ UNCHANGED cmd => CmdOK'
         /\ UNCHANGED flow => FlowOK'
         /\ UNCHANGED haul => HaulOK'
         /\ UNCHANGED <<inside, bag, gone>> => ItemsOK'
         /\ UNCHANGED <<lies, coins, looted, minted, restVars>> => PurseOK'
  BY Parts DEF BodyOK, FoesOK, CmdOK, FlowOK, HaulOK, ItemsOK, PurseOK, CmdFits, FlowFits, NoneAlone

(* What a player begins.                                                   *)
LEMMA LookTypes ==
  ASSUME TypeInv, NEW p \in Player, NEW y \in Fighter, Look(p, y, "kill") \/ Look(p, y, "throw")
  PROVE  TypeInv'
<1>1. CmdOK'
  BY Parts, Turns DEF Look, CmdAt, Anybody
<1> QED
  BY <1>1, Kept, Whole DEF Look

LEMMA LookDownedTypes ==
  ASSUME TypeInv, NEW p \in Player, NEW m \in Mob, LookDowned(p, m, "finish") \/ LookDowned(p, m, "rob")
  PROVE  TypeInv'
<1>1. CmdOK'
  BY Parts, Turns DEF LookDowned, CmdAt, Anybody
<1> QED
  BY <1>1, Kept, Whole DEF LookDowned

LEMMA FleeLookTypes ==
  ASSUME TypeInv, NEW g \in Worker, NEW x \in Fighter, NEW r \in Room, FleeLook(g, x, r)
  PROVE  TypeInv'
<1>1. CmdOK'
  <2>1. cmd' = [cmd EXCEPT ![g] = [at |-> "part", who |-> x, on |-> None, room |-> r]]
    BY DEF FleeLook
  <2>2. CmdOK /\ r \in Room \cup {Nowhere}
    BY Parts
  <2>3. "part" \in CmdAt /\ x \in Anybody /\ None \in Anybody
    BY DEF CmdAt, Anybody
  <2> QED
    BY <2>1, <2>2, <2>3, Turns
<1> QED
  BY <1>1, Kept, Whole DEF FleeLook

LEMMA MoveTypes ==
  ASSUME TypeInv, NEW p \in Player, NEW r \in Room, Move(p, r)
  PROVE  TypeInv'
<1>1. CmdOK'
  <2>1. ASSUME NEW m \in tracked, cmd' = [cmd EXCEPT ![p] = [at |-> "met", who |-> m, on |-> p, room |-> Nowhere]]
        PROVE  CmdOK'
    <3>1. m \in Mob /\ m # p
      BY Parts DEF BodyOK
    <3>2. m \in Anybody /\ p \in Anybody /\ "met" \in CmdAt
      BY <3>1 DEF Anybody, CmdAt
    <3> QED
      BY <2>1, <3>1, <3>2, Parts, Turns
  <2> QED
    BY <2>1, Kept DEF Move
<1>2. BodyOK'
  BY Parts DEF Move, BodyOK
<1> QED
  BY <1>1, <1>2, Kept, Whole DEF Move

LEMMA ComesAndGoesTypes ==
  ASSUME TypeInv, NEW p \in Player, Quit(p) \/ Login(p)
  PROVE  TypeInv'
<1>1. BodyOK'
  BY Parts DEF Quit, Login, BodyOK
<1> QED
  BY <1>1, Kept, Whole DEF Quit, Login

LEMMA LootTypes ==
  ASSUME TypeInv, NEW p \in Player, NEW m \in Mob, Loot(p, m)
  PROVE  TypeInv'
<1>1. HaulOK'
  BY Parts, Hauling DEF Loot, Holder
<1> QED
  BY <1>1, Kept, Whole DEF Loot

(* What it comes to.                                                       *)
LEMMA EngageTypes ==
  ASSUME TypeInv, NEW p \in Player, Engage(p)
  PROVE  TypeInv'
<1>1. cmd[p].who \in Fighter /\ cmd[p].on \in Fighter /\ cmd[p].who # cmd[p].on
  BY Parts DEF Engage, CmdOK, CmdFits
<1>2. FoesOK'
  BY <1>1, Parts, EngagedFits DEF Engage
<1>3. CmdOK'
  BY Parts, Ends, GoesTo DEF Engage, At, CmdAt
<1> QED
  BY <1>2, <1>3, Kept, Whole DEF Engage

LEMMA StrikeTypes ==
  ASSUME TypeInv, NEW p \in Player, Hurl(p) \/ Finish(p)
  PROVE  TypeInv'
<1>1. CmdOK'
  BY Parts, Ends DEF Hurl, Finish
<1>2. cmd[p].on \in Fighter /\ (Finish(p) => cmd[p].on \in Mob)
  BY Parts DEF Hurl, Finish, At, CmdOK, CmdFits
<1>3. FlowOK' /\ down' \subseteq Fighter
  <2>1. CASE Hurl(p)
    <3>1. CASE Blow(p, p, cmd[p].on)
      BY <1>2, <3>1, FallsFits, Parts
    <3>2. CASE UNCHANGED <<down, flow>>
      BY <3>2, Kept, Parts DEF BodyOK
    <3> QED
      BY <2>1, <3>1, <3>2 DEF Hurl
  <2>2. CASE Finish(p)
    <3>1. CASE Falls(p, p, cmd[p].on, "corpse")
      BY <1>2, <2>2, <3>1, Flowing, Parts DEF Falls, FlowAt, Anybody, BodyOK
    <3>2. CASE UNCHANGED <<down, flow>>
      BY <3>2, Kept, Parts DEF BodyOK
    <3> QED
      BY <2>2, <3>1, <3>2 DEF Finish
  <2> QED
    BY <2>1, <2>2
<1>4. BodyOK'
  BY <1>3, Parts DEF BodyOK, Hurl, Finish
<1> QED
  BY <1>1, <1>3, <1>4, Kept, Whole DEF Hurl, Finish

LEMMA RobTypes ==
  ASSUME TypeInv, NEW p \in Player, Rob(p)
  PROVE  TypeInv'
<1>0. cmd[p].on \in Mob
  BY Parts DEF Rob, At, CmdOK, CmdFits
<1>1. CmdOK'
  BY Parts, Ends DEF Rob
<1>2. HaulOK'
  BY <1>0, Parts, Hauling, Kept DEF Rob, Holder
<1>3. PurseOK'
  BY <1>0, Parts DEF Rob, PurseOK
<1> QED
  BY <1>1, <1>2, <1>3, Kept, Whole DEF Rob

LEMMA FleeTypes ==
  ASSUME TypeInv, NEW g \in Worker, FleePart(g) \/ FleeGo(g)
  PROVE  TypeInv'
<1>0. cmd[g].who \in Fighter /\ cmd[g].room \in Room \cup {Nowhere}
  BY Parts DEF FleePart, FleeGo, At, CmdOK, CmdFits
<1>1. CmdOK'
  BY Parts, Ends, GoesTo DEF FleePart, FleeGo, At, CmdAt
<1>2. FoesOK'
  BY <1>0, Parts, OutOfAllFits, Kept DEF FleePart, FleeGo
<1>3. BodyOK'
  BY <1>0, Parts DEF FleePart, FleeGo, BodyOK
<1> QED
  BY <1>1, <1>2, <1>3, Kept, Whole DEF FleePart, FleeGo

(* Contents that are moved.                                                *)
LEMMA TakeTypes ==
  ASSUME TypeInv, NEW g \in Worker, NEW i \in Item, Take(g, i)
  PROVE  TypeInv'
<1>1. HaulOK'
  BY Parts DEF Take, HaulOK
<1>2. ItemsOK'
  <2>1. CASE UNCHANGED <<inside, bag, gone>>
    BY <2>1, Kept
  <2>2. CASE Moves(i, haul[g].to)
    <3>1. haul[g].to \in Player \cup Holder \cup {None}
      BY Parts DEF HaulOK
    <3>2. bag' \in [Player -> SUBSET Item]
      BY <2>2, Parts DEF Moves, ItemsOK
    <3>3. inside' \in [Item -> Holder \cup {None}] /\ gone' \subseteq Item
      BY <2>2, <3>1, Parts DEF Moves, ItemsOK
    <3> QED
      BY <3>2, <3>3 DEF ItemsOK
  <2> QED
    BY <2>1, <2>2 DEF Take
<1> QED
  BY <1>1, <1>2, Kept, Whole DEF Take

LEMMA MovedTypes ==
  ASSUME TypeInv, NEW g \in Worker,
         \/ g \in Player /\ RobEnd(g)
         \/ \E m \in Mob : \/ \E p \in Player : LootEnd(g, p, m)
                           \/ CorpsePlaced(g, m)
                           \/ g = Tick /\ DecayEnd(m)
  PROVE  TypeInv'
<1>1. HaulOK'
  BY Parts, MovedFits DEF RobEnd, LootEnd, CorpsePlaced, DecayEnd
<1>2. PurseOK'
  <2>1. CASE g \in Player /\ RobEnd(g)
    <3>1. PICK purse \in {0, 1} : minted' = [minted EXCEPT ![haul[g].of] = @ + purse]
      BY <2>1 DEF RobEnd
    <3>2. minted' \in [Mob -> Nat]
      BY <2>1, <3>1, Parts DEF RobEnd, PurseOK
    <3> QED
      BY <2>1, <3>2, Parts DEF RobEnd, PurseOK
  <2>2. ASSUME NEW m \in Mob, (\E p \in Player : LootEnd(g, p, m)) \/ CorpsePlaced(g, m) \/ DecayEnd(m)
        PROVE  PurseOK'
    <3>1. place[m] \in Room \cup {Nowhere}
      BY Parts DEF BodyOK
    <3> QED
      BY <2>2, <3>1, Parts DEF LootEnd, CorpsePlaced, DecayEnd, PurseOK
  <2> QED
    BY <2>1, <2>2
<1> QED
  BY <1>1, <1>2, Kept, Whole DEF RobEnd, LootEnd, CorpsePlaced, DecayEnd

(* The death flow.                                                         *)
LEMMA HealTypes ==
  ASSUME TypeInv, NEW g \in Worker, KnockOut(g) \/ Revive(g) \/ Wake(g)
  PROVE  TypeInv'
<1>0. flow[g].who \in Fighter /\ flow[g].at \in {"knock", "revive", "wake"}
      /\ (flow[g].at # "knock" => flow[g].who \in Player)
  BY Parts DEF KnockOut, Revive, Wake, Flows, FlowOK, FlowFits
<1>1. FlowOK'
  <2>1. PICK at \in {"end", "wake", Dies(flow[g].who)} :
          /\ FlowTo(g, at)
          /\ at = "wake" => flow[g].at = "revive"
          /\ at = Dies(flow[g].who) => flow[g].at = "knock"
    BY DEF KnockOut, Revive, Wake, Flows, Dies
  <2>2. at \in FlowAt /\ (at \in {"corpse", "auto", "untrack"} => flow[g].who \in Mob)
        /\ (at \in {"revive", "wake"} => flow[g].who \in Player)
    BY <1>0, <2>1 DEF Dies, FlowAt
  <2> QED
    BY <1>0, <2>1, <2>2, Parts, FlowingOn
<1>2. BodyOK'
  BY <1>0, Parts DEF KnockOut, Revive, Wake, BodyOK
<1> QED
  BY <1>1, <1>2, Kept, Whole DEF KnockOut, Revive, Wake

LEMMA MobKilledTypes ==
  ASSUME TypeInv, NEW g \in Worker, MobKilled(g)
  PROVE  TypeInv'
<1>0. flow[g].who \in Mob /\ flow[g].at = "corpse"
  BY Parts DEF MobKilled, Flows, FlowOK, FlowFits
<1> DEFINE m == flow[g].who
<1>1. PICK purse \in {0, 1} :
        /\ minted' = [minted EXCEPT ![m] = @ + purse]
        /\ coins' = IF purse = 1 THEN coins \cup {m} ELSE coins
        /\ \/ Hauls(g, m, Corpse(m)) /\ FlowTo(g, "auto")
           \/ FlowTo(g, "untrack") /\ UNCHANGED haul
  BY DEF MobKilled
<1>2. FlowOK'
  BY <1>0, <1>1, Parts, FlowingOn DEF FlowAt
<1>3. HaulOK'
  BY <1>0, <1>1, Parts, Hauling, Kept DEF Holder
<1>4. deaths' \in [Mob -> Nat] /\ minted' \in [Mob -> Nat] /\ coins' \subseteq Mob
  BY <1>0, <1>1, Parts DEF MobKilled, PurseOK
<1>5. PurseOK'
  BY <1>4, Parts DEF MobKilled, PurseOK
<1> QED
  BY <1>2, <1>3, <1>5, Kept, Whole DEF MobKilled

LEMMA BuryTypes ==
  ASSUME TypeInv, NEW g \in Worker, Autoloot(g) \/ Untrack(g) \/ FlowEnd(g)
  PROVE  TypeInv'
<1>0. flow[g].who \in Fighter /\ flow[g].at # "none" /\ (flow[g].at # "end" => flow[g].who \in Mob)
  BY Parts DEF Autoloot, Untrack, FlowEnd, Flows, FlowOK, FlowFits
<1>1. FlowOK'
  <2>1. CASE Autoloot(g)
    BY <1>0, <2>1, Parts, FlowingOn DEF Autoloot, FlowAt, Flows
  <2>2. CASE Untrack(g)
    BY <1>0, <2>2, Parts, FlowingOn DEF Untrack, FlowAt, Flows
  <2>3. CASE FlowEnd(g)
    BY <2>3, Parts, Flowing DEF FlowEnd, NoFlow, FlowAt, Anybody
  <2> QED
    BY <2>1, <2>2, <2>3
<1>2. HaulOK'
  <2>1. CASE Autoloot(g)
    <3>1. flow[g].who \in Mob
      BY <1>0, <2>1 DEF Autoloot, Flows
    <3> QED
      BY <2>1, <3>1, Parts, Hauling, Kept DEF Autoloot, Holder
  <2> QED
    BY <2>1, Kept DEF Untrack, FlowEnd
<1>3. BodyOK'
  BY <1>0, Parts DEF Autoloot, Untrack, FlowEnd, BodyOK
<1>4. FoesOK'
  BY <1>0, Parts, OutOfAllFits, Kept DEF Autoloot, Untrack, FlowEnd
<1> QED
  BY <1>1, <1>2, <1>3, <1>4, Kept, Whole DEF Autoloot, Untrack, FlowEnd

(* The tick goroutine.                                                     *)
LEMMA CastTypes ==
  ASSUME TypeInv, NEW x \in Fighter, NEW y \in Fighter, Cast(x, y)
  PROVE  TypeInv'
<1>1. CmdOK'
  <2>1. cmd' = [cmd EXCEPT ![Tick] = [at |-> "cast", who |-> x, on |-> y, room |-> Nowhere]]
    BY DEF Cast
  <2>2. CmdOK /\ Tick \in Worker /\ Nowhere \in Room \cup {Nowhere}
    BY Parts
  <2>3. "cast" \in CmdAt /\ x \in Anybody /\ y \in Anybody
    BY DEF CmdAt, Anybody
  <2> QED
    BY <2>1, <2>2, <2>3, Turns
<1> QED
  BY <1>1, Kept, Whole DEF Cast

LEMMA ProbeTypes ==
  ASSUME TypeInv, CastHits \/ Probe
  PROVE  TypeInv'
<1>0. cmd[Tick].on \in Fighter /\ cmd[Tick].who \in Fighter /\ cmd[Tick].at \in {"cast", "probe"}
  BY Parts DEF CastHits, Probe, At, CmdOK, CmdFits
<1>1. CmdOK'
  BY <1>0, Parts, Ends, GoesTo DEF CastHits, Probe, CmdAt
<1>2. FlowOK'
  BY <1>0, Parts, Flowing, Kept DEF CastHits, Probe, Dies, FlowAt, Anybody
<1>3. BodyOK'
  BY <1>0, Parts DEF CastHits, Probe, BodyOK
<1> QED
  BY <1>1, <1>2, <1>3, Kept, Whole DEF CastHits, Probe

LEMMA AttackTypes ==
  ASSUME TypeInv, NEW x \in Fighter, Attack(x)
  PROVE  TypeInv'
<1>0. ~Known(x) \/ place[x] = Nowhere => foes' = OutOfAll(x) /\ UNCHANGED <<cmd, hit>>
  BY DEF Attack
<1>1. ASSUME Known(x), place[x] # Nowhere
      PROVE  FoesOK' /\ CmdOK' /\ hit' \subseteq Fighter
  <2>1. PICK y \in foes[x] :
          \/ foes' = Disengaged(x, y) /\ UNCHANGED <<cmd, hit>>
          \/ /\ UNCHANGED foes /\ hit' = {y}
             /\ cmd' = [cmd EXCEPT ![Tick] = [at |-> "swing", who |-> x, on |-> y, room |-> place[x]]]
    BY <1>1 DEF Attack
  <2>2. y \in Fighter /\ y # x /\ place[x] \in Room \cup {Nowhere} /\ hit \subseteq Fighter
    BY Parts DEF FoesOK, NoneAlone, BodyOK, PurseOK
  <2>3. CASE foes' = Disengaged(x, y) /\ UNCHANGED <<cmd, hit>>
    BY <2>2, <2>3, Parts, DisengagedFits, Kept
  <2>4. CASE /\ UNCHANGED foes /\ hit' = {y}
             /\ cmd' = [cmd EXCEPT ![Tick] = [at |-> "swing", who |-> x, on |-> y, room |-> place[x]]]
    <3>1. FoesOK' /\ hit' \subseteq Fighter
      BY <2>2, <2>4, Kept
    <3>2. CmdOK
      BY Parts
    <3>3. CmdOK'
      <4>1. "swing" \in CmdAt /\ x \in Anybody /\ y \in Anybody /\ Tick \in Worker
        BY <2>2 DEF CmdAt, Anybody
      <4>2. place[x] \in Room \cup {Nowhere} /\ x # y /\ y \in Fighter /\ x \in Fighter
        BY <2>2
      <4> HIDE DEF Worker, Fighter
      <4> QED
        BY ONLY <2>4, <3>2, <4>1, <4>2, Turns
    <3> QED
      BY <3>1, <3>3
  <2> QED
    BY <2>1, <2>3, <2>4
<1>2. FoesOK' /\ CmdOK' /\ hit' \subseteq Fighter
  <2>1. CASE ~Known(x) \/ place[x] = Nowhere
    BY <1>0, <2>1, Parts, OutOfAllFits, Kept DEF PurseOK
  <2> QED
    BY <1>1, <2>1
<1>3. PurseOK'
  BY <1>2, Parts DEF Attack, PurseOK
<1> QED
  BY <1>2, <1>3, Kept, Whole DEF Attack

LEMMA SwingTypes ==
  ASSUME TypeInv, Swing
  PROVE  TypeInv'
<1>0. cmd[Tick].on \in Fighter /\ cmd[Tick].who \in Fighter /\ cmd[Tick].at = "swing"
  BY Parts DEF Swing, At, CmdOK, CmdFits
<1>1. CmdOK'
  BY <1>0, Parts, Ends, GoesTo DEF Swing, CmdAt
<1>2. FlowOK' /\ down' \subseteq Fighter
  BY <1>0, Parts, FallsFits DEF Swing
<1>3. BodyOK' /\ PurseOK'
  BY <1>2, Parts DEF Swing, BodyOK, PurseOK
<1> QED
  BY <1>1, <1>2, <1>3, Kept, Whole DEF Swing

LEMMA CleaveTypes ==
  ASSUME TypeInv, Cleave \/ CleaveEnd
  PROVE  TypeInv'
<1>1. CmdOK' /\ hit' \subseteq Fighter
  <2>1. CASE Cleave
    <3>1. PICK y \in foes[cmd[Tick].who] : /\ cmd' = [cmd EXCEPT ![Tick].at = "swing", ![Tick].on = y]
                                           /\ hit' = hit \cup {y}
      BY <2>1 DEF Cleave
    <3>2. cmd[Tick].who \in Fighter /\ y \in Fighter /\ hit \subseteq Fighter
      BY <2>1, Parts DEF Cleave, At, CmdOK, CmdFits, FoesOK, PurseOK
    <3>3. /\ cmd' \in [Worker -> [at : CmdAt, who : Anybody, on : Anybody, room : Room \cup {Nowhere}]]
          /\ \A g \in Worker : /\ cmd'[g].at = IF g = Tick THEN "swing" ELSE cmd[g].at
                               /\ cmd'[g].on = IF g = Tick THEN y ELSE cmd[g].on
                               /\ cmd'[g].who = cmd[g].who
      <4>1. "swing" \in CmdAt /\ y \in Anybody
        BY <3>2 DEF CmdAt, Anybody
      <4>2. cmd \in [Worker -> [at : CmdAt, who : Anybody, on : Anybody, room : Room \cup {Nowhere}]]
        BY Parts DEF CmdOK
      <4> DEFINE turn == [cmd[Tick] EXCEPT !.at = "swing", !.on = y]
      <4>3. cmd' = [cmd EXCEPT ![Tick] = turn] /\ Tick \in Worker
        BY <3>1, <4>2
      <4>4. /\ turn \in [at : CmdAt, who : Anybody, on : Anybody, room : Room \cup {Nowhere}]
            /\ turn.at = "swing" /\ turn.on = y /\ turn.who = cmd[Tick].who
        BY <4>1, <4>2
      <4> HIDE DEF turn
      <4>5. \A g \in Worker : cmd'[g] = IF g = Tick THEN turn ELSE cmd[g]
        BY <4>2, <4>3
      <4> QED
        BY <4>2, <4>3, <4>4, <4>5
    <3>4. CmdFits /\ cmd[Tick].at = "cleave"
      BY <2>1, Parts DEF CmdOK, Cleave, At
    <3>5. CmdOK'
      BY <3>2, <3>3, <3>4 DEF CmdOK, CmdFits
    <3> QED
      BY <3>1, <3>2, <3>5
  <2>2. CASE CleaveEnd
    BY <2>2, Parts, Ends DEF CleaveEnd
  <2> QED
    BY <2>1, <2>2
<1>2. PurseOK'
  BY <1>1, Parts DEF Cleave, CleaveEnd, PurseOK
<1> QED
  BY <1>1, <1>2, Kept, Whole DEF Cleave, CleaveEnd

LEMMA RestTypes ==
  ASSUME TypeInv, \/ \E m \in Mob : Decay(m) \/ Reset(m)
                  \/ \E x \in Fighter : ComesTo(x)
  PROVE  TypeInv'
<1>1. BodyOK'
  BY Parts DEF Decay, Reset, ComesTo, BodyOK
<1>2. HaulOK'
  BY Parts, Hauling, Kept DEF Decay, Reset, ComesTo, Holder
<1>3. PurseOK'
  BY Parts DEF Decay, Reset, ComesTo, PurseOK
<1> QED
  BY <1>1, <1>2, <1>3, Kept, Whole DEF Decay, Reset, ComesTo

LEMMA NextTypes ==
  ASSUME TypeInv, [Next]_vars
  PROVE  TypeInv'
<1>1. CASE UNCHANGED vars
  BY <1>1, Kept, Whole DEF vars
<1>2. ASSUME NEW g \in Worker, GoesOn(g)
      PROVE  TypeInv'
  BY <1>2, FleeTypes, TakeTypes, MovedTypes, HealTypes, MobKilledTypes, BuryTypes DEF GoesOn
<1>3. ASSUME NEW p \in Player, Begins(p) \/ Verbs(p)
      PROVE  TypeInv'
  <2>1. CASE Begins(p)
    BY <2>1, LookTypes, LookDownedTypes, LootTypes, MoveTypes, FleeLookTypes, ComesAndGoesTypes DEF Begins
  <2>2. CASE Verbs(p)
    BY <1>2, <2>2, EngageTypes, StrikeTypes, RobTypes, MovedTypes DEF Verbs
  <2> QED
    BY <1>3, <2>1, <2>2
<1>4. ASSUME NEW x \in Fighter, \/ \E y \in Fighter : Cast(x, y)
                                \/ \E r \in Room : Wimpy(x, r)
                                \/ Attack(x) \/ ComesTo(x)
      PROVE  TypeInv'
  BY <1>4, CastTypes, FleeLookTypes, AttackTypes, RestTypes DEF Wimpy
<1>5. CASE Handles
  BY <1>2, <1>5, ProbeTypes, SwingTypes, CleaveTypes, MovedTypes DEF Handles
<1>6. CASE \E m \in Mob : Decay(m) \/ Reset(m)
  BY <1>6, RestTypes
<1> QED
  BY <1>1, <1>3, <1>4, <1>5, <1>6 DEF Next

(* Every variable keeps its type, and a fight is always one of two: if I   *)
(* have you in my combat list, you have me in yours (combat.Manager).      *)
THEOREM CombatTypes == Spec => []CombatTypeOK
<1>1. Init => TypeInv
  BY InitTypes
<1>2. TypeInv /\ [Next]_vars => TypeInv'
  BY NextTypes
<1>3. TypeInv => CombatTypeOK
  BY DEF TypeInv
<1> QED
  BY <1>1, <1>2, <1>3, PTL DEF Spec

(* No session kills whom the tick goroutine is busy with.                  *)
NotBusy == \A P \in Plays : "busy" \notin P

LEMMA InitDeath == Init => DeathInv
<1> SUFFICES ASSUME Init PROVE DeathInv
  OBVIOUS
<1>1. FelledOnce /\ StillThere /\ CaredFor
  BY DEF Init, FelledOnce, StillThere, CaredFor, DyingOf, Dying, NoFlow, Idle
<1> QED
  BY <1>1, InitTypes DEF DeathInv

(* What a step may do that neither fells nor heals nor buries anybody.     *)
LEMMA Unhurt ==
  ASSUME DeathInv, TypeInv', UNCHANGED <<place, tracked, down, flow, deaths>>,
         cmd[Tick].at = "probe" => cmd'[Tick] = cmd[Tick], StillThere'
  PROVE  DeathInv'
<1>1. FelledOnce'
  BY DEF DeathInv, FelledOnce, DyingOf
<1>2. CaredFor'
  BY DEF DeathInv, CaredFor, Cared, Known
<1> QED
  BY <1>1, <1>2 DEF DeathInv

(* A player does something else, which is not to flee.                     *)
LEMMA OtherVerb ==
  ASSUME DeathInv, TypeInv', UNCHANGED <<place, tracked, down, flow, deaths>>,
         NEW p \in Player, \A g \in Worker \ {p} : cmd'[g] = cmd[g],
         cmd'[p] = cmd[p] \/ cmd'[p].at \notin {"part", "go"} \/ cmd'[p].who = p
  PROVE  DeathInv'
<1>1. StillThere'
  BY DEF DeathInv, StillThere, DyingOf
<1> QED
  BY <1>1, Unhurt

LEMMA VerbDeath ==
  ASSUME DeathInv, TypeInv', NEW p \in Player,
         \/ \E y \in Fighter : Look(p, y, "kill") \/ Look(p, y, "throw")
         \/ \E m \in Mob : LookDowned(p, m, "finish") \/ LookDowned(p, m, "rob") \/ Loot(p, m)
         \/ \E r \in Room : FleeLook(p, p, r)
         \/ Engage(p) \/ Rob(p) \/ RobEnd(p)
         \/ (Hurl(p) \/ Finish(p)) /\ UNCHANGED <<down, flow>>
  PROVE  DeathInv'
<1>1. cmd \in [Worker -> [at : CmdAt, who : Anybody, on : Anybody, room : Room \cup {Nowhere}]]
  BY Parts DEF DeathInv, CmdOK
<1>2. UNCHANGED <<place, tracked, down, flow, deaths>>
  BY DEF Look, LookDowned, Loot, FleeLook, Engage, Rob, RobEnd, Hurl, Finish
<1>3. \A g \in Worker \ {p} : cmd'[g] = cmd[g]
  BY <1>1 DEF Look, LookDowned, Loot, FleeLook, Engage, Rob, RobEnd, Hurl, Finish, Done, Do
<1>4. cmd'[p] = cmd[p] \/ cmd'[p].at \notin {"part", "go"} \/ cmd'[p].who = p
  BY <1>1 DEF Look, LookDowned, Loot, FleeLook, Engage, Rob, RobEnd, Hurl, Finish, Done, Do, Idle
<1> QED
  BY <1>2, <1>3, <1>4, OtherVerb

(* Whoever moves contents leaves all commands as they are.                 *)
LEMMA HaulDeath ==
  ASSUME DeathInv, TypeInv', UNCHANGED <<place, tracked, down, flow, deaths, cmd>>
  PROVE  DeathInv'
<1>1. StillThere'
  BY DEF DeathInv, StillThere, DyingOf
<1> QED
  BY <1>1, Unhurt

(* A turn of the tick goroutine.                                           *)
LEMMA TurnDeath ==
  ASSUME NotBusy, DeathInv, TypeInv',
         \/ \E x \in Fighter : \/ \E y \in Fighter : Cast(x, y)
                               \/ \E r \in Room : Wimpy(x, r)
                               \/ Attack(x)
         \/ Cleave \/ CleaveEnd
  PROVE  DeathInv'
<1>1. cmd \in [Worker -> [at : CmdAt, who : Anybody, on : Anybody, room : Room \cup {Nowhere}]]
      /\ "busy" \notin play
  BY Parts DEF DeathInv, CmdOK, PurseOK, NotBusy
<1>2. UNCHANGED <<place, tracked, down, flow, deaths>> /\ cmd[Tick].at # "probe"
      /\ \A p \in Player : cmd'[p] = cmd[p]
  BY <1>1 DEF Cast, Wimpy, HasTurn, FleeLook, Attack, Cleave, CleaveEnd, Free, At, Done, Idle
<1>3. \/ cmd'[Tick] = cmd[Tick]
      \/ cmd'[Tick].at = "idle"
      \/ cmd'[Tick].at = "cast" /\ cmd'[Tick].on \notin down
      \/ cmd'[Tick].at = "part" /\ cmd'[Tick].who \notin down /\ Known(cmd'[Tick].who)
      \/ cmd'[Tick].at = "swing" /\ Known(cmd'[Tick].on)
  <2>1. ASSUME NEW x \in Fighter, NEW y \in Fighter, Cast(x, y)
        PROVE  cmd'[Tick].at = "cast" /\ cmd'[Tick].on \notin down
    BY <1>1, <2>1 DEF Cast
  <2>2. ASSUME NEW x \in Fighter, NEW r \in Room, Wimpy(x, r)
        PROVE  cmd'[Tick].at = "part" /\ cmd'[Tick].who \notin down /\ Known(cmd'[Tick].who)
    <3>1. cmd'[Tick] = [at |-> "part", who |-> x, on |-> None, room |-> r] /\ x \notin down /\ Known(x)
      BY <1>1, <2>2 DEF Wimpy, FleeLook
    <3> QED
      BY <3>1
  <2>3. ASSUME NEW x \in Fighter, Attack(x)
        PROVE  cmd'[Tick] = cmd[Tick] \/ (cmd'[Tick].at = "swing" /\ Known(cmd'[Tick].on))
    <3>1. CASE UNCHANGED cmd
      BY <3>1
    <3>2. ASSUME NEW y \in foes[x], Known(y),
                 cmd' = [cmd EXCEPT ![Tick] = [at |-> "swing", who |-> x, on |-> y, room |-> place[x]]]
          PROVE  cmd'[Tick].at = "swing" /\ Known(cmd'[Tick].on)
      <4>1. cmd'[Tick] = [at |-> "swing", who |-> x, on |-> y, room |-> place[x]]
        BY <1>1, <3>2
      <4> QED
        BY <3>2, <4>1
    <3> QED
      BY <2>3, <3>1, <3>2 DEF Attack
  <2>4. ASSUME Cleave
        PROVE  cmd'[Tick].at = "swing" /\ Known(cmd'[Tick].on)
    <3>1. PICK y \in foes[cmd[Tick].who] : Known(y) /\ cmd' = [cmd EXCEPT ![Tick].at = "swing", ![Tick].on = y]
      BY <2>4 DEF Cleave
    <3>2. cmd'[Tick].at = "swing" /\ cmd'[Tick].on = y
      BY <1>1, <3>1
    <3> QED
      BY <3>1, <3>2
  <2>5. ASSUME CleaveEnd
        PROVE  cmd'[Tick].at = "idle"
    BY <1>1, <2>5 DEF CleaveEnd, Done, Idle
  <2> QED
    BY <2>1, <2>2, <2>3, <2>4, <2>5
<1>4. StillThere'
  BY <1>2, <1>3 DEF DeathInv, StillThere, DyingOf, Known
<1> QED
  BY <1>2, <1>4, Unhurt

(* Who flees is still in the game.                                         *)
LEMMA FleeDeath ==
  ASSUME DeathInv, TypeInv', NEW g \in Worker, FleePart(g) \/ FleeGo(g)
  PROVE  DeathInv'
<1>1. /\ cmd \in [Worker -> [at : CmdAt, who : Anybody, on : Anybody, room : Room \cup {Nowhere}]]
      /\ cmd[g].who \in Fighter /\ cmd[g].at \in {"part", "go"}
      /\ place \in [Fighter -> Room \cup {Nowhere}]
  BY Parts DEF DeathInv, CmdOK, CmdFits, FleePart, FleeGo, At, BodyOK
<1>2. /\ UNCHANGED <<tracked, down, flow, deaths>>
      /\ \A h \in Worker \ {g} : cmd'[h] = cmd[h]
      /\ cmd'[g].at = "idle" \/ (cmd'[g].at = "go" /\ cmd'[g].who = cmd[g].who)
  BY <1>1 DEF FleePart, FleeGo, Done, Do, Idle
<1>3. \A x \in Fighter : place'[x] = place[x] \/ (x = cmd[g].who /\ Known(x))
  BY <1>1 DEF FleePart, FleeGo, Known, DeathInv, StillThere
<1>4. FelledOnce'
  BY <1>2, <1>3 DEF DeathInv, FelledOnce, DyingOf, Known
<1>5. StillThere'
  BY <1>1, <1>2 DEF DeathInv, StillThere, DyingOf
<1>6. CaredFor'
  <2>1. \A x \in Fighter : Known(x)' => Known(x)
    BY <1>2, <1>3 DEF Known
  <2>2. down \subseteq Fighter
    BY Parts DEF DeathInv, BodyOK
  <2>3. \A x \in Fighter : Cared(x) => Cared(x)'
    BY <1>1, <1>2 DEF Cared
  <2> QED
    BY <1>2, <2>1, <2>2, <2>3 DEF DeathInv, CaredFor
<1> QED
  BY <1>4, <1>5, <1>6 DEF DeathInv

(* Who comes, moves or goes is a player.                                   *)
LEMMA MoveDeath ==
  ASSUME DeathInv, TypeInv', NEW p \in Player, Quit(p) \/ Login(p) \/ \E r \in Room : Move(p, r)
  PROVE  DeathInv'
<1>1. /\ cmd \in [Worker -> [at : CmdAt, who : Anybody, on : Anybody, room : Room \cup {Nowhere}]]
      /\ place \in [Fighter -> Room \cup {Nowhere}] /\ down \subseteq Fighter
  BY Parts DEF DeathInv, CmdOK, BodyOK
<1>2. /\ UNCHANGED <<tracked, flow, deaths>>
      /\ \A g \in Worker \ {p} : cmd'[g] = cmd[g]
      /\ cmd'[p] = cmd[p] \/ cmd'[p].at = "met"
  BY <1>1 DEF Quit, Login, Move
<1>3. /\ \A x \in Fighter \ {p} : place'[x] = place[x]
      /\ \A x \in Fighter : x \in down' <=> x \in down /\ (x = p => ~Login(p))
      /\ Login(p) \/ place[p] # Nowhere
  BY <1>1 DEF Quit, Login, Move, Types
<1>4. FelledOnce'
  BY <1>2, <1>3 DEF DeathInv, FelledOnce, DyingOf
<1>5. StillThere'
  BY <1>2, <1>3 DEF DeathInv, StillThere, DyingOf
<1>6. CaredFor'
  <2>1. \A x \in Fighter : x \in down' /\ Known(x)' => x \in down /\ Known(x)
    BY <1>2, <1>3 DEF Known, Login
  <2>2. \A x \in Fighter : Cared(x) => Cared(x)'
    BY <1>1, <1>2 DEF Cared
  <2>3. down' \subseteq Fighter
    BY <1>1 DEF Quit, Login, Move
  <2> QED
    BY <2>1, <2>2, <2>3 DEF DeathInv, CaredFor
<1> QED
  BY <1>4, <1>5, <1>6 DEF DeathInv

(* A blow fells one who was not down, and its goroutine sees to the rest.  *)
LEMMA FellsDeath ==
  ASSUME NotBusy, DeathInv, TypeInv', NEW g \in Worker, NEW x \in Fighter, NEW y \in Fighter,
         NEW how \in {Dies(y), "knock"}, Falls(g, x, y, how), Calm(g), UNCHANGED <<place, tracked, deaths>>,
         y \in Mob => y \in tracked, \A h \in Worker \ {g} : cmd'[h] = cmd[h],
         \/ g = Tick /\ cmd[Tick].at = "swing" /\ cmd'[Tick].at = "cleave"
         \/ g \in Player /\ cmd'[g].at = "idle" /\ ~TickBusy(y)
  PROVE  DeathInv'
<1>0. how \in Dying \cup {"revive"} /\ (y \in Mob => how \in {"knock", "corpse"})
  BY DEF Dies, Dying
<1>1. /\ \A h \in Worker : /\ flow'[h].at = IF h = g THEN how ELSE flow[h].at
                           /\ flow'[h].who = IF h = g THEN y ELSE flow[h].who
      /\ y \notin down /\ flow[g].at = "none" /\ \A z \in Fighter : z \in down' <=> z \in down \/ z = y
      /\ down' = down \cup {y}
  BY Parts DEF Falls, Calm, DeathInv, FlowOK
<1>2. ~DyingOf(g, y) /\ \A h \in Worker : y \in Mob => ~DyingOf(h, y)
  BY <1>1 DEF DeathInv, FelledOnce, DyingOf, Dying
<1>3. \A h \in Worker, m \in Mob : DyingOf(h, m)' <=> DyingOf(h, m) \/ (h = g /\ m = y)
  BY <1>0, <1>1, <1>2 DEF DyingOf, Dying
<1>4. FelledOnce'
  <2>1. \A m \in Mob : m = y => deaths[m] = 0
    <3>1. \A m \in Mob : deaths[m] \in Nat
      BY Parts DEF DeathInv, PurseOK
    <3> QED
      BY <1>1, <3>1 DEF DeathInv, FelledOnce
  <2>2. \A m \in Mob, h, i \in Worker : DyingOf(h, m)' /\ DyingOf(i, m)' => h = i
    BY <1>2, <1>3 DEF DeathInv, FelledOnce
  <2>3. \A m \in Mob, h \in Worker : DyingOf(h, m)' =>
          m \in down' /\ (deaths'[m] = 0 <=> flow'[h].at \in {"knock", "corpse"})
    <3>1. ASSUME NEW m \in Mob, NEW h \in Worker, DyingOf(h, m)', m = y
          PROVE  m \in down' /\ deaths'[m] = 0 /\ flow'[h].at \in {"knock", "corpse"}
      BY <1>0, <1>1, <1>2, <1>3, <2>1, <3>1
    <3>2. ASSUME NEW m \in Mob, NEW h \in Worker, DyingOf(h, m)', m # y
          PROVE  m \in down' /\ (deaths'[m] = 0 <=> flow'[h].at \in {"knock", "corpse"})
      <4>1. DyingOf(h, m) /\ h # g
        BY <1>1, <1>3, <3>2 DEF DyingOf, Dying
      <4> QED
        BY <1>1, <4>1 DEF DeathInv, FelledOnce
    <3> QED
      BY <3>1, <3>2
  <2>4. \A m \in Mob : /\ deaths'[m] <= 1 /\ (deaths'[m] > 0 => m \in down')
                       /\ m \in down' /\ deaths'[m] = 0 => m \in tracked'
                       /\ m \notin tracked' => place'[m] = Nowhere
    BY <1>1 DEF DeathInv, FelledOnce
  <2> QED
    BY <2>2, <2>3, <2>4 DEF FelledOnce
<1>5. StillThere'
  <2>1. CASE g = Tick
    BY <2>1 DEF DeathInv, StillThere
  <2>2. CASE g \in Player
    <3>1. cmd'[Tick] = cmd[Tick]
      BY <2>2
    <3>2. cmd[Tick].at \in {"cast", "probe"} => cmd[Tick].on # y
      BY <2>2 DEF TickBusy
    <3>3. cmd[Tick].at \in {"part", "go"} => cmd[Tick].who # y
      BY <2>2 DEF TickBusy
    <3> QED
      BY <1>1, <1>3, <2>2, <3>1, <3>2, <3>3 DEF DeathInv, StillThere
  <2> QED
    BY <2>1, <2>2
<1>6. CaredFor'
  <2>1. Cared(y)'
    BY <1>0, <1>1 DEF Cared
  <2>2. ASSUME NEW z \in Fighter, Cared(z)
        PROVE  Cared(z)'
    <3>1. CASE cmd[Tick].at = "probe" /\ cmd[Tick].on = z
      BY <3>1 DEF Cared
    <3>2. ASSUME NEW h \in Worker, flow[h].at \in Dying \cup {"revive"}, flow[h].who = z
          PROVE  Cared(z)'
      <4>1. h # g
        BY <1>1, <3>2 DEF Dying
      <4> QED
        BY <1>1, <3>2, <4>1 DEF Cared
    <3> QED
      BY <2>2, <3>1, <3>2 DEF Cared
  <2>3. down \subseteq Fighter
    BY Parts DEF DeathInv, BodyOK
  <2> QED
    BY <1>1, <2>1, <2>2, <2>3 DEF DeathInv, CaredFor, Known
<1> QED
  BY <1>4, <1>5, <1>6 DEF DeathInv

LEMMA StrikeDeath ==
  ASSUME NotBusy, DeathInv, TypeInv', NEW p \in Player, Hurl(p) \/ Finish(p)
  PROVE  DeathInv'
<1>0. /\ cmd \in [Worker -> [at : CmdAt, who : Anybody, on : Anybody, room : Room \cup {Nowhere}]]
      /\ "busy" \notin play /\ cmd[p].on \in Fighter /\ (Finish(p) => cmd[p].on \in Mob)
  BY Parts DEF DeathInv, CmdOK, PurseOK, NotBusy, Hurl, Finish, At, CmdFits
<1>1. CASE UNCHANGED <<down, flow>>
  BY <1>1, VerbDeath
<1>2. ASSUME NEW how \in {Dies(cmd[p].on), "knock"}, Falls(p, p, cmd[p].on, how),
             Known(cmd[p].on), ~TickBusy(cmd[p].on)
      PROVE  DeathInv'
  <2>1. /\ cmd'[p].at = "idle" /\ \A h \in Worker \ {p} : cmd'[h] = cmd[h]
        /\ Calm(p) /\ UNCHANGED <<place, tracked, deaths>>
    BY <1>0 DEF Hurl, Finish, Done, Idle, At
  <2>2. cmd[p].on \in Mob => cmd[p].on \in tracked
    BY <1>2 DEF Known
  <2> QED
    BY <1>0, <1>2, <2>1, <2>2, FellsDeath
<1> QED
  BY <1>0, <1>1, <1>2 DEF Hurl, Finish, Blow, Dies

LEMMA SwingDeath ==
  ASSUME NotBusy, DeathInv, TypeInv', Swing
  PROVE  DeathInv'
<1>0. /\ cmd \in [Worker -> [at : CmdAt, who : Anybody, on : Anybody, room : Room \cup {Nowhere}]]
      /\ cmd[Tick].on \in Fighter /\ cmd[Tick].who \in Fighter /\ cmd[Tick].at = "swing" /\ Calm(Tick)
  BY Parts DEF DeathInv, CmdOK, Swing, At, CmdFits
<1>1. /\ UNCHANGED <<place, tracked, deaths>> /\ \A h \in Worker \ {Tick} : cmd'[h] = cmd[h]
      /\ cmd'[Tick].at = IF down' = down THEN "idle" ELSE "cleave"
  BY <1>0 DEF Swing, Do, Done, Idle
<1>2. CASE UNCHANGED <<down, flow>>
  <2>1. StillThere'
    BY <1>1, <1>2 DEF DeathInv, StillThere
  <2> QED
    BY <1>0, <1>1, <1>2, <2>1, Unhurt
<1>3. ASSUME NEW how \in {Dies(cmd[Tick].on), "knock"}, Falls(Tick, cmd[Tick].who, cmd[Tick].on, how)
      PROVE  DeathInv'
  <2>1. cmd[Tick].on \in Mob => cmd[Tick].on \in tracked
    BY <1>0, <1>3 DEF Falls, DeathInv, StillThere
  <2>2. cmd'[Tick].at = "cleave"
    BY <1>1, <1>3 DEF Falls
  <2> QED
    BY <1>0, <1>1, <1>3, <2>1, <2>2, FellsDeath
<1> QED
  BY <1>2, <1>3 DEF Swing, Blow

(* The death flow of g goes on, or ends, and no other one does.            *)
FlowsOn(g, at) ==
  /\ \A h \in Worker : flow'[h].at = IF h = g THEN at ELSE flow[h].at
  /\ \A h \in Worker : flow'[h].who = flow[h].who

LEMMA FlowToOn ==
  ASSUME DeathInv, NEW g \in Worker, NEW at, FlowTo(g, at)
  PROVE  FlowsOn(g, at)
  BY Parts DEF DeathInv, FlowOK, FlowTo, FlowsOn

(* Who is knocked out, or revived, is not down any more.                   *)
LEMMA HealDeath ==
  ASSUME DeathInv, TypeInv', NEW g \in Worker, KnockOut(g) \/ Revive(g) \/ Wake(g)
  PROVE  DeathInv'
<1> DEFINE y == flow[g].who
<1>0. /\ y \in Fighter /\ flow[g].at \in {"knock", "revive", "wake"} /\ (flow[g].at # "knock" => y \in Player)
      /\ down \subseteq Fighter /\ place \in [Fighter -> Room \cup {Nowhere}]
  BY Parts DEF KnockOut, Revive, Wake, Flows, DeathInv, FlowOK, FlowFits, BodyOK
<1>1. flow[g].at = "knock" /\ y \in Mob => Known(y)
  BY DEF DeathInv, FelledOnce, DyingOf, Dying, Known
<1>2. PICK at \in {"end", "wake", "revive"} :
        /\ FlowsOn(g, at)
        /\ at # "revive" => y \notin down' \/ flow[g].at = "wake" \/ ~Known(y)
        /\ at = "revive" => y \in Player
  <2>1. PICK at \in {"end", "wake", Dies(y)} :
          /\ FlowTo(g, at)
          /\ at \in {"end", "wake"} => y \notin down' \/ flow[g].at = "wake" \/ ~Known(y)
          /\ at = Dies(y) => flow[g].at = "knock" /\ ~Known(y)
    BY DEF KnockOut, Revive, Wake, Flows, Dies
  <2>2. at \in {"end", "wake", "revive"} /\ (at = "revive" => y \in Player)
    BY <1>0, <1>1, <2>1 DEF Dies
  <2> QED
    BY <2>1, <2>2, FlowToOn
<1>3. /\ UNCHANGED <<tracked, deaths, cmd>>
      /\ \A x \in Fighter : x \in down' <=> x \in down /\ (x = y => down' = down)
      /\ down' \subseteq down /\ (down' # down => flow[g].at # "wake" /\ Known(y))
  BY <1>0 DEF KnockOut, Revive, Wake, Flows
<1>4. \A x \in Fighter : (Known(x)' <=> Known(x)) /\ (x \in Mob => place'[x] = place[x])
  BY <1>0 DEF KnockOut, Revive, Wake, Flows, Known
<1>5. \A h \in Worker, m \in Mob : DyingOf(h, m)' <=> DyingOf(h, m) /\ h # g
  BY <1>0, <1>2 DEF FlowsOn, DyingOf, Dying
<1>6. FelledOnce'
  <2>0. \A m \in Mob : m = y /\ down' # down => deaths[m] = 0
    BY <1>0, <1>3 DEF DeathInv, FelledOnce, DyingOf, Dying
  <2>1. \A m \in Mob : m = y /\ down' # down => \A h \in Worker : ~DyingOf(h, m)'
    BY <1>0, <1>3, <1>5 DEF DeathInv, FelledOnce, DyingOf, Dying
  <2>2. \A m \in Mob, h, i \in Worker : DyingOf(h, m)' /\ DyingOf(i, m)' => h = i
    BY <1>5 DEF DeathInv, FelledOnce
  <2>3. \A m \in Mob, h \in Worker : DyingOf(h, m)' =>
          m \in down' /\ (deaths'[m] = 0 <=> flow'[h].at \in {"knock", "corpse"})
    BY <1>2, <1>3, <1>5, <2>1 DEF FlowsOn, DeathInv, FelledOnce
  <2>4. \A m \in Mob : /\ deaths'[m] <= 1 /\ (deaths'[m] > 0 => m \in down')
                       /\ m \in down' /\ deaths'[m] = 0 => m \in tracked'
                       /\ m \notin tracked' => place'[m] = Nowhere
    BY <1>3, <1>4, <2>0 DEF DeathInv, FelledOnce
  <2> QED
    BY <2>2, <2>3, <2>4 DEF FelledOnce
<1>7. StillThere'
  BY <1>3, <1>5 DEF DeathInv, StillThere, Known
<1>8. CaredFor'
  <2> SUFFICES ASSUME NEW x \in Fighter, x \in down, x \in down', Known(x), Cared(x)
               PROVE  Cared(x)'
    BY <1>0, <1>3, <1>4 DEF DeathInv, CaredFor
  <2>1. CASE cmd[Tick].at = "probe" /\ cmd[Tick].on = x
    BY <1>3, <2>1 DEF Cared
  <2>2. ASSUME NEW h \in Worker, flow[h].at \in Dying \cup {"revive"}, flow[h].who = x
        PROVE  Cared(x)'
    <3>1. CASE h # g
      BY <1>2, <2>2, <3>1 DEF FlowsOn, Cared
    <3>2. CASE h = g
      <4>1. at = "revive"
        BY <1>2, <2>2, <3>2 DEF Dying
      <4> QED
        BY <1>2, <2>2, <3>2, <4>1 DEF FlowsOn, Cared
    <3> QED
      BY <3>1, <3>2
  <2> QED
    BY <2>1, <2>2 DEF Cared
<1> QED
  BY <1>6, <1>7, <1>8 DEF DeathInv

(* The flow of a mob goes on, and nobody is hurt or healed.                *)
LEMMA FlowDeath ==
  ASSUME DeathInv, TypeInv', NEW g \in Worker, NEW at \in {"auto", "untrack"}, FlowsOn(g, at),
         flow[g].at \in {"corpse", "auto"}, flow[g].who \in Mob, UNCHANGED <<place, tracked, down, cmd>>,
         \A m \in Mob : deaths'[m] = IF m = flow[g].who /\ flow[g].at = "corpse" THEN deaths[m] + 1 ELSE deaths[m]
  PROVE  DeathInv'
<1>0. \A m \in Mob : deaths[m] \in Nat
  BY Parts DEF DeathInv, PurseOK
<1>1. DyingOf(g, flow[g].who) /\ \A h \in Worker, m \in Mob : DyingOf(h, m)' <=> DyingOf(h, m)
  BY DEF FlowsOn, DyingOf, Dying
<1>2. FelledOnce'
  <2>1. \A m \in Mob, h, i \in Worker : DyingOf(h, m)' /\ DyingOf(i, m)' => h = i
    BY <1>1 DEF DeathInv, FelledOnce
  <2>2. ASSUME NEW m \in Mob, NEW h \in Worker, DyingOf(h, m)'
        PROVE  m \in down' /\ (deaths'[m] = 0 <=> flow'[h].at \in {"knock", "corpse"})
    <3>1. m \in down' /\ (deaths[m] = 0 <=> flow[h].at \in {"knock", "corpse"})
      BY <1>1, <2>2 DEF DeathInv, FelledOnce
    <3>2. CASE h = g
      BY <1>0, <3>1, <3>2, <2>2 DEF FlowsOn, DyingOf
    <3>3. CASE h # g
      <4>1. m # flow[g].who
        BY <1>1, <2>2, <3>3 DEF DeathInv, FelledOnce
      <4> QED
        BY <3>1, <3>3, <4>1 DEF FlowsOn
    <3> QED
      BY <3>2, <3>3
  <2>3. ASSUME NEW m \in Mob
        PROVE  /\ deaths'[m] <= 1 /\ (deaths'[m] > 0 => m \in down')
               /\ m \in down' /\ deaths'[m] = 0 => m \in tracked'
               /\ m \notin tracked' => place'[m] = Nowhere
    <3>1. m = flow[g].who /\ flow[g].at = "corpse" => deaths[m] = 0 /\ m \in down
      BY <1>1 DEF DeathInv, FelledOnce
    <3> QED
      BY <1>0, <3>1 DEF DeathInv, FelledOnce
  <2> QED
    BY <2>1, <2>2, <2>3 DEF FelledOnce
<1>3. StillThere'
  <2>1. cmd[Tick].at = "probe" /\ cmd[Tick].on \in Mob \cap down => cmd[Tick].on # flow[g].who
    BY <1>1 DEF DeathInv, StillThere
  <2> QED
    BY <1>1, <2>1 DEF DeathInv, StillThere
<1>4. CaredFor'
  BY DEF DeathInv, CaredFor, Cared, Known, FlowsOn, Dying
<1> QED
  BY <1>2, <1>3, <1>4 DEF DeathInv

LEMMA MobKilledDeath ==
  ASSUME DeathInv, TypeInv', NEW g \in Worker, MobKilled(g) \/ Autoloot(g)
  PROVE  DeathInv'
<1>1. flow[g].who \in Mob /\ flow[g].at \in {"corpse", "auto"} /\ (MobKilled(g) <=> flow[g].at = "corpse")
  BY Parts DEF DeathInv, MobKilled, Autoloot, Flows, FlowOK, FlowFits
<1>2. PICK at \in {"auto", "untrack"} : FlowTo(g, at)
  BY DEF MobKilled, Autoloot
<1>3. UNCHANGED <<place, tracked, down, cmd>>
  BY DEF MobKilled, Autoloot
<1>4. \A m \in Mob : deaths'[m] = IF m = flow[g].who /\ flow[g].at = "corpse" THEN deaths[m] + 1 ELSE deaths[m]
  BY <1>1, Parts DEF DeathInv, PurseOK, MobKilled, Autoloot
<1> QED
  BY <1>1, <1>2, <1>3, <1>4, FlowToOn, FlowDeath

(* The mob leaves the game as it is: down.                                 *)
LEMMA UntrackDeath ==
  ASSUME DeathInv, TypeInv', NEW g \in Worker, Untrack(g)
  PROVE  DeathInv'
<1>0. flow[g].who \in Mob /\ flow[g].at = "untrack" /\ DyingOf(g, flow[g].who)
      /\ place \in [Fighter -> Room \cup {Nowhere}] /\ tracked \subseteq Mob /\ down \subseteq Fighter
  BY Parts DEF DeathInv, Untrack, Flows, FlowOK, FlowFits, DyingOf, Dying, BodyOK
<1>1. /\ FlowsOn(g, "end") /\ UNCHANGED <<down, deaths, cmd>>
      /\ \A x \in Fighter : /\ x \in tracked' <=> x \in tracked /\ x # flow[g].who
                            /\ place'[x] = IF x = flow[g].who THEN Nowhere ELSE place[x]
  BY <1>0, FlowToOn DEF Untrack
<1>2. \A h \in Worker, m \in Mob : DyingOf(h, m)' <=> DyingOf(h, m) /\ h # g
  BY <1>0, <1>1 DEF FlowsOn, DyingOf, Dying
<1>3. flow[g].who \in down /\ deaths[flow[g].who] # 0
  BY <1>0 DEF DeathInv, FelledOnce
<1>4. FelledOnce'
  BY <1>1, <1>2, <1>3 DEF DeathInv, FelledOnce, FlowsOn
<1>5. StillThere'
  BY <1>1, <1>2, <1>3 DEF DeathInv, StillThere
<1>6. CaredFor'
  <2> SUFFICES ASSUME NEW x \in Fighter, Cared(x), Known(x), Known(x)'
               PROVE  Cared(x)'
    BY <1>0, <1>1 DEF DeathInv, CaredFor, Known
  <2>1. x # flow[g].who
    BY <1>0, <1>1 DEF Known
  <2> QED
    BY <1>1, <2>1 DEF Cared, FlowsOn
<1> QED
  BY <1>4, <1>5, <1>6 DEF DeathInv

LEMMA FlowEndDeath ==
  ASSUME DeathInv, TypeInv', NEW g \in Worker, FlowEnd(g)
  PROVE  DeathInv'
<1>1. /\ UNCHANGED <<place, tracked, down, deaths, cmd>> /\ flow[g].at = "end"
      /\ \A h \in Worker : h # g => flow'[h] = flow[h]
      /\ flow'[g].at = "none"
  BY Parts DEF DeathInv, FlowEnd, Flows, FlowOK, NoFlow
<1>2. \A h \in Worker, m \in Mob : DyingOf(h, m)' <=> DyingOf(h, m)
  BY <1>1 DEF DyingOf, Dying
<1>3. \A h \in Worker, m \in Mob : DyingOf(h, m) => h # g
  BY <1>1 DEF DyingOf, Dying
<1>4. FelledOnce'
  BY <1>1, <1>2, <1>3 DEF DeathInv, FelledOnce
<1>5. StillThere'
  BY <1>1, <1>2 DEF DeathInv, StillThere
<1>6. CaredFor'
  BY <1>1 DEF DeathInv, CaredFor, Cared, Known, Dying
<1> QED
  BY <1>4, <1>5, <1>6 DEF DeathInv

(* A queued ability fells, and is looked after at once.                    *)
LEMMA CastHitsDeath ==
  ASSUME DeathInv, TypeInv', CastHits
  PROVE  DeathInv'
<1> DEFINE y == cmd[Tick].on
<1>0. /\ cmd \in [Worker -> [at : CmdAt, who : Anybody, on : Anybody, room : Room \cup {Nowhere}]]
      /\ y \in Fighter /\ cmd[Tick].at = "cast" /\ down \subseteq Fighter /\ \A m \in Mob : deaths[m] \in Nat
  BY Parts DEF DeathInv, CastHits, At, CmdOK, CmdFits, BodyOK, PurseOK
<1>1. /\ UNCHANGED <<place, tracked, flow, deaths>> /\ cmd'[Tick].at = "probe" /\ cmd'[Tick].on = y
      /\ \A h \in Worker \ {Tick} : cmd'[h] = cmd[h]
      /\ \/ down' = down
         \/ Known(y) /\ down' = down \cup {y}
  BY <1>0 DEF CastHits, Do
<1>2. y \in Mob => /\ y \notin down /\ deaths[y] = 0
                   /\ \A h \in Worker : ~DyingOf(h, y)
  BY <1>0 DEF DeathInv, StillThere, FelledOnce
<1>3. FelledOnce'
  BY <1>1, <1>2 DEF DeathInv, FelledOnce, DyingOf, Known
<1>4. StillThere'
  BY <1>1, <1>2 DEF DeathInv, StillThere, DyingOf
<1>5. CaredFor'
  <2>1. Cared(y)' /\ \A x \in Fighter : Cared(x) => Cared(x)'
    BY <1>0, <1>1 DEF Cared
  <2> QED
    BY <1>0, <1>1, <2>1 DEF DeathInv, CaredFor, Known
<1> QED
  BY <1>3, <1>4, <1>5 DEF DeathInv

LEMMA ProbeDeath ==
  ASSUME DeathInv, TypeInv', Probe
  PROVE  DeathInv'
<1> DEFINE y == cmd[Tick].on
<1>0. /\ cmd \in [Worker -> [at : CmdAt, who : Anybody, on : Anybody, room : Room \cup {Nowhere}]]
      /\ flow \in [Worker -> [at : FlowAt, who : Anybody, by : Anybody]]
      /\ y \in Fighter /\ cmd[Tick].at = "probe" /\ flow[Tick].at = "none" /\ down \subseteq Fighter
  BY Parts DEF DeathInv, Probe, At, Calm, CmdOK, CmdFits, FlowOK, BodyOK
<1>1. /\ UNCHANGED <<place, tracked, down, deaths>> /\ cmd'[Tick].at = "idle"
      /\ \A h \in Worker \ {Tick} : cmd'[h] = cmd[h] /\ flow'[h] = flow[h]
      /\ IF Known(y) /\ y \in down THEN flow'[Tick].at = Dies(y) /\ flow'[Tick].who = y ELSE flow' = flow
  BY <1>0 DEF Probe, Done, Idle
<1>2. \A h \in Worker, m \in Mob :
        DyingOf(h, m)' <=> DyingOf(h, m) \/ (h = Tick /\ m = y /\ m \in tracked \cap down)
  BY <1>0, <1>1 DEF DyingOf, Dying, Dies, Known
<1>3. y \in Mob \cap down => deaths[y] = 0 /\ \A h \in Worker : ~DyingOf(h, y)
  BY <1>0 DEF DeathInv, StillThere
<1>4. FelledOnce'
  <2>1. \A m \in Mob, h, i \in Worker : DyingOf(h, m)' /\ DyingOf(i, m)' => h = i
    BY <1>2, <1>3 DEF DeathInv, FelledOnce
  <2>2. ASSUME NEW m \in Mob, NEW h \in Worker, DyingOf(h, m)'
        PROVE  m \in down' /\ (deaths'[m] = 0 <=> flow'[h].at \in {"knock", "corpse"})
    <3>1. CASE DyingOf(h, m)
      <4>1. h # Tick
        BY <1>0, <3>1 DEF DyingOf, Dying
      <4> QED
        BY <1>1, <3>1, <4>1 DEF DeathInv, FelledOnce
    <3>2. CASE h = Tick /\ m = y /\ m \in tracked \cap down
      BY <1>1, <1>3, <3>2 DEF Known, Dies
    <3> QED
      BY <1>2, <2>2, <3>1, <3>2
  <2> QED
    BY <1>1, <2>1, <2>2 DEF DeathInv, FelledOnce
<1>5. StillThere'
  BY <1>1 DEF DeathInv, StillThere
<1>6. CaredFor'
  <2> SUFFICES ASSUME NEW x \in Fighter, x \in down, Known(x), Cared(x)
               PROVE  Cared(x)'
    BY <1>0, <1>1 DEF DeathInv, CaredFor, Known
  <2>1. CASE x = y
    BY <1>1, <2>1 DEF Cared, Dies, Dying
  <2>2. ASSUME NEW h \in Worker, flow[h].at \in Dying \cup {"revive"}, flow[h].who = x
        PROVE  Cared(x)'
    <3>1. h # Tick
      BY <1>0, <2>2 DEF Dying
    <3> QED
      BY <1>1, <2>2, <3>1 DEF Cared
  <2> QED
    BY <2>1, <2>2 DEF Cared
<1> QED
  BY <1>4, <1>5, <1>6 DEF DeathInv

(* A mob is spawned at full strength.                                      *)
LEMMA ResetDeath ==
  ASSUME DeathInv, TypeInv', NEW m \in Mob, Reset(m)
  PROVE  DeathInv'
<1>1. /\ UNCHANGED <<down, flow, deaths, cmd>> /\ m \notin down /\ down \subseteq Fighter
      /\ \A x \in Fighter : /\ x \in tracked' <=> x \in tracked \/ x = m
                            /\ x # m => place'[x] = place[x]
  BY Parts DEF Reset, DeathInv, FelledOnce, BodyOK
<1>2. FelledOnce'
  BY <1>1 DEF DeathInv, FelledOnce, DyingOf
<1>3. StillThere'
  BY <1>1 DEF DeathInv, StillThere, DyingOf
<1>4. CaredFor'
  BY <1>1 DEF DeathInv, CaredFor, Cared, Known
<1> QED
  BY <1>2, <1>3, <1>4 DEF DeathInv

LEMMA NextDeath ==
  ASSUME NotBusy, DeathInv, [Next]_vars
  PROVE  DeathInv'
<1>0. TypeInv'
  BY NextTypes DEF DeathInv
<1>1. CASE UNCHANGED vars
  BY <1>0, <1>1, HaulDeath DEF vars
<1>2. ASSUME NEW g \in Worker, GoesOn(g)
      PROVE  DeathInv'
  <2>1. CASE FleePart(g) \/ FleeGo(g)
    BY <1>0, <2>1, FleeDeath
  <2>2. CASE \/ \E i \in Item : Take(g, i)
             \/ \E m \in Mob : CorpsePlaced(g, m) \/ \E p \in Player : LootEnd(g, p, m)
    BY <1>0, <2>2, HaulDeath DEF Take, CorpsePlaced, LootEnd
  <2>3. CASE KnockOut(g) \/ Revive(g) \/ Wake(g)
    BY <1>0, <2>3, HealDeath
  <2>4. CASE MobKilled(g) \/ Autoloot(g) \/ Untrack(g) \/ FlowEnd(g)
    BY <1>0, <2>4, MobKilledDeath, UntrackDeath, FlowEndDeath
  <2> QED
    BY <1>2, <2>1, <2>2, <2>3, <2>4 DEF GoesOn
<1>3. ASSUME NEW p \in Player, Begins(p) \/ Verbs(p)
      PROVE  DeathInv'
  <2>1. CASE Begins(p)
    BY <1>0, <2>1, VerbDeath, MoveDeath DEF Begins
  <2>2. CASE Verbs(p)
    BY <1>0, <1>2, <2>2, VerbDeath, StrikeDeath DEF Verbs
  <2> QED
    BY <1>3, <2>1, <2>2
<1>4. ASSUME NEW x \in Fighter, \/ \E y \in Fighter : Cast(x, y)
                                \/ \E r \in Room : Wimpy(x, r)
                                \/ Attack(x)
      PROVE  DeathInv'
  BY <1>0, <1>4, TurnDeath
<1>5. CASE Handles
  <2>1. CASE CastHits \/ Probe \/ Swing \/ Cleave \/ CleaveEnd
    BY <1>0, <2>1, CastHitsDeath, ProbeDeath, SwingDeath, TurnDeath
  <2>2. CASE \E m \in Mob : DecayEnd(m)
    BY <1>0, <2>2, HaulDeath DEF DecayEnd
  <2> QED
    BY <1>2, <1>5, <2>1, <2>2 DEF Handles
<1>6. CASE \/ \E m \in Mob : Decay(m) \/ Reset(m)
           \/ \E x \in Fighter : ComesTo(x)
  BY <1>0, <1>6, HaulDeath, ResetDeath DEF Decay, ComesTo
<1> QED
  BY <1>1, <1>3, <1>4, <1>5, <1>6 DEF Next

(* A mob dies once, whoever strikes it and on whatever goroutine, and      *)
(* nobody in the game stays at 0 hit points with nobody to bury or heal    *)
(* him: while no session kills whom the tick goroutine is busy with (the   *)
(* comments of ApplyDamageIfAlive and of the wiring of finish).            *)
THEOREM CombatOneDeath == ASSUME NotBusy PROVE Spec => []OneDeath
<1>1. Init => DeathInv
  BY InitDeath
<1>2. DeathInv /\ [Next]_vars => DeathInv'
  BY NextDeath
<1>3. DeathInv => OneDeath
  BY DEF DeathInv, FelledOnce, CaredFor, Cared, OneDeath, Tended
<1> QED
  BY <1>1, <1>2, <1>3, PTL DEF Spec

(* Nobody robs a mob that has died since he looked.                        *)
NotLate == \A P \in Plays : "late" \notin P

LootInv == DeathInv /\ ItemOnce /\ PurseOnce

LEMMA InitLoot == Init => LootInv
<1> SUFFICES ASSUME Init PROVE LootInv
  OBVIOUS
<1>1. ItemOnce
  BY DEF Init, ItemOnce
<1>2. PurseOnce
  BY DEF Init, PurseOnce, Robs, NoHaul
<1> QED
  BY <1>1, <1>2, InitDeath DEF LootInv

(* Whoever takes an item moves it.                                         *)
LEMMA TakeItem ==
  ASSUME TypeInv, ItemOnce, NEW g \in Worker, NEW i \in Item, Take(g, i)
  PROVE  ItemOnce'
<1>1. CASE UNCHANGED <<inside, bag, gone>>
  BY <1>1 DEF ItemOnce
<1>2. CASE Moves(i, haul[g].to) /\ inside[i] # None
  <2> DEFINE to == haul[g].to
  <2>1. /\ inside \in [Item -> Holder \cup {None}] /\ bag \in [Player -> SUBSET Item]
        /\ i \notin gone /\ \A p \in Player : i \notin bag[p]
    BY <1>2, Parts DEF ItemsOK, ItemOnce
  <2>2. /\ \A j \in Item : inside'[j] = IF j # i THEN inside[j] ELSE IF to \in Player THEN None ELSE to
        /\ \A j \in Item : j \in gone' <=> j \in gone \/ (j = i /\ to = None)
        /\ \A j \in Item, p \in Player : j \in bag'[p] <=> j \in bag[p] \/ (j = i /\ p = to)
    BY <1>2, <2>1 DEF Moves
  <2> QED
    BY <2>1, <2>2 DEF ItemOnce
<1> QED
  BY <1>1, <1>2 DEF Take

(* What a step may do that rolls no purse and begins no robbery.           *)
LEMMA Unpursed ==
  ASSUME PurseOnce, UNCHANGED <<looted, minted, deaths>>,
         \A g \in Worker, m \in Mob : Robs(g, m)' => Robs(g, m)
  PROVE  PurseOnce'
  BY DEF PurseOnce

LEMMA HaulPurse ==
  ASSUME TypeInv, PurseOnce, NEW g \in Worker,
         \/ \E i \in Item : Take(g, i)
         \/ \E m \in Mob : \/ CorpsePlaced(g, m) \/ \E p \in Player : LootEnd(g, p, m)
                           \/ g \in Player /\ Loot(g, m)
                           \/ g = Tick /\ (DecayEnd(m) \/ Decay(m))
         \/ Autoloot(g)
  PROVE  PurseOnce'
<1>0. haul \in [Worker -> [of : Holder \cup {None}, to : Player \cup Holder \cup {None}, todo : SUBSET Item]]
  BY Parts DEF HaulOK
<1>1. UNCHANGED <<looted, minted, deaths>>
  BY DEF Take, CorpsePlaced, LootEnd, Loot, DecayEnd, Decay, Autoloot
<1>2. \A h \in Worker \ {g} : haul'[h] = haul[h]
  BY <1>0 DEF Take, CorpsePlaced, LootEnd, Loot, DecayEnd, Decay, Autoloot, Moved, Hauls
<1>3. \/ haul'[g].of = haul[g].of /\ haul'[g].to = haul[g].to
      \/ haul'[g].of \notin Mob
  <2>1. ASSUME NEW i \in Item, Take(g, i)
        PROVE  haul'[g].of = haul[g].of /\ haul'[g].to = haul[g].to
    BY <1>0, <2>1 DEF Take
  <2>2. ASSUME NEW t, Moved(g, t)
        PROVE  haul'[g].of \notin Mob
    BY <1>0, <2>2 DEF Moved, NoHaul
  <2>3. ASSUME NEW m \in Mob, NEW t, Hauls(g, Corpse(m), t)
        PROVE  haul'[g].of \notin Mob
    <3>1. haul'[g].of = Corpse(m)
      BY <1>0, <2>3 DEF Hauls
    <3> QED
      BY <3>1, CombatAssumption
  <2>4. ASSUME Autoloot(g)
        PROVE  UNCHANGED haul \/ haul'[g].of \notin Mob
    <3>1. flow[g].who \in Mob
      BY <2>4, Parts DEF Autoloot, Flows, FlowOK, FlowFits
    <3> QED
      BY <2>3, <2>4, <3>1 DEF Autoloot
  <2> QED
    BY <2>1, <2>2, <2>3, <2>4 DEF CorpsePlaced, LootEnd, Loot, DecayEnd, Decay
<1>4. \A h \in Worker, m \in Mob : Robs(h, m)' => Robs(h, m)
  BY <1>2, <1>3 DEF Robs
<1> QED
  BY <1>1, <1>4, Unpursed

(* A mob is robbed once, and alive.                                        *)
LEMMA RobPurse ==
  ASSUME NotLate, DeathInv, PurseOnce, NEW p \in Player, Rob(p)
  PROVE  PurseOnce'
<1> DEFINE m == cmd[p].on
<1>0. /\ haul \in [Worker -> [of : Holder \cup {None}, to : Player \cup Holder \cup {None}, todo : SUBSET Item]]
      /\ m \in Mob /\ m \notin down /\ \A n \in Mob : deaths[n] \in Nat
  BY Parts DEF DeathInv, HaulOK, Rob, At, CmdOK, CmdFits, PurseOK, NotLate
<1>1. CASE m \in looted
  BY <1>1, Unpursed DEF Rob, Robs
<1>2. CASE m \notin looted
  <2>1. /\ looted' = looted \cup {m} /\ UNCHANGED <<minted, deaths>>
        /\ \A h \in Worker : haul'[h] = IF h = p THEN [of |-> m, to |-> p, todo |-> {i \in Item : inside[i] = m}]
                                        ELSE haul[h]
    BY <1>0, <1>2 DEF Rob, Hauls
  <2>2. minted[m] = 0 /\ \A h \in Worker : ~Robs(h, m)
    BY <1>0, <1>2 DEF DeathInv, FelledOnce, PurseOnce
  <2>3. \A n \in Mob : Robs(p, n)' => n = m
    <3>1. p \in Worker
      BY DEF Worker
    <3>2. haul'[p] = [of |-> m, to |-> p, todo |-> {i \in Item : inside[i] = m}]
      BY <2>1, <3>1
    <3> QED
      BY <3>2 DEF Robs
  <2>4. \A h \in Worker \ {p}, n \in Mob : Robs(h, n)' => Robs(h, n)
    BY <2>1 DEF Robs
  <2> QED
    BY <2>1, <2>2, <2>3, <2>4 DEF PurseOnce
<1> QED
  BY <1>1, <1>2

LEMMA RobEndPurse ==
  ASSUME TypeInv, PurseOnce, NEW p \in Player, RobEnd(p)
  PROVE  PurseOnce'
<1> DEFINE m == haul[p].of
<1>0. /\ haul \in [Worker -> [of : Holder \cup {None}, to : Player \cup Holder \cup {None}, todo : SUBSET Item]]
      /\ minted \in [Mob -> Nat]
  BY Parts DEF HaulOK, PurseOK
<1>1. m \in Mob /\ Robs(p, m) /\ UNCHANGED <<looted, deaths>>
  BY DEF RobEnd, Moved, Robs
<1>2. PICK purse \in {0, 1} : minted' = [minted EXCEPT ![m] = @ + purse]
  BY DEF RobEnd
<1>3. \A n \in Mob : minted'[n] = IF n = m THEN minted[n] + purse ELSE minted[n]
  BY <1>0, <1>2
<1>4. \A h \in Worker, n \in Mob : Robs(h, n)' => Robs(h, n) /\ h # p
  BY <1>0 DEF RobEnd, Moved, NoHaul, Robs
<1>5. m \in looted /\ minted[m] = 0
  BY <1>1 DEF PurseOnce
<1> QED
  BY <1>1, <1>3, <1>4, <1>5 DEF PurseOnce

(* The purse of a mob that dies is rolled unless it was robbed.            *)
LEMMA MobKilledPurse ==
  ASSUME DeathInv, PurseOnce, NEW g \in Worker, MobKilled(g)
  PROVE  PurseOnce'
<1> DEFINE m == flow[g].who
<1>0. /\ haul \in [Worker -> [of : Holder \cup {None}, to : Player \cup Holder \cup {None}, todo : SUBSET Item]]
      /\ minted \in [Mob -> Nat] /\ deaths \in [Mob -> Nat]
      /\ m \in Mob /\ flow[g].at = "corpse"
  BY Parts DEF DeathInv, HaulOK, PurseOK, MobKilled, Flows, FlowOK, FlowFits
<1>1. deaths[m] = 0
  BY <1>0 DEF DeathInv, FelledOnce, DyingOf, Dying
<1>2. PICK purse \in IF m \in looted THEN {0} ELSE {0, 1} :
        minted' = [minted EXCEPT ![m] = @ + purse]
  BY DEF MobKilled
<1>3. /\ \A n \in Mob : minted'[n] = IF n = m THEN minted[n] + purse ELSE minted[n]
      /\ \A n \in Mob : deaths'[n] = IF n = m THEN deaths[n] + 1 ELSE deaths[n]
      /\ UNCHANGED looted
  BY <1>0, <1>2 DEF MobKilled
<1>4. \A h \in Worker, n \in Mob : Robs(h, n)' => Robs(h, n)
  <2>1. UNCHANGED haul \/ Hauls(g, m, Corpse(m))
    BY DEF MobKilled
  <2> QED
    BY <1>0, <2>1 DEF Hauls, Robs
<1>5. purse \in {0, 1} /\ (m \in looted => purse = 0) /\ (m \notin looted => minted[m] = 0)
  BY <1>0, <1>1, <1>2 DEF PurseOnce
<1> QED
  BY <1>0, <1>3, <1>4, <1>5 DEF PurseOnce

LEMMA NextLoot ==
  ASSUME NotBusy, NotLate, LootInv, [Next]_vars
  PROVE  LootInv'
<1>0. DeathInv' /\ TypeInv
  BY NextDeath DEF LootInv, DeathInv
<1>1. ASSUME UNCHANGED <<inside, bag, gone>>
      PROVE  ItemOnce'
  BY <1>1 DEF LootInv, ItemOnce
<1>2. ASSUME UNCHANGED <<looted, minted, deaths, haul>>
      PROVE  PurseOnce'
  BY <1>2, Unpursed DEF LootInv, Robs
<1>3. CASE UNCHANGED vars
  BY <1>0, <1>1, <1>2, <1>3 DEF LootInv, vars, bodyVars, lootVars, workVars, restVars
<1>4. ASSUME NEW g \in Worker, GoesOn(g)
      PROVE  LootInv'
  <2>1. CASE \E i \in Item : Take(g, i)
    BY <1>0, <2>1, TakeItem, HaulPurse DEF LootInv
  <2>2. CASE \E m \in Mob : CorpsePlaced(g, m) \/ \E p \in Player : LootEnd(g, p, m)
    BY <1>0, <1>1, <2>2, HaulPurse DEF LootInv, CorpsePlaced, LootEnd
  <2>3. CASE Autoloot(g)
    BY <1>0, <1>1, <2>3, HaulPurse DEF LootInv, Autoloot, lootVars
  <2>4. CASE MobKilled(g)
    BY <1>0, <1>1, <2>4, MobKilledPurse DEF LootInv, MobKilled
  <2>5. CASE \/ FleePart(g) \/ FleeGo(g) \/ KnockOut(g) \/ Revive(g) \/ Wake(g)
             \/ Untrack(g) \/ FlowEnd(g)
    <3>1. UNCHANGED <<inside, bag, gone, looted, minted, deaths, haul>>
      BY <2>5 DEF FleePart, FleeGo, KnockOut, Revive, Wake, Untrack, FlowEnd, lootVars, restVars
    <3> QED
      BY <1>0, <1>1, <1>2, <3>1 DEF LootInv
  <2> QED
    BY <1>4, <2>1, <2>2, <2>3, <2>4, <2>5 DEF GoesOn
<1>5. ASSUME NEW p \in Player, Begins(p) \/ Verbs(p)
      PROVE  LootInv'
  <2>0. p \in Worker
    BY DEF Worker
  <2>1. CASE \E m \in Mob : Loot(p, m)
    BY <1>0, <1>1, <2>0, <2>1, HaulPurse DEF LootInv, Loot, lootVars
  <2>2. CASE Rob(p)
    BY <1>0, <1>1, <2>2, RobPurse DEF LootInv, Rob
  <2>3. CASE RobEnd(p)
    BY <1>0, <1>1, <2>3, RobEndPurse DEF LootInv, RobEnd
  <2>4. CASE GoesOn(p)
    BY <1>4, <2>0, <2>4
  <2>5. CASE \/ \E y \in Fighter : Look(p, y, "kill") \/ Look(p, y, "throw")
             \/ \E m \in Mob : LookDowned(p, m, "finish") \/ LookDowned(p, m, "rob")
             \/ \E r \in Room : Move(p, r) \/ FleeLook(p, p, r)
             \/ Quit(p) \/ Login(p) \/ Engage(p) \/ Hurl(p) \/ Finish(p)
    <3>1. UNCHANGED <<inside, bag, gone, looted, minted, deaths, haul>>
      BY <2>5 DEF Look, LookDowned, Move, FleeLook, Quit, Login, Engage, Hurl, Finish, lootVars,
                  workVars, restVars
    <3> QED
      BY <1>0, <1>1, <1>2, <3>1 DEF LootInv
  <2> QED
    BY <1>5, <2>1, <2>2, <2>3, <2>4, <2>5 DEF Begins, Verbs
<1>6. ASSUME NEW m \in Mob, DecayEnd(m) \/ Decay(m)
      PROVE  LootInv'
  BY <1>0, <1>1, <1>6, HaulPurse DEF LootInv, DecayEnd, Decay, Worker
<1>7. CASE \/ \E x \in Fighter : \/ \E y \in Fighter : Cast(x, y)
                                 \/ \E r \in Room : Wimpy(x, r)
                                 \/ Attack(x) \/ ComesTo(x)
           \/ \E m \in Mob : Reset(m)
           \/ CastHits \/ Probe \/ Swing \/ Cleave \/ CleaveEnd
  <2>1. UNCHANGED <<inside, bag, gone, looted, minted, deaths, haul>>
    BY <1>7 DEF Cast, Wimpy, FleeLook, Attack, ComesTo, Reset, CastHits, Probe, Swing, Cleave,
                CleaveEnd, lootVars, workVars, restVars
  <2> QED
    BY <1>0, <1>1, <1>2, <2>1 DEF LootInv
<1>8. CASE Handles
  BY <1>4, <1>6, <1>7, <1>8 DEF Handles, Worker
<1> QED
  BY <1>3, <1>5, <1>6, <1>7, <1>8 DEF Next

(* However the looters, a robber, the death flow and the decay race: each  *)
(* item is in one container, one bag or destroyed, and a mob's purse comes *)
(* into being once (ClaimLooted, Contents.Take): while no session kills    *)
(* whom the tick goroutine is busy with, nor robs who has died meanwhile.  *)
THEOREM CombatLootOnce == ASSUME NotBusy, NotLate PROVE Spec => []LootOnce
<1>1. Init => LootInv
  BY InitLoot
<1>2. LootInv /\ [Next]_vars => LootInv'
  BY NextLoot
<1>3. LootInv => LootOnce
  <2> SUFFICES ASSUME LootInv PROVE LootOnce
    OBVIOUS
  <2>1. ASSUME NEW i \in Item
        PROVE  (IF inside[i] = None THEN 0 ELSE 1) + (IF i \in gone THEN 1 ELSE 0)
                 + Cardinality({p \in Player : i \in bag[p]}) = 1
    <3> DEFINE Has == {p \in Player : i \in bag[p]}
    <3>1. Has = {} => Cardinality(Has) = 0
      BY FS_EmptySet
    <3>2. \A p : Has = {p} => Cardinality(Has) = 1
      BY FS_Singleton
    <3>3. CASE inside[i] # None \/ i \in gone
      <4>1. Has = {} /\ (inside[i] # None => i \notin gone)
        BY <3>3 DEF LootInv, ItemOnce
      <4> HIDE DEF Has
      <4> QED
        BY <3>1, <3>3, <4>1 DEF Has
    <3>4. CASE inside[i] = None /\ i \notin gone
      <4>1. PICK p \in Player : i \in bag[p]
        BY <3>4 DEF LootInv, ItemOnce
      <4>2. Has = {p}
        BY <4>1 DEF LootInv, ItemOnce
      <4>3. Cardinality(Has) = 1
        BY <3>2, <4>2
      <4> QED
        BY <3>4, <4>3
    <3> QED
      BY <3>3, <3>4
  <2>2. \A m \in Mob : minted[m] <= 1
    BY DEF LootInv, PurseOnce
  <2> QED
    BY <2>1, <2>2 DEF LootOnce
<1> QED
  BY <1>1, <1>2, <1>3, PTL DEF Spec
=============================================================================
