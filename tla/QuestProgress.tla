---------------------------- MODULE QuestProgress ----------------------------
(***************************************************************************)
(* The quests of one player: the service and its state (src/internal/      *)
(* quest), its file (queststore), what a stage puts into the world         *)
(* (questspawn), the events that advance it (questwatch), and the sessions *)
(* that load, derive and drop all that (internal/session).                 *)
(*                                                                         *)
(* Players share nothing here but maps keyed by player id. A step is what  *)
(* one goroutine does under the service's mutex, or under the spawner's,   *)
(* or one read or write of a file. Between the two renames of a write      *)
(* (SaveFile has them) there is no file: a crash, or a second rename that  *)
(* fails and is not taken back, leaves none, and a read finds none.        *)
(* The service keeps its mutex (mu) while its events run, so the spawner's *)
(* steps may fall inside it, and the save comes after it. An objective's   *)
(* count is 1: one that has been advanced less often than it requires      *)
(* behaves as one that has not.                                            *)
(***************************************************************************)
EXTENDS Naturals, FiniteSets

CONSTANTS
  Quest, TurnInQuest, Abandonable, Repeatable,
  Needs,      \* quest -> quests its prerequisite wants completed
  Bars,       \* quest -> quests its prerequisite wants not completed
  LastStage,  \* quest -> index of its last stage
  Stages,     \* quest -> stage -> [objectives, spawns]
  Wants,      \* objective -> the event that advances it
  Meets,      \* spawn -> the collect objective it is for, or None
  Cap,        \* abandonable quests a player may have
  Login,      \* the player's sessions
  Tick,       \* the tick goroutine
  None,
  MaxCopies,  \* bound: living copies of one spawn
  Envs        \* sets of circumstances: "again", the player logs in more than
              \* once; "saves", an operation begins while another has still
              \* to be saved; "gap", the tick goroutine is at it while a
              \* session begins or ends; "overlap", a session begins before
              \* the last has ended; "broken", a spawn fails; "disk", the
              \* quest file cannot be read or written; "crash"

Worker == Login \cup {Tick}
Objectives(q, st) == Stages[q][st].objectives
Spawns(q, st)     == Stages[q][st].spawns
Objective == UNION {UNION {Objectives(q, st) : st \in 0..LastStage[q]} : q \in Quest}
Spawned   == UNION {UNION {Spawns(q, st) : st \in 0..LastStage[q]} : q \in Quest}

(* The progress of an active quest, and the State of the player. *)
ActiveQuest == [stage : Nat, hit : SUBSET Objective, ready : BOOLEAN]
State == [active : [Quest -> ActiveQuest \cup {None}], done : SUBSET Quest]

(* Registry.Register refuses a stage without objectives. A spawn is the      *)
(* declaration of one stage, not the template it names.                      *)
ASSUME QuestAssumption ==
  /\ {TurnInQuest, Abandonable, Repeatable} \subseteq SUBSET Quest
  /\ {Needs, Bars} \subseteq [Quest -> SUBSET Quest]
  /\ LastStage \in [Quest -> Nat]
  /\ \A q \in Quest : DOMAIN Stages[q] = 0..LastStage[q]
  /\ \A q \in Quest : \A st \in 0..LastStage[q] :
       /\ Objectives(q, st) # {}
       /\ \A r \in Quest : \A su \in 0..LastStage[r] :
            <<q, st>> # <<r, su>> => Spawns(q, st) \cap Spawns(r, su) = {}
  /\ Cap \in Nat /\ MaxCopies \in Nat
  /\ Tick \notin Login /\ None \notin Login \cup {Tick} \cup Quest
  /\ None \notin ActiveQuest /\ None \notin State

VARIABLES
  mem,     \* the State in memory: quest -> progress or None, and completed
  cached,  \* has the service cached the player?
  mu,      \* who holds the service's mutex
  file,    \* quests.yaml: a State, or None
  named,   \* does the store know the player's file name?
  claimed, \* the spawner's activation keys: <<quest, stage>>
  owned,   \* quest -> the spawned entities it owns
  world,   \* entities that live: <<spawn, copy>>
  op,      \* worker -> the operation it is in
  pc,      \* login -> where the session is
  loaded,  \* login -> the State it has read
  left,    \* login -> the entities its CleanupPlayer has still to despawn
  index,   \* the session the session manager finds
  reaped,  \* link-dead sessions the sweep has ended
  purse,   \* quest -> times its reward is in the player's record
  kept,    \* the same in the player's save file
  env      \* the circumstances of this behaviour

svcVars   == <<mem, cached>>
storeVars == <<file, named>>
spawnVars == <<claimed, owned, world>>
sessVars  == <<pc, loaded, left, index, reaped>>
paidVars  == <<purse, kept>>
vars == <<svcVars, mu, storeVars, spawnVars, op, sessVars, paidVars, env>>

NoProgress == [active |-> [q \in Quest |-> None], done |-> {}]

(* op: where the worker is, the quest it deals with (and the progress its    *)
(* activation was given), what it has still to do, the entities it has in    *)
(* hand, whether it has changed the State, and what it will save.            *)
Idle == [at |-> "idle", quest |-> None, stage |-> 0, hit |-> {},
         todo |-> {}, ids |-> {}, dirty |-> FALSE, snap |-> None]

Init ==
  /\ mem = NoProgress /\ cached = FALSE /\ mu = None
  /\ file = None /\ named = FALSE
  /\ claimed = {} /\ owned = [q \in Quest |-> {}] /\ world = {}
  /\ op = [w \in Worker |-> Idle]
  /\ pc = [s \in Login |-> "out"]
  /\ loaded = [s \in Login |-> None]
  /\ left = [s \in Login |-> {}]
  /\ index = None /\ reaped = {}
  /\ purse = [q \in Quest |-> 0] /\ kept = purse
  /\ env \in Envs

------------------------------------------------------------------------------
(* The State *)

Active(q) == mem.active[q] # None

(* Mutant of CanAccept: a completed quest may be accepted again. *)
CanAcceptAgain(q) ==
  /\ ~Active(q)
  /\ Needs[q] \subseteq mem.done /\ Bars[q] \cap mem.done = {}
  /\ q \in Abandonable => Cardinality({r \in Abandonable : Active(r)}) < Cap

CanAccept(q) ==
  /\ ~Active(q)
  /\ q \in mem.done => q \in Repeatable
  /\ Needs[q] \subseteq mem.done /\ Bars[q] \cap mem.done = {}
  /\ q \in Abandonable => Cardinality({r \in Abandonable : Active(r)}) < Cap

Progress(st, hit, ready) == [stage |-> st, hit |-> hit, ready |-> ready]
Holds(q, p)  == mem' = [mem EXCEPT !.active[q] = p]
Completed(q) == mem' = [active |-> [mem.active EXCEPT ![q] = None], done |-> mem.done \cup {q}]

(* The dispatcher pays whom the session manager finds, if the service has
   cached the player. Rewards are counted up to 2. *)
Dispatch(q, player) ==
  purse' = IF player /\ index # None /\ purse[q] < 2
           THEN [purse EXCEPT ![q] = @ + 1] ELSE purse

------------------------------------------------------------------------------
(* The operations of the service. *)

Goes(w, o) == op' = [op EXCEPT ![w] = o]

(* What the tick goroutine does for the player it begins while the player is
   there; with "gap", also while the player is on the way in or out. With
   neither "gap" nor "saves" it would repeat what the session does. *)
Steady  == \A s \in Login : pc[s] \in {"out", "in", "gone"}
Leaving == \E s \in Login : pc[s] \in {"cleanup", "despawn", "persist", "drop", "forget"}
Reaping == \E s \in reaped : pc[s] # "gone"

MayAct(w) ==
  /\ op[w].at = "idle"
  /\ IF w # Tick THEN pc[w] = "in"
     ELSE /\ ~Reaping
          /\ {"gap", "saves"} \cap env # {}
          /\ IF "gap" \in env THEN Leaving \/ index # None ELSE Steady /\ index # None

(* Without "saves": a save is made before the next operation begins. *)
MayLock == mu = None /\ ("saves" \in env \/ \A w \in Worker : op[w].at # "save")

(* What a State change leads to: the entry of a stage is activated, which
   does nothing when it declares no spawns. *)
Activating(o, q, st, hit, then) ==
  IF Spawns(q, st) = {} THEN [o EXCEPT !.at = then]
  ELSE [o EXCEPT !.at = "claim", !.quest = q, !.stage = st, !.hit = hit]

(* A grant on pickup or on entering a room looks the player up first. *)
Grant(w, q) ==
  /\ MayAct(w) /\ index # None
  /\ Goes(w, [Idle EXCEPT !.at = "grant", !.quest = q])
  /\ UNCHANGED <<svcVars, mu, storeVars, spawnVars, sessVars, paidVars, env>>

Accepts(w, q) ==
  /\ MayLock
  /\ CanAccept(q)
  /\ mu' = w
  /\ Holds(q, Progress(0, {}, FALSE))
  /\ cached' = TRUE
  /\ Goes(w, Activating([Idle EXCEPT !.dirty = TRUE], q, 0, {}, "hits"))
  /\ UNCHANGED <<storeVars, spawnVars, sessVars, paidVars, env>>

Accept(w, q) == w # Tick /\ MayAct(w) /\ Accepts(w, q)

GrantAccept(w) == op[w].at = "grant" /\ Accepts(w, op[w].quest)

GrantRefused(w) ==
  /\ op[w].at = "grant" /\ MayLock
  /\ ~CanAccept(op[w].quest)
  /\ Goes(w, Idle)
  /\ UNCHANGED <<svcVars, mu, storeVars, spawnVars, sessVars, paidVars, env>>

(* Mutant of Abandon: the end of the quest is not announced. *)
AbandonQuietly(w, q) ==
  /\ w # Tick /\ MayAct(w) /\ MayLock
  /\ q \in Abandonable /\ Active(q)
  /\ mu' = w
  /\ Holds(q, None)
  /\ Goes(w, [Idle EXCEPT !.at = "hits", !.quest = q, !.dirty = TRUE])
  /\ UNCHANGED <<cached, storeVars, spawnVars, sessVars, paidVars, env>>

Abandon(w, q) ==
  /\ w # Tick /\ MayAct(w) /\ MayLock
  /\ q \in Abandonable /\ Active(q)
  /\ mu' = w
  /\ Holds(q, None)
  /\ Goes(w, [Idle EXCEPT !.at = "sweep", !.quest = q, !.dirty = TRUE])
  /\ UNCHANGED <<cached, storeVars, spawnVars, sessVars, paidVars, env>>

(* Mutant of TurnIn: no snapshot is taken. *)
TurnInUnsaved(w, q) ==
  /\ w # Tick /\ MayAct(w) /\ MayLock
  /\ Active(q) /\ mem.active[q].ready
  /\ mu' = w
  /\ Completed(q)
  /\ cached' = TRUE
  /\ Dispatch(q, TRUE)
  /\ Goes(w, [Idle EXCEPT !.at = "sweep", !.quest = q])
  /\ UNCHANGED <<storeVars, spawnVars, sessVars, kept, env>>

TurnIn(w, q) ==
  /\ w # Tick /\ MayAct(w) /\ MayLock
  /\ Active(q) /\ mem.active[q].ready
  /\ mu' = w
  /\ Completed(q)
  /\ cached' = TRUE
  /\ Dispatch(q, TRUE)
  /\ Goes(w, [Idle EXCEPT !.at = "sweep", !.quest = q, !.dirty = TRUE])
  /\ UNCHANGED <<storeVars, spawnVars, sessVars, kept, env>>

(* AdvanceMatching gathers its hits from the stages as they are.
   AdvanceObjective has one, and leaves all as it is unless that counts. *)
Counts(q, o) ==
  /\ Active(q)
  /\ o \in Objectives(q, mem.active[q].stage) \ mem.active[q].hit

Matching(e) ==
  {h \in Quest \X Objective :
     Active(h[1]) /\ h[2] \in Objectives(h[1], mem.active[h[1]].stage) /\ Wants[h[2]] = e}

Advances(w, hits) ==
  /\ MayAct(w) /\ MayLock
  /\ hits # {}
  /\ mu' = w
  /\ Goes(w, [Idle EXCEPT !.at = "hits", !.todo = hits])
  /\ UNCHANGED <<svcVars, storeVars, spawnVars, sessVars, paidVars, env>>

AdvanceMatching(w) == \E o \in Objective : Advances(w, Matching(Wants[o]))
AdvanceObjective(w) == \E q \in Quest, o \in Objective : Counts(q, o) /\ Advances(w, {<<q, o>>})

(* advanceObjectiveLocked, for the hits one after another. *)
Hit(w, q, o) ==
  /\ mu = w /\ op[w].at = "hits"
  /\ <<q, o>> \in op[w].todo

Ends(q, o) == Objectives(q, mem.active[q].stage) = mem.active[q].hit \cup {o}
Last(q)    == mem.active[q].stage = LastStage[q]
Rest(w, q, o) == [op[w] EXCEPT !.todo = @ \ {<<q, o>>}, !.dirty = TRUE]

HitNothing(w, q, o) ==
  /\ Hit(w, q, o) /\ ~Counts(q, o)
  /\ Goes(w, [op[w] EXCEPT !.todo = @ \ {<<q, o>>}])
  /\ UNCHANGED <<svcVars, mu, storeVars, spawnVars, sessVars, paidVars, env>>

HitCounts(w, q, o) ==
  /\ Hit(w, q, o) /\ Counts(q, o) /\ ~Ends(q, o)
  /\ Holds(q, [mem.active[q] EXCEPT !.hit = @ \cup {o}])
  /\ Goes(w, Rest(w, q, o))
  /\ UNCHANGED <<cached, mu, storeVars, spawnVars, sessVars, paidVars, env>>

(* Mutant of AdvanceStage: what has been done is not reset. *)
AdvanceStageOnly(w, q, o) ==
  /\ Hit(w, q, o) /\ Counts(q, o) /\ Ends(q, o) /\ ~Last(q)
  /\ LET st == mem.active[q].stage + 1
     IN /\ Holds(q, Progress(st, mem.active[q].hit \cup {o}, FALSE))
        /\ Goes(w, Activating(Rest(w, q, o), q, st, {}, "hits"))
  /\ UNCHANGED <<cached, mu, storeVars, spawnVars, sessVars, paidVars, env>>

AdvanceStage(w, q, o) ==
  /\ Hit(w, q, o) /\ Counts(q, o) /\ Ends(q, o) /\ ~Last(q)
  /\ LET st == mem.active[q].stage + 1
     IN /\ Holds(q, Progress(st, {}, FALSE))
        /\ Goes(w, Activating(Rest(w, q, o), q, st, {}, "hits"))
  /\ UNCHANGED <<cached, mu, storeVars, spawnVars, sessVars, paidVars, env>>

AwaitTurnIn(w, q, o) ==
  /\ Hit(w, q, o) /\ Counts(q, o) /\ Ends(q, o) /\ Last(q) /\ q \in TurnInQuest
  /\ Holds(q, Progress(LastStage[q], mem.active[q].hit \cup {o}, TRUE))
  /\ Goes(w, Rest(w, q, o))
  /\ UNCHANGED <<cached, mu, storeVars, spawnVars, sessVars, paidVars, env>>

(* completeLocked, of a quest that grants of itself. *)
Complete(w, q, o) ==
  /\ Hit(w, q, o) /\ Counts(q, o) /\ Ends(q, o) /\ Last(q) /\ q \notin TurnInQuest
  /\ Completed(q)
  /\ Dispatch(q, cached)
  /\ Goes(w, [Rest(w, q, o) EXCEPT !.at = "sweep", !.quest = q])
  /\ UNCHANGED <<cached, mu, storeVars, spawnVars, sessVars, kept, env>>

(* The mutex is released; the snapshot is saved after that ... *)
Unlock(w) ==
  /\ mu = w /\ op[w].at = "hits" /\ op[w].todo = {}
  /\ mu' = None
  /\ Goes(w, IF op[w].dirty THEN [Idle EXCEPT !.at = "save", !.snap = mem] ELSE Idle)
  /\ UNCHANGED <<svcVars, storeVars, spawnVars, sessVars, paidVars, env>>

Saving == \E w \in Worker : op[w].at = "save"

(* ... but not when the store has forgotten the name, and an error is only
   logged. *)
Save(w) ==
  /\ op[w].at = "save"
  /\ \/ file' = IF named THEN op[w].snap ELSE file
     \/ "disk" \in env /\ (UNCHANGED file \/ (named /\ file' = None))
  /\ Goes(w, Idle)
  /\ UNCHANGED <<svcVars, mu, named, spawnVars, sessVars, paidVars, env>>

------------------------------------------------------------------------------
(* The spawner: activate and cleanup, by whoever holds the service's mutex,
   and activate for a session that derives its stages on login. *)

Back(w) ==
  Goes(w, [op[w] EXCEPT !.at = IF mu = w THEN "hits" ELSE "derive",
                        !.quest = None, !.stage = 0, !.hit = {}, !.ids = {}])

ActivateAgain(w) ==
  /\ op[w].at = "claim"
  /\ <<op[w].quest, op[w].stage>> \in claimed
  /\ Back(w)
  /\ UNCHANGED <<svcVars, mu, storeVars, spawnVars, sessVars, paidVars, env>>

Activate(w) ==
  /\ op[w].at = "claim"
  /\ <<op[w].quest, op[w].stage>> \notin claimed
  /\ claimed' = claimed \cup {<<op[w].quest, op[w].stage>>}
  /\ Goes(w, [op[w] EXCEPT !.at = "spawn"])
  /\ UNCHANGED <<svcVars, mu, storeVars, owned, world, sessVars, paidVars, env>>

(* All that the stage declares, except what has been collected already. *)
Due(w) == {x \in Spawns(op[w].quest, op[w].stage) : Meets[x] \notin op[w].hit}

Entities == world \cup UNION {owned[q] : q \in Quest} \cup UNION {op[w].ids : w \in Worker}
              \cup UNION {left[s] : s \in Login}
Free(x)  == {n \in 1..MaxCopies : <<x, n>> \notin Entities}
Fresh(x) == CHOOSE n \in Free(x) : TRUE

SpawnAll(w) ==
  /\ op[w].at = "spawn"
  /\ \E made \in SUBSET Due(w) :
       /\ made = Due(w) \/ "broken" \in env
       /\ \A x \in made : Free(x) # {}
       /\ LET ids == {<<x, Fresh(x)>> : x \in made}
          IN /\ world' = world \cup ids
             /\ Goes(w, [op[w] EXCEPT !.ids = ids, !.at = IF ids = {} THEN "release" ELSE "record"])
  /\ UNCHANGED <<svcVars, mu, storeVars, claimed, owned, sessVars, paidVars, env>>

Record(w) ==
  /\ op[w].at = "record"
  /\ owned' = [owned EXCEPT ![op[w].quest] = @ \cup op[w].ids]
  /\ Back(w)
  /\ UNCHANGED <<svcVars, mu, storeVars, claimed, world, sessVars, paidVars, env>>

(* Nothing was spawned: the key is released. *)
ReleaseKey(w) ==
  /\ op[w].at = "release"
  /\ claimed' = claimed \ {<<op[w].quest, op[w].stage>>}
  /\ Back(w)
  /\ UNCHANGED <<svcVars, mu, storeVars, owned, world, sessVars, paidVars, env>>

(* Mutant of Cleanup: the keys stay. *)
CleanupEntities(w) ==
  /\ op[w].at = "sweep"
  /\ owned' = [owned EXCEPT ![op[w].quest] = {}]
  /\ Goes(w, [op[w] EXCEPT !.ids = owned[op[w].quest], !.at = "despawn"])
  /\ UNCHANGED <<svcVars, mu, storeVars, claimed, world, sessVars, paidVars, env>>

Cleanup(w) ==
  /\ op[w].at = "sweep"
  /\ owned' = [owned EXCEPT ![op[w].quest] = {}]
  /\ claimed' = {k \in claimed : k[1] # op[w].quest}
  /\ Goes(w, [op[w] EXCEPT !.ids = owned[op[w].quest], !.at = "despawn"])
  /\ UNCHANGED <<svcVars, mu, storeVars, world, sessVars, paidVars, env>>

Despawn(w) ==
  /\ op[w].at = "despawn"
  /\ world' = world \ op[w].ids
  /\ Back(w)
  /\ UNCHANGED <<svcVars, mu, storeVars, claimed, owned, sessVars, paidVars, env>>

(* A spawned mob is killed, a spawned item used up. *)
Dies(x) ==
  /\ x \in world
  /\ world' = world \ {x}
  /\ UNCHANGED <<svcVars, mu, storeVars, claimed, owned, op, sessVars, paidVars, env>>

------------------------------------------------------------------------------
(* A session: login, departure. *)

To(s, step) == pc' = [pc EXCEPT ![s] = step]

(* Without "gap": the tick goroutine is in no operation. *)
Undisturbed == "gap" \in env \/ op[Tick].at = "idle"

(* The others have gone. With "overlap" they need only have persisted. What
   overlaps earlier than that is the subject of SessionLifecycle. *)
Alone(s) == \A r \in Login \ {s} :
              \/ pc[r] = "out"
              \/ "again" \in env /\ pc[r] = "gone"
              \/ "overlap" \in env /\ pc[r] \in {"drop", "forget"}

Enter(s) ==
  /\ pc[s] = "out" /\ Alone(s) /\ Undisturbed
  /\ purse' = kept
  /\ To(s, "load")
  /\ UNCHANGED <<svcVars, mu, storeVars, spawnVars, op, loaded, left, index, reaped, kept, env>>

(* A takeover persists the other session, hands its record on and removes
   it, whatever its goroutine is still in the middle of. *)
TakeOver(s, r) ==
  /\ "overlap" \in env /\ Undisturbed
  /\ pc[s] = "out" /\ pc[r] = "in"
  /\ kept' = purse
  /\ index' = None
  /\ pc' = [pc EXCEPT ![s] = "scrub", ![r] = "gone"]
  /\ UNCHANGED <<svcVars, mu, storeVars, spawnVars, op, loaded, left, reaped, purse, env>>

Load(s) ==
  /\ pc[s] = "load"
  /\ named' = TRUE
  /\ \/ loaded' = [loaded EXCEPT ![s] = file]
     \/ ("disk" \in env \/ Saving) /\ UNCHANGED loaded
  /\ To(s, "install")
  /\ UNCHANGED <<svcVars, mu, file, spawnVars, op, left, index, reaped, paidVars, env>>

(* LoadState, when a file was read. *)
Install(s) ==
  /\ pc[s] = "install" /\ mu = None
  /\ mem' = IF loaded[s] = None THEN mem ELSE loaded[s]
  /\ loaded' = [loaded EXCEPT ![s] = None]
  /\ To(s, "add")
  /\ UNCHANGED <<cached, mu, storeVars, spawnVars, op, left, index, reaped, paidVars, env>>

Add(s) ==
  /\ pc[s] = "add"
  /\ index' = s
  /\ To(s, "added")
  /\ UNCHANGED <<svcVars, mu, storeVars, spawnVars, op, loaded, left, reaped, paidVars, env>>

(* onAdd, ReactivatePlayer: a snapshot, then each active quest's stage. *)
Reactivate(s) ==
  /\ pc[s] = "added" /\ mu = None
  /\ Goes(s, [Idle EXCEPT !.at = "derive",
                !.todo = {<<q, mem.active[q].stage, mem.active[q].hit>> : q \in {r \in Quest : Active(r)}}])
  /\ To(s, "deriving")
  /\ UNCHANGED <<svcVars, mu, storeVars, spawnVars, loaded, left, index, reaped, paidVars, env>>

Derive(s) ==
  /\ op[s].at = "derive"
  /\ \E t \in op[s].todo :
       Goes(s, Activating([op[s] EXCEPT !.todo = @ \ {t}], t[1], t[2], t[3], "derive"))
  /\ UNCHANGED <<svcVars, mu, storeVars, spawnVars, sessVars, paidVars, env>>

Entered(s) ==
  /\ op[s].at = "derive" /\ op[s].todo = {}
  /\ Goes(s, Idle)
  /\ To(s, "in")
  /\ UNCHANGED <<svcVars, mu, storeVars, spawnVars, loaded, left, index, reaped, paidVars, env>>

(* Manager.Remove, at a quit ... *)
Quit(s) ==
  /\ pc[s] = "in" /\ op[s].at = "idle" /\ Undisturbed
  /\ index' = None
  /\ To(s, "cleanup")
  /\ UNCHANGED <<svcVars, mu, storeVars, spawnVars, op, loaded, left, reaped, paidVars, env>>

(* ... and when the tick goroutine reaps a link-dead session. *)
Reap(s) ==
  /\ pc[s] = "in" /\ op[s].at = "idle" /\ op[Tick].at = "idle"
  /\ index' = None
  /\ reaped' = reaped \cup {s}
  /\ To(s, "cleanup")
  /\ UNCHANGED <<svcVars, mu, storeVars, spawnVars, op, loaded, left, paidVars, env>>

(* onRemove, CleanupPlayer. *)
CleanupPlayer(s) ==
  /\ pc[s] \in {"cleanup", "scrub"}
  /\ left' = [left EXCEPT ![s] = UNION {owned[q] : q \in Quest}]
  /\ owned' = [q \in Quest |-> {}] /\ claimed' = {}
  /\ To(s, IF pc[s] = "cleanup" THEN "despawn" ELSE "scrubbed")
  /\ UNCHANGED <<svcVars, mu, storeVars, world, op, loaded, index, reaped, paidVars, env>>

DespawnLeft(s) ==
  /\ pc[s] \in {"despawn", "scrubbed"}
  /\ world' = world \ left[s]
  /\ left' = [left EXCEPT ![s] = {}]
  /\ To(s, IF pc[s] = "despawn" THEN "persist" ELSE "load")
  /\ UNCHANGED <<svcVars, mu, storeVars, claimed, owned, op, loaded, index, reaped, paidVars, env>>

(* The reaping ends here: it drops neither the State nor the name. *)
Persist(s) ==
  /\ pc[s] = "persist"
  /\ kept' = purse
  /\ To(s, IF s \in reaped THEN "gone" ELSE "drop")
  /\ UNCHANGED <<svcVars, mu, storeVars, spawnVars, op, loaded, left, index, reaped, purse, env>>

DropState(s) ==
  /\ pc[s] = "drop" /\ mu = None
  /\ mem' = NoProgress /\ cached' = FALSE
  /\ To(s, "forget")
  /\ UNCHANGED <<mu, storeVars, spawnVars, op, loaded, left, index, reaped, paidVars, env>>

Forget(s) ==
  /\ pc[s] = "forget"
  /\ named' = FALSE
  /\ To(s, "gone")
  /\ UNCHANGED <<svcVars, mu, file, spawnVars, op, loaded, left, index, reaped, paidVars, env>>

(* The autosave writes the player's record, not the quests. Without "crash"
   nobody reads it before the session's own Persist. *)
Autosave ==
  /\ "crash" \in env
  /\ index # None /\ op[Tick].at = "idle" /\ ~Reaping
  /\ kept' = purse
  /\ UNCHANGED <<svcVars, mu, storeVars, spawnVars, op, sessVars, purse, env>>

Crash ==
  /\ "crash" \in env
  /\ mem' = NoProgress /\ cached' = FALSE /\ mu' = None /\ named' = FALSE
  /\ claimed' = {} /\ owned' = [q \in Quest |-> {}] /\ world' = {}
  /\ op' = [w \in Worker |-> Idle]
  /\ pc' = [s \in Login |-> IF pc[s] = "out" THEN "out" ELSE "gone"]
  /\ loaded' = [s \in Login |-> None]
  /\ left' = [s \in Login |-> {}]
  /\ index' = None
  /\ UNCHANGED file \/ (Saving /\ named /\ file' = None)
  /\ UNCHANGED <<reaped, paidVars, env>>

------------------------------------------------------------------------------
Advance(w) ==
  \/ AdvanceMatching(w) \/ AdvanceObjective(w)
  \/ \E q \in Quest, o \in Objective :
       \/ HitNothing(w, q, o) \/ HitCounts(w, q, o) \/ AdvanceStage(w, q, o)
       \/ AwaitTurnIn(w, q, o) \/ Complete(w, q, o)

Spawner(w) ==
  \/ ActivateAgain(w) \/ Activate(w) \/ SpawnAll(w) \/ Record(w) \/ ReleaseKey(w)
  \/ Cleanup(w) \/ Despawn(w)

Service(w) ==
  \/ \E q \in Quest : Accept(w, q) \/ Grant(w, q) \/ Abandon(w, q) \/ TurnIn(w, q)
  \/ GrantAccept(w) \/ GrantRefused(w)
  \/ Unlock(w) \/ Save(w)

Session(s) ==
  \/ Enter(s) \/ (\E r \in Login \ {s} : TakeOver(s, r))
  \/ Load(s) \/ Install(s) \/ Add(s) \/ Reactivate(s) \/ Derive(s) \/ Entered(s)
  \/ Quit(s) \/ Reap(s) \/ CleanupPlayer(s) \/ DespawnLeft(s)
  \/ Persist(s) \/ DropState(s) \/ Forget(s)

Next ==
  \/ \E w \in Worker : Service(w) \/ Advance(w) \/ Spawner(w)
  \/ \E s \in Login : Session(s)
  \/ \E x \in world : Dies(x)
  \/ Autosave
  \/ Crash

Spec == Init /\ [][Next]_vars

------------------------------------------------------------------------------
(* Properties *)

(* A State that may be in memory, on disk or on its way: no stage is done
   and still current, but for a quest that waits to be turned in, and no
   quest that is not repeatable is both active and completed. *)
StateOK(t) ==
  /\ t.done \subseteq Quest
  /\ \A q \in Quest : t.active[q] # None =>
       LET p == t.active[q] IN
       /\ p.stage \in 0..LastStage[q]
       /\ IF p.ready
          THEN q \in TurnInQuest /\ p.stage = LastStage[q] /\ p.hit = Objectives(q, p.stage)
          ELSE p.hit \subseteq Objectives(q, p.stage) /\ p.hit # Objectives(q, p.stage)
       /\ q \in t.done => q \in Repeatable

States == {mem} \cup (({file} \cup {loaded[s] : s \in Login} \cup {op[w].snap : w \in Worker})
                         \ {None})

Entity == Spawned \X (1..MaxCopies)

QuestTypeOK ==
  /\ cached \in BOOLEAN /\ named \in BOOLEAN /\ mu \in Worker \cup {None}
  /\ claimed \subseteq UNION {{q} \X (0..LastStage[q]) : q \in Quest}
  /\ owned \in [Quest -> SUBSET Entity] /\ world \subseteq Entity
  /\ pc \in [Login -> {"out", "scrub", "scrubbed", "load", "install", "add", "added", "deriving",
                       "in", "cleanup", "despawn", "persist", "drop", "forget", "gone"}]
  /\ left \in [Login -> SUBSET Entity]
  /\ index \in Login \cup {None} /\ reaped \subseteq Login
  /\ purse \in [Quest -> 0..2] /\ kept \in [Quest -> 0..2]
  /\ \A t \in States : StateOK(t)

(* The reward of a quest that is not repeatable is paid once: not again
   after a relog, and, of a quest that is turned in, whenever it counts as
   completed. While sessions and operations take turns and nothing fails. *)
PaidOnce ==
  env \subseteq {"again", "broken"} =>
    \A q \in Quest \ Repeatable :
      /\ purse[q] <= 1
      /\ q \in TurnInQuest /\ (\E s \in Login : pc[s] = "in") =>
           (q \in mem.done <=> purse[q] = 1)

SpawnerRests == /\ Steady
                /\ \A w \in Worker : op[w].at \in {"idle", "grant", "save"}

(* "A stage does not double-spawn", "removes its surviving owned spawns",
   "recreated on next login": while the spawner rests, what lives is owned
   by an active quest, once each, and what the current stage declares has
   been spawned, unless it has been collected. Whatever fails, but for a
   spawn, while sessions and operations take turns. *)
SpawnsFit ==
  env \cap {"gap", "overlap"} = {} /\ SpawnerRests =>
    /\ world \subseteq UNION {owned[q] : q \in Quest}
    /\ \A x, y \in world : x[1] = y[1] => x = y
    /\ \A q \in Quest : owned[q] # {} => index # None /\ Active(q)
    /\ "broken" \notin env /\ index # None =>
         \A q \in Quest : Active(q) =>
           \A x \in Spawns(q, mem.active[q].stage) :
             Meets[x] \in mem.active[q].hit \/ \E y \in owned[q] : y[1] = x
==============================================================================
