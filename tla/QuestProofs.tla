------------------------------ MODULE QuestProofs ------------------------------
(***************************************************************************)
(* Theorems about QuestProgress, for every set of quests, sessions and     *)
(* circumstances.                                                          *)
(***************************************************************************)
EXTENDS QuestProgress, TLAPS

(* What a worker's operation may be. It begins with the mutex and keeps it *)
(* until Unlock, but for the login, which activates without it, and for    *)
(* what precedes and what follows: the grant and the save.                 *)
Activates == {"claim", "spawn", "record", "release"}
Locked    == Activates \cup {"hits", "sweep", "despawn"}
OpAt      == Locked \cup {"idle", "grant", "derive", "save"}
Derived   == {t \in Quest \X Nat \X SUBSET Objective : t[2] <= LastStage[t[1]]}

Op == [at : OpAt, quest : Quest \cup {None}, stage : Nat, hit : SUBSET Objective,
       todo : SUBSET ((Quest \X Objective) \cup Derived), ids : SUBSET Entity,
       dirty : BOOLEAN, snap : State \cup {None}]

(* The operation o of worker w fits, when m holds the mutex.               *)
OpFits(w, o, m) ==
  /\ o \in Op
  /\ o.snap # None => StateOK(o.snap)
  /\ o.at \in Activates \cup {"grant", "sweep", "despawn"} => o.quest \in Quest
  /\ o.at \in Activates => o.stage <= LastStage[o.quest]
  /\ o.at = "save" => o.snap # None
  /\ o.at \in {"hits", "sweep", "despawn"} => m = w
  /\ m = w => o.at \in Locked
  /\ m # w => o.todo \subseteq Derived

MemOK == mem \in State /\ StateOK(mem) /\ cached \in BOOLEAN
FileOK == /\ file \in State \cup {None} /\ named \in BOOLEAN
          /\ file # None => StateOK(file)
Key == UNION {{q} \X (0..LastStage[q]) : q \in Quest}
SpawnOK == claimed \subseteq Key /\ owned \in [Quest -> SUBSET Entity] /\ world \subseteq Entity
OpOK == /\ mu \in Worker \cup {None}
        /\ op \in [Worker -> Op]
        /\ \A w \in Worker : OpFits(w, op[w], mu)
PcAt == {"out", "scrub", "scrubbed", "load", "install", "add", "added", "deriving",
         "in", "cleanup", "despawn", "persist", "drop", "forget", "gone"}
SessOK ==
  /\ pc \in [Login -> PcAt] /\ loaded \in [Login -> State \cup {None}]
  /\ \A s \in Login : loaded[s] # None => StateOK(loaded[s])
  /\ left \in [Login -> SUBSET Entity]
  /\ index \in Login \cup {None} /\ reaped \subseteq Login
PaidOK == purse \in [Quest -> 0..2] /\ kept \in [Quest -> 0..2]

TypeInv == MemOK /\ FileOK /\ SpawnOK /\ OpOK /\ SessOK /\ PaidOK

------------------------------------------------------------------------------
(* The type invariant *)

LEMMA TypesOK == TypeInv => QuestTypeOK
<1> SUFFICES ASSUME TypeInv PROVE QuestTypeOK
  OBVIOUS
<1>1. \A t \in States : StateOK(t)
  BY DEF States, TypeInv, MemOK, FileOK, OpOK, OpFits, SessOK
<1> QED
  BY <1>1 DEF QuestTypeOK, TypeInv, MemOK, FileOK, SpawnOK, Key, OpOK, SessOK, PcAt, PaidOK

LEMMA IdleFits == ASSUME NEW w \in Worker, NEW m, m # w PROVE OpFits(w, Idle, m)
  BY DEF Idle, OpFits, Op, OpAt, Locked, Activates

LEMMA NoProgressOK == NoProgress \in State /\ StateOK(NoProgress)
  BY DEF NoProgress, State, StateOK

LEMMA InitTypes == Init => TypeInv
<1> SUFFICES ASSUME Init PROVE TypeInv
  OBVIOUS
<1>1. OpOK
  <2>1. \A w \in Worker : OpFits(w, Idle, None)
    BY IdleFits, QuestAssumption DEF Worker
  <2> QED
    BY <2>1 DEF Init, OpOK, OpFits
<1>2. MemOK /\ FileOK
  BY NoProgressOK DEF Init, MemOK, FileOK
<1> QED
  BY <1>1, <1>2 DEF Init, TypeInv, SpawnOK, SessOK, PcAt, PaidOK

(* One worker goes on to o; the mutex is where it was or passes to or from *)
(* that worker.                                                            *)
LEMMA GoesFits ==
  ASSUME OpOK, NEW w \in Worker, NEW o, Goes(w, o), OpFits(w, o, mu'),
         mu' \in Worker \cup {None},
         \A v \in Worker \ {w} : mu' = v <=> mu = v
  PROVE  OpOK'
<1>1. op' = [v \in Worker |-> IF v = w THEN o ELSE op[v]]
  BY DEF Goes, OpOK
<1>2. ASSUME NEW v \in Worker PROVE OpFits(v, op'[v], mu')
  <2>1. CASE v = w
    BY <1>1, <2>1
  <2>2. CASE v # w
    BY <1>1, <2>2 DEF OpOK, OpFits
  <2> QED
    BY <2>1, <2>2
<1> QED
  BY <1>1, <1>2 DEF OpOK, OpFits, StateOK

(* The parts of the invariant by the variables they are about.             *)
LEMMA Parts == TypeInv => MemOK /\ FileOK /\ SpawnOK /\ OpOK /\ SessOK /\ PaidOK
  BY DEF TypeInv

LEMMA Kept ==
  ASSUME TypeInv
  PROVE  /\ UNCHANGED svcVars => MemOK'
         /\ UNCHANGED storeVars => FileOK'
         /\ UNCHANGED spawnVars => SpawnOK'
         /\ UNCHANGED <<op, mu>> => OpOK'
         /\ UNCHANGED sessVars => SessOK'
         /\ UNCHANGED paidVars => PaidOK'
<1>1. UNCHANGED svcVars => MemOK'
  BY Parts DEF MemOK, StateOK, svcVars
<1>2. UNCHANGED storeVars => FileOK'
  BY Parts DEF FileOK, StateOK, storeVars
<1>3. UNCHANGED spawnVars => SpawnOK'
  BY Parts DEF SpawnOK, spawnVars
<1>4. UNCHANGED <<op, mu>> => OpOK'
  BY Parts DEF OpOK, OpFits, StateOK
<1>5. UNCHANGED sessVars => SessOK'
  BY Parts DEF SessOK, StateOK, sessVars
<1>6. UNCHANGED paidVars => PaidOK'
  BY Parts DEF PaidOK, paidVars
<1> QED
  BY <1>1, <1>2, <1>3, <1>4, <1>5, <1>6

LEMMA Whole == MemOK' /\ FileOK' /\ SpawnOK' /\ OpOK' /\ SessOK' /\ PaidOK' => TypeInv'
  BY DEF TypeInv

(* Progress that may be held makes a State that may be.                    *)
PartOK(q, p, done) ==
  /\ p \in ActiveQuest
  /\ p.stage \in 0..LastStage[q]
  /\ IF p.ready
     THEN q \in TurnInQuest /\ p.stage = LastStage[q] /\ p.hit = Objectives(q, p.stage)
     ELSE p.hit \subseteq Objectives(q, p.stage) /\ p.hit # Objectives(q, p.stage)
  /\ q \in done => q \in Repeatable

LEMMA HoldsFits ==
  ASSUME MemOK, NEW q \in Quest, NEW p, Holds(q, p), p = None \/ PartOK(q, p, mem.done)
  PROVE  mem' \in State /\ StateOK(mem')
<1>1. /\ mem' \in State /\ mem'.done = mem.done
      /\ \A r \in Quest : mem'.active[r] = IF r = q THEN p ELSE mem.active[r]
  BY DEF Holds, MemOK, State, PartOK
<1> QED
  BY <1>1 DEF MemOK, StateOK, PartOK

LEMMA CompletedFits ==
  ASSUME MemOK, NEW q \in Quest, Completed(q)
  PROVE  mem' \in State /\ StateOK(mem')
<1>1. /\ mem' \in State /\ mem'.done = mem.done \cup {q}
      /\ \A r \in Quest : mem'.active[r] = IF r = q THEN None ELSE mem.active[r]
  BY DEF Completed, MemOK, State
<1> QED
  BY <1>1 DEF MemOK, StateOK

(* The entry of a stage, or a step past it.                                *)
LEMMA ActivatingFits ==
  ASSUME NEW w \in Worker, NEW o, NEW m, OpFits(w, o, m), o.at # "save",
         NEW then \in {"hits", "derive"}, (then = "hits") <=> (m = w),
         NEW q \in Quest, NEW st \in 0..LastStage[q], NEW hit \in SUBSET Objective
  PROVE  OpFits(w, Activating(o, q, st, hit, then), m)
<1>1. st \in Nat
  BY QuestAssumption
<1>2. CASE Spawns(q, st) = {}
  <2>1. Activating(o, q, st, hit, then) = [o EXCEPT !.at = then]
    BY <1>2 DEF Activating
  <2> QED
    BY <2>1 DEF OpFits, Op, OpAt, Locked, Activates
<1>3. CASE Spawns(q, st) # {}
  <2> DEFINE a == [o EXCEPT !.at = "claim", !.quest = q, !.stage = st, !.hit = hit]
  <2>1. Activating(o, q, st, hit, then) = a
    BY <1>3 DEF Activating
  <2>2. o \in Op
    BY DEF OpFits
  <2>3. a \in Op
    BY <1>1, <2>2 DEF Op, OpAt, Locked, Activates
  <2>4. /\ a.at = "claim" /\ a.quest = q /\ a.stage = st
        /\ a.snap = o.snap /\ a.todo = o.todo
    BY <2>2 DEF Op
  <2> HIDE DEF a
  <2>5. OpFits(w, a, m)
    BY <2>3, <2>4 DEF OpFits, Locked, Activates
  <2> QED
    BY <2>1, <2>5
<1> QED
  BY <1>2, <1>3

(* The service.                                                            *)
LEMMA GrantTypes ==
  ASSUME TypeInv, NEW w \in Worker, GrantRefused(w) \/ \E q \in Quest : Grant(w, q)
  PROVE  TypeInv'
<1>0. w # mu
  BY Parts DEF OpOK, OpFits, Locked, Activates, Grant, GrantRefused, MayAct
<1>1. CASE GrantRefused(w)
  <2>1. OpOK'
    BY <1>0, <1>1, Parts, IdleFits, GoesFits DEF GrantRefused, OpOK
  <2> QED
    BY <1>1, <2>1, Kept, Whole DEF GrantRefused
<1>2. ASSUME NEW q \in Quest, Grant(w, q) PROVE TypeInv'
  <2>1. OpFits(w, [Idle EXCEPT !.at = "grant", !.quest = q], mu)
    BY <1>0, IdleFits DEF OpFits, Op, OpAt, Locked, Activates, Idle
  <2>2. OpOK'
    BY <1>2, <2>1, Parts, GoesFits DEF Grant, OpOK
  <2> QED
    BY <1>2, <2>2, Kept, Whole DEF Grant
<1> QED
  BY <1>1, <1>2

LEMMA AcceptsTypes ==
  ASSUME TypeInv, NEW w \in Worker, NEW q \in Quest, Accepts(w, q)
  PROVE  TypeInv'
<1> DEFINE o == [Idle EXCEPT !.dirty = TRUE]
<1>1. 0 \in 0..LastStage[q] /\ Objectives(q, 0) # {}
  BY QuestAssumption
<1>2. PartOK(q, Progress(0, {}, FALSE), mem.done)
  BY <1>1 DEF PartOK, Progress, ActiveQuest, Accepts, CanAccept
<1>3. MemOK'
  BY <1>2, Parts, HoldsFits DEF Accepts, MemOK
<1>4. OpFits(w, [Idle EXCEPT !.dirty = TRUE, !.at = "hits"], w)
  BY DEF OpFits, Op, OpAt, Locked, Activates, Idle
<1>5. OpFits(w, Activating(o, q, 0, {}, "hits"), w)
  <2>1. CASE Spawns(q, 0) = {}
    BY <1>4, <2>1 DEF Activating
  <2>2. CASE Spawns(q, 0) # {}
    <3> DEFINE a == [at |-> "claim", quest |-> q, stage |-> 0, hit |-> {}, todo |-> {},
                     ids |-> {}, dirty |-> TRUE, snap |-> None]
    <3>1. Activating(o, q, 0, {}, "hits") = a
      BY <2>2 DEF Activating, Idle
    <3>2. OpFits(w, a, w)
      BY <1>1 DEF OpFits, Op, OpAt, Locked, Activates
    <3> QED
      BY <3>1, <3>2
  <2> QED
    BY <2>1, <2>2
<1>6. OpOK'
  BY <1>5, Parts, GoesFits, QuestAssumption DEF Accepts, OpOK, MayLock, Worker
<1> QED
  BY <1>3, <1>6, Kept, Whole DEF Accepts

LEMMA AbandonTypes ==
  ASSUME TypeInv, NEW w \in Worker, NEW q \in Quest, Abandon(w, q) \/ TurnIn(w, q)
  PROVE  TypeInv'
<1>1. MemOK'
  BY Parts, HoldsFits, CompletedFits DEF Abandon, TurnIn, MemOK
<1>2. OpFits(w, [Idle EXCEPT !.at = "sweep", !.quest = q, !.dirty = TRUE], w)
  BY DEF OpFits, Op, OpAt, Locked, Activates, Idle
<1>3. OpOK'
  BY <1>2, Parts, GoesFits, QuestAssumption DEF Abandon, TurnIn, OpOK, MayLock, Worker
<1>4. PaidOK'
  BY Parts DEF Abandon, TurnIn, Dispatch, PaidOK, paidVars
<1> QED
  BY <1>1, <1>3, <1>4, Kept, Whole DEF Abandon, TurnIn

LEMMA AdvancesTypes ==
  ASSUME TypeInv, NEW w \in Worker, AdvanceMatching(w) \/ AdvanceObjective(w)
  PROVE  TypeInv'
<1>1. PICK hits \in SUBSET (Quest \X Objective) : Advances(w, hits)
  <2>1. \A e : Matching(e) \in SUBSET (Quest \X Objective)
    BY DEF Matching
  <2>2. CASE AdvanceMatching(w)
    BY <2>1, <2>2 DEF AdvanceMatching
  <2>3. CASE AdvanceObjective(w)
    BY <2>3 DEF AdvanceObjective
  <2> QED
    BY <2>2, <2>3
<1>2. OpFits(w, [Idle EXCEPT !.at = "hits", !.todo = hits], w)
  BY DEF OpFits, Op, OpAt, Locked, Activates, Idle
<1>3. OpOK'
  BY <1>1, <1>2, Parts, GoesFits, QuestAssumption DEF Advances, OpOK, MayLock, Worker
<1> QED
  BY <1>1, <1>3, Kept, Whole DEF Advances

LEMMA HitTypes ==
  ASSUME TypeInv, NEW w \in Worker, NEW q \in Quest, NEW o \in Objective,
         \/ HitNothing(w, q, o) \/ HitCounts(w, q, o) \/ AdvanceStage(w, q, o)
         \/ AwaitTurnIn(w, q, o) \/ Complete(w, q, o)
  PROVE  TypeInv'
<1> DEFINE a == mem.active[q]
<1>0. /\ OpFits(w, op[w], mu) /\ mu = w /\ op[w].at = "hits" /\ op[w] \in Op
      /\ a # None => a \in ActiveQuest /\ a.stage \in 0..LastStage[q] /\ LastStage[q] \in Nat
  BY Parts, QuestAssumption DEF OpOK, OpFits, MemOK, State, StateOK, Hit, HitNothing, HitCounts,
     AdvanceStage, AwaitTurnIn, Complete
<1>1. CASE HitNothing(w, q, o)
  <2>1. OpFits(w, [op[w] EXCEPT !.todo = @ \ {<<q, o>>}], mu)
    BY <1>0 DEF OpFits, Op
  <2>2. OpOK'
    BY <1>1, <2>1, Parts, GoesFits DEF HitNothing, OpOK
  <2> QED
    BY <1>1, <2>2, Kept, Whole DEF HitNothing
<1>2. OpFits(w, Rest(w, q, o), mu) /\ Rest(w, q, o).at = "hits"
  BY <1>0 DEF Rest, OpFits, Op
<1>3. CASE HitCounts(w, q, o) \/ AwaitTurnIn(w, q, o)
  <2>1. /\ a # None /\ ~a.ready /\ o \in Objectives(q, a.stage)
        /\ a.hit \subseteq Objectives(q, a.stage)
        /\ q \in mem.done => q \in Repeatable
    BY <1>3, Parts DEF HitCounts, AwaitTurnIn, Counts, Active, MemOK, StateOK
  <2>2. CASE HitCounts(w, q, o)
    <3> DEFINE p == [a EXCEPT !.hit = @ \cup {o}]
    <3>1. p \in ActiveQuest /\ p.stage = a.stage /\ p.hit = a.hit \cup {o} /\ ~p.ready
      BY <1>0, <2>1 DEF ActiveQuest
    <3>2. PartOK(q, p, mem.done)
      BY <1>0, <2>1, <2>2, <3>1 DEF PartOK, HitCounts, Ends
    <3> HIDE DEF p
    <3>3. Holds(q, p)
      BY <2>2 DEF HitCounts, p
    <3>4. MemOK'
      BY <2>2, <3>2, <3>3, Parts, HoldsFits DEF HitCounts, MemOK
    <3>5. OpOK'
      BY <1>2, <2>2, Parts, GoesFits DEF HitCounts, OpOK
    <3> QED
      BY <2>2, <3>4, <3>5, Kept, Whole DEF HitCounts
  <2>3. CASE AwaitTurnIn(w, q, o)
    <3> DEFINE p == Progress(LastStage[q], a.hit \cup {o}, TRUE)
    <3>1. PartOK(q, p, mem.done)
      BY <1>0, <2>1, <2>3 DEF PartOK, Progress, ActiveQuest, AwaitTurnIn, Ends, Last
    <3> HIDE DEF p
    <3>2. Holds(q, p)
      BY <2>3 DEF AwaitTurnIn, p
    <3>3. MemOK'
      BY <2>3, <3>1, <3>2, Parts, HoldsFits DEF AwaitTurnIn, MemOK
    <3>4. OpOK'
      BY <1>2, <2>3, Parts, GoesFits DEF AwaitTurnIn, OpOK
    <3> QED
      BY <2>3, <3>3, <3>4, Kept, Whole DEF AwaitTurnIn
  <2> QED
    BY <1>3, <2>2, <2>3
<1>4. CASE AdvanceStage(w, q, o)
  <2> DEFINE st == a.stage + 1
  <2>1. st \in 0..LastStage[q] /\ st \in Nat /\ Objectives(q, st) # {} /\ (q \in mem.done => q \in Repeatable)
    <3>1. a # None /\ a.stage # LastStage[q] /\ (q \in mem.done => q \in Repeatable)
      BY <1>4, Parts DEF AdvanceStage, Counts, Active, Last, MemOK, StateOK
    <3>2. st \in 0..LastStage[q] /\ st \in Nat
      BY <1>0, <3>1
    <3> QED
      BY <3>1, <3>2, QuestAssumption
  <2> HIDE DEF st
  <2>2. PartOK(q, Progress(st, {}, FALSE), mem.done)
    BY <2>1 DEF PartOK, Progress, ActiveQuest
  <2>3. Holds(q, Progress(st, {}, FALSE)) /\ Goes(w, Activating(Rest(w, q, o), q, st, {}, "hits"))
    BY <1>4 DEF AdvanceStage, st
  <2>4. MemOK'
    BY <1>4, <2>2, <2>3, Parts, HoldsFits DEF AdvanceStage, MemOK
  <2>5. OpFits(w, Activating(Rest(w, q, o), q, st, {}, "hits"), mu)
    BY <1>0, <1>2, <2>1, ActivatingFits
  <2>6. OpOK'
    BY <1>4, <2>3, <2>5, Parts, GoesFits DEF AdvanceStage, OpOK
  <2> QED
    BY <1>4, <2>4, <2>6, Kept, Whole DEF AdvanceStage
<1>5. CASE Complete(w, q, o)
  <2>1. MemOK'
    BY <1>5, Parts, CompletedFits DEF Complete, MemOK
  <2>2. OpFits(w, [Rest(w, q, o) EXCEPT !.at = "sweep", !.quest = q], mu)
    BY <1>0, <1>2 DEF OpFits, Op, OpAt, Locked, Activates
  <2>3. OpOK'
    BY <1>5, <2>2, Parts, GoesFits DEF Complete, OpOK
  <2>4. PaidOK'
    BY <1>5, Parts DEF Complete, Dispatch, PaidOK
  <2> QED
    BY <1>5, <2>1, <2>3, <2>4, Kept, Whole DEF Complete
<1> QED
  BY <1>1, <1>3, <1>4, <1>5

LEMMA SaveTypes ==
  ASSUME TypeInv, NEW w \in Worker, Unlock(w) \/ Save(w)
  PROVE  TypeInv'
<1>1. CASE Unlock(w)
  <2>1. mem \in State /\ StateOK(mem) /\ (mem # None \/ mem = None)
    BY Parts DEF MemOK
  <2>2. mem # None
    BY <2>1, QuestAssumption
  <2>3. OpFits(w, [Idle EXCEPT !.at = "save", !.snap = mem], None)
    BY <2>1, <2>2, QuestAssumption DEF OpFits, Op, OpAt, Locked, Activates, Idle, Worker
  <2>4. OpFits(w, Idle, None)
    BY IdleFits, QuestAssumption DEF Worker
  <2>5. OpOK'
    BY <1>1, <2>3, <2>4, Parts, GoesFits, QuestAssumption DEF Unlock, OpOK, Worker
  <2> QED
    BY <1>1, <2>5, Kept, Whole DEF Unlock
<1>2. CASE Save(w)
  <2>1. mu # w /\ op[w].snap \in State /\ StateOK(op[w].snap)
    BY <1>2, Parts DEF Save, OpOK, OpFits, Op, Locked, Activates
  <2>2. FileOK'
    BY <1>2, <2>1, Parts DEF Save, FileOK, StateOK
  <2>3. OpOK'
    BY <1>2, <2>1, Parts, IdleFits, GoesFits DEF Save, OpOK
  <2> QED
    BY <1>2, <2>2, <2>3, Kept, Whole DEF Save
<1> QED
  BY <1>1, <1>2

(* The spawner.                                                            *)
LEMMA BackFits ==
  ASSUME OpOK, NEW w \in Worker, op[w].at \in Activates \/ (op[w].at = "despawn" /\ mu = w),
         Back(w), UNCHANGED mu
  PROVE  OpOK'
<1> DEFINE at == IF mu = w THEN "hits" ELSE "derive"
           o == [op[w] EXCEPT !.at = at, !.quest = None, !.stage = 0, !.hit = {}, !.ids = {}]
<1>1. op[w] \in Op /\ OpFits(w, op[w], mu)
  BY DEF OpOK
<1>2. at \in {"hits", "derive"} /\ (at = "hits" <=> mu = w)
  OBVIOUS
<1>3. Goes(w, o)
  BY DEF Back
<1> HIDE DEF at
<1>4. OpFits(w, o, mu)
  BY <1>1, <1>2 DEF OpFits, Op, OpAt, Locked, Activates
<1> QED
  BY <1>3, <1>4, GoesFits DEF OpOK

LEMMA ActivateTypes ==
  ASSUME TypeInv, NEW w \in Worker,
         ActivateAgain(w) \/ Activate(w) \/ SpawnAll(w) \/ Record(w) \/ ReleaseKey(w)
  PROVE  TypeInv'
<1> DEFINE q == op[w].quest  st == op[w].stage
<1>0. /\ op[w] \in Op /\ OpFits(w, op[w], mu) /\ op[w].at \in Activates
      /\ q \in Quest /\ st \in 0..LastStage[q]
  <2>1. op[w] \in Op /\ OpFits(w, op[w], mu) /\ op[w].at \in Activates
    BY Parts DEF OpOK, ActivateAgain, Activate, SpawnAll, Record, ReleaseKey, Activates
  <2>2. q \in Quest /\ st \in Nat /\ st <= LastStage[q]
    BY <2>1 DEF OpFits, Op
  <2> QED
    BY <2>1, <2>2, QuestAssumption
<1>1. CASE ActivateAgain(w)
  BY <1>0, <1>1, Parts, BackFits, Kept, Whole DEF ActivateAgain
<1>2. CASE Record(w)
  <2>1. SpawnOK'
    BY <1>0, <1>2, Parts DEF Record, SpawnOK, Op
  <2> QED
    BY <1>0, <1>2, <2>1, Parts, BackFits, Kept, Whole DEF Record
<1>3. CASE ReleaseKey(w)
  <2>1. SpawnOK'
    BY <1>3, Parts DEF ReleaseKey, SpawnOK
  <2> QED
    BY <1>0, <1>3, <2>1, Parts, BackFits, Kept, Whole DEF ReleaseKey
<1>4. CASE Activate(w)
  <2>1. OpFits(w, [op[w] EXCEPT !.at = "spawn"], mu)
    BY <1>0 DEF OpFits, Op, OpAt, Locked, Activates
  <2>2. OpOK'
    BY <1>4, <2>1, Parts, GoesFits DEF Activate, OpOK
  <2>3. <<q, st>> \in Key
    BY <1>0 DEF Key
  <2>4. SpawnOK'
    BY <1>4, <2>3, Parts DEF Activate, SpawnOK
  <2> QED
    BY <1>4, <2>2, <2>4, Kept, Whole DEF Activate
<1>5. CASE SpawnAll(w)
  <2> DEFINE ids(made) == {<<x, Fresh(x)>> : x \in made}
  <2>1. PICK made \in SUBSET Due(w) :
          /\ \A x \in made : Free(x) # {}
          /\ world' = world \cup ids(made)
          /\ Goes(w, [op[w] EXCEPT !.ids = ids(made),
                                   !.at = IF ids(made) = {} THEN "release" ELSE "record"])
    BY <1>5 DEF SpawnAll
  <2>2. made \subseteq Spawned
    BY <1>0, <2>1 DEF Due, Spawned
  <2>3. \A x \in made : Fresh(x) \in 1..MaxCopies
    BY <2>1 DEF Fresh, Free
  <2>4. ids(made) \in SUBSET Entity
    BY <2>2, <2>3 DEF Entity
  <2> HIDE DEF ids
  <2>5. OpFits(w, [op[w] EXCEPT !.ids = ids(made),
                                !.at = IF ids(made) = {} THEN "release" ELSE "record"], mu)
    BY <1>0, <2>4 DEF OpFits, Op, OpAt, Locked, Activates
  <2>6. OpOK'
    BY <1>5, <2>1, <2>5, Parts, GoesFits DEF SpawnAll, OpOK
  <2>7. SpawnOK'
    BY <1>5, <2>1, <2>4, Parts DEF SpawnAll, SpawnOK
  <2> QED
    BY <1>5, <2>6, <2>7, Kept, Whole DEF SpawnAll
<1> QED
  BY <1>1, <1>2, <1>3, <1>4, <1>5

LEMMA CleanupTypes ==
  ASSUME TypeInv, NEW w \in Worker, Cleanup(w) \/ Despawn(w)
  PROVE  TypeInv'
<1>0. /\ op[w] \in Op /\ OpFits(w, op[w], mu) /\ mu = w /\ op[w].quest \in Quest
  BY Parts DEF OpOK, OpFits, Cleanup, Despawn
<1>1. CASE Cleanup(w)
  <2>1. owned[op[w].quest] \in SUBSET Entity
    BY <1>0, Parts DEF SpawnOK
  <2>2. OpFits(w, [op[w] EXCEPT !.ids = owned[op[w].quest], !.at = "despawn"], mu)
    BY <1>0, <2>1 DEF OpFits, Op, OpAt, Locked, Activates
  <2>3. OpOK'
    BY <1>1, <2>2, Parts, GoesFits DEF Cleanup, OpOK
  <2>4. SpawnOK'
    BY <1>1, Parts DEF Cleanup, SpawnOK
  <2> QED
    BY <1>1, <2>3, <2>4, Kept, Whole DEF Cleanup
<1>2. CASE Despawn(w)
  <2>1. OpOK'
    BY <1>0, <1>2, Parts, BackFits DEF Despawn
  <2>2. SpawnOK'
    BY <1>2, Parts DEF Despawn, SpawnOK
  <2> QED
    BY <1>2, <2>1, <2>2, Kept, Whole DEF Despawn
<1> QED
  BY <1>1, <1>2

(* The sessions.                                                           *)
LEMMA EntryTypes ==
  ASSUME TypeInv, NEW s \in Login,
         \/ Enter(s) \/ (\E r \in Login \ {s} : TakeOver(s, r))
         \/ Load(s) \/ Install(s) \/ Add(s)
  PROVE  TypeInv'
<1>1. SessOK'
  BY Parts DEF Enter, TakeOver, Load, Install, Add, To, SessOK, PcAt, FileOK, StateOK
<1>2. MemOK'
  BY Parts DEF Enter, TakeOver, Load, Install, Add, MemOK, SessOK, StateOK, svcVars
<1>3. FileOK'
  BY Parts DEF Enter, TakeOver, Load, Install, Add, FileOK, StateOK, storeVars
<1>4. SpawnOK' /\ OpOK'
  BY Kept DEF Enter, TakeOver, Load, Install, Add
<1>5. PaidOK'
  BY Parts DEF Enter, TakeOver, Load, Install, Add, PaidOK, paidVars
<1> QED
  BY <1>1, <1>2, <1>3, <1>4, <1>5, Whole

LEMMA DeriveTypes ==
  ASSUME TypeInv, NEW s \in Login, Reactivate(s) \/ Derive(s) \/ Entered(s)
  PROVE  TypeInv'
<1>0. s \in Worker /\ OpFits(s, op[s], mu) /\ op[s] \in Op
  BY Parts DEF OpOK, Worker
<1>1. SessOK'
  BY Parts DEF Reactivate, Derive, Entered, To, SessOK, PcAt, StateOK, sessVars
<1>2. CASE Reactivate(s)
  <2> DEFINE todo == {<<q, mem.active[q].stage, mem.active[q].hit>> : q \in {r \in Quest : Active(r)}}
  <2>1. ASSUME NEW q \in Quest, Active(q)
        PROVE  <<q, mem.active[q].stage, mem.active[q].hit>> \in Derived
    <3>1. mem.active[q] \in ActiveQuest /\ mem.active[q].stage \in 0..LastStage[q]
      BY <2>1, Parts DEF MemOK, State, StateOK, Active
    <3> QED
      BY <3>1, QuestAssumption DEF Derived, ActiveQuest
  <2>2. todo \subseteq Derived
    BY <2>1
  <2> HIDE DEF todo
  <2>3. OpFits(s, [Idle EXCEPT !.at = "derive", !.todo = todo], mu)
    BY <1>0, <1>2, <2>2, QuestAssumption DEF Reactivate, OpFits, Op, OpAt, Locked, Activates, Idle
  <2>4. OpOK'
    BY <1>0, <1>2, <2>3, Parts, GoesFits DEF Reactivate, OpOK, todo
  <2> QED
    BY <1>1, <1>2, <2>4, Kept, Whole DEF Reactivate
<1>3. CASE Derive(s)
  <2>1. PICK t \in op[s].todo :
          Goes(s, Activating([op[s] EXCEPT !.todo = @ \ {t}], t[1], t[2], t[3], "derive"))
    BY <1>3 DEF Derive
  <2>2. mu # s /\ t \in Derived
    BY <1>0, <1>3, <2>1 DEF Derive, OpFits, Locked, Activates
  <2>3. t[1] \in Quest /\ t[2] \in 0..LastStage[t[1]] /\ t[3] \in SUBSET Objective
    BY <2>2, QuestAssumption DEF Derived
  <2>4. OpFits(s, [op[s] EXCEPT !.todo = @ \ {t}], mu) /\ [op[s] EXCEPT !.todo = @ \ {t}].at = "derive"
    BY <1>0, <1>3 DEF Derive, OpFits, Op
  <2> DEFINE o == [op[s] EXCEPT !.todo = @ \ {t}]
  <2> HIDE DEF o
  <2>5. OpFits(s, Activating(o, t[1], t[2], t[3], "derive"), mu)
    <3>1. OpFits(s, o, mu) /\ o.at = "derive"
      BY <2>4 DEF o
    <3> QED
      BY <1>0, <2>2, <2>3, <3>1, ActivatingFits
  <2>6. OpOK'
    BY <1>0, <1>3, <2>1, <2>5, Parts, GoesFits DEF Derive, OpOK, o
  <2> QED
    BY <1>1, <1>3, <2>6, Kept, Whole DEF Derive
<1>4. CASE Entered(s)
  <2>1. mu # s
    BY <1>0, <1>4 DEF Entered, OpFits, Locked, Activates
  <2>2. OpOK'
    BY <1>0, <1>4, <2>1, Parts, IdleFits, GoesFits DEF Entered, OpOK
  <2> QED
    BY <1>1, <1>4, <2>2, Kept, Whole DEF Entered
<1> QED
  BY <1>2, <1>3, <1>4

LEMMA ExitTypes ==
  ASSUME TypeInv, NEW s \in Login,
         \/ Quit(s) \/ Reap(s) \/ CleanupPlayer(s) \/ DespawnLeft(s)
         \/ Persist(s) \/ DropState(s) \/ Forget(s)
  PROVE  TypeInv'
<1>1. SessOK'
  BY Parts DEF Quit, Reap, CleanupPlayer, DespawnLeft, Persist, DropState, Forget, To, SessOK, SpawnOK,
     PcAt, StateOK
<1>2. MemOK'
  BY Parts, NoProgressOK DEF Quit, Reap, CleanupPlayer, DespawnLeft, Persist, DropState, Forget, MemOK, StateOK,
     svcVars
<1>3. FileOK'
  BY Parts DEF Quit, Reap, CleanupPlayer, DespawnLeft, Persist, DropState, Forget, FileOK, StateOK, storeVars
<1>4. SpawnOK'
  BY Parts DEF Quit, Reap, CleanupPlayer, DespawnLeft, Persist, DropState, Forget, SpawnOK, spawnVars
<1>5. OpOK'
  BY Kept DEF Quit, Reap, CleanupPlayer, DespawnLeft, Persist, DropState, Forget
<1>6. PaidOK'
  BY Parts DEF Quit, Reap, CleanupPlayer, DespawnLeft, Persist, DropState, Forget, PaidOK, paidVars
<1> QED
  BY <1>1, <1>2, <1>3, <1>4, <1>5, <1>6, Whole

LEMMA RestTypes ==
  ASSUME TypeInv, (\E x \in world : Dies(x)) \/ Autosave \/ Crash \/ UNCHANGED vars
  PROVE  TypeInv'
<1>1. CASE \E x \in world : Dies(x)
  <2>1. SpawnOK'
    BY <1>1, Parts DEF Dies, SpawnOK
  <2> QED
    BY <1>1, <2>1, Kept, Whole DEF Dies
<1>2. CASE Autosave
  <2>1. PaidOK'
    BY <1>2, Parts DEF Autosave, PaidOK
  <2> QED
    BY <1>2, <2>1, Kept, Whole DEF Autosave
<1>3. CASE Crash
  <2>1. OpOK'
    <3>1. \A w \in Worker : OpFits(w, Idle, None)
      BY IdleFits, QuestAssumption DEF Worker
    <3>2. \A w \in Worker : Idle \in Op /\ op'[w] = Idle /\ OpFits(w, op'[w], mu')
      BY <1>3, <3>1 DEF Crash, OpFits
    <3>3. op' = [w \in Worker |-> Idle] /\ mu' = None
      BY <1>3 DEF Crash
    <3> QED
      BY <3>2, <3>3 DEF OpOK, OpFits, StateOK
  <2>2. MemOK' /\ FileOK' /\ SpawnOK'
    BY <1>3, Parts, NoProgressOK DEF Crash, MemOK, FileOK, SpawnOK, StateOK
  <2>3. SessOK'
    BY <1>3, Parts DEF Crash, SessOK, PcAt, StateOK
  <2> QED
    BY <1>3, <2>1, <2>2, <2>3, Kept, Whole DEF Crash
<1>4. CASE UNCHANGED vars
  BY <1>4, Kept, Whole DEF vars
<1> QED
  BY <1>1, <1>2, <1>3, <1>4

LEMMA NextTypes == TypeInv /\ [Next]_vars => TypeInv'
<1> SUFFICES ASSUME TypeInv, [Next]_vars PROVE TypeInv'
  OBVIOUS
<1>1. ASSUME NEW w \in Worker, Service(w)
      PROVE  TypeInv'
  <2>1. GrantAccept(w) => op[w].quest \in Quest
    BY Parts DEF GrantAccept, OpOK, OpFits
  <2> QED
    BY <1>1, <2>1, GrantTypes, AcceptsTypes, AbandonTypes, SaveTypes DEF Service, Accept, GrantAccept
<1>2. ASSUME NEW w \in Worker, Advance(w)
      PROVE  TypeInv'
  BY <1>2, AdvancesTypes, HitTypes DEF Advance
<1>3. ASSUME NEW w \in Worker, Spawner(w)
      PROVE  TypeInv'
  BY <1>3, ActivateTypes, CleanupTypes DEF Spawner
<1>4. ASSUME NEW s \in Login, Session(s)
      PROVE  TypeInv'
  BY <1>4, EntryTypes, DeriveTypes, ExitTypes DEF Session
<1> QED
  BY <1>1, <1>2, <1>3, <1>4, RestTypes DEF Next

(* Every variable keeps its type, and every State that is in memory, on    *)
(* disk or on its way is one the service may be in: no stage is done and   *)
(* still current but for a quest that waits to be turned in, and no quest  *)
(* that is not repeatable is both active and completed.                    *)
THEOREM QuestTypes == Spec => []QuestTypeOK
<1>1. Init => TypeInv
  BY InitTypes
<1>2. TypeInv /\ [Next]_vars => TypeInv'
  BY NextTypes
<1>3. TypeInv => QuestTypeOK
  BY TypesOK
<1> QED
  BY <1>1, <1>2, <1>3, PTL DEF Spec

------------------------------------------------------------------------------
(* Sessions and operations that take turns                                 *)

Apart == env \cap {"gap", "overlap"} = {}
Away  == {"out", "gone"}
Here  == {"added", "deriving", "in"}

(* Worker w, at o while m holds the mutex, is where it may be: a session's *)
(* operations are in the game, or activate for its login without the mutex; *)
(* the tick goroutine's are while somebody is in the game.                 *)
TurnFits(w, o, m) ==
  /\ o.at # "idle" => IF w = Tick THEN \E s \in Login : pc[s] = "in" ELSE pc[w] \in {"deriving", "in"}
  /\ w # Tick /\ pc[w] = "deriving" => o.at \in Activates \cup {"derive"} /\ m # w
  /\ w = Tick \/ pc[w] = "in" => o.at # "derive" /\ (o.at \in Activates => m = w)

(* One session at a time is on its way in, in the game or on its way out.  *)
TurnInv ==
  /\ \A s, r \in Login : pc[s] \notin Away /\ pc[r] \notin Away => s = r
  /\ \A s \in Login : (index = s <=> pc[s] \in Here) /\ pc[s] \notin {"scrub", "scrubbed"}
  /\ \A w \in Worker : TurnFits(w, op[w], mu)

LEMMA InitTurn == Init => TurnInv
  BY QuestAssumption DEF Init, TurnInv, TurnFits, Idle, Activates, Away, Here, Worker

LEMMA EnvFixed == [Next]_vars => UNCHANGED env
<1> SUFFICES ASSUME [Next]_vars PROVE UNCHANGED env
  OBVIOUS
<1>1. ASSUME NEW w \in Worker, Service(w) \/ Advance(w) \/ Spawner(w)
      PROVE  UNCHANGED env
  <2>1. CASE Service(w)
    BY <2>1 DEF Service, Accept, Grant, Abandon, TurnIn, GrantAccept, Accepts, GrantRefused, Unlock, Save
  <2>2. CASE Advance(w)
    BY <2>2 DEF Advance, AdvanceMatching, AdvanceObjective, Advances, HitNothing, HitCounts,
       AdvanceStage, AwaitTurnIn, Complete
  <2>3. CASE Spawner(w)
    BY <2>3 DEF Spawner, ActivateAgain, Activate, SpawnAll, Record, ReleaseKey, Cleanup, Despawn
  <2> QED
    BY <1>1, <2>1, <2>2, <2>3
<1>2. ASSUME NEW s \in Login, Session(s)
      PROVE  UNCHANGED env
  BY <1>2 DEF Session, Enter, TakeOver, Load, Install, Add, Reactivate, Derive, Entered, Quit, Reap,
     CleanupPlayer, DespawnLeft, Persist, DropState, Forget
<1> QED
  BY <1>1, <1>2 DEF Next, Dies, Autosave, Crash, vars

(* Who holds the mutex is in the game, or works for somebody who is.       *)
Present(w) == IF w = Tick THEN \E s \in Login : pc[s] = "in" ELSE pc[w] = "in"

LEMMA LockPresent ==
  ASSUME TypeInv, TurnInv, NEW w \in Worker, mu = w \/ op[w].at \in {"grant", "save"}
  PROVE  Present(w)
<1>1. op[w].at \in OpAt \ {"idle", "derive"} /\ TurnFits(w, op[w], mu)
  BY Parts DEF TurnInv, OpOK, OpFits, Op, OpAt, Locked, Activates
<1> QED
  BY <1>1 DEF TurnFits, Present, Activates

LEMMA GoesTurn ==
  ASSUME TypeInv, TurnInv, NEW w \in Worker, NEW o, Goes(w, o), TurnFits(w, o, mu'),
         UNCHANGED <<pc, index>>, \A v \in Worker \ {w} : mu' = v <=> mu = v
  PROVE  TurnInv'
<1>1. \A v \in Worker : op'[v] = IF v = w THEN o ELSE op[v]
  BY Parts DEF Goes, OpOK
<1>2. \A v \in Worker \ {w} : TurnFits(v, op[v], mu')
  BY DEF TurnInv, TurnFits
<1> QED
  BY <1>1, <1>2 DEF TurnInv, TurnFits

(* An operation that begins or goes on under the mutex, or ends.           *)
LEMMA PresentTurn ==
  ASSUME TypeInv, TurnInv, NEW w \in Worker, NEW o, Goes(w, o), Present(w),
         o.at # "derive", o.at \in Activates => mu' = w,
         UNCHANGED <<pc, index>>, \A v \in Worker \ {w} : mu' = v <=> mu = v
  PROVE  TurnInv'
<1>1. TurnFits(w, o, mu')
  BY DEF TurnFits, Present
<1> QED
  BY <1>1, GoesTurn

LEMMA ActPresent ==
  ASSUME TypeInv, TurnInv, Apart, NEW w \in Worker, MayAct(w)
  PROVE  Present(w)
<1>1. CASE w # Tick
  BY <1>1 DEF MayAct, Present
<1>2. CASE w = Tick
  <2>1. Steady /\ index \in Login
    BY <1>2, Parts DEF MayAct, Apart, SessOK
  <2> QED
    BY <1>2, <2>1 DEF TurnInv, Steady, Present, Here
<1> QED
  BY <1>1, <1>2

LEMMA ServiceTurn ==
  ASSUME TypeInv, TurnInv, Apart, NEW w \in Worker, Service(w)
  PROVE  TurnInv'
<1>0. \A v \in Worker : v # None
  BY QuestAssumption DEF Worker
<1>1. ASSUME NEW q \in Quest, Grant(w, q)
      PROVE  TurnInv'
  BY <1>1, PresentTurn, ActPresent DEF Grant, Idle, Activates, sessVars
<1>2. ASSUME NEW q \in Quest, Accepts(w, q), Present(w)
      PROVE  TurnInv'
  <2>1. Activating([Idle EXCEPT !.dirty = TRUE], q, 0, {}, "hits").at # "derive"
    BY DEF Activating, Idle
  <2>2. /\ mu = None /\ mu' = w /\ UNCHANGED <<pc, index>>
        /\ Goes(w, Activating([Idle EXCEPT !.dirty = TRUE], q, 0, {}, "hits"))
    BY <1>2 DEF Accepts, MayLock, sessVars
  <2> QED
    BY <1>0, <1>2, <2>1, <2>2, PresentTurn
<1>3. ASSUME NEW q \in Quest, Abandon(w, q) \/ TurnIn(w, q)
      PROVE  TurnInv'
  <2>1. /\ mu = None /\ mu' = w /\ UNCHANGED <<pc, index>>
        /\ Goes(w, [Idle EXCEPT !.at = "sweep", !.quest = q, !.dirty = TRUE])
        /\ Present(w)
    BY <1>3, ActPresent DEF Abandon, TurnIn, MayLock, sessVars
  <2> QED
    BY <1>0, <2>1, PresentTurn DEF Idle, Activates
<1>4. CASE GrantRefused(w) \/ Save(w)
  <2>1. Goes(w, Idle) /\ Present(w) /\ UNCHANGED <<pc, index, mu>>
    BY <1>4, LockPresent DEF GrantRefused, Save, sessVars
  <2> QED
    BY <2>1, PresentTurn DEF Idle, Activates
<1>5. CASE Unlock(w)
  <2>1. /\ mu = w /\ mu' = None /\ Present(w) /\ UNCHANGED <<pc, index>>
        /\ Goes(w, [Idle EXCEPT !.at = "save", !.snap = mem]) \/ Goes(w, Idle)
    BY <1>5, LockPresent DEF Unlock, sessVars
  <2>2. \A v \in Worker \ {w} : mu' = v <=> mu = v
    BY <1>0, <2>1
  <2> QED
    BY <2>1, <2>2, PresentTurn DEF Idle, Activates
<1>6. CASE GrantAccept(w)
  <2>1. op[w].quest \in Quest /\ Present(w)
    BY <1>6, Parts, LockPresent DEF GrantAccept, OpOK, OpFits
  <2> QED
    BY <1>2, <1>6, <2>1 DEF GrantAccept
<1>7. ASSUME NEW q \in Quest, Accept(w, q)
      PROVE  TurnInv'
  BY <1>2, <1>7, ActPresent DEF Accept
<1> QED
  BY <1>1, <1>3, <1>4, <1>5, <1>6, <1>7 DEF Service

LEMMA AdvanceTurn ==
  ASSUME TypeInv, TurnInv, Apart, NEW w \in Worker, Advance(w)
  PROVE  TurnInv'
<1>1. ASSUME NEW hits, Advances(w, hits)
      PROVE  TurnInv'
  <2>1. /\ mu = None /\ mu' = w /\ UNCHANGED <<pc, index>> /\ Present(w)
        /\ Goes(w, [Idle EXCEPT !.at = "hits", !.todo = hits])
    BY <1>1, ActPresent DEF Advances, MayLock, sessVars
  <2>2. \A v \in Worker \ {w} : mu' = v <=> mu = v
    BY <2>1, QuestAssumption DEF Worker
  <2> QED
    BY <2>1, <2>2, PresentTurn DEF Idle, Activates
<1>2. ASSUME NEW q \in Quest, NEW o \in Objective,
             \/ HitNothing(w, q, o) \/ HitCounts(w, q, o) \/ AdvanceStage(w, q, o)
             \/ AwaitTurnIn(w, q, o) \/ Complete(w, q, o)
      PROVE  TurnInv'
  <2> DEFINE st == mem.active[q].stage + 1
  <2>0. mu = w /\ op[w] \in Op /\ Present(w) /\ UNCHANGED <<mu, pc, index>> /\ op[w].at = "hits"
    BY <1>2, Parts, LockPresent DEF OpOK, Hit, HitNothing, HitCounts, AdvanceStage, AwaitTurnIn, Complete,
       sessVars
  <2>1. Rest(w, q, o).at = "hits" /\ Rest(w, q, o) \in Op
    BY <2>0 DEF Rest, Op
  <2>2. Activating(Rest(w, q, o), q, st, {}, "hits").at # "derive"
    <3> DEFINE r == Rest(w, q, o)
    <3> HIDE DEF r, st
    <3> QED
      BY <2>1 DEF Activating, r, Op
  <2> DEFINE idle == [op[w] EXCEPT !.todo = @ \ {<<q, o>>}]
             done == [Rest(w, q, o) EXCEPT !.at = "sweep", !.quest = q]
  <2>3. idle.at = "hits" /\ done.at = "sweep"
    BY <2>0, <2>1 DEF Op
  <2>4. \/ Goes(w, idle) \/ Goes(w, done) \/ Goes(w, Rest(w, q, o))
        \/ Goes(w, Activating(Rest(w, q, o), q, st, {}, "hits"))
    BY <1>2 DEF HitNothing, HitCounts, AdvanceStage, AwaitTurnIn, Complete
  <2> HIDE DEF idle, done, st
  <2> QED
    BY <2>0, <2>1, <2>2, <2>3, <2>4, PresentTurn
<1> QED
  BY <1>1, <1>2 DEF Advance, AdvanceMatching, AdvanceObjective

LEMMA SpawnerTurn ==
  ASSUME TypeInv, TurnInv, NEW w \in Worker, Spawner(w)
  PROVE  TurnInv'
<1>0. /\ op[w] \in Op /\ UNCHANGED <<mu, pc, index>> /\ TurnFits(w, op[w], mu)
      /\ op[w].at \in Activates \/ (op[w].at \in {"sweep", "despawn"} /\ mu = w)
  BY Parts DEF OpOK, OpFits, Spawner, ActivateAgain, Activate, SpawnAll, Record, ReleaseKey, Cleanup,
     Despawn, Activates, sessVars, TurnInv
<1>1. CASE ActivateAgain(w) \/ Record(w) \/ ReleaseKey(w) \/ Despawn(w)
  <2> DEFINE at == IF mu = w THEN "hits" ELSE "derive"
             o == [op[w] EXCEPT !.at = at, !.quest = None, !.stage = 0, !.hit = {}, !.ids = {}]
  <2>1. Goes(w, o)
    BY <1>1 DEF ActivateAgain, Record, ReleaseKey, Despawn, Back
  <2>2. o.at = at
    BY <1>0 DEF Op
  <2> HIDE DEF o
  <2>3. TurnFits(w, o, mu')
    BY <1>0, <2>2 DEF TurnFits, Activates
  <2> QED
    BY <1>0, <2>1, <2>3, GoesTurn
<1>2. CASE Activate(w) \/ SpawnAll(w)
  <2>1. PICK n : Goes(w, n) /\ n.at \in Activates
    <3>1. ASSUME Activate(w) PROVE \E n : Goes(w, n) /\ n.at \in Activates
      <4>1. Goes(w, [op[w] EXCEPT !.at = "spawn"])
        BY <3>1 DEF Activate
      <4>2. [op[w] EXCEPT !.at = "spawn"].at = "spawn"
        BY <1>0 DEF Op
      <4> QED
        BY <4>1, <4>2 DEF Activates
    <3>2. ASSUME SpawnAll(w) PROVE \E n : Goes(w, n) /\ n.at \in Activates
      <4> DEFINE ids(made) == {<<x, Fresh(x)>> : x \in made}
                 at(made) == IF ids(made) = {} THEN "release" ELSE "record"
                 n(made) == [op[w] EXCEPT !.ids = ids(made), !.at = at(made)]
      <4>1. PICK made : Goes(w, n(made))
        BY <3>2 DEF SpawnAll
      <4>2. at(made) \in Activates
        BY DEF Activates
      <4> HIDE DEF at, ids
      <4>3. n(made).at = at(made)
        BY <1>0 DEF Op
      <4> QED
        BY <4>1, <4>2, <4>3
    <3> QED
      BY <1>2, <3>1, <3>2
  <2>2. op[w].at \in Activates
    BY <1>2 DEF Activate, SpawnAll, Activates
  <2>3. TurnFits(w, n, mu')
    BY <1>0, <2>1, <2>2 DEF TurnFits, Activates
  <2> QED
    BY <1>0, <2>1, <2>3, GoesTurn
<1>3. CASE Cleanup(w)
  <2> DEFINE n == [op[w] EXCEPT !.ids = owned[op[w].quest], !.at = "despawn"]
  <2>1. Goes(w, n) /\ n.at = "despawn"
    BY <1>0, <1>3 DEF Cleanup, Op
  <2> HIDE DEF n
  <2>2. mu = w
    BY <1>0, <1>3 DEF Cleanup, Activates
  <2> QED
    BY <1>0, <2>1, <2>2, LockPresent, PresentTurn DEF Activates
<1> QED
  BY <1>1, <1>2, <1>3 DEF Spawner

LEMMA DeriveTurn ==
  ASSUME TypeInv, TurnInv, NEW s \in Login, Reactivate(s) \/ Derive(s) \/ Entered(s)
  PROVE  TurnInv'
<1>0. s \in Worker /\ op[s] \in Op /\ UNCHANGED <<mu, index>> /\ TurnFits(s, op[s], mu) /\ s # Tick
      /\ mu # s
  BY Parts, QuestAssumption DEF OpOK, OpFits, Locked, Activates, Reactivate, Derive, Entered, Worker, sessVars, TurnInv
<1>1. CASE Derive(s)
  <2>1. PICK t \in op[s].todo :
          Goes(s, Activating([op[s] EXCEPT !.todo = @ \ {t}], t[1], t[2], t[3], "derive"))
    BY <1>1 DEF Derive
  <2> DEFINE r == [op[s] EXCEPT !.todo = @ \ {t}]
             o == Activating(r, t[1], t[2], t[3], "derive")
  <2>2. r \in Op
    BY <1>0 DEF Op
  <2> HIDE DEF r
  <2>3. o.at \in {"claim", "derive"}
    BY <2>2 DEF Activating, Op
  <2>4. Goes(s, o)
    BY <2>1 DEF r
  <2> HIDE DEF o
  <2>5. pc[s] = "deriving"
    BY <1>0, <1>1 DEF Derive, TurnFits
  <2>6. TurnFits(s, o, mu')
    BY <1>0, <2>3, <2>5 DEF TurnFits, Activates
  <2>7. UNCHANGED <<pc, index>>
    BY <1>1 DEF Derive, sessVars
  <2> QED
    BY <1>0, <2>4, <2>6, <2>7, GoesTurn
<1>2. CASE Reactivate(s) \/ Entered(s)
  <2>1. \A r \in Login \ {s} : pc[r] \in Away
    BY <1>0, <1>2 DEF Reactivate, Entered, TurnInv, TurnFits, Away
  <2>2. op[Tick].at = "idle"
    BY <1>0, <1>2, <2>1, QuestAssumption DEF Reactivate, Entered, TurnInv, TurnFits, Away, Worker
  <2>3. /\ \A r \in Login \ {s} : pc'[r] = pc[r]
        /\ \A v \in Worker \ {s} : op'[v] = op[v]
        /\ (pc'[s] = "deriving" /\ op'[s].at = "derive") \/ (pc'[s] = "in" /\ op'[s].at = "idle")
    <3>1. CASE Reactivate(s)
      BY <1>0, <3>1, Parts DEF Reactivate, To, Goes, SessOK, OpOK, Idle
    <3>2. CASE Entered(s)
      BY <1>0, <3>2, Parts DEF Entered, To, Goes, SessOK, OpOK, Idle
    <3> QED
      BY <1>2, <3>1, <3>2
  <2>4. index = s
    BY <1>0, <1>2 DEF Reactivate, Entered, TurnInv, TurnFits, Here
  <2>5. \A v \in Worker : TurnFits(v, op[v], mu)'
    <3>1. TurnFits(s, op[s], mu)'
      BY <1>0, <2>3 DEF TurnFits, Activates
    <3>2. ASSUME NEW v \in Worker \ {s} PROVE TurnFits(v, op[v], mu)'
      BY <1>0, <2>1, <2>2, <2>3 DEF TurnInv, TurnFits, Away, Worker, Activates
    <3> QED
      BY <3>1, <3>2
  <2> QED
    BY <1>0, <2>1, <2>3, <2>4, <2>5 DEF TurnInv, Away, Here
<1> QED
  BY <1>1, <1>2 DEF Derive

(* A session moves while none of its operations is under way, nor one of   *)
(* the tick goroutine's unless it stays in the game.                       *)
LEMMA SessionTurn ==
  ASSUME TypeInv, TurnInv, Apart, NEW s \in Login, UNCHANGED <<op, mu>>,
         \/ Enter(s) \/ (\E r \in Login \ {s} : TakeOver(s, r))
         \/ Load(s) \/ Install(s) \/ Add(s)
         \/ Quit(s) \/ Reap(s) \/ CleanupPlayer(s) \/ DespawnLeft(s)
         \/ Persist(s) \/ DropState(s) \/ Forget(s)
  PROVE  TurnInv'
<1>0. ~ \E r \in Login \ {s} : TakeOver(s, r)
  BY DEF TakeOver, Apart
<1>1. /\ \A r \in Login \ {s} : pc[r] \in Away /\ pc'[r] = pc[r]
      /\ pc[s] \notin {"added", "deriving"}
      /\ pc'[s] \notin {"deriving", "in", "scrub", "scrubbed"}
      /\ index' = IF pc'[s] \in Here THEN s ELSE IF pc[s] = "in" THEN None ELSE index
  BY <1>0, Parts DEF SessOK, Enter, Load, Install, Add, Quit, Reap, CleanupPlayer, DespawnLeft,
     Persist, DropState, Forget, To, Alone, Apart, TurnInv, Away, Here
<1>2. op[s].at = "idle" /\ op[Tick].at = "idle"
  <2>1. pc[s] # "in" => op[s].at = "idle" /\ op[Tick].at = "idle"
    BY <1>1, QuestAssumption DEF TurnInv, TurnFits, Worker, Away
  <2>2. pc[s] = "in" => op[s].at = "idle" /\ op[Tick].at = "idle"
    BY <1>0 DEF Enter, Load, Install, Add, Quit, Reap, CleanupPlayer, DespawnLeft,
     Persist, DropState, Forget, Apart, Undisturbed
  <2> QED
    BY <2>1, <2>2
<1>3. \A w \in Worker : TurnFits(w, op[w], mu)'
  BY <1>1, <1>2 DEF TurnInv, TurnFits, Worker, Away
<1>4. \A r \in Login : (index' = r <=> pc'[r] \in Here) /\ pc'[r] \notin {"scrub", "scrubbed"}
  BY <1>1, QuestAssumption DEF TurnInv, Away, Here
<1> QED
  BY <1>1, <1>3, <1>4 DEF TurnInv

LEMMA RestTurn ==
  ASSUME TypeInv, TurnInv, (\E x \in world : Dies(x)) \/ Autosave \/ Crash \/ UNCHANGED vars
  PROVE  TurnInv'
<1>1. CASE Crash
  BY <1>1, Parts, QuestAssumption DEF Crash, TurnInv, TurnFits, Idle, Activates, Away, Here, Worker, SessOK
<1>2. CASE (\E x \in world : Dies(x)) \/ Autosave \/ UNCHANGED vars
  BY <1>2 DEF Dies, Autosave, vars, sessVars, TurnInv, TurnFits
<1> QED
  BY <1>1, <1>2

LEMMA NextTurn == ASSUME TypeInv, TurnInv, Apart, [Next]_vars PROVE TurnInv'
<1>1. ASSUME NEW w \in Worker, Service(w) \/ Advance(w) \/ Spawner(w)
      PROVE  TurnInv'
  BY <1>1, ServiceTurn, AdvanceTurn, SpawnerTurn
<1>2. ASSUME NEW s \in Login, Session(s)
      PROVE  TurnInv'
  <2>1. CASE Reactivate(s) \/ Derive(s) \/ Entered(s)
    BY <2>1, DeriveTurn
  <2>2. CASE \/ Enter(s) \/ (\E r \in Login \ {s} : TakeOver(s, r))
             \/ Load(s) \/ Install(s) \/ Add(s)
             \/ Quit(s) \/ Reap(s) \/ CleanupPlayer(s) \/ DespawnLeft(s)
             \/ Persist(s) \/ DropState(s) \/ Forget(s)
    <3>1. UNCHANGED <<op, mu>>
      BY <2>2 DEF Enter, TakeOver, Load, Install, Add, Quit, Reap, CleanupPlayer, DespawnLeft,
         Persist, DropState, Forget
    <3> QED
      BY <2>2, <3>1, SessionTurn
  <2> QED
    BY <1>2, <2>1, <2>2 DEF Session
<1> QED
  BY <1>1, <1>2, RestTurn DEF Next

(* At most one worker is activating, sweeping or holds the mutex.          *)
Busy(w) == op[w].at \in Locked \cup {"derive"}

LEMMA OneBusy ==
  ASSUME TypeInv, TurnInv, NEW w \in Worker, NEW v \in Worker, Busy(w), Busy(v)
  PROVE  w = v
<1>1. \A u \in Worker : Busy(u) => mu = u \/ (u # Tick /\ pc[u] = "deriving")
  BY Parts DEF TurnInv, TurnFits, OpOK, OpFits, Busy, Locked, Activates
<1>2. \A u \in Worker : u # Tick => u \in Login
  BY DEF Worker
<1>3. \A u \in Worker : mu = u => Present(u)
  BY LockPresent
<1> QED
  BY <1>1, <1>2, <1>3 DEF Present, TurnInv, Away

------------------------------------------------------------------------------
(* What has been paid                                                      *)

Calm == env \subseteq {"again", "broken"}

Recorded == IF file = None THEN NoProgress ELSE file
Playing  == Here \cup {"add", "cleanup", "despawn", "persist", "drop"}
Unkept   == {"in", "cleanup", "despawn", "persist"}

(* The rewards in the record are those of the quests of t.                 *)
PaidFor(t) ==
  \A q \in Quest \ Repeatable :
    /\ purse[q] <= 1 /\ (purse[q] = 1 => q \in t.done)
    /\ q \in TurnInQuest /\ q \in t.done => purse[q] = 1

(* The State in memory is on disk, or is about to be; while nobody plays,  *)
(* it has been dropped or is the one on disk.                              *)
Unsaved == \E w \in Worker : op[w].at = "save" \/ (mu = w /\ op[w].dirty)
Accounted ==
  IF \E s \in Login : pc[s] \in Playing
  THEN PaidFor(mem) /\ (mem = Recorded \/ Unsaved)
  ELSE PaidFor(Recorded) /\ mem \in {NoProgress, Recorded}

RecordInv ==
  /\ \A w \in Worker : op[w].at = "save" => op[w].snap = mem
  /\ \A s \in Login : /\ pc[s] = "install" => loaded[s] = file
                      /\ pc[s] \notin Away \cup {"load"} => named
  /\ op[Tick].at = "idle"
  /\ Accounted
  /\ (\A s \in Login : pc[s] \notin Unkept) => kept = purse

PaidInv == TypeInv /\ (Calm => TurnInv /\ RecordInv)

LEMMA InitPaid == Init => PaidInv
<1> SUFFICES ASSUME Init PROVE PaidInv
  OBVIOUS
<1>1. RecordInv
  BY QuestAssumption DEF Init, RecordInv, Accounted, PaidFor, Recorded, NoProgress, Playing, Here, Idle, Worker,
     Away, Unkept
<1> QED
  BY <1>1, InitTypes, InitTurn DEF PaidInv

LEMMA CalmApart == Calm => Apart /\ env \cap {"saves", "gap", "overlap", "disk", "crash"} = {}
  BY DEF Calm, Apart

(* The tick goroutine has nothing to do.                                   *)
LEMMA CalmWorker ==
  ASSUME Calm, RecordInv, NEW w \in Worker, Service(w) \/ Advance(w) \/ Spawner(w)
  PROVE  w \in Login /\ w # Tick
<1>1. ~MayAct(Tick)
  BY CalmApart DEF MayAct
<1>2. MayAct(w) \/ op[w].at # "idle"
  <2>1. CASE Service(w)
    BY <2>1 DEF Service, Accept, Grant, Abandon, TurnIn, GrantAccept, GrantRefused, Unlock, Save
  <2>2. CASE Advance(w)
    <3>1. CASE AdvanceMatching(w) \/ AdvanceObjective(w)
      BY <3>1 DEF AdvanceMatching, AdvanceObjective, Advances
    <3>2. ASSUME NEW q \in Quest, NEW o \in Objective,
                 \/ HitNothing(w, q, o) \/ HitCounts(w, q, o) \/ AdvanceStage(w, q, o)
                 \/ AwaitTurnIn(w, q, o) \/ Complete(w, q, o)
          PROVE  op[w].at # "idle"
      <4>1. Hit(w, q, o)
        BY <3>2 DEF HitNothing, HitCounts, AdvanceStage, AwaitTurnIn, Complete
      <4> QED
        BY <4>1 DEF Hit
    <3> QED
      BY <2>2, <3>1, <3>2 DEF Advance
  <2>3. CASE Spawner(w)
    BY <2>3 DEF Spawner, ActivateAgain, Activate, SpawnAll, Record, ReleaseKey, Cleanup, Despawn
  <2> QED
    BY <2>1, <2>2, <2>3
<1>3. w # Tick
  BY <1>1, <1>2 DEF RecordInv
<1> QED
  BY <1>3 DEF Worker

(* The others do nothing while a session is in the game.                   *)
LEMMA OthersIdle ==
  ASSUME TypeInv, TurnInv, RecordInv, NEW s \in Login, pc[s] \notin Away
  PROVE  \A w \in Worker \ {s} : op[w].at = "idle"
  BY DEF TurnInv, TurnFits, RecordInv, Worker, Away

(* An operation that goes on without a change of the State.                *)
LEMMA GoesRecord ==
  ASSUME TypeInv, RecordInv, NEW w \in Login, w # Tick, NEW o, Goes(w, o),
         UNCHANGED <<mem, file, named, pc, loaded, purse, kept>>,
         o.at # "save", op[w].at # "save", mu = w /\ op[w].dirty => mu' = w /\ o.dirty,
         \A v \in Worker \ {w} : mu' = v <=> mu = v
  PROVE  RecordInv'
<1>0. w \in Worker
  BY DEF Worker
<1>1. \A v \in Worker : op'[v] = IF v = w THEN o ELSE op[v]
  BY Parts DEF Goes, OpOK
<1>2. Unsaved => Unsaved'
  BY <1>0, <1>1 DEF Unsaved
<1>3. Accounted'
  BY <1>2 DEF RecordInv, Accounted, PaidFor, Recorded
<1> QED
  BY <1>1, <1>3, QuestAssumption DEF RecordInv, Worker

(* One that changes it, and will save it.                                  *)
LEMMA ChangesRecord ==
  ASSUME TypeInv, RecordInv, NEW w \in Login, w # Tick, NEW o, Goes(w, o), pc[w] = "in",
         UNCHANGED <<file, named, pc, loaded, kept>>, PaidFor(mem)',
         o.at # "save", mu' = w, o.dirty, \A v \in Worker : op[v].at # "save"
  PROVE  RecordInv'
<1>0. w \in Worker
  BY DEF Worker
<1>1. \A v \in Worker : op'[v] = IF v = w THEN o ELSE op[v]
  BY Parts DEF Goes, OpOK
<1>2. Unsaved'
  BY <1>0, <1>1 DEF Unsaved
<1>3. Accounted'
  BY <1>2 DEF Accounted, Playing, Here
<1> QED
  BY <1>1, <1>3, QuestAssumption DEF RecordInv, Worker, Unkept

LEMMA PaidHolds ==
  ASSUME PaidFor(mem), NEW q \in Quest, NEW p, Holds(q, p), UNCHANGED purse, MemOK
  PROVE  PaidFor(mem)'
<1>1. mem'.done = mem.done
  BY DEF Holds, MemOK, State
<1> QED
  BY <1>1 DEF PaidFor

(* What is not repeatable has not been paid while it is active.            *)
LEMMA PaidCompleted ==
  ASSUME PaidFor(mem), MemOK, PaidOK, NEW q \in Quest, Active(q), Completed(q), NEW player \in BOOLEAN,
         Dispatch(q, player), q \in TurnInQuest => player /\ index # None
  PROVE  PaidFor(mem)'
<1>1. mem'.done = mem.done \cup {q}
  BY DEF Completed, MemOK, State
<1>2. q \notin Repeatable => q \notin mem.done /\ purse[q] # 1
  BY DEF MemOK, StateOK, Active, PaidFor
<1>3. \A r \in Quest : purse'[r] = purse[r] \/ (r = q /\ purse'[r] = purse[r] + 1)
  BY DEF Dispatch, PaidOK
<1>4. q \notin Repeatable => purse[q] = 0 /\ purse'[q] \in {0, 1} /\ (q \in TurnInQuest => purse'[q] = 1)
  <2>1. q \notin Repeatable => purse[q] = 0
    BY <1>2 DEF PaidFor, PaidOK
  <2>2. q \in TurnInQuest /\ purse[q] = 0 => purse'[q] = 1
    BY DEF Dispatch, PaidOK
  <2> QED
    BY <1>3, <2>1, <2>2
<1> QED
  BY <1>1, <1>2, <1>3, <1>4 DEF PaidFor

LEMMA ServicePaid ==
  ASSUME TypeInv, TurnInv, RecordInv, Calm, NEW w \in Worker, Service(w)
  PROVE  RecordInv'
<1>0. /\ w \in Login /\ w # Tick /\ w # None /\ Apart
      /\ \A v \in Worker : v # None
      /\ "saves" \notin env /\ "disk" \notin env
  BY CalmWorker, CalmApart, QuestAssumption DEF Worker
<1>1. MayLock => mu = None /\ \A v \in Worker : op[v].at # "save"
  BY <1>0 DEF MayLock
<1>2. MayAct(w) \/ mu = w \/ op[w].at \in {"grant", "save"} => pc[w] = "in"
  BY <1>0, LockPresent DEF MayAct, Present
<1>3. pc[w] = "in" => PaidFor(mem) /\ index = w
  BY <1>0 DEF RecordInv, Accounted, Playing, Here, TurnInv
<1>4. ASSUME NEW q \in Quest, Grant(w, q)
      PROVE  RecordInv'
  <2>1. /\ Goes(w, [Idle EXCEPT !.at = "grant", !.quest = q]) /\ op[w].at = "idle"
        /\ UNCHANGED <<mem, file, named, pc, loaded, purse, kept, mu>>
    BY <1>4 DEF Grant, MayAct, svcVars, storeVars, sessVars, paidVars
  <2>2. mu # w
    BY <2>1, Parts DEF OpOK, OpFits, Locked, Activates
  <2> QED
    BY <1>0, <2>1, <2>2, GoesRecord DEF Idle
<1>5. CASE GrantRefused(w)
  <2>1. /\ Goes(w, Idle) /\ op[w].at = "grant"
        /\ UNCHANGED <<mem, file, named, pc, loaded, purse, kept, mu>>
    BY <1>5 DEF GrantRefused, svcVars, storeVars, sessVars, paidVars
  <2>2. mu # w
    BY <2>1, Parts DEF OpOK, OpFits, Locked, Activates
  <2> QED
    BY <1>0, <2>1, <2>2, GoesRecord DEF Idle
<1>6. ASSUME NEW q \in Quest, Accepts(w, q), pc[w] = "in"
      PROVE  RecordInv'
  <2> DEFINE o == Activating([Idle EXCEPT !.dirty = TRUE], q, 0, {}, "hits")
  <2>1. o.at # "save" /\ o.dirty
    BY DEF Activating, Idle
  <2> HIDE DEF o
  <2>2. /\ Goes(w, o) /\ mu' = w /\ Holds(q, Progress(0, {}, FALSE)) /\ MayLock
        /\ UNCHANGED <<file, named, pc, loaded, kept, purse>>
    BY <1>6 DEF Accepts, storeVars, sessVars, paidVars, o
  <2>3. PaidFor(mem)'
    BY <1>3, <1>6, <2>2, Parts, PaidHolds
  <2> QED
    BY <1>0, <1>1, <1>6, <2>1, <2>2, <2>3, ChangesRecord
<1>7. ASSUME NEW q \in Quest, Abandon(w, q) \/ TurnIn(w, q)
      PROVE  RecordInv'
  <2> DEFINE o == [Idle EXCEPT !.at = "sweep", !.quest = q, !.dirty = TRUE]
  <2>1. o.at # "save" /\ o.dirty
    BY DEF Idle
  <2> HIDE DEF o
  <2>2. /\ Goes(w, o) /\ mu' = w /\ MayLock /\ MayAct(w) /\ Active(q)
        /\ UNCHANGED <<file, named, pc, loaded, kept>>
    BY <1>7 DEF Abandon, TurnIn, storeVars, sessVars, paidVars, o
  <2>3. PaidFor(mem)'
    <3>1. CASE Abandon(w, q)
      BY <1>2, <1>3, <2>2, <3>1, Parts, PaidHolds DEF Abandon, paidVars
    <3>2. CASE TurnIn(w, q)
      BY <1>0, <1>2, <1>3, <2>2, <3>2, Parts, PaidCompleted DEF TurnIn
    <3> QED
      BY <1>7, <3>1, <3>2
  <2> QED
    BY <1>0, <1>1, <1>2, <2>1, <2>2, <2>3, ChangesRecord
<1>8. CASE GrantAccept(w)
  <2>1. op[w].quest \in Quest /\ pc[w] = "in"
    BY <1>2, <1>8, Parts DEF GrantAccept, OpOK, OpFits
  <2> QED
    BY <1>6, <1>8, <2>1 DEF GrantAccept
<1>9. ASSUME NEW q \in Quest, Accept(w, q)
      PROVE  RecordInv'
  BY <1>2, <1>6, <1>9 DEF Accept
<1>10. CASE Unlock(w) \/ Save(w)
  <2>1. /\ pc[w] = "in" /\ w \in Worker /\ named /\ UNCHANGED <<mem, named, pc, loaded, purse, kept>>
        /\ \A v \in Worker \ {w} : op[v].at = "idle"
    BY <1>0, <1>2, <1>10, OthersIdle DEF Unlock, Save, svcVars, storeVars, sessVars, paidVars, RecordInv, Away
  <2>2. /\ \A v \in Worker \ {w} : op'[v].at = "idle"
        /\ op'[Tick].at = "idle"
    BY <1>0, <1>10, <2>1, Parts DEF Unlock, Save, Goes, OpOK, RecordInv, Worker
  <2>3. PaidFor(mem)' /\ PaidFor(mem) /\ (mem = Recorded \/ op[w].at = "save" \/ (mu = w /\ op[w].dirty))
    <3>1. \A v \in Worker \ {w} : mu # v
      BY <2>1, Parts DEF OpOK, OpFits, Locked, Activates
    <3> QED
      BY <1>0, <1>3, <2>1, <3>1 DEF RecordInv, Accounted, Playing, Here, Unsaved, PaidFor
  <2>4. /\ op'[w].at = "save" => op'[w].snap = mem
        /\ op'[w].at = "save" \/ mem = Recorded'
    <3>1. CASE Unlock(w)
      <4>1. /\ UNCHANGED file /\ op[w].at = "hits" /\ mu = w
            /\ op'[w] = IF op[w].dirty THEN [Idle EXCEPT !.at = "save", !.snap = mem] ELSE Idle
        BY <2>1, <3>1, Parts DEF Unlock, Goes, OpOK, storeVars
      <4> QED
        BY <2>3, <4>1 DEF Recorded, Idle
    <3>2. CASE Save(w)
      <4>1. op[w].at = "save" /\ file' = op[w].snap /\ op'[w] = Idle
        BY <1>0, <2>1, <3>2, Parts DEF Save, Goes, OpOK
      <4>2. file' = mem /\ mem # None
        BY <2>1, <4>1, Parts, QuestAssumption DEF RecordInv, MemOK
      <4> QED
        BY <2>1, <4>1, <4>2 DEF Recorded, Idle
    <3> QED
      BY <1>10, <3>1, <3>2
  <2>5. Accounted'
    BY <1>0, <2>1, <2>3, <2>4 DEF Accounted, Playing, Here, Unsaved
  <2>6. \A s \in Login \ {w} : pc[s] \in Away
    BY <1>0, <2>1 DEF TurnInv, Away
  <2> QED
    BY <2>1, <2>2, <2>4, <2>5, <2>6 DEF RecordInv, Away, Unkept
<1> QED
  BY <1>4, <1>5, <1>7, <1>8, <1>9, <1>10 DEF Service

LEMMA AdvancePaid ==
  ASSUME TypeInv, TurnInv, RecordInv, Calm, NEW w \in Worker, Advance(w)
  PROVE  RecordInv'
<1>0. w \in Login /\ w # Tick /\ \A v \in Worker : v # None
  BY CalmWorker, QuestAssumption DEF Worker
<1>1. ASSUME NEW hits, Advances(w, hits)
      PROVE  RecordInv'
  <2>1. /\ Goes(w, [Idle EXCEPT !.at = "hits", !.todo = hits]) /\ op[w].at = "idle"
        /\ UNCHANGED <<mem, file, named, pc, loaded, purse, kept>> /\ mu = None /\ mu' = w
    BY <1>1 DEF Advances, MayAct, MayLock, svcVars, storeVars, sessVars, paidVars
  <2> QED
    BY <1>0, <2>1, GoesRecord DEF Idle
<1>2. ASSUME NEW q \in Quest, NEW o \in Objective,
             \/ HitNothing(w, q, o) \/ HitCounts(w, q, o) \/ AdvanceStage(w, q, o)
             \/ AwaitTurnIn(w, q, o) \/ Complete(w, q, o)
      PROVE  RecordInv'
  <2> DEFINE st == mem.active[q].stage + 1
             idle == [op[w] EXCEPT !.todo = @ \ {<<q, o>>}]
             done == [Rest(w, q, o) EXCEPT !.at = "sweep", !.quest = q]
             next == Activating(Rest(w, q, o), q, st, {}, "hits")
  <2>0. /\ mu = w /\ op[w] \in Op /\ UNCHANGED <<mu, file, named, pc, loaded, kept>> /\ op[w].at = "hits"
        /\ pc[w] = "in" /\ index = w
    BY <1>0, <1>2, Parts, LockPresent DEF Present, OpOK, Hit, HitNothing, HitCounts, AdvanceStage,
       AwaitTurnIn, Complete, sessVars, storeVars, paidVars, TurnInv, Here
  <2>1. /\ PaidFor(mem) /\ \A v \in Worker : op[v].at # "save"
    BY <1>0, <2>0, OthersIdle DEF RecordInv, Accounted, Playing, Here, Away
  <2>2. Rest(w, q, o).at = "hits" /\ Rest(w, q, o).dirty /\ Rest(w, q, o) \in Op
    BY <2>0 DEF Rest, Op
  <2>3. /\ idle.at = "hits" /\ (op[w].dirty => idle.dirty)
        /\ done.at = "sweep" /\ done.dirty
    BY <2>0, <2>2 DEF Op
  <2>4. next.at # "save" /\ next.dirty
    <3> DEFINE r == Rest(w, q, o)
    <3>1. Activating(r, q, st, {}, "hits") = next
      OBVIOUS
    <3> HIDE DEF r, st, next
    <3>2. r.at = "hits" /\ r.dirty /\ r \in Op
      BY <2>2 DEF r
    <3> QED
      BY <3>1, <3>2 DEF Activating, Op
  <2>5. CASE HitNothing(w, q, o)
    <3>1. Goes(w, idle) /\ UNCHANGED <<mem, purse>>
      BY <2>5 DEF HitNothing, svcVars, paidVars
    <3> HIDE DEF idle
    <3> QED
      BY <1>0, <2>0, <2>3, <3>1, GoesRecord
  <2>6. CASE ~HitNothing(w, q, o)
    <3>1. PICK n : Goes(w, n) /\ n.at # "save" /\ n.dirty
      <4>1. Goes(w, done) \/ Goes(w, Rest(w, q, o)) \/ Goes(w, next)
        BY <1>2, <2>6 DEF HitCounts, AdvanceStage, AwaitTurnIn, Complete
      <4> HIDE DEF done, next
      <4> QED
        BY <2>2, <2>3, <2>4, <4>1
    <3>2. PaidFor(mem)'
      <4>1. CASE HitCounts(w, q, o) \/ AdvanceStage(w, q, o) \/ AwaitTurnIn(w, q, o)
        <5>1. (\E p : Holds(q, p)) /\ UNCHANGED purse
          BY <4>1 DEF HitCounts, AdvanceStage, AwaitTurnIn, paidVars
        <5> QED
          BY <2>1, <5>1, Parts, PaidHolds
      <4>2. CASE Complete(w, q, o)
        <5>1. Completed(q) /\ Dispatch(q, cached) /\ q \notin TurnInQuest /\ Active(q)
          BY <4>2 DEF Complete, Counts
        <5>2. cached \in BOOLEAN
          BY Parts DEF MemOK
        <5> QED
          BY <2>1, <5>1, <5>2, Parts, PaidCompleted
      <4> QED
        BY <1>2, <2>6, <4>1, <4>2
    <3> QED
      BY <1>0, <2>0, <2>1, <3>1, <3>2, ChangesRecord
  <2> QED
    BY <2>5, <2>6
<1> QED
  BY <1>1, <1>2 DEF Advance, AdvanceMatching, AdvanceObjective

LEMMA SpawnerPaid ==
  ASSUME TypeInv, TurnInv, RecordInv, Calm, NEW w \in Worker, Spawner(w)
  PROVE  RecordInv'
<1>0. /\ w \in Login /\ w # Tick /\ op[w] \in Op /\ op[w].at # "save"
      /\ UNCHANGED <<mem, mu, file, named, pc, loaded, purse, kept>>
  BY CalmWorker, Parts DEF OpOK, Spawner, ActivateAgain, Activate, SpawnAll, Record, ReleaseKey, Cleanup,
     Despawn, svcVars, storeVars, sessVars, paidVars
<1>1. PICK n : Goes(w, n) /\ n.at # "save" /\ (op[w].dirty => n.dirty)
  <2>1. CASE ActivateAgain(w) \/ Record(w) \/ ReleaseKey(w) \/ Despawn(w)
    <3> DEFINE at == IF mu = w THEN "hits" ELSE "derive"
               n == [op[w] EXCEPT !.at = at, !.quest = None, !.stage = 0, !.hit = {}, !.ids = {}]
    <3>1. Goes(w, n)
      BY <2>1 DEF ActivateAgain, Record, ReleaseKey, Despawn, Back
    <3>2. n.at = at /\ (op[w].dirty => n.dirty)
      BY <1>0 DEF Op
    <3> HIDE DEF n
    <3> QED
      BY <3>1, <3>2
  <2>2. CASE Activate(w)
    <3> DEFINE n == [op[w] EXCEPT !.at = "spawn"]
    <3>1. Goes(w, n) /\ n.at = "spawn" /\ (op[w].dirty => n.dirty)
      BY <1>0, <2>2 DEF Activate, Op
    <3> HIDE DEF n
    <3> QED
      BY <3>1
  <2>3. CASE SpawnAll(w)
    <3> DEFINE ids(made) == {<<x, Fresh(x)>> : x \in made}
               at(made) == IF ids(made) = {} THEN "release" ELSE "record"
               n(made) == [op[w] EXCEPT !.ids = ids(made), !.at = at(made)]
    <3>1. PICK made : Goes(w, n(made))
      BY <2>3 DEF SpawnAll
    <3>2. at(made) # "save"
      OBVIOUS
    <3> HIDE DEF at, ids
    <3>3. n(made).at = at(made) /\ (op[w].dirty => n(made).dirty)
      BY <1>0 DEF Op
    <3> QED
      BY <3>1, <3>2, <3>3
  <2>4. CASE Cleanup(w)
    <3> DEFINE n == [op[w] EXCEPT !.ids = owned[op[w].quest], !.at = "despawn"]
    <3>1. Goes(w, n) /\ n.at = "despawn" /\ (op[w].dirty => n.dirty)
      BY <1>0, <2>4 DEF Cleanup, Op
    <3> HIDE DEF n
    <3> QED
      BY <3>1
  <2> QED
    BY <2>1, <2>2, <2>3, <2>4 DEF Spawner
<1> QED
  BY <1>0, <1>1, GoesRecord

(* The login derives what is active, and is in the game.                   *)
LEMMA DerivePaid ==
  ASSUME TypeInv, TurnInv, RecordInv, NEW s \in Login, Reactivate(s) \/ Derive(s) \/ Entered(s)
  PROVE  RecordInv'
<1>0. /\ s \in Worker /\ s # Tick /\ op[s] \in Op /\ mu # s /\ op[s].at # "save"
      /\ UNCHANGED <<mem, mu, file, named, loaded, purse, kept>> /\ pc[s] \in {"added", "deriving"}
  BY Parts, QuestAssumption DEF OpOK, OpFits, Locked, Activates, Reactivate, Derive, Entered, Worker, sessVars,
     svcVars, storeVars, paidVars, TurnInv, TurnFits
<1>1. CASE Derive(s)
  <2>1. PICK t \in op[s].todo :
          Goes(s, Activating([op[s] EXCEPT !.todo = @ \ {t}], t[1], t[2], t[3], "derive"))
    BY <1>1 DEF Derive
  <2> DEFINE r == [op[s] EXCEPT !.todo = @ \ {t}]
             o == Activating(r, t[1], t[2], t[3], "derive")
  <2>2. r \in Op
    BY <1>0 DEF Op
  <2> HIDE DEF r
  <2>3. o.at # "save"
    BY <2>2 DEF Activating, Op
  <2>4. Goes(s, o)
    BY <2>1 DEF r
  <2> HIDE DEF o
  <2>5. UNCHANGED pc
    BY <1>1 DEF Derive, sessVars
  <2> QED
    BY <1>0, <2>3, <2>4, <2>5, GoesRecord
<1>2. CASE Reactivate(s) \/ Entered(s)
  <2>1. /\ \A r \in Login \ {s} : pc'[r] = pc[r]
        /\ \A v \in Worker \ {s} : op'[v] = op[v]
        /\ pc'[s] \in {"deriving", "in"} /\ op'[s].at # "save"
    <3>1. CASE Reactivate(s)
      BY <1>0, <3>1, Parts DEF Reactivate, To, Goes, SessOK, OpOK, Idle
    <3>2. CASE Entered(s)
      BY <1>0, <3>2, Parts DEF Entered, To, Goes, SessOK, OpOK, Idle
    <3> QED
      BY <1>2, <3>1, <3>2
  <2>2. Unsaved => Unsaved'
    BY <1>0, <2>1 DEF Unsaved
  <2>3. Accounted'
    BY <1>0, <2>1, <2>2 DEF RecordInv, Accounted, PaidFor, Recorded, Playing, Here
  <2>4. kept = purse
    BY <1>0 DEF RecordInv, TurnInv, Away, Unkept
  <2>5. Tick \in Worker
    BY DEF Worker
  <2> QED
    BY <1>0, <2>1, <2>3, <2>4, <2>5 DEF RecordInv, Away
<1> QED
  BY <1>1, <1>2

(* A session moves; nobody operates.                                       *)
LEMMA SessionPaid ==
  ASSUME TypeInv, TurnInv, RecordInv, Calm, NEW s \in Login,
         \/ Enter(s) \/ (\E r \in Login \ {s} : TakeOver(s, r))
         \/ Load(s) \/ Install(s) \/ Add(s)
         \/ Quit(s) \/ Reap(s) \/ CleanupPlayer(s) \/ DespawnLeft(s)
         \/ Persist(s) \/ DropState(s) \/ Forget(s)
  PROVE  RecordInv'
<1>0. /\ ~ \E r \in Login \ {s} : TakeOver(s, r)
      /\ UNCHANGED <<op, mu, file>>
  BY CalmApart DEF TakeOver, Enter, Load, Install, Add, Quit, Reap, CleanupPlayer, DespawnLeft, Persist, DropState,
     Forget, storeVars
<1>1. /\ \A r \in Login \ {s} : pc[r] \in Away /\ pc'[r] = pc[r]
      /\ pc'[s] # pc[s] /\ pc'[s] \in PcAt
  BY <1>0, CalmApart, Parts DEF SessOK, Enter, Load, Install, Add, Quit, Reap, CleanupPlayer, DespawnLeft,
     Persist, DropState, Forget, To, Alone, TurnInv, Away, PcAt
<1>2. \A w \in Worker : op[w].at = "idle" /\ mu # w
  <2>1. op[s].at = "idle"
    BY <1>0, QuestAssumption DEF TurnInv, TurnFits, Worker, Enter, Load, Install, Add, Quit, Reap, CleanupPlayer,
       DespawnLeft, Persist, DropState, Forget
  <2>2. \A w \in Worker : op[w].at = "idle"
    BY <1>1, <2>1 DEF TurnInv, TurnFits, RecordInv, Worker, Away
  <2> QED
    BY <2>2, Parts DEF OpOK, OpFits, Locked, Activates
<1>3. ~Unsaved
  BY <1>2 DEF Unsaved
<1>4. CASE Enter(s)
  <2>1. purse' = purse
    BY <1>1, <1>4 DEF Enter, RecordInv, Away, Unkept
  <2>2. UNCHANGED <<mem, named, loaded, kept>> /\ pc'[s] = "load" /\ pc[s] = "out"
    BY <1>4, Parts DEF Enter, svcVars, storeVars, To, SessOK
  <2>3. Accounted'
    BY <1>0, <1>1, <2>1, <2>2 DEF RecordInv, Accounted, PaidFor, Recorded, Playing, Here, Away
  <2> QED
    BY <1>0, <1>1, <2>1, <2>2, <2>3 DEF RecordInv, Away, Unkept
<1>5. CASE Load(s) \/ Install(s)
  <2>1. UNCHANGED <<purse, kept>> /\ (\A r \in Login : pc[r] \notin Playing)
    BY <1>1, <1>5 DEF Load, Install, paidVars, Playing, Here, Away
  <2>2. PaidFor(Recorded) /\ mem \in {NoProgress, Recorded}
    BY <2>1 DEF RecordInv, Accounted
  <2>3. CASE Load(s)
    <3>1. /\ pc'[s] = "install" /\ named' /\ loaded' = [loaded EXCEPT ![s] = file] /\ UNCHANGED mem
      <4>1. ~Saving /\ "disk" \notin env
        BY <1>2, CalmApart DEF Saving
      <4> QED
        BY <2>3, <4>1, Parts DEF Load, To, SessOK, svcVars
    <3>2. loaded'[s] = file
      BY <3>1, Parts DEF SessOK
    <3>3. Accounted'
      BY <1>0, <1>1, <2>1, <2>2, <3>1 DEF Accounted, PaidFor, Recorded, Playing, Here, Away
    <3> QED
      BY <1>0, <1>1, <1>2, <2>1, <2>3, <3>1, <3>2, <3>3 DEF RecordInv, Away, Unkept, Load
  <2>4. CASE Install(s)
    <3>1. pc'[s] = "add" /\ UNCHANGED named /\ mem' = Recorded /\ named
      BY <2>2, <2>4, Parts DEF Install, To, SessOK, storeVars, RecordInv, Recorded, Away
    <3>2. Accounted'
      BY <1>0, <2>1, <2>2, <3>1 DEF Accounted, PaidFor, Recorded, Playing
    <3> QED
      BY <1>0, <1>1, <1>2, <2>1, <2>4, <3>1, <3>2 DEF RecordInv, Away, Unkept, Install
  <2> QED
    BY <1>5, <2>3, <2>4
<1>6. CASE Add(s) \/ Quit(s) \/ Reap(s) \/ CleanupPlayer(s) \/ DespawnLeft(s)
  <2>1. /\ UNCHANGED <<mem, named, loaded, purse, kept>>
        /\ pc[s] \in Playing /\ pc'[s] \in Playing \ {"drop"}
        /\ (pc[s] = "add" /\ pc'[s] = "added") \/ pc'[s] \in Unkept
    BY <1>6, Parts DEF Add, Quit, Reap, CleanupPlayer, DespawnLeft, svcVars, storeVars, paidVars, To, SessOK,
       Playing, Here, Unkept, TurnInv
  <2>2. Accounted'
    BY <1>0, <1>1, <1>3, <2>1 DEF RecordInv, Accounted, PaidFor, Recorded
  <2>3. (\A r \in Login : pc'[r] \notin Unkept) => kept' = purse'
    BY <1>1, <2>1 DEF RecordInv, Away, Unkept
  <2>4. named /\ pc'[s] # "install"
    BY <2>1 DEF RecordInv, Playing, Here, Away
  <2> QED
    BY <1>0, <1>1, <1>2, <2>1, <2>2, <2>3, <2>4 DEF RecordInv, Away
<1>7. CASE Persist(s) \/ DropState(s) \/ Forget(s)
  <2>1. /\ UNCHANGED <<purse, loaded>> /\ kept' = purse /\ pc'[s] \in {"drop", "forget", "gone"}
        /\ named' = named \/ pc'[s] = "gone"
    BY <1>1, <1>7, Parts DEF Persist, DropState, Forget, paidVars, storeVars, To, SessOK, RecordInv, Away, Unkept
  <2>2. Accounted'
    <3>1. CASE Persist(s) \/ DropState(s)
      <4>1. PaidFor(mem) /\ mem = Recorded /\ mem' \in {mem, NoProgress} /\ (mem' = mem \/ pc'[s] \notin Playing)
        BY <1>3, <3>1, Parts DEF Persist, DropState, To, SessOK, svcVars, RecordInv, Accounted, Playing, Here
      <4> QED
        BY <1>0, <1>1, <2>1, <4>1 DEF Accounted, PaidFor, Recorded, Playing, Here, Away
    <3>2. CASE Forget(s)
      <4>1. pc[s] \notin Playing /\ pc'[s] \notin Playing /\ UNCHANGED mem
        BY <3>2, Parts DEF Forget, To, SessOK, svcVars, Playing, Here
      <4> QED
        BY <1>0, <1>1, <2>1, <4>1 DEF RecordInv, Accounted, PaidFor, Recorded, Playing, Here, Away
    <3> QED
      BY <1>7, <3>1, <3>2
  <2>3. pc'[s] # "gone" => named
    BY <1>7, <2>1, Parts DEF Persist, DropState, Forget, RecordInv, Away, To, SessOK
  <2> QED
    BY <1>0, <1>1, <1>2, <2>1, <2>2, <2>3 DEF RecordInv, Away, Unkept
<1> QED
  BY <1>0, <1>4, <1>5, <1>6, <1>7

LEMMA NextPaid == PaidInv /\ [Next]_vars => PaidInv'
<1> SUFFICES ASSUME PaidInv, [Next]_vars PROVE PaidInv'
  OBVIOUS
<1> SUFFICES ASSUME Calm PROVE TurnInv' /\ RecordInv'
  <2>1. Calm' <=> Calm
    BY EnvFixed DEF Calm
  <2> QED
    BY <2>1, NextTypes DEF PaidInv
<1>0. TypeInv /\ TurnInv /\ RecordInv /\ Apart
  BY CalmApart DEF PaidInv
<1>1. TurnInv'
  BY <1>0, NextTurn
<1>2. ASSUME NEW w \in Worker, Service(w) \/ Advance(w) \/ Spawner(w)
      PROVE  RecordInv'
  BY <1>0, <1>2, ServicePaid, AdvancePaid, SpawnerPaid
<1>3. ASSUME NEW s \in Login, Session(s)
      PROVE  RecordInv'
  BY <1>0, <1>3, DerivePaid, SessionPaid DEF Session
<1>4. CASE (\E x \in world : Dies(x)) \/ Autosave \/ Crash \/ UNCHANGED vars
  <2>1. UNCHANGED <<mem, mu, file, named, op, pc, loaded, purse, kept>>
    BY <1>4, CalmApart DEF Dies, Autosave, Crash, vars, svcVars, storeVars, sessVars, paidVars
  <2>2. Accounted'
    BY <1>0, <2>1 DEF RecordInv, Accounted, PaidFor, Recorded, Unsaved
  <2> QED
    BY <1>0, <1>1, <2>1, <2>2 DEF RecordInv
<1> QED
  BY <1>1, <1>2, <1>3, <1>4 DEF Next

(* The reward of a quest that is not repeatable is paid once: not again    *)
(* after a relog, and, of a quest that is turned in, whenever it counts as *)
(* completed. While sessions and operations take turns and nothing fails   *)
(* (Service.completeLocked, DropState, queststore).                        *)
THEOREM QuestPaidOnce == Spec => []PaidOnce
<1>1. Init => PaidInv
  BY InitPaid
<1>2. PaidInv /\ [Next]_vars => PaidInv'
  BY NextPaid
<1>3. PaidInv => PaidOnce
  <2> SUFFICES ASSUME PaidInv, Calm PROVE PaidOnce
    BY DEF PaidOnce, Calm
  <2>0. TypeInv /\ RecordInv
    BY DEF PaidInv
  <2>1. PaidFor(mem) \/ PaidFor(Recorded)
    BY <2>0 DEF RecordInv, Accounted
  <2>2. (\E s \in Login : pc[s] = "in") => PaidFor(mem)
    BY <2>0 DEF RecordInv, Accounted, Playing, Here
  <2> QED
    BY <2>1, <2>2 DEF PaidOnce, PaidFor
<1> QED
  BY <1>1, <1>2, <1>3, PTL DEF Spec

------------------------------------------------------------------------------
(* What has been spawned                                                   *)

OfStage(x, q, st) == x[1] \in Spawns(q, st)

(* What lives is owned, or in somebody's hand, and there is one of each.   *)
HeldInv ==
  /\ \A x \in world : \/ \E q \in Quest : x \in owned[q]
                      \/ \E w \in Worker : x \in op[w].ids
                      \/ \E s \in Login : x \in left[s]
  /\ \A w \in Worker : op[w].ids # {} => op[w].at \in {"record", "despawn"}
  /\ \A s \in Login : left[s] # {} => pc[s] = "despawn"
  /\ \A x, y \in world : x[1] = y[1] => x = y

(* What is owned was claimed, for the current stage of an active quest or  *)
(* an earlier one, by a session that is there.                             *)
ClaimInv ==
  /\ \A q \in Quest : \A x \in owned[q] :
       \E st \in 0..LastStage[q] : <<q, st>> \in claimed /\ OfStage(x, q, st)
  /\ \A q \in Quest : \A st \in 0..LastStage[q] : <<q, st>> \in claimed =>
       /\ \/ Active(q) /\ st <= mem.active[q].stage
          \/ \E w \in Worker : op[w].at = "sweep" /\ op[w].quest = q
       /\ \E s \in Login : pc[s] \in {"deriving", "in", "cleanup"}

(* An activation is of a current stage; it has the key before it spawns.   *)
StageFits(w) ==
  LET q == op[w].quest
      st == op[w].stage IN
  /\ op[w].at \in Activates => Active(q) /\ st = mem.active[q].stage /\ op[w].hit = mem.active[q].hit
  /\ op[w].at \in {"spawn", "record", "release"} => <<q, st>> \in claimed
  /\ op[w].at \in {"spawn", "release"} => \A x \in owned[q] : ~OfStage(x, q, st)
  /\ op[w].at = "spawn" => \A x \in world : ~OfStage(x, q, st)
  /\ op[w].at = "record" => \A x \in op[w].ids : OfStage(x, q, st)
  /\ op[w].at = "sweep" => ~Active(q)

StageInv ==
  /\ \A w \in Worker : StageFits(w)
  /\ \A s \in Login : pc[s] = "deriving" => \A t \in op[s].todo :
       Active(t[1]) /\ t[2] = mem.active[t[1]].stage /\ t[3] = mem.active[t[1]].hit

(* What the current stage declares has been spawned, or is about to be.    *)
Has(x, ids, hit) == Meets[x] \in hit \/ \E y \in ids : y[1] = x
Covered(q) == \A x \in Spawns(q, mem.active[q].stage) : Has(x, owned[q], mem.active[q].hit)
AtWork(q, ats) == \E w \in Worker : op[w].quest = q /\ op[w].at \in ats
ToDerive(q) == \E s \in Login : pc[s] = "deriving" /\ \E t \in op[s].todo : t[1] = q

ShownInv == "broken" \notin env =>
  /\ \A q \in Quest : Active(q) /\ (\E s \in Login : pc[s] \in {"deriving", "in"}) =>
       Covered(q) \/ AtWork(q, {"claim", "spawn", "record"}) \/ ToDerive(q)
  /\ \A q \in Quest : Active(q) /\ <<q, mem.active[q].stage>> \in claimed =>
       Covered(q) \/ AtWork(q, {"spawn", "record"})
  /\ \A w \in Worker : op[w].at = "record" =>
       \A x \in Spawns(op[w].quest, op[w].stage) : Has(x, op[w].ids, op[w].hit)

SpawnInv == HeldInv /\ ClaimInv /\ StageInv /\ ShownInv
FitInv == TypeInv /\ (Apart => TurnInv /\ SpawnInv)

LEMMA InitFits == Init => FitInv
<1> SUFFICES ASSUME Init PROVE FitInv
  OBVIOUS
<1>1. TypeInv /\ TurnInv
  BY InitTypes, InitTurn
<1>2. HeldInv /\ ClaimInv
  BY DEF Init, Idle, HeldInv, ClaimInv
<1>3. StageInv /\ ShownInv
  BY DEF Init, Idle, StageInv, StageFits, ShownInv, Activates
<1> QED
  BY <1>1, <1>2, <1>3 DEF FitInv, SpawnInv

(* Nothing is spawned any more, nobody is at it.                           *)
LEMMA EmptyFits ==
  ASSUME claimed' = {}, \A q \in Quest : owned'[q] = {}, world' = {},
         \A w \in Worker : op'[w].at = "idle" /\ op'[w].ids = {},
         \A s \in Login : left'[s] = {} /\ pc'[s] \notin {"deriving", "in"}
  PROVE  SpawnInv'
<1>1. HeldInv' /\ ClaimInv'
  BY DEF HeldInv, ClaimInv
<1>2. StageInv' /\ ShownInv'
  BY DEF StageInv, StageFits, ShownInv, Activates
<1> QED
  BY <1>1, <1>2 DEF SpawnInv

(* While one is at work, the others are not.                               *)
LEMMA BusyAlone ==
  ASSUME TypeInv, TurnInv, HeldInv, NEW w \in Worker, Busy(w)
  PROVE  /\ \A v \in Worker \ {w} : op[v].at \in {"idle", "grant", "save"} /\ op[v].ids = {}
         /\ \A s \in Login : left[s] = {}
         /\ \A s \in Login : pc[s] = "deriving" => s = w
         /\ \E s \in Login : pc[s] \in {"deriving", "in"}
<1>1. \A v \in Worker \ {w} : op[v].at \in {"idle", "grant", "save"} /\ op[v].ids = {}
  BY OneBusy, Parts DEF Busy, OpOK, Op, OpAt, Locked, Activates, HeldInv
<1>2. \E s \in Login : pc[s] \in {"deriving", "in"}
  BY DEF TurnInv, TurnFits, Busy, Locked, Activates, Worker
<1>3. \A s \in Login : pc[s] # "despawn"
  BY <1>2 DEF TurnInv, Away
<1>4. \A s \in Login : pc[s] = "deriving" => s \in Worker /\ s # Tick /\ Busy(s)
  BY QuestAssumption DEF TurnInv, TurnFits, Busy, Locked, Worker
<1>5. \A s \in Login : pc[s] = "deriving" => s = w
  BY <1>4, OneBusy
<1> QED
  BY <1>1, <1>2, <1>3, <1>5 DEF HeldInv

(* The same before an operation that takes the mutex.                      *)
LEMMA PresentAlone ==
  ASSUME TypeInv, TurnInv, HeldInv, NEW w \in Worker, mu = None, Present(w)
  PROVE  /\ \A v \in Worker : op[v].at \in {"idle", "grant", "save"} /\ op[v].ids = {}
         /\ \A s \in Login : left[s] = {} /\ pc[s] # "deriving"
         /\ \E s \in Login : pc[s] \in {"deriving", "in"}
<1>1. PICK r \in Login : pc[r] = "in"
  BY DEF Present, Worker
<1>2. \A s \in Login : pc[s] \notin {"deriving", "despawn"}
  BY <1>1 DEF TurnInv, Away
<1>3. \A v \in Worker : op[v].at \in {"idle", "grant", "save"}
  BY <1>2, Parts, QuestAssumption DEF OpOK, OpFits, Op, OpAt, Locked, Activates, TurnInv, TurnFits, Worker
<1> QED
  BY <1>1, <1>2, <1>3 DEF HeldInv

(* An operation goes on, away from the spawner.                            *)
Quiet == {"idle", "grant", "hits", "save"}

LEMMA QuietFits ==
  ASSUME TypeInv, TurnInv, SpawnInv, NEW w \in Worker, NEW o, Goes(w, o),
         op[w].at \in Quiet, o.at \in Quiet, o.ids = {},
         UNCHANGED <<mem, claimed, owned, world, left, pc, env>>
  PROVE  SpawnInv'
<1>1. \A v \in Worker : op'[v] = IF v = w THEN o ELSE op[v]
  BY Parts DEF Goes, OpOK
<1>2. op[w].ids = {}
  BY DEF SpawnInv, HeldInv, Quiet
<1>3. \A s \in Login : pc[s] = "deriving" => s # w /\ s \in Worker
  BY QuestAssumption DEF TurnInv, TurnFits, Quiet, Activates, Worker
<1>4. HeldInv'
  BY <1>1, <1>2 DEF SpawnInv, HeldInv, Quiet
<1>5. ClaimInv'
  BY <1>1 DEF SpawnInv, ClaimInv, Active, OfStage, Quiet
<1>6. StageInv'
  <2>1. \A v \in Worker : StageFits(v)'
    BY <1>1 DEF SpawnInv, StageInv, StageFits, Active, OfStage, Quiet, Activates
  <2> QED
    BY <1>1, <1>3, <2>1 DEF SpawnInv, StageInv, Active
<1>7. ShownInv'
  <2>1. \A q \in Quest : Covered(q) => Covered(q)'
    BY DEF Covered, Has
  <2>2. \A q \in Quest : /\ AtWork(q, {"claim", "spawn", "record"}) => AtWork(q, {"claim", "spawn", "record"})'
                         /\ AtWork(q, {"spawn", "record"}) => AtWork(q, {"spawn", "record"})'
    BY <1>1 DEF AtWork, Quiet
  <2>3. \A q \in Quest : ToDerive(q) => ToDerive(q)'
    BY <1>1, <1>3 DEF ToDerive
  <2>4. \A v \in Worker : op'[v].at = "record" => op'[v] = op[v]
    BY <1>1 DEF Quiet
  <2> QED
    BY <2>1, <2>2, <2>3, <2>4 DEF SpawnInv, ShownInv, Active, Has
<1> QED
  BY <1>4, <1>5, <1>6, <1>7 DEF SpawnInv

(* The progress of q becomes p, under the mutex, and worker w goes on to   *)
(* what that asks of the spawner: the end of the quest to be swept, the    *)
(* entry of a stage to be activated.                                       *)
LEMMA ChangesFits ==
  ASSUME TypeInv, TurnInv, SpawnInv, NEW w \in Worker, NEW o, Goes(w, o), MemOK',
         \A v \in Worker : op[v].at \in Quiet /\ op[v].ids = {},
         \A s \in Login : pc[s] # "deriving", \E s \in Login : pc[s] = "in",
         UNCHANGED <<claimed, owned, world, left, pc, env>>,
         NEW q \in Quest, NEW p, \A r \in Quest : mem'.active[r] = IF r = q THEN p ELSE mem.active[r],
         o.ids = {}, o.at \in {"sweep", "claim", "hits"}, o.at = "sweep" <=> p = None,
         o.at # "hits" => o.quest = q,
         o.at = "claim" => o.stage = p.stage /\ o.hit = p.hit,
         p # None /\ Active(q) =>
           \/ p.stage = mem.active[q].stage /\ mem.active[q].hit \subseteq p.hit /\ o.at = "hits"
           \/ p.stage > mem.active[q].stage,
         p # None /\ o.at = "hits" =>
           \/ Active(q) /\ p.stage = mem.active[q].stage
           \/ Spawns(q, p.stage) = {}
  PROVE  SpawnInv'
<1>1. \A v \in Worker : op'[v] = IF v = w THEN o ELSE op[v]
  BY Parts DEF Goes, OpOK
<1>2. /\ \A r \in Quest : mem.active[r] # None => mem.active[r].stage \in Nat
      /\ p # None => p.stage \in 0..LastStage[q] /\ p.stage \in Nat
  <2>1. \A r \in Quest : mem.active[r] # None => mem.active[r].stage \in Nat
    BY Parts DEF MemOK, State, ActiveQuest
  <2>2. mem'.active[q] = p
    OBVIOUS
  <2>3. p # None => p \in ActiveQuest /\ p.stage \in 0..LastStage[q]
    BY <2>2 DEF MemOK, State, StateOK
  <2> QED
    BY <2>1, <2>3 DEF ActiveQuest
<1>3. \A v \in Worker : op[v].at \notin Activates \cup {"sweep"}
  BY DEF Quiet, Activates
<1>4. \A st \in 0..LastStage[q] : <<q, st>> \in claimed => Active(q) /\ st <= mem.active[q].stage
  BY <1>3 DEF SpawnInv, ClaimInv
<1>5. HeldInv'
  BY <1>1 DEF SpawnInv, HeldInv, Quiet
<1>6. ClaimInv'
  <2>1. ASSUME NEW r \in Quest, NEW st \in 0..LastStage[r], <<r, st>> \in claimed
        PROVE  \/ (Active(r) /\ st <= mem.active[r].stage)'
               \/ \E v \in Worker : op'[v].at = "sweep" /\ op'[v].quest = r
    <3>1. CASE r # q
      BY <1>3, <2>1, <3>1 DEF SpawnInv, ClaimInv, Active
    <3>2. CASE r = q /\ p = None
      BY <1>1, <3>2
    <3>3. CASE r = q /\ p # None
      <4>1. st \in Nat /\ st <= mem.active[q].stage /\ Active(q)
        BY <1>4, <2>1, <3>3, QuestAssumption
      <4>2. st <= p.stage
        BY <1>2, <3>3, <4>1 DEF Active
      <4> QED
        BY <3>3, <4>2 DEF Active
    <3> QED
      BY <3>1, <3>2, <3>3
  <2> QED
    BY <2>1 DEF SpawnInv, ClaimInv, OfStage
<1>7. StageInv'
  <2>1. \A v \in Worker : StageFits(v)'
    BY <1>1, <1>3 DEF StageFits, Active, Activates
  <2> QED
    BY <2>1 DEF StageInv
<1>8. ShownInv'
  <2>1. ASSUME NEW r \in Quest, r # q
        PROVE  /\ Covered(r) => Covered(r)'
               /\ Active(r)' <=> Active(r)
               /\ mem'.active[r] = mem.active[r]
               /\ ~AtWork(r, {"claim", "spawn", "record"}) /\ ~AtWork(r, {"spawn", "record"}) /\ ~ToDerive(r)
    BY <1>3, <2>1 DEF Covered, Has, Active, AtWork, ToDerive, Activates
  <2>2. ~ToDerive(q) /\ ~AtWork(q, {"claim", "spawn", "record"}) /\ ~AtWork(q, {"spawn", "record"})
    BY <1>3 DEF ToDerive, AtWork, Activates
  <2>3. o.at = "claim" => AtWork(q, {"claim", "spawn", "record"})' /\ <<q, p.stage>> \notin claimed
    <3>1. o.at = "claim" => AtWork(q, {"claim", "spawn", "record"})'
      BY <1>1 DEF AtWork
    <3>2. o.at = "claim" => <<q, p.stage>> \notin claimed
      BY <1>2, <1>4 DEF Active
    <3> QED
      BY <3>1, <3>2
  <2>4. ASSUME "broken" \notin env, p # None, o.at = "hits" PROVE Covered(q)'
    <3>1. CASE Spawns(q, p.stage) = {}
      BY <3>1 DEF Covered
    <3>2. CASE Active(q) /\ p.stage = mem.active[q].stage
      <4>1. Covered(q) /\ mem.active[q].hit \subseteq p.hit
        BY <1>2, <2>2, <2>4, <3>2 DEF SpawnInv, ShownInv, Active
      <4> QED
        BY <3>2, <4>1 DEF Covered, Has
    <3> QED
      BY <2>4, <3>1, <3>2
  <2>5. \A v \in Worker : op'[v].at # "record"
    BY <1>1, <1>3 DEF Activates
  <2>6. ASSUME NEW r \in Quest, "broken" \notin env, Active(r)'
        PROVE  /\ Covered(r)' \/ AtWork(r, {"claim", "spawn", "record"})'
               /\ <<r, mem'.active[r].stage>> \in claimed => Covered(r)'
    <3>1. CASE r # q
      <4>1. Covered(r)
        BY <2>1, <2>6, <3>1 DEF SpawnInv, ShownInv
      <4> QED
        BY <2>1, <3>1, <4>1
    <3>2. CASE r = q
      BY <2>3, <2>4, <2>6, <3>2 DEF Active
    <3> QED
      BY <3>1, <3>2
  <2> QED
    BY <2>5, <2>6 DEF ShownInv
<1> QED
  BY <1>5, <1>6, <1>7, <1>8 DEF SpawnInv

LEMMA ServiceFits ==
  ASSUME TypeInv, TurnInv, Apart, SpawnInv, MemOK', NEW w \in Worker, Service(w), UNCHANGED env
  PROVE  SpawnInv'
<1>0. HeldInv
  BY DEF SpawnInv
<1>1. MayAct(w) \/ op[w].at = "grant" => Present(w)
  BY ActPresent, LockPresent
<1>2. ASSUME NEW q \in Quest, Grant(w, q)
      PROVE  SpawnInv'
  <2>1. /\ Goes(w, [Idle EXCEPT !.at = "grant", !.quest = q]) /\ op[w].at = "idle"
        /\ UNCHANGED <<mem, claimed, owned, world, left, pc>>
    BY <1>2 DEF Grant, MayAct, svcVars, spawnVars, sessVars
  <2> QED
    BY <2>1, QuietFits DEF Idle, Quiet
<1>3. CASE GrantRefused(w) \/ Save(w)
  <2>1. /\ Goes(w, Idle) /\ op[w].at \in Quiet
        /\ UNCHANGED <<mem, claimed, owned, world, left, pc>>
    BY <1>3 DEF GrantRefused, Save, svcVars, spawnVars, sessVars, Quiet
  <2> QED
    BY <2>1, QuietFits DEF Idle, Quiet
<1>4. CASE Unlock(w)
  <2>1. /\ op[w].at \in Quiet /\ UNCHANGED <<mem, claimed, owned, world, left, pc>>
        /\ Goes(w, [Idle EXCEPT !.at = "save", !.snap = mem]) \/ Goes(w, Idle)
    BY <1>4 DEF Unlock, svcVars, spawnVars, sessVars, Quiet
  <2> QED
    BY <2>1, QuietFits DEF Idle, Quiet
<1>5. ASSUME MayLock, Present(w)
      PROVE  /\ \A v \in Worker : op[v].at \in Quiet /\ op[v].ids = {}
             /\ \A s \in Login : pc[s] # "deriving"
             /\ \E s \in Login : pc[s] = "in"
  <2>1. mu = None
    BY <1>5 DEF MayLock
  <2>2. \E s \in Login : pc[s] = "in"
    BY <1>5 DEF Present, Worker
  <2> QED
    BY <1>0, <1>5, <2>1, <2>2, PresentAlone DEF Quiet
<1>6. ASSUME NEW q \in Quest, Accepts(w, q), Present(w)
      PROVE  SpawnInv'
  <2> DEFINE p == Progress(0, {}, FALSE)
             o == Activating([Idle EXCEPT !.dirty = TRUE], q, 0, {}, "hits")
  <2>1. p # None /\ p.stage = 0 /\ p.hit = {}
    <3>1. p \in ActiveQuest
      BY DEF Progress, ActiveQuest
    <3> QED
      BY <3>1, QuestAssumption DEF Progress
  <2>2. /\ o.ids = {} /\ o.at \in {"claim", "hits"}
        /\ o.at = "claim" => o.quest = q /\ o.stage = 0 /\ o.hit = {}
        /\ o.at = "hits" => Spawns(q, 0) = {}
    BY DEF Activating, Idle
  <2> HIDE DEF o, p
  <2>3. /\ Goes(w, o) /\ Holds(q, p) /\ MayLock /\ ~Active(q)
        /\ UNCHANGED <<claimed, owned, world, left, pc>>
    BY <1>6 DEF Accepts, CanAccept, spawnVars, sessVars, o, p
  <2>4. \A r \in Quest : mem'.active[r] = IF r = q THEN p ELSE mem.active[r]
    BY <2>3, Parts DEF Holds, MemOK, State
  <2>5. /\ o.at \in {"sweep", "claim", "hits"} /\ (o.at = "sweep" <=> p = None)
        /\ o.at # "hits" => o.quest = q
        /\ o.at = "claim" => o.stage = p.stage /\ o.hit = p.hit
        /\ p # None /\ o.at = "hits" => Spawns(q, p.stage) = {}
    BY <2>1, <2>2
  <2>6. UNCHANGED <<claimed, owned, world, left, pc, env>>
    BY <2>3
  <2> QED
    BY <1>5, <1>6, <2>2, <2>3, <2>4, <2>5, <2>6, ChangesFits
<1>7. ASSUME NEW q \in Quest, Abandon(w, q) \/ TurnIn(w, q)
      PROVE  SpawnInv'
  <2> DEFINE o == [Idle EXCEPT !.at = "sweep", !.quest = q, !.dirty = TRUE]
  <2>1. o.ids = {} /\ o.at = "sweep" /\ o.quest = q
    BY DEF Idle
  <2> HIDE DEF o
  <2>2. /\ Goes(w, o) /\ MayLock /\ MayAct(w) /\ UNCHANGED <<claimed, owned, world, left, pc>>
        /\ Holds(q, None) \/ Completed(q)
    BY <1>7 DEF Abandon, TurnIn, spawnVars, sessVars, o
  <2>3. \A r \in Quest : mem'.active[r] = IF r = q THEN None ELSE mem.active[r]
    BY <2>2, Parts DEF Holds, Completed, MemOK, State
  <2> QED
    BY <1>1, <1>5, <2>1, <2>2, <2>3, ChangesFits
<1>8. CASE GrantAccept(w)
  <2>1. op[w].quest \in Quest /\ op[w].at = "grant"
    BY <1>8, Parts DEF GrantAccept, OpOK, OpFits
  <2> QED
    BY <1>1, <1>6, <1>8, <2>1 DEF GrantAccept
<1>9. ASSUME NEW q \in Quest, Accept(w, q)
      PROVE  SpawnInv'
  BY <1>1, <1>6, <1>9 DEF Accept
<1> QED
  BY <1>2, <1>3, <1>4, <1>7, <1>8, <1>9 DEF Service

LEMMA AdvanceFits ==
  ASSUME TypeInv, TurnInv, Apart, SpawnInv, MemOK', NEW w \in Worker, Advance(w), UNCHANGED env
  PROVE  SpawnInv'
<1>1. ASSUME NEW hits, Advances(w, hits)
      PROVE  SpawnInv'
  <2>1. /\ Goes(w, [Idle EXCEPT !.at = "hits", !.todo = hits]) /\ op[w].at = "idle"
        /\ UNCHANGED <<mem, claimed, owned, world, left, pc>>
    BY <1>1 DEF Advances, MayAct, svcVars, spawnVars, sessVars
  <2> QED
    BY <2>1, QuietFits DEF Idle, Quiet
<1>2. ASSUME NEW q \in Quest, NEW o \in Objective,
             \/ HitNothing(w, q, o) \/ HitCounts(w, q, o) \/ AdvanceStage(w, q, o)
             \/ AwaitTurnIn(w, q, o) \/ Complete(w, q, o)
      PROVE  SpawnInv'
  <2> DEFINE a == mem.active[q]
             idle == [op[w] EXCEPT !.todo = @ \ {<<q, o>>}]
             done == [Rest(w, q, o) EXCEPT !.at = "sweep", !.quest = q]
             next == Activating(Rest(w, q, o), q, a.stage + 1, {}, "hits")
  <2>0. /\ mu = w /\ op[w] \in Op /\ op[w].at = "hits" /\ op[w].ids = {} /\ HeldInv
        /\ UNCHANGED <<claimed, owned, world, left, pc>>
    BY <1>2, Parts DEF SpawnInv, HeldInv, OpOK, Hit, HitNothing, HitCounts, AdvanceStage,
       AwaitTurnIn, Complete, sessVars, spawnVars
  <2>1. /\ \A v \in Worker : op[v].at \in Quiet /\ op[v].ids = {}
        /\ \A s \in Login : pc[s] # "deriving"
        /\ \E s \in Login : pc[s] = "in"
    <3>1. Busy(w) /\ op[w].at \in Quiet /\ Present(w)
      BY <2>0, LockPresent DEF Busy, Locked, Quiet
    <3>2. \E s \in Login : pc[s] = "in"
      BY <3>1 DEF Present, Worker
    <3>3. \A s \in Login : pc[s] # "deriving"
      BY <3>2 DEF TurnInv, Away
    <3> QED
      BY <2>0, <3>1, <3>2, <3>3, BusyAlone DEF Quiet
  <2>2. Rest(w, q, o).at = "hits" /\ Rest(w, q, o).ids = {} /\ Rest(w, q, o) \in Op
    BY <2>0 DEF Rest, Op
  <2>3. /\ idle.at = "hits" /\ idle.ids = {}
        /\ done.at = "sweep" /\ done.quest = q /\ done.ids = {}
    BY <2>0, <2>2 DEF Op
  <2>4. CASE HitNothing(w, q, o)
    <3>1. Goes(w, idle) /\ UNCHANGED mem
      BY <2>4 DEF HitNothing, svcVars
    <3> HIDE DEF idle
    <3> QED
      BY <2>0, <2>1, <2>3, <3>1, QuietFits DEF Quiet
  <2>5. CASE HitCounts(w, q, o) \/ AwaitTurnIn(w, q, o)
    <3>1. /\ Goes(w, Rest(w, q, o)) /\ Active(q) /\ a \in ActiveQuest
      BY <2>5, Parts DEF HitCounts, AwaitTurnIn, Counts, Active, MemOK, State
    <3>2. PICK p \in ActiveQuest : Holds(q, p) /\ p.stage = a.stage /\ a.hit \subseteq p.hit
      <4>1. CASE HitCounts(w, q, o)
        <5> DEFINE p == [a EXCEPT !.hit = @ \cup {o}]
        <5>1. p \in ActiveQuest /\ p.stage = a.stage /\ p.hit = a.hit \cup {o}
          BY <3>1 DEF ActiveQuest
        <5> HIDE DEF p
        <5>2. Holds(q, p)
          BY <4>1 DEF HitCounts, p
        <5> QED
          BY <5>1, <5>2
      <4>2. CASE AwaitTurnIn(w, q, o)
        <5> DEFINE p == Progress(LastStage[q], a.hit \cup {o}, TRUE)
        <5>1. a.stage = LastStage[q] /\ Holds(q, p)
          BY <4>2 DEF AwaitTurnIn, Last
        <5>2. p \in ActiveQuest /\ p.stage = LastStage[q] /\ p.hit = a.hit \cup {o}
          BY <3>1, QuestAssumption DEF Progress, ActiveQuest
        <5> HIDE DEF p
        <5> QED
          BY <5>1, <5>2
      <4> QED
        BY <2>5, <4>1, <4>2
    <3>3. p # None /\ \A r \in Quest : mem'.active[r] = IF r = q THEN p ELSE mem.active[r]
      BY <3>2, Parts, QuestAssumption DEF Holds, MemOK, State
    <3> QED
      BY <2>0, <2>1, <2>2, <3>1, <3>2, <3>3, ChangesFits
  <2>6. CASE AdvanceStage(w, q, o)
    <3> DEFINE p == Progress(a.stage + 1, {}, FALSE)
    <3>1. Active(q) /\ a.stage \in Nat /\ Goes(w, next) /\ Holds(q, p)
      BY <2>6, Parts DEF AdvanceStage, Counts, Active, MemOK, State, ActiveQuest
    <3>2. p # None /\ p.stage = a.stage + 1 /\ p.stage > a.stage /\ p.hit = {}
      <4>1. p \in ActiveQuest
        BY <3>1 DEF Progress, ActiveQuest
      <4>2. p # None
        BY <4>1, QuestAssumption
      <4>3. p.stage = a.stage + 1 /\ p.hit = {}
        BY DEF Progress
      <4> HIDE DEF p
      <4> QED
        BY <3>1, <4>2, <4>3
    <3>3. \A r \in Quest : mem'.active[r] = IF r = q THEN p ELSE mem.active[r]
      BY <3>1, Parts DEF Holds, MemOK, State
    <3>4. /\ next.ids = {} /\ next.at \in {"claim", "hits"}
          /\ next.at = "claim" => next.quest = q /\ next.stage = a.stage + 1 /\ next.hit = {}
          /\ next.at = "hits" => Spawns(q, a.stage + 1) = {}
      <4> DEFINE r == Rest(w, q, o)  st == a.stage + 1
      <4>1. Activating(r, q, st, {}, "hits") = next
        OBVIOUS
      <4> HIDE DEF r, st, next
      <4>2. r.at = "hits" /\ r.ids = {} /\ r \in Op
        BY <2>2 DEF r
      <4>3. /\ next.ids = {} /\ next.at \in {"claim", "hits"}
            /\ next.at = "claim" => next.quest = q /\ next.stage = st /\ next.hit = {}
            /\ next.at = "hits" => Spawns(q, st) = {}
        <5>1. CASE Spawns(q, st) = {}
          BY <4>1, <4>2, <5>1 DEF Activating, Op
        <5>2. CASE Spawns(q, st) # {}
          BY <4>1, <4>2, <5>2 DEF Activating, Op
        <5> QED
          BY <5>1, <5>2
      <4> QED
        BY <4>3 DEF st
    <3> HIDE DEF next, p
    <3>5. /\ next.at \in {"sweep", "claim", "hits"} /\ (next.at = "sweep" <=> p = None)
          /\ next.at # "hits" => next.quest = q
          /\ next.at = "claim" => next.stage = p.stage /\ next.hit = p.hit
          /\ p # None /\ next.at = "hits" => Spawns(q, p.stage) = {}
      BY <3>2, <3>4
    <3>6. UNCHANGED <<claimed, owned, world, left, pc, env>>
      BY <2>0
    <3>7. p # None /\ Active(q) => p.stage > mem.active[q].stage
      BY <3>2
    <3> QED
      BY <2>1, <3>1, <3>3, <3>4, <3>5, <3>6, <3>7, ChangesFits
  <2>7. CASE Complete(w, q, o)
    <3>1. Goes(w, done) /\ \A r \in Quest : mem'.active[r] = IF r = q THEN None ELSE mem.active[r]
      BY <2>7, Parts DEF Complete, Completed, MemOK, State
    <3> HIDE DEF done
    <3> QED
      BY <2>0, <2>1, <2>3, <3>1, ChangesFits
  <2> QED
    BY <1>2, <2>4, <2>5, <2>6, <2>7
<1> QED
  BY <1>1, <1>2 DEF Advance, AdvanceMatching, AdvanceObjective

(* A worker comes back from the spawner: what lives is owned, what is       *)
(* owned is claimed, and what an active quest shows was its to show.       *)
LEMMA BackSpawns ==
  ASSUME TypeInv, TurnInv, SpawnInv, NEW w \in Worker, op[w].at \in Activates \cup {"despawn"}, Back(w),
         UNCHANGED <<mem, pc, left, env>>, claimed' \subseteq claimed, world' \subseteq world,
         \A x \in world' : \E q \in Quest : x \in owned'[q],
         \A q \in Quest : \A x \in owned'[q] : \E st \in 0..LastStage[q] : <<q, st>> \in claimed' /\ OfStage(x, q, st),
         "broken" \notin env => \A q \in Quest : Active(q) =>
           /\ (\E s \in Login : pc[s] \in {"deriving", "in"}) => Covered(q)' \/ ToDerive(q)
           /\ <<q, mem.active[q].stage>> \in claimed' => Covered(q)'
  PROVE  SpawnInv'
<1> DEFINE b == [op[w] EXCEPT !.at = IF mu = w THEN "hits" ELSE "derive",
                              !.quest = None, !.stage = 0, !.hit = {}, !.ids = {}]
<1>0. HeldInv /\ Busy(w)
  BY DEF SpawnInv, Busy, Locked
<1>1. /\ b.at \in {"hits", "derive"} /\ b.quest = None /\ b.ids = {} /\ b.todo = op[w].todo
      /\ \A v \in Worker : op'[v] = IF v = w THEN b ELSE op[v]
  BY Parts DEF Back, Goes, OpOK, Op
<1> HIDE DEF b
<1>2. /\ \A v \in Worker \ {w} : op[v].at \in {"idle", "grant", "save"} /\ op[v].ids = {}
      /\ \A s \in Login : left[s] = {}
  BY <1>0, BusyAlone
<1>3. \A v \in Worker : op'[v].at \in {"idle", "grant", "save", "hits", "derive"} /\ op'[v].ids = {}
  BY <1>1, <1>2
<1>4. HeldInv'
  BY <1>0, <1>2, <1>3 DEF HeldInv
<1>5. ClaimInv'
  <2>1. \A v \in Worker : op[v].at # "sweep"
    BY <1>2 DEF Activates
  <2>2. ASSUME NEW q \in Quest, NEW st \in 0..LastStage[q], <<q, st>> \in claimed'
        PROVE  /\ (Active(q) /\ st <= mem.active[q].stage)'
               /\ \E s \in Login : pc'[s] \in {"deriving", "in", "cleanup"}
    <3>1. /\ Active(q) /\ st <= mem.active[q].stage
          /\ \E s \in Login : pc[s] \in {"deriving", "in", "cleanup"}
      BY <2>1, <2>2 DEF SpawnInv, ClaimInv
    <3> QED
      BY <3>1 DEF Active
  <2> QED
    BY <2>2 DEF ClaimInv, OfStage
<1>6. StageInv'
  <2>1. \A v \in Worker : StageFits(v)'
    BY <1>3 DEF StageFits, Activates
  <2>2. \A s \in Login : op'[s].todo = op[s].todo
    BY <1>1 DEF Worker
  <2> QED
    BY <2>1, <2>2 DEF SpawnInv, StageInv, Active
<1>7. ShownInv'
  <2>1. \A s \in Login : op'[s].todo = op[s].todo
    BY <1>1 DEF Worker
  <2>2. \A q \in Quest : ToDerive(q) => ToDerive(q)'
    BY <2>1 DEF ToDerive
  <2>3. \A v \in Worker : op'[v].at # "record"
    BY <1>3
  <2> QED
    BY <2>2, <2>3 DEF ShownInv, Active
<1> QED
  BY <1>4, <1>5, <1>6, <1>7 DEF SpawnInv

(* What holds while worker w is at the spawner, for its quest q and stage.  *)
LEMMA AtSpawner ==
  ASSUME TypeInv, TurnInv, SpawnInv, NEW w \in Worker, op[w].at \in Activates \cup {"sweep", "despawn"}
  PROVE  /\ \A v \in Worker \ {w} : op[v].at \in {"idle", "grant", "save"} /\ op[v].ids = {}
         /\ \A s \in Login : left[s] = {}
         /\ \E s \in Login : pc[s] \in {"deriving", "in"}
         /\ op[w].quest \in Quest \/ op[w].at = "despawn"
         /\ op[w].at \in Activates => op[w].stage \in 0..LastStage[op[w].quest]
         /\ \A x \in world : x \in op[w].ids \/ \E q \in Quest : x \in owned[q]
         /\ op[w].at \notin {"record", "despawn"} => op[w].ids = {}
<1>0. HeldInv /\ Busy(w)
  BY DEF SpawnInv, Busy, Locked
<1>1. /\ \A v \in Worker \ {w} : op[v].at \in {"idle", "grant", "save"} /\ op[v].ids = {}
      /\ \A s \in Login : left[s] = {}
      /\ \E s \in Login : pc[s] \in {"deriving", "in"}
  BY <1>0, BusyAlone
<1>2. /\ op[w].quest \in Quest \/ op[w].at = "despawn"
      /\ op[w].at \in Activates => op[w].stage \in 0..LastStage[op[w].quest]
  BY Parts, QuestAssumption DEF OpOK, OpFits, Op, Activates
<1>3. \A x \in world : x \in op[w].ids \/ \E q \in Quest : x \in owned[q]
  BY <1>0, <1>1 DEF HeldInv
<1>4. op[w].at \notin {"record", "despawn"} => op[w].ids = {}
  BY <1>0 DEF HeldInv
<1> QED
  BY <1>1, <1>2, <1>3, <1>4

(* The activation that finds its key taken, that records what it spawned,  *)
(* or that had nothing to spawn; the end of a sweep.                       *)
LEMMA ReturnFits ==
  ASSUME TypeInv, TurnInv, SpawnInv, NEW w \in Worker, UNCHANGED env,
         ActivateAgain(w) \/ Record(w) \/ ReleaseKey(w) \/ Despawn(w)
  PROVE  SpawnInv'
<1> DEFINE q == op[w].quest  st == op[w].stage
<1>0. /\ op[w].at \in Activates \cup {"despawn"} /\ Back(w)
      /\ UNCHANGED <<mem, pc, left>>
  BY DEF ActivateAgain, Record, ReleaseKey, Despawn, svcVars, sessVars, Activates
<1>1. /\ \A v \in Worker \ {w} : op[v].at \in {"idle", "grant", "save"} /\ op[v].ids = {}
      /\ \A x \in world : x \in op[w].ids \/ \E r \in Quest : x \in owned[r]
      /\ op[w].at \notin {"record", "despawn"} => op[w].ids = {}
      /\ op[w].at \in Activates => q \in Quest /\ st \in 0..LastStage[q]
  BY <1>0, AtSpawner DEF Activates
<1>2. \A r \in Quest : \A x \in owned[r] :
        \E su \in 0..LastStage[r] : <<r, su>> \in claimed /\ OfStage(x, r, su)
  BY DEF SpawnInv, ClaimInv
<1>3. op[w].at \in Activates =>
        Active(q) /\ st = mem.active[q].stage /\ op[w].hit = mem.active[q].hit
  BY DEF SpawnInv, StageInv, StageFits
<1>4. ASSUME NEW r \in Quest
      PROVE  /\ AtWork(r, {"claim", "spawn", "record"}) => r = q /\ op[w].at \in {"claim", "spawn", "record"}
             /\ AtWork(r, {"spawn", "record"}) => r = q /\ op[w].at \in {"spawn", "record"}
  BY <1>1 DEF AtWork
<1>5. ASSUME "broken" \notin env, NEW r \in Quest, Active(r)
      PROVE  /\ (\E s \in Login : pc[s] \in {"deriving", "in"}) =>
                  Covered(r) \/ ToDerive(r) \/ (r = q /\ op[w].at \in {"claim", "spawn", "record"})
             /\ <<r, mem.active[r].stage>> \in claimed =>
                  Covered(r) \/ (r = q /\ op[w].at \in {"spawn", "record"})
  BY <1>4, <1>5 DEF SpawnInv, ShownInv
<1>6. CASE ActivateAgain(w)
  <2>1. op[w].at = "claim" /\ <<q, st>> \in claimed /\ UNCHANGED <<claimed, owned, world>>
    BY <1>6 DEF ActivateAgain, spawnVars
  <2>2. \A x \in world : \E r \in Quest : x \in owned[r]
    BY <1>1, <2>1
  <2>3. q \in Quest /\ st = mem.active[q].stage
    BY <1>1, <1>3, <2>1 DEF Activates
  <2>4. ASSUME "broken" \notin env, NEW r \in Quest, Active(r)
        PROVE  /\ (\E s \in Login : pc[s] \in {"deriving", "in"}) => Covered(r)' \/ ToDerive(r)
               /\ <<r, mem.active[r].stage>> \in claimed => Covered(r)'
    <3>1. Covered(r)' <=> Covered(r)
      BY <1>0, <2>1 DEF Covered, Has
    <3> QED
      BY <1>5, <2>1, <2>3, <2>4, <3>1
  <2>5. \A x \in world' : \E r \in Quest : x \in owned'[r]
    BY <2>1, <2>2
  <2>6. \A r \in Quest : \A x \in owned'[r] :
          \E su \in 0..LastStage[r] : <<r, su>> \in claimed' /\ OfStage(x, r, su)
    BY <1>2, <2>1
  <2>7. claimed' \subseteq claimed /\ world' \subseteq world /\ UNCHANGED <<mem, pc, left, env>>
    BY <1>0, <2>1
  <2> QED
    BY <1>0, <2>1, <2>4, <2>5, <2>6, <2>7, BackSpawns
<1>7. CASE Record(w)
  <2>1. op[w].at = "record" /\ UNCHANGED <<claimed, world>> /\ q \in Quest
        /\ \A r \in Quest : owned'[r] = IF r = q THEN owned[q] \cup op[w].ids ELSE owned[r]
    BY <1>1, <1>7, Parts DEF Record, SpawnOK, Activates
  <2>2. <<q, st>> \in claimed /\ st \in 0..LastStage[q] /\ \A x \in op[w].ids : OfStage(x, q, st)
    BY <1>1, <2>1 DEF SpawnInv, StageInv, StageFits, Activates
  <2>3. ASSUME "broken" \notin env, NEW r \in Quest, r = q
        PROVE  Covered(r)'
    <3>1. \A x \in Spawns(q, st) : Has(x, op[w].ids, op[w].hit)
      BY <2>1, <2>3 DEF SpawnInv, ShownInv
    <3>2. st = mem.active[q].stage /\ op[w].hit = mem.active[q].hit
      BY <1>3, <2>1 DEF Activates
    <3>3. mem' = mem /\ op[w].ids \subseteq owned'[q]
      BY <1>0, <2>1
    <3>4. \A x \in Spawns(r, mem'.active[r].stage) : Has(x, op[w].ids, mem'.active[r].hit)
      BY <2>3, <3>1, <3>2, <3>3
    <3> QED
      BY <2>3, <3>3, <3>4 DEF Covered, Has
  <2>4. ASSUME "broken" \notin env, NEW r \in Quest, Active(r)
        PROVE  /\ (\E s \in Login : pc[s] \in {"deriving", "in"}) => Covered(r)' \/ ToDerive(r)
               /\ <<r, mem.active[r].stage>> \in claimed' => Covered(r)'
    <3>1. Covered(r) => Covered(r)'
      BY <1>0, <2>1 DEF Covered, Has
    <3> QED
      BY <1>5, <2>1, <2>3, <2>4, <3>1
  <2>5. \A x \in world' : \E r \in Quest : x \in owned'[r]
    BY <1>1, <2>1
  <2>6. \A r \in Quest : \A x \in owned'[r] :
          \E su \in 0..LastStage[r] : <<r, su>> \in claimed' /\ OfStage(x, r, su)
    BY <1>2, <2>1, <2>2
  <2>7. claimed' \subseteq claimed /\ world' \subseteq world /\ UNCHANGED <<mem, pc, left, env>>
    BY <1>0, <2>1
  <2> QED
    BY <1>0, <2>4, <2>5, <2>6, <2>7, BackSpawns
<1>8. CASE ReleaseKey(w)
  <2>1. op[w].at = "release" /\ claimed' = claimed \ {<<q, st>>} /\ UNCHANGED <<owned, world>> /\ q \in Quest
    BY <1>1, <1>8 DEF ReleaseKey, Activates
  <2>2. \A x \in owned[q] : ~OfStage(x, q, st)
    BY <2>1 DEF SpawnInv, StageInv, StageFits
  <2>4. ASSUME "broken" \notin env, NEW r \in Quest, Active(r)
        PROVE  /\ (\E s \in Login : pc[s] \in {"deriving", "in"}) => Covered(r)' \/ ToDerive(r)
               /\ <<r, mem.active[r].stage>> \in claimed' => Covered(r)'
    <3>1. Covered(r)' <=> Covered(r)
      BY <1>0, <2>1 DEF Covered, Has
    <3> QED
      BY <1>5, <2>1, <2>4, <3>1
  <2>5. \A x \in world' : \E r \in Quest : x \in owned'[r]
    BY <1>1, <2>1
  <2>6. ASSUME NEW r \in Quest, NEW x \in owned'[r]
        PROVE  \E su \in 0..LastStage[r] : <<r, su>> \in claimed' /\ OfStage(x, r, su)
    <3>1. PICK su \in 0..LastStage[r] : <<r, su>> \in claimed /\ OfStage(x, r, su)
      BY <1>2, <2>1, <2>6
    <3>2. <<r, su>> # <<q, st>>
      BY <2>1, <2>2, <2>6, <3>1
    <3> QED
      BY <2>1, <3>1, <3>2
  <2>7. claimed' \subseteq claimed /\ world' \subseteq world /\ UNCHANGED <<mem, pc, left, env>>
    BY <1>0, <2>1
  <2> QED
    BY <1>0, <2>4, <2>5, <2>6, <2>7, BackSpawns
<1>9. CASE Despawn(w)
  <2>1. op[w].at = "despawn" /\ world' = world \ op[w].ids /\ UNCHANGED <<claimed, owned>>
    BY <1>9 DEF Despawn
  <2>4. ASSUME "broken" \notin env, NEW r \in Quest, Active(r)
        PROVE  /\ (\E s \in Login : pc[s] \in {"deriving", "in"}) => Covered(r)' \/ ToDerive(r)
               /\ <<r, mem.active[r].stage>> \in claimed' => Covered(r)'
    <3>1. Covered(r)' <=> Covered(r)
      BY <1>0, <2>1 DEF Covered, Has
    <3> QED
      BY <1>5, <2>1, <2>4, <3>1
  <2>5. \A x \in world' : \E r \in Quest : x \in owned'[r]
    BY <1>1, <2>1
  <2>6. \A r \in Quest : \A x \in owned'[r] :
          \E su \in 0..LastStage[r] : <<r, su>> \in claimed' /\ OfStage(x, r, su)
    BY <1>2, <2>1
  <2>7. claimed' \subseteq claimed /\ world' \subseteq world /\ UNCHANGED <<mem, pc, left, env>>
    BY <1>0, <2>1
  <2> QED
    BY <1>0, <2>4, <2>5, <2>6, <2>7, BackSpawns
<1> QED
  BY <1>6, <1>7, <1>8, <1>9

(* Nothing of a stage lives, or is owned, that has not been claimed: no    *)
(* other stage declares the same spawn.                                    *)
LEMMA Unclaimed ==
  ASSUME TypeInv, SpawnInv, NEW q \in Quest, NEW st \in 0..LastStage[q], <<q, st>> \notin claimed
  PROVE  \A r \in Quest : \A x \in owned[r] : ~OfStage(x, q, st)
<1> SUFFICES ASSUME NEW r \in Quest, NEW x \in owned[r], OfStage(x, q, st) PROVE FALSE
  OBVIOUS
<1>1. PICK su \in 0..LastStage[r] : <<r, su>> \in claimed /\ OfStage(x, r, su)
  BY DEF SpawnInv, ClaimInv
<1>2. Spawns(q, st) \cap Spawns(r, su) = {}
  BY <1>1, QuestAssumption
<1> QED
  BY <1>1, <1>2 DEF OfStage

(* A worker takes the key of its stage.                                    *)
LEMMA ActivateFits ==
  ASSUME TypeInv, TurnInv, SpawnInv, NEW w \in Worker, UNCHANGED env, Activate(w)
  PROVE  SpawnInv'
<1> DEFINE o == [op[w] EXCEPT !.at = "spawn"]
<1>0. /\ op[w].at = "claim" /\ <<op[w].quest, op[w].stage>> \notin claimed
      /\ claimed' = claimed \cup {<<op[w].quest, op[w].stage>>}
      /\ UNCHANGED <<mem, owned, world, left, pc>>
  BY DEF Activate, svcVars, sessVars
<1>a. PICK q \in Quest : op[w].quest = q
  BY <1>0, AtSpawner DEF Activates
<1>1. PICK st \in 0..LastStage[q] : op[w].quest = q /\ op[w].stage = st
  BY <1>0, <1>a, AtSpawner DEF Activates
<1>2. /\ o.at = "spawn" /\ o.ids = {} /\ o.quest = q /\ o.stage = st /\ o.hit = op[w].hit /\ o.todo = op[w].todo
      /\ \A v \in Worker : op'[v] = IF v = w THEN o ELSE op[v]
  BY <1>0, <1>1, AtSpawner, Parts DEF Activate, Goes, OpOK, Op, Activates
<1> HIDE DEF o
<1>3. /\ \A v \in Worker \ {w} : op[v].at \in {"idle", "grant", "save"} /\ op[v].ids = {}
      /\ \A s \in Login : left[s] = {}
      /\ \E s \in Login : pc[s] \in {"deriving", "in"}
      /\ \A x \in world : \E r \in Quest : x \in owned[r]
      /\ op[w].ids = {}
  BY <1>0, AtSpawner DEF Activates
<1>4. Active(q) /\ st = mem.active[q].stage /\ op[w].hit = mem.active[q].hit
  BY <1>0, <1>1 DEF SpawnInv, StageInv, StageFits, Activates
<1>5. HeldInv'
  BY <1>0, <1>2, <1>3 DEF SpawnInv, HeldInv
<1>6. ClaimInv'
  <2>1. ASSUME NEW r \in Quest, NEW su \in 0..LastStage[r], <<r, su>> \in claimed'
        PROVE  (Active(r) /\ su <= mem.active[r].stage)'
    <3>1. CASE <<r, su>> \in claimed
      <4>1. Active(r) /\ su <= mem.active[r].stage
        BY <1>0, <1>3, <3>1 DEF SpawnInv, ClaimInv
      <4> QED
        BY <1>0, <4>1 DEF Active
    <3>2. CASE r = q /\ su = st
      BY <1>0, <1>4, <3>2, QuestAssumption DEF Active
    <3> QED
      BY <1>0, <1>1, <2>1, <3>1, <3>2
  <2>2. \A r \in Quest : \A x \in owned'[r] :
          \E su \in 0..LastStage[r] : <<r, su>> \in claimed' /\ OfStage(x, r, su)
    BY <1>0 DEF SpawnInv, ClaimInv
  <2> QED
    BY <1>0, <1>3, <2>1, <2>2 DEF ClaimInv, OfStage
<1>7. StageInv'
  <2>1. /\ \A x \in owned[q] : ~OfStage(x, q, st)
        /\ \A x \in world : ~OfStage(x, q, st)
    BY <1>0, <1>1, <1>3, Unclaimed
  <2>2. StageFits(w)'
    <3>1. Active(q)' /\ <<q, st>> \in claimed' /\ UNCHANGED <<mem, owned, world>>
      BY <1>0, <1>1, <1>4 DEF Active
    <3> QED
      BY <1>2, <1>4, <2>1, <3>1 DEF StageFits, OfStage
  <2>3. \A v \in Worker \ {w} : StageFits(v)'
    BY <1>2, <1>3 DEF StageFits, Activates
  <2>4. \A s \in Login : op'[s].todo = op[s].todo
    BY <1>2 DEF Worker
  <2> QED
    BY <1>0, <2>2, <2>3, <2>4 DEF SpawnInv, StageInv, Active
<1>8. ShownInv'
  <2>1. \A r \in Quest : (Covered(r)' <=> Covered(r)) /\ (ToDerive(r) => ToDerive(r)')
    <3>1. \A s \in Login : op'[s].todo = op[s].todo
      BY <1>2 DEF Worker
    <3> QED
      BY <1>0, <3>1 DEF Covered, Has, ToDerive
  <2>2. AtWork(q, {"claim", "spawn", "record"})' /\ AtWork(q, {"spawn", "record"})'
    BY <1>2 DEF AtWork
  <2>3. \A r \in Quest : /\ AtWork(r, {"claim", "spawn", "record"}) => r = q
                         /\ ~AtWork(r, {"spawn", "record"})
    BY <1>0, <1>1, <1>3 DEF AtWork
  <2>4. \A v \in Worker : op'[v].at # "record"
    BY <1>2, <1>3
  <2>5. ASSUME NEW r \in Quest, r # q PROVE <<r, mem'.active[r].stage>> \in claimed' => <<r, mem.active[r].stage>> \in claimed
    BY <1>0, <1>1, <2>5
  <2> QED
    BY <1>0, <2>1, <2>2, <2>3, <2>4, <2>5 DEF SpawnInv, ShownInv, Active
<1> QED
  BY <1>5, <1>6, <1>7, <1>8 DEF SpawnInv

(* The end of a quest is swept: what it owns is in the worker's hands.      *)
LEMMA CleanupFits ==
  ASSUME TypeInv, TurnInv, SpawnInv, NEW w \in Worker, UNCHANGED env, Cleanup(w)
  PROVE  SpawnInv'
<1> DEFINE o == [op[w] EXCEPT !.ids = owned[op[w].quest], !.at = "despawn"]
<1>0. op[w].at = "sweep" /\ UNCHANGED <<mem, world, left, pc>>
  BY DEF Cleanup, svcVars, sessVars
<1>1. PICK q \in Quest : op[w].quest = q
  BY <1>0, AtSpawner DEF Activates
<1>2. /\ o.at = "despawn" /\ o.ids = owned[q] /\ o.todo = op[w].todo
      /\ \A v \in Worker : op'[v] = IF v = w THEN o ELSE op[v]
  BY <1>0, <1>1, Parts DEF Cleanup, Goes, OpOK, Op
<1> HIDE DEF o
<1>3. /\ \A r \in Quest : owned'[r] = IF r = q THEN {} ELSE owned[r]
      /\ \A r \in Quest : \A su \in 0..LastStage[r] :
           <<r, su>> \in claimed' <=> <<r, su>> \in claimed /\ r # q
  BY <1>1, Parts DEF Cleanup, SpawnOK
<1>4. /\ \A v \in Worker \ {w} : op[v].at \in {"idle", "grant", "save"} /\ op[v].ids = {}
      /\ \A s \in Login : left[s] = {}
      /\ \E s \in Login : pc[s] \in {"deriving", "in"}
      /\ \A x \in world : \E r \in Quest : x \in owned[r]
  BY <1>0, AtSpawner DEF Activates
<1>5. ~Active(q)
  BY <1>0, <1>1 DEF SpawnInv, StageInv, StageFits
<1>6. HeldInv'
  <2>1. ASSUME NEW x \in world'
        PROVE  (\E r \in Quest : x \in owned'[r]) \/ x \in op'[w].ids
    BY <1>0, <1>2, <1>3, <1>4
  <2>2. \A s \in Login : left'[s] = {}
    BY <1>0, <1>4
  <2>3. \A v \in Worker : op'[v].ids # {} => op'[v].at \in {"record", "despawn"}
    BY <1>2, <1>4
  <2>4. \A x, y \in world' : x[1] = y[1] => x = y
    BY <1>0 DEF SpawnInv, HeldInv
  <2> QED
    BY <2>1, <2>2, <2>3, <2>4 DEF HeldInv
<1>7. ClaimInv'
  <2>1. ASSUME NEW r \in Quest, NEW su \in 0..LastStage[r], <<r, su>> \in claimed'
        PROVE  (Active(r) /\ su <= mem.active[r].stage)'
    <3>1. r # q /\ <<r, su>> \in claimed
      BY <1>3, <2>1
    <3>2. \A v \in Worker : ~(op[v].at = "sweep" /\ op[v].quest = r)
      BY <1>1, <1>4, <3>1
    <3>3. Active(r) /\ su <= mem.active[r].stage
      BY <3>1, <3>2 DEF SpawnInv, ClaimInv
    <3> QED
      BY <1>0, <3>3 DEF Active
  <2>2. ASSUME NEW r \in Quest, NEW x \in owned'[r]
        PROVE  \E su \in 0..LastStage[r] : <<r, su>> \in claimed' /\ OfStage(x, r, su)
    <3>1. r # q /\ x \in owned[r]
      BY <1>3, <2>2
    <3> QED
      BY <1>3, <3>1 DEF SpawnInv, ClaimInv
  <2> QED
    BY <1>0, <1>4, <2>1, <2>2 DEF ClaimInv, OfStage
<1>8. StageInv'
  <2>1. \A v \in Worker : StageFits(v)'
    BY <1>2, <1>4 DEF StageFits, Activates
  <2>2. \A s \in Login : op'[s].todo = op[s].todo
    BY <1>2 DEF Worker
  <2> QED
    BY <1>0, <2>1, <2>2 DEF SpawnInv, StageInv, Active
<1>9. ShownInv'
  <2>1. \A s \in Login : op'[s].todo = op[s].todo
    BY <1>2 DEF Worker
  <2>2. ASSUME NEW r \in Quest, Active(r)'
        PROVE  /\ (Covered(r)' <=> Covered(r)) /\ Active(r)
               /\ (ToDerive(r) => ToDerive(r)')
               /\ ~AtWork(r, {"claim", "spawn", "record"}) /\ ~AtWork(r, {"spawn", "record"})
               /\ <<r, mem'.active[r].stage>> \in claimed' => <<r, mem.active[r].stage>> \in claimed
    <3>1. Active(r) /\ r # q
      BY <1>0, <1>5, <2>2 DEF Active
    <3>2. owned'[r] = owned[r] /\ mem' = mem
      BY <1>0, <1>3, <3>1
    <3>3. <<r, mem'.active[r].stage>> \in claimed' => <<r, mem.active[r].stage>> \in claimed
      BY <1>0 DEF Cleanup
    <3>4. ~AtWork(r, {"claim", "spawn", "record"}) /\ ~AtWork(r, {"spawn", "record"})
      BY <1>0, <1>4 DEF AtWork
    <3>5. (Covered(r)' <=> Covered(r)) /\ (ToDerive(r) => ToDerive(r)')
      BY <1>0, <2>1, <3>2 DEF Covered, Has, ToDerive
    <3> QED
      BY <3>1, <3>3, <3>4, <3>5
  <2>3. \A v \in Worker : op'[v].at # "record"
    BY <1>2, <1>4
  <2> QED
    BY <1>0, <2>2, <2>3 DEF SpawnInv, ShownInv
<1> QED
  BY <1>6, <1>7, <1>8, <1>9 DEF SpawnInv

(* What the stage declares is spawned, with nothing of it living before.   *)
LEMMA SpawnAllFits ==
  ASSUME TypeInv, TurnInv, SpawnInv, NEW w \in Worker, UNCHANGED env, SpawnAll(w)
  PROVE  SpawnInv'
<1>0. op[w].at = "spawn" /\ UNCHANGED <<mem, claimed, owned, left, pc>>
  BY DEF SpawnAll, svcVars, sessVars
<1>a. PICK q \in Quest : op[w].quest = q
  BY <1>0, AtSpawner DEF Activates
<1>1. PICK st \in 0..LastStage[q] : op[w].quest = q /\ op[w].stage = st
  BY <1>0, <1>a, AtSpawner DEF Activates
<1>b. PICK made \in SUBSET Due(w) :
        /\ made = Due(w) \/ "broken" \in env
        /\ LET ids == {<<x, Fresh(x)>> : x \in made}
           IN /\ world' = world \cup ids
              /\ Goes(w, [op[w] EXCEPT !.ids = ids, !.at = IF ids = {} THEN "release" ELSE "record"])
  BY DEF SpawnAll
<1> DEFINE ids == {<<x, Fresh(x)>> : x \in made}
           o == [op[w] EXCEPT !.ids = ids, !.at = IF ids = {} THEN "release" ELSE "record"]
<1>2. /\ o.ids = ids /\ o.quest = q /\ o.stage = st /\ o.hit = op[w].hit /\ o.todo = op[w].todo
      /\ o.at \in {"release", "record"} /\ (o.at = "release" <=> ids = {})
      /\ \A v \in Worker : op'[v] = IF v = w THEN o ELSE op[v]
      /\ world' = world \cup ids
  BY <1>0, <1>1, <1>b, Parts DEF Goes, OpOK, Op
<1>3. /\ \A x \in ids : x[1] \in Spawns(q, st)
      /\ \A x, y \in ids : x[1] = y[1] => x = y
      /\ \A x \in made : \E y \in ids : y[1] = x
      /\ ids = {} => made = {}
  <2>1. \A x \in made : x \in Spawns(q, st)
    BY <1>1, <1>b DEF Due
  <2>2. \A y \in ids : \E x \in made : y = <<x, Fresh(x)>>
    OBVIOUS
  <2>3. \A x \in made : <<x, Fresh(x)>> \in ids
    OBVIOUS
  <2> HIDE DEF ids
  <2>4. \A x \in ids : x[1] \in Spawns(q, st)
    BY <2>1, <2>2
  <2>5. ASSUME NEW x \in ids, NEW y \in ids, x[1] = y[1] PROVE x = y
    <3>1. PICK z \in made : x = <<z, Fresh(z)>>
      BY <2>2, <2>5
    <3>2. PICK u \in made : y = <<u, Fresh(u)>>
      BY <2>2, <2>5
    <3>3. z = u
      BY <2>5, <3>1, <3>2
    <3> QED
      BY <3>1, <3>2, <3>3
  <2> QED
    BY <2>3, <2>4, <2>5
<1>4. made = Due(w) => \A x \in Spawns(q, st) : Has(x, ids, op[w].hit)
  BY <1>1, <1>3 DEF Due, Has
<1> HIDE DEF o, ids
<1>5. /\ \A v \in Worker \ {w} : op[v].at \in {"idle", "grant", "save"} /\ op[v].ids = {}
      /\ \A s \in Login : left[s] = {}
      /\ \A x \in world : \E r \in Quest : x \in owned[r]
  BY <1>0, AtSpawner DEF Activates
<1>6. /\ Active(q) /\ st = mem.active[q].stage /\ op[w].hit = mem.active[q].hit
      /\ <<q, st>> \in claimed
      /\ \A x \in owned[q] : ~OfStage(x, q, st)
      /\ \A x \in world : x[1] \notin Spawns(q, st)
  BY <1>0, <1>1 DEF SpawnInv, StageInv, StageFits, Activates, OfStage
<1>7. HeldInv'
  <2>1. \A x \in world' : (\E r \in Quest : x \in owned'[r]) \/ x \in op'[w].ids
    BY <1>0, <1>2, <1>5
  <2>2. \A x, y \in world' : x[1] = y[1] => x = y
    <3>1. \A x, y \in world : x[1] = y[1] => x = y
      BY DEF SpawnInv, HeldInv
    <3> QED
      BY <1>2, <1>3, <1>6, <3>1
  <2>3. \A v \in Worker : op'[v].ids # {} => op'[v].at \in {"record", "despawn"}
    BY <1>2, <1>5
  <2>4. \A s \in Login : left'[s] = {}
    BY <1>0, <1>5
  <2> QED
    BY <2>1, <2>2, <2>3, <2>4 DEF HeldInv
<1>8. ClaimInv'
  <2>1. \A v \in Worker : op[v].at # "sweep"
    BY <1>0, <1>5
  <2> QED
    BY <1>0, <2>1 DEF SpawnInv, ClaimInv, Active, OfStage
<1>9. StageInv'
  <2>1. StageFits(w)'
    <3>1. Active(q)' /\ UNCHANGED <<mem, claimed, owned>>
      BY <1>0, <1>6 DEF Active
    <3> QED
      BY <1>2, <1>3, <1>6, <3>1 DEF StageFits, OfStage
  <2>2. \A v \in Worker \ {w} : StageFits(v)'
    BY <1>2, <1>5 DEF StageFits, Activates
  <2>3. \A s \in Login : op'[s].todo = op[s].todo
    BY <1>2 DEF Worker
  <2> QED
    BY <1>0, <2>1, <2>2, <2>3 DEF SpawnInv, StageInv, Active
<1>10. ASSUME "broken" \notin env PROVE ShownInv'
  <2>1. \A r \in Quest : (Covered(r)' <=> Covered(r)) /\ (ToDerive(r) => ToDerive(r)')
    <3>1. \A s \in Login : op'[s].todo = op[s].todo
      BY <1>2 DEF Worker
    <3> QED
      BY <1>0, <3>1 DEF Covered, Has, ToDerive
  <2>2. made = Due(w)
    BY <1>b, <1>10
  <2>3. Covered(q) \/ (AtWork(q, {"spawn", "record"})' /\ AtWork(q, {"claim", "spawn", "record"})')
    <3>1. CASE ids = {}
      <4>1. \A x \in Spawns(q, st) : Meets[x] \in op[w].hit
        BY <1>4, <2>2, <3>1 DEF Has
      <4>2. \A x \in Spawns(q, mem.active[q].stage) : Meets[x] \in mem.active[q].hit
        BY <1>6, <4>1
      <4> QED
        BY <4>2 DEF Covered, Has
    <3>2. CASE ids # {}
      BY <1>2, <3>2 DEF AtWork
    <3> QED
      BY <3>1, <3>2
  <2>4. \A r \in Quest : /\ AtWork(r, {"claim", "spawn", "record"}) => r = q
                         /\ AtWork(r, {"spawn", "record"}) => r = q
    BY <1>1, <1>5 DEF AtWork
  <2>5. ASSUME NEW v \in Worker, op'[v].at = "record"
        PROVE  \A x \in Spawns(op'[v].quest, op'[v].stage) : Has(x, op'[v].ids, op'[v].hit)
    <3>1. v = w
      BY <1>2, <1>5, <2>5
    <3> QED
      BY <1>2, <1>4, <2>2, <3>1
  <2>6. \A v \in Worker : op'[v].at = "record" =>
          (\A x \in Spawns(op[v].quest, op[v].stage) : Has(x, op[v].ids, op[v].hit))'
    BY <2>5 DEF Has
  <2> QED
    BY <1>0, <2>1, <2>3, <2>4, <2>6, <1>10 DEF SpawnInv, ShownInv, Active
<1>11. ShownInv'
  <2>1. "broken" \in env => ShownInv'
    BY DEF ShownInv
  <2> QED
    BY <1>10, <2>1
<1> QED
  BY <1>7, <1>8, <1>9, <1>11 DEF SpawnInv

LEMMA SpawnerFits ==
  ASSUME TypeInv, TurnInv, SpawnInv, NEW w \in Worker, UNCHANGED env, Spawner(w)
  PROVE  SpawnInv'
  BY ReturnFits, ActivateFits, SpawnAllFits, CleanupFits DEF Spawner

(* Between a departure and the next entry there is nothing of a quest in   *)
(* the world, and nobody at work.                                          *)
LEMMA NothingSpawned ==
  ASSUME TypeInv, TurnInv, SpawnInv, \A s \in Login : pc[s] \notin {"deriving", "in", "cleanup"}
  PROVE  /\ claimed = {} /\ \A q \in Quest : owned[q] = {}
         /\ \A w \in Worker : op[w].at = "idle" /\ op[w].ids = {}
         /\ \A x \in world : \E s \in Login : x \in left[s]
<1>1. claimed = {} /\ \A q \in Quest : owned[q] = {}
  <2>1. \A q \in Quest : \A st \in 0..LastStage[q] : <<q, st>> \notin claimed
    BY DEF SpawnInv, ClaimInv
  <2>2. claimed = {}
    BY <2>1, Parts DEF SpawnOK, Key
  <2> QED
    BY <2>1, <2>2 DEF SpawnInv, ClaimInv
<1>2. \A w \in Worker : op[w].at = "idle" /\ op[w].ids = {}
  <2>1. \A w \in Worker : op[w].at = "idle"
    BY DEF TurnInv, TurnFits, Worker
  <2> QED
    BY <2>1 DEF SpawnInv, HeldInv
<1>3. \A x \in world : \E s \in Login : x \in left[s]
  BY <1>1, <1>2 DEF SpawnInv, HeldInv
<1> QED
  BY <1>1, <1>2, <1>3

(* The login activates what was active when it began to, stage by stage.   *)
LEMMA DeriveFits ==
  ASSUME TypeInv, TurnInv, SpawnInv, NEW s \in Login, UNCHANGED env, Derive(s)
  PROVE  SpawnInv'
<1>0. s \in Worker /\ s # Tick /\ op[s].at = "derive" /\ op[s] \in Op
      /\ UNCHANGED <<mem, claimed, owned, world, left, pc>>
  BY Parts, QuestAssumption DEF Derive, Worker, OpOK, svcVars, spawnVars, sessVars
<1>1. /\ pc[s] = "deriving" /\ mu # s
  BY <1>0, Parts DEF TurnInv, TurnFits, OpOK, OpFits, Locked, Activates
<1>2. PICK t \in op[s].todo :
        Goes(s, Activating([op[s] EXCEPT !.todo = @ \ {t}], t[1], t[2], t[3], "derive"))
  BY DEF Derive
<1>3. t[1] \in Quest /\ Active(t[1]) /\ t[2] = mem.active[t[1]].stage /\ t[3] = mem.active[t[1]].hit
  <2>1. t \in Derived
    BY <1>0, <1>1, Parts DEF OpOK, OpFits
  <2> QED
    BY <1>1, <2>1 DEF SpawnInv, StageInv, Derived
<1>4. PICK q \in Quest : q = t[1]
  BY <1>3
<1> DEFINE r == [op[s] EXCEPT !.todo = @ \ {t}]
           o == Activating(r, q, t[2], t[3], "derive")
<1>5. r.at = "derive" /\ r.todo = op[s].todo \ {t} /\ r.ids = op[s].ids /\ r \in Op
  BY <1>0 DEF Op
<1> HIDE DEF r
<1>6. /\ o.todo = op[s].todo \ {t} /\ o.ids = op[s].ids
      /\ o.at \in {"claim", "derive"}
      /\ o.at = "claim" => o.quest = q /\ o.stage = t[2] /\ o.hit = t[3]
      /\ o.at = "derive" => Spawns(q, t[2]) = {}
  <2>1. CASE Spawns(q, t[2]) = {}
    BY <1>5, <2>1 DEF Activating, Op
  <2>2. CASE Spawns(q, t[2]) # {}
    BY <1>5, <2>2 DEF Activating, Op
  <2> QED
    BY <2>1, <2>2
<1>7. \A v \in Worker : op'[v] = IF v = s THEN o ELSE op[v]
  BY <1>0, <1>2, <1>4, Parts DEF Goes, OpOK, r
<1> HIDE DEF o
<1>8. /\ \A v \in Worker \ {s} : op[v].at \in {"idle", "grant", "save"} /\ op[v].ids = {}
      /\ \A u \in Login : left[u] = {}
      /\ \A u \in Login : pc[u] = "deriving" => u = s
      /\ op[s].ids = {}
  BY <1>0, BusyAlone DEF SpawnInv, HeldInv, Busy, Locked
<1>9. \A v \in Worker : op'[v].ids = {} /\ op'[v].at \notin {"spawn", "record", "release", "sweep"}
  BY <1>6, <1>7, <1>8
<1>10. HeldInv'
  BY <1>0, <1>8, <1>9 DEF SpawnInv, HeldInv
<1>11. ClaimInv'
  <2>1. \A v \in Worker : op[v].at # "sweep"
    BY <1>0, <1>8
  <2> QED
    BY <1>0, <2>1 DEF SpawnInv, ClaimInv, Active, OfStage
<1>12. StageInv'
  <2>1. \A v \in Worker \ {s} : StageFits(v)'
    BY <1>7, <1>8 DEF StageFits, Activates
  <2>2. o.at = "claim" => Active(q)' /\ o.stage = mem'.active[q].stage /\ o.hit = mem'.active[q].hit
    BY <1>0, <1>3, <1>4, <1>6 DEF Active
  <2>3. StageFits(s)'
    BY <1>0, <1>6, <1>7, <2>2 DEF StageFits, Activates
  <2>4. \A u \in Login : pc'[u] = "deriving" => u = s /\ op'[s].todo \subseteq op[s].todo /\ pc[s] = "deriving"
    BY <1>0, <1>1, <1>6, <1>7, <1>8
  <2> QED
    BY <1>0, <2>1, <2>3, <2>4 DEF SpawnInv, StageInv, Active
<1>13. ShownInv'
  <2>1. \A p \in Quest : (Covered(p)' <=> Covered(p)) /\ ~AtWork(p, {"claim", "spawn", "record"})
                         /\ ~AtWork(p, {"spawn", "record"})
    BY <1>0, <1>8 DEF Covered, Has, AtWork
  <2>2. ASSUME NEW p \in Quest, p # q, ToDerive(p) PROVE ToDerive(p)'
    <3>1. PICK d \in op[s].todo : d[1] = p
      BY <1>8, <2>2 DEF ToDerive
    <3>2. d \in op'[s].todo /\ pc'[s] = "deriving"
      BY <1>0, <1>1, <1>4, <1>6, <1>7, <2>2, <3>1
    <3> QED
      BY <3>1, <3>2 DEF ToDerive
  <2>3. Covered(q) \/ AtWork(q, {"claim", "spawn", "record"})'
    <3>1. CASE o.at = "claim"
      BY <1>0, <1>6, <1>7, <3>1 DEF AtWork
    <3>2. CASE o.at = "derive"
      BY <1>3, <1>4, <1>6, <3>2 DEF Covered
    <3> QED
      BY <1>6, <3>1, <3>2
  <2>4. \A v \in Worker : op'[v].at # "record"
    BY <1>9
  <2> QED
    BY <1>0, <2>1, <2>2, <2>3, <2>4 DEF SpawnInv, ShownInv, Active
<1> QED
  BY <1>10, <1>11, <1>12, <1>13 DEF SpawnInv

(* The login begins to derive, and has derived.                            *)
LEMMA EntryFits ==
  ASSUME TypeInv, TurnInv, SpawnInv, NEW s \in Login, UNCHANGED env, Reactivate(s) \/ Entered(s)
  PROVE  SpawnInv'
<1>0. s \in Worker /\ s # Tick /\ UNCHANGED <<mem, claimed, owned, world, left>>
  BY QuestAssumption DEF Reactivate, Entered, Worker, svcVars, spawnVars
<1>1. CASE Reactivate(s)
  <2>1. /\ pc[s] = "added" /\ \A u \in Login : pc'[u] = IF u = s THEN "deriving" ELSE pc[u]
        /\ \A u \in Login \ {s} : pc[u] \in Away
    BY <1>1, Parts DEF Reactivate, To, SessOK, TurnInv, Away
  <2>2. /\ claimed = {} /\ \A q \in Quest : owned[q] = {}
        /\ \A v \in Worker : op[v].at = "idle" /\ op[v].ids = {}
        /\ \A x \in world : \E u \in Login : x \in left[u]
    BY <2>1, NothingSpawned DEF Away
  <2>3. world = {} /\ \A u \in Login : left[u] = {}
    BY <2>1, <2>2 DEF SpawnInv, HeldInv, Away
  <2> DEFINE o == [Idle EXCEPT !.at = "derive",
                     !.todo = {<<q, mem.active[q].stage, mem.active[q].hit>> : q \in {r \in Quest : Active(r)}}]
  <2>4. /\ o.at = "derive" /\ o.ids = {}
        /\ \A t \in o.todo : Active(t[1]) /\ t[2] = mem.active[t[1]].stage /\ t[3] = mem.active[t[1]].hit
        /\ \A q \in Quest : Active(q) => \E t \in o.todo : t[1] = q
    <3>1. o.at = "derive" /\ o.ids = {}
          /\ o.todo = {<<q, mem.active[q].stage, mem.active[q].hit>> : q \in {r \in Quest : Active(r)}}
      BY DEF Idle
    <3>2. ASSUME NEW t \in o.todo
          PROVE  Active(t[1]) /\ t[2] = mem.active[t[1]].stage /\ t[3] = mem.active[t[1]].hit
      <4>1. PICK q \in Quest : Active(q) /\ t = <<q, mem.active[q].stage, mem.active[q].hit>>
        BY <3>1
      <4> QED
        BY <4>1
    <3>3. ASSUME NEW q \in Quest, Active(q)
          PROVE  \E t \in o.todo : t[1] = q
      <4>1. <<q, mem.active[q].stage, mem.active[q].hit>> \in o.todo
        BY <3>1, <3>3
      <4> QED
        BY <4>1
    <3> QED
      BY <3>1, <3>2, <3>3
  <2>5. \A v \in Worker : op'[v] = IF v = s THEN o ELSE op[v]
    BY <1>0, <1>1, Parts DEF Reactivate, Goes, OpOK
  <2> HIDE DEF o
  <2>6. HeldInv' /\ ClaimInv'
    BY <1>0, <2>2, <2>3, <2>4, <2>5 DEF HeldInv, ClaimInv
  <2>7. StageInv'
    <3>1. \A v \in Worker : StageFits(v)'
      BY <2>2, <2>4, <2>5 DEF StageFits, Activates
    <3>2. \A u \in Login : pc'[u] = "deriving" => u = s /\ op'[u] = o
      BY <1>0, <2>1, <2>5 DEF Away
    <3> QED
      BY <1>0, <2>4, <3>1, <3>2 DEF StageInv, Active
  <2>8. ShownInv'
    <3>1. \A q \in Quest : Active(q)' => ToDerive(q)'
      BY <1>0, <2>1, <2>4, <2>5 DEF ToDerive, Active
    <3>2. claimed' = {} /\ \A v \in Worker : op'[v].at # "record"
      BY <1>0, <2>2, <2>4, <2>5
    <3> QED
      BY <3>1, <3>2 DEF ShownInv
  <2> QED
    BY <2>6, <2>7, <2>8 DEF SpawnInv
<1>2. CASE Entered(s)
  <2>1. /\ op[s].at = "derive" /\ op[s].todo = {} /\ \A v \in Worker : op'[v] = IF v = s THEN Idle ELSE op[v]
    BY <1>0, <1>2, Parts DEF Entered, Goes, OpOK
  <2>2. pc[s] = "deriving" /\ \A u \in Login : pc'[u] = IF u = s THEN "in" ELSE pc[u]
    BY <1>0, <1>2, <2>1, Parts DEF Entered, To, SessOK, TurnInv, TurnFits
  <2>3. /\ \A v \in Worker \ {s} : op[v].at \in {"idle", "grant", "save"} /\ op[v].ids = {}
        /\ \A u \in Login : left[u] = {}
        /\ \A u \in Login : pc[u] = "deriving" => u = s
        /\ op[s].ids = {}
    BY <1>0, <2>1, BusyAlone DEF SpawnInv, HeldInv, Busy, Locked
  <2>4. \A v \in Worker : op'[v].at \in {"idle", "grant", "save"} /\ op'[v].ids = {}
    BY <2>1, <2>3 DEF Idle
  <2>5. HeldInv'
    BY <1>0, <2>1, <2>3, <2>4 DEF SpawnInv, HeldInv
  <2>6. ClaimInv'
    <3>1. \A v \in Worker : op[v].at # "sweep"
      BY <2>1, <2>3
    <3>2. \E u \in Login : pc'[u] \in {"deriving", "in", "cleanup"}
      BY <2>2
    <3> QED
      BY <1>0, <3>1, <3>2 DEF SpawnInv, ClaimInv, Active, OfStage
  <2>7. StageInv'
    <3>1. \A v \in Worker : StageFits(v)'
      BY <2>4 DEF StageFits, Activates
    <3> QED
      BY <2>2, <2>3, <3>1 DEF StageInv
  <2>8. ShownInv'
    <3>1. \A p \in Quest : (Covered(p)' <=> Covered(p)) /\ ~AtWork(p, {"claim", "spawn", "record"})
                           /\ ~AtWork(p, {"spawn", "record"}) /\ ~ToDerive(p)
      BY <1>0, <2>1, <2>3 DEF Covered, Has, AtWork, ToDerive
    <3>2. \E u \in Login : pc[u] \in {"deriving", "in"}
      BY <2>2
    <3> QED
      BY <1>0, <2>4, <3>1, <3>2 DEF SpawnInv, ShownInv, Active
  <2> QED
    BY <2>5, <2>6, <2>7, <2>8 DEF SpawnInv
<1> QED
  BY <1>1, <1>2

(* The other steps of a session: the removal leaves all as it is, then     *)
(* CleanupPlayer takes what is owned and its despawn ends it.              *)
LEMMA SessionFits ==
  ASSUME TypeInv, TurnInv, Apart, SpawnInv, NEW s \in Login, UNCHANGED <<op, mu, env>>,
         \/ Enter(s) \/ (\E r \in Login \ {s} : TakeOver(s, r))
         \/ Load(s) \/ Install(s) \/ Add(s)
         \/ Quit(s) \/ Reap(s) \/ CleanupPlayer(s) \/ DespawnLeft(s)
         \/ Persist(s) \/ DropState(s) \/ Forget(s)
  PROVE  SpawnInv'
<1>0. ~ \E r \in Login \ {s} : TakeOver(s, r)
  BY DEF TakeOver, Apart
<1>1. /\ \A r \in Login \ {s} : pc[r] \in Away /\ pc'[r] = pc[r]
      /\ pc'[s] \notin {"deriving", "in"}
  BY <1>0, Parts DEF SessOK, Enter, Load, Install, Add, Quit, Reap, CleanupPlayer, DespawnLeft,
     Persist, DropState, Forget, To, Alone, Apart, TurnInv, Away
<1>2. \A r \in Login : pc'[r] \notin {"deriving", "in"}
  BY <1>1 DEF Away
<1>3. CASE Enter(s) \/ Load(s) \/ Install(s) \/ Add(s) \/ Persist(s) \/ DropState(s) \/ Forget(s)
  <2>1. pc[s] \notin {"deriving", "in", "cleanup", "despawn"} /\ UNCHANGED <<claimed, owned, world, left>>
    BY <1>3 DEF Enter, Load, Install, Add, Persist, DropState, Forget, spawnVars
  <2>2. \A r \in Login : pc[r] \notin {"deriving", "in", "cleanup", "despawn"}
    BY <1>1, <2>1 DEF Away
  <2>3. /\ claimed = {} /\ \A q \in Quest : owned[q] = {}
        /\ \A v \in Worker : op[v].at = "idle" /\ op[v].ids = {}
        /\ \A x \in world : \E u \in Login : x \in left[u]
    BY <2>2, NothingSpawned
  <2>4. world = {} /\ \A u \in Login : left[u] = {}
    BY <2>2, <2>3 DEF SpawnInv, HeldInv
  <2> QED
    BY <1>2, <2>1, <2>3, <2>4, EmptyFits
<1>4. CASE DespawnLeft(s)
  <2>1. /\ pc[s] \in {"despawn", "scrubbed"} /\ world' = world \ left[s] /\ UNCHANGED <<claimed, owned>>
        /\ \A u \in Login : left'[u] = IF u = s THEN {} ELSE left[u]
    BY <1>4, Parts DEF DespawnLeft, SessOK
  <2>2. \A r \in Login : pc[r] \notin {"deriving", "in", "cleanup"}
    BY <1>1, <2>1 DEF Away
  <2>3. /\ claimed = {} /\ \A q \in Quest : owned[q] = {}
        /\ \A v \in Worker : op[v].at = "idle" /\ op[v].ids = {}
        /\ \A x \in world : \E u \in Login : x \in left[u]
    BY <2>2, NothingSpawned
  <2>4. \A u \in Login \ {s} : left[u] = {}
    BY <1>1 DEF SpawnInv, HeldInv, Away
  <2>5. world' = {} /\ \A u \in Login : left'[u] = {}
    BY <2>1, <2>3, <2>4
  <2> QED
    BY <1>2, <2>1, <2>3, <2>5, EmptyFits
<1>5. CASE Quit(s) \/ Reap(s) \/ CleanupPlayer(s)
  <2>1. pc[s] \in {"in", "cleanup", "scrub"} /\ UNCHANGED <<mem, world>>
    BY <1>5 DEF Quit, Reap, CleanupPlayer, svcVars, spawnVars
  <2>2. \A v \in Worker : op[v].at = "idle"
    <3>1. pc[s] = "in" => op[s].at = "idle" /\ op[Tick].at = "idle"
      BY <1>5 DEF Quit, Reap, CleanupPlayer, Apart, Undisturbed
    <3>2. pc[s] # "in" => op[s].at = "idle" /\ op[Tick].at = "idle"
      BY <1>1, <2>1, QuestAssumption DEF TurnInv, TurnFits, Worker, Away
    <3> QED
      BY <1>1, <3>1, <3>2 DEF TurnInv, TurnFits, Worker, Away
  <2>3. \A v \in Worker : op[v].ids = {}
    BY <2>2 DEF SpawnInv, HeldInv
  <2>4. \A u \in Login : left[u] = {}
    BY <1>1, <2>1 DEF SpawnInv, HeldInv, Away
  <2>5. StageInv'
    BY <1>2, <2>2 DEF StageInv, StageFits, Activates
  <2>6. CASE Quit(s) \/ Reap(s)
    <3>1. UNCHANGED <<claimed, owned, left>> /\ pc'[s] = "cleanup"
      BY <2>6, Parts DEF Quit, Reap, To, SessOK, spawnVars
    <3>2. HeldInv'
      BY <2>1, <2>3, <2>4, <3>1 DEF SpawnInv, HeldInv
    <3>3. ClaimInv'
      BY <2>1, <2>2, <3>1 DEF SpawnInv, ClaimInv, Active, OfStage
    <3>4. ShownInv'
      <4>1. \A p \in Quest : (Covered(p)' <=> Covered(p)) /\ ~AtWork(p, {"spawn", "record"})
        BY <2>1, <2>2, <3>1 DEF Covered, Has, AtWork
      <4> QED
        BY <1>2, <2>1, <2>2, <3>1, <4>1 DEF SpawnInv, ShownInv, Active
    <3> QED
      BY <2>5, <3>2, <3>3, <3>4 DEF SpawnInv
  <2>7. CASE CleanupPlayer(s)
    <3>1. /\ claimed' = {} /\ \A q \in Quest : owned'[q] = {}
          /\ left'[s] = UNION {owned[q] : q \in Quest}
          /\ \A u \in Login \ {s} : left'[u] = {}
          /\ pc'[s] = "despawn"
      BY <2>4, <2>7, Parts DEF CleanupPlayer, To, SessOK, TurnInv
    <3>2. HeldInv'
      <4>1. \A x \in world' : x \in left'[s]
        BY <2>1, <2>3, <2>4, <3>1 DEF SpawnInv, HeldInv
      <4>2. \A x, y \in world' : x[1] = y[1] => x = y
        BY <2>1 DEF SpawnInv, HeldInv
      <4> QED
        BY <2>3, <3>1, <4>1, <4>2 DEF HeldInv
    <3>3. ClaimInv' /\ ShownInv'
      BY <1>2, <2>2, <3>1 DEF ClaimInv, ShownInv
    <3> QED
      BY <2>5, <3>2, <3>3 DEF SpawnInv
  <2> QED
    BY <1>5, <2>6, <2>7
<1> QED
  BY <1>0, <1>3, <1>4, <1>5

LEMMA RestFits ==
  ASSUME TypeInv, TurnInv, SpawnInv, (\E x \in world : Dies(x)) \/ Autosave \/ Crash \/ UNCHANGED vars
  PROVE  SpawnInv'
<1>1. CASE Crash
  <2>1. /\ claimed' = {} /\ world' = {} /\ \A q \in Quest : owned'[q] = {}
        /\ \A w \in Worker : op'[w].at = "idle" /\ op'[w].ids = {}
        /\ \A s \in Login : left'[s] = {} /\ pc'[s] \notin {"deriving", "in"}
    BY <1>1 DEF Crash, Idle
  <2> QED
    BY <2>1, EmptyFits
<1>2. CASE (\E x \in world : Dies(x)) \/ Autosave \/ UNCHANGED vars
  <2>1. world' \subseteq world /\ UNCHANGED <<mem, claimed, owned, op, pc, left, env>>
    BY <1>2 DEF Dies, Autosave, vars, svcVars, spawnVars, sessVars
  <2>2. HeldInv'
    BY <2>1 DEF SpawnInv, HeldInv
  <2>3. ClaimInv'
    BY <2>1 DEF SpawnInv, ClaimInv, Active, OfStage
  <2>4. StageInv'
    <3>1. \A v \in Worker : StageFits(v)'
      BY <2>1 DEF SpawnInv, StageInv, StageFits, Active, OfStage
    <3> QED
      BY <2>1, <3>1 DEF SpawnInv, StageInv, Active
  <2>5. ShownInv'
    <3>1. \A q \in Quest : /\ Covered(q)' <=> Covered(q)
                           /\ ToDerive(q)' <=> ToDerive(q)
                           /\ AtWork(q, {"claim", "spawn", "record"})' <=> AtWork(q, {"claim", "spawn", "record"})
                           /\ AtWork(q, {"spawn", "record"})' <=> AtWork(q, {"spawn", "record"})
      BY <2>1 DEF Covered, Has, ToDerive, AtWork
    <3> QED
      BY <2>1, <3>1 DEF SpawnInv, ShownInv, Active, Has
  <2> QED
    BY <2>2, <2>3, <2>4, <2>5 DEF SpawnInv
<1> QED
  BY <1>1, <1>2

LEMMA NextFits == FitInv /\ [Next]_vars => FitInv'
<1> SUFFICES ASSUME FitInv, [Next]_vars PROVE FitInv'
  OBVIOUS
<1>0. TypeInv /\ TypeInv' /\ UNCHANGED env
  BY NextTypes, EnvFixed DEF FitInv
<1> SUFFICES ASSUME Apart PROVE TurnInv' /\ SpawnInv'
  <2>1. Apart' <=> Apart
    BY <1>0 DEF Apart
  <2> QED
    BY <1>0, <2>1 DEF FitInv
<1>1. TurnInv /\ SpawnInv /\ MemOK'
  BY <1>0 DEF FitInv, TypeInv
<1>2. TurnInv'
  BY <1>0, <1>1, NextTurn
<1>3. ASSUME NEW w \in Worker, Service(w) \/ Advance(w) \/ Spawner(w)
      PROVE  SpawnInv'
  BY <1>0, <1>1, <1>3, ServiceFits, AdvanceFits, SpawnerFits
<1>4. ASSUME NEW s \in Login, Session(s)
      PROVE  SpawnInv'
  <2>1. CASE Reactivate(s) \/ Derive(s) \/ Entered(s)
    BY <1>0, <1>1, <2>1, DeriveFits, EntryFits
  <2>2. CASE \/ Enter(s) \/ (\E r \in Login \ {s} : TakeOver(s, r))
             \/ Load(s) \/ Install(s) \/ Add(s)
             \/ Quit(s) \/ Reap(s) \/ CleanupPlayer(s) \/ DespawnLeft(s)
             \/ Persist(s) \/ DropState(s) \/ Forget(s)
    <3>1. UNCHANGED <<op, mu, env>>
      BY <1>0, <2>2 DEF Enter, TakeOver, Load, Install, Add, Quit, Reap, CleanupPlayer, DespawnLeft,
         Persist, DropState, Forget
    <3> QED
      BY <1>0, <1>1, <2>2, <3>1, SessionFits
  <2> QED
    BY <1>4, <2>1, <2>2 DEF Session
<1>5. CASE (\E x \in world : Dies(x)) \/ Autosave \/ Crash \/ UNCHANGED vars
  BY <1>0, <1>1, <1>2, <1>5, RestFits
<1> QED
  BY <1>2, <1>3, <1>4, <1>5 DEF Next

(* While the spawner rests, what lives is owned by an active quest, once   *)
(* each, and what the current stage declares has been spawned, unless it   *)
(* has been collected. Whatever fails, but for a spawn, while sessions and *)
(* operations take turns (Spawner.activate, cleanup, CleanupPlayer and     *)
(* ReactivatePlayer).                                                      *)
THEOREM QuestSpawnsFit == Spec => []SpawnsFit
<1>1. Init => FitInv
  BY InitFits
<1>2. FitInv /\ [Next]_vars => FitInv'
  BY NextFits
<1>3. FitInv => SpawnsFit
  <2> SUFFICES ASSUME FitInv, Apart, SpawnerRests PROVE
      /\ world \subseteq UNION {owned[q] : q \in Quest}
      /\ \A x, y \in world : x[1] = y[1] => x = y
      /\ \A q \in Quest : owned[q] # {} => index # None /\ Active(q)
      /\ "broken" \notin env /\ index # None =>
           \A q \in Quest : Active(q) =>
             \A x \in Spawns(q, mem.active[q].stage) :
               Meets[x] \in mem.active[q].hit \/ \E y \in owned[q] : y[1] = x
    BY DEF SpawnsFit, Apart
  <2>0. TypeInv /\ TurnInv /\ SpawnInv
    BY DEF FitInv
  <2>1. /\ \A w \in Worker : op[w].at \in {"idle", "grant", "save"} /\ op[w].ids = {}
        /\ \A s \in Login : pc[s] \in {"out", "in", "gone"} /\ left[s] = {}
    BY <2>0 DEF SpawnerRests, Steady, SpawnInv, HeldInv
  <2>2. world \subseteq UNION {owned[q] : q \in Quest} /\ \A x, y \in world : x[1] = y[1] => x = y
    BY <2>0, <2>1 DEF SpawnInv, HeldInv
  <2>3. ASSUME NEW q \in Quest, owned[q] # {} PROVE index # None /\ Active(q)
    <3>1. PICK st \in 0..LastStage[q] : <<q, st>> \in claimed
      BY <2>0, <2>3 DEF SpawnInv, ClaimInv
    <3>2. Active(q) /\ \E s \in Login : pc[s] = "in"
      BY <2>0, <2>1, <3>1 DEF SpawnInv, ClaimInv
    <3> QED
      BY <2>0, <3>2, QuestAssumption DEF TurnInv, Here
  <2>4. ASSUME "broken" \notin env, index # None, NEW q \in Quest, Active(q)
        PROVE  Covered(q)
    <3>1. index \in Login /\ pc[index] = "in"
      BY <2>0, <2>1, <2>4, Parts DEF SessOK, TurnInv, Here
    <3>2. ~AtWork(q, {"claim", "spawn", "record"}) /\ ~ToDerive(q)
      BY <2>1 DEF AtWork, ToDerive
    <3> QED
      BY <2>0, <2>4, <3>1, <3>2 DEF SpawnInv, ShownInv
  <2> QED
    BY <2>2, <2>3, <2>4 DEF Covered, Has
<1> QED
  BY <1>1, <1>2, <1>3, PTL DEF Spec
=============================================================================
