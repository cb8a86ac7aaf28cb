---------------------------- MODULE SessionProofs ----------------------------
(***************************************************************************)
(* Theorems about SessionLifecycle, for any number of connections: first   *)
(* with every circumstance allowed, then while the sessions of the         *)
(* character take turns, with no "overlap" and no "stale".                 *)
(***************************************************************************)
EXTENDS SessionLifecycle, TLAPS

(* Before a connection has built its actor, and while it holds one.        *)
Before == {"new", "menu", "prompt", "displace", "scrub", "build", "reattach"}
Holding == {"join", "spawn", "playing", "park", "rereg"}
Acquainted == {"prompt", "displace", "scrub", "reattach", "join", "spawn", "playing",
               "park", "unbind", "rereg", "end", "endsave", "drop"}
Built(a) == a \in Conn /\ actor[a].phase # "none"

(* An actor is built once.                                                 *)
BuiltLate ==
  \A c \in Conn : /\ pc[c] \in Before => actor[c].phase = "none" /\ actor[c].key = None
                  /\ pc[c] = "build" => actor[c].save \in Conn
                  /\ pc[c] = "join" => who[c] = c /\ actor[c].key = c

(* What is looked up, served, indexed, listed or saved has been built.     *)
BuiltOnly ==
  /\ \A c \in Conn : pc[c] \in Acquainted => Built(who[c])
  /\ Indexed \subseteq {a \in Conn : Built(a)}
  /\ \A a \in Conn : Built(a) => actor[a].save \in Conn
  /\ \A a \in Conn : actor[a].dirty => Built(a)
  /\ tick.op \in {"reap", "reapsave"} => tick.who # None

(* Whoever holds an actor holds it alone, and its phase says so.           *)
HeldAlone ==
  /\ \A c \in Conn : pc[c] \in Holding => actor[who[c]].phase = "playing"
  /\ \A c, d \in Conn : pc[c] \in Holding /\ pc[d] \in Holding /\ who[c] = who[d] => c = d

(* What the sweep has claimed is neither held nor link-dead, and what is   *)
(* displaced has its latch set.                                            *)
Claimed ==
  /\ tick.who # None => actor[tick.who].phase = "tearing"
  /\ \A c \in Conn : pc[c] \in {"displace", "scrub"} => actor[who[c]].taken
  /\ \A c, d \in Conn : /\ pc[c] \in {"displace", "scrub"} /\ pc[d] \in {"displace", "scrub"}
                        /\ who[c] = who[d]
                        => c = d

SessionInv == TypeOK /\ BuiltLate /\ BuiltOnly /\ HeldAlone /\ Claimed

USE SessionAssumption DEF Circumstances

(* It holds at the start.                                                 *)
LEMMA InitInv == Init => SessionInv
<1> SUFFICES ASSUME Init PROVE SessionInv
  OBVIOUS
<1>1. TypeOK
  BY DEF Init, TypeOK, NoActor, NoIndex, NoJob, Resting, Labels, Someone, Progress, ActorType
<1>2. BuiltLate /\ BuiltOnly /\ HeldAlone /\ Claimed
  BY DEF Init, BuiltLate, BuiltOnly, HeldAlone, Claimed, Built, Indexed, NoActor, NoIndex,
    Resting, Holding, Acquainted
<1> QED
  BY <1>1, <1>2 DEF SessionInv

(* What a step of the goroutine of c leaves alone.                         *)
Others(c) == \A d \in Conn \ {c} : pc'[d] = pc[d] /\ who'[d] = who[d]
SameActors ==
  \A a \in Conn :
    /\ actor'[a].phase = actor[a].phase /\ actor'[a].key = actor[a].key
    /\ actor'[a].taken = actor[a].taken /\ actor'[a].save = actor[a].save

(* Who takes no hold of an actor, and displaces none, disturbs nobody.     *)
LEMMA Walk ==
  ASSUME NEW c \in Conn, SessionInv, Others(c), SameActors,
         tick'.who \in {tick.who, None},
         pc'[c] \in Holding => pc[c] \in Holding /\ who'[c] = who[c],
         pc'[c] \in {"displace", "scrub"} => pc[c] \in {"displace", "scrub"} /\ who'[c] = who[c]
  PROVE  HeldAlone' /\ Claimed'
<1> USE DEF SessionInv, Others, SameActors
<1>1. \A d \in Conn : pc'[d] \in Holding => pc[d] \in Holding /\ who'[d] = who[d] /\ who[d] \in Conn
  BY DEF BuiltOnly, Acquainted, Built, Holding
<1>2. \A d \in Conn : pc'[d] \in {"displace", "scrub"} =>
        pc[d] \in {"displace", "scrub"} /\ who'[d] = who[d] /\ who[d] \in Conn
  BY DEF BuiltOnly, Acquainted, Built
<1>3. HeldAlone'
  BY <1>1 DEF HeldAlone
<1>4. (tick.who # None => actor[tick.who].phase = "tearing")'
  BY DEF Claimed, TypeOK, Someone
<1>5. Claimed'
  BY <1>2, <1>4 DEF Claimed
<1> QED
  BY <1>3, <1>5

(* A Persist changes nothing of an actor but its mark.                     *)
LEMMA Saves ==
  ASSUME SessionInv, NEW w \in Conn \cup {Tick}, NEW a \in Conn,
         SaveBegins(w, a) \/ SaveReturns(w, a)
  PROVE  /\ SameActors /\ actor' \in [Conn -> ActorType]
         /\ \A d \in Conn : actor'[d].dirty => actor[d].dirty
         /\ job' \in [Conn \cup {Tick} -> [who : Someone, text : Progress, gen : Nat]]
         /\ mem' \in [Conn -> Progress] /\ disk' \in Progress /\ done' \in Progress
         /\ failed' \in BOOLEAN
<1> USE DEF SessionInv
<1>1. actor \in [Conn -> ActorType]
  BY DEF TypeOK
<1>2. CASE SaveBegins(w, a)
  <2>0. mem[actor[a].save] \in Progress
    BY <1>2 DEF SaveBegins, TypeOK, BuiltOnly
  <2>1. [who |-> a, text |-> mem[actor[a].save], gen |-> actor[a].gen]
          \in [who : Someone, text : Progress, gen : Nat]
    BY <1>1, <2>0 DEF ActorType, Someone
  <2> QED
    BY <1>1, <1>2, <2>1 DEF SaveBegins, SameActors, TypeOK, memVars
<1>3. CASE SaveReturns(w, a)
  <2>1. CASE job[w] = NoJob /\ ~actor[a].dirty /\ UNCHANGED <<job, actor, memVars>>
    BY <2>1 DEF SameActors, TypeOK, memVars
  <2>2. CASE /\ job' = [job EXCEPT ![w] = NoJob] /\ UNCHANGED <<mem, done, disk, actor>>
             /\ failed' = TRUE
    <3>1. NoJob \in [who : Someone, text : Progress, gen : Nat]
      BY DEF NoJob, Someone, Progress
    <3> QED
      BY <2>2, <3>1 DEF SameActors, TypeOK
  <2>3. CASE /\ job' = [job EXCEPT ![w] = NoJob] /\ UNCHANGED <<mem, done, failed>>
             /\ disk' = job[w].text
             /\ actor' = [actor EXCEPT ![a].dirty = IF actor[a].gen = job[w].gen THEN FALSE ELSE @]
    <3>1. NoJob \in [who : Someone, text : Progress, gen : Nat]
      BY DEF NoJob, Someone, Progress
    <3>2. job' \in [Conn \cup {Tick} -> [who : Someone, text : Progress, gen : Nat]]
      BY <2>3, <3>1 DEF TypeOK
    <3>3. job[w].text \in Progress
      BY DEF TypeOK
    <3>4. PICK b \in BOOLEAN : actor' = [actor EXCEPT ![a].dirty = b]
                              /\ (b => actor[a].dirty)
      BY <1>1, <2>3 DEF ActorType
    <3>5. actor' \in [Conn -> ActorType]
      BY <1>1, <3>4 DEF ActorType
    <3>6. SameActors /\ \A d \in Conn : actor'[d].dirty => actor[d].dirty
      BY <1>1, <3>4 DEF SameActors
    <3> QED
      BY <2>3, <3>2, <3>3, <3>5, <3>6 DEF TypeOK
  <2> QED
    BY <1>3, <2>1, <2>2, <2>3 DEF SaveReturns
<1> QED
  BY <1>2, <1>3

(* What was looked up, indexed or to be saved is so still.                 *)
LEMMA StillBuilt ==
  ASSUME SessionInv,
         \A a \in Conn : /\ actor'[a].phase # "none" <=> actor[a].phase # "none"
                         /\ actor'[a].save = actor[a].save
                         /\ actor'[a].dirty => actor[a].dirty,
         Indexed' \subseteq Indexed,
         \A c \in Conn : pc'[c] \in Acquainted => pc[c] \in Acquainted /\ who'[c] = who[c],
         tick'.op \in {"reap", "reapsave"} => tick'.who # None
  PROVE  BuiltOnly'
<1>1. \A c \in Conn : pc'[c] \in Acquainted => who'[c] \in Conn /\ actor'[who'[c]].phase # "none"
  BY DEF SessionInv, BuiltOnly, Built
<1>2. Indexed' \subseteq {a \in Conn : actor'[a].phase # "none"}
  BY DEF SessionInv, BuiltOnly, Built
<1>3. \A a \in Conn : actor'[a].phase # "none" => actor'[a].save \in Conn
  BY DEF SessionInv, BuiltOnly, Built
<1>4. \A a \in Conn : actor'[a].dirty => actor'[a].phase # "none"
  BY DEF SessionInv, BuiltOnly, Built
<1> QED
  BY <1>1, <1>2, <1>3, <1>4 DEF BuiltOnly, Built

(* Who holds alone what nobody else is about may let it go, or take it.    *)
LEMMA OneMoves ==
  ASSUME SessionInv, NEW c \in Conn, who[c] \in Conn, UNCHANGED <<who, tick>>,
         \A d \in Conn \ {c} : pc'[d] = pc[d] /\ (pc[d] \in Holding => who[d] # who[c]),
         \A a \in Conn : /\ actor'[a].taken = actor[a].taken
                         /\ a # who[c] => actor'[a].phase = actor[a].phase,
         pc'[c] \in Holding => actor'[who[c]].phase = "playing",
         pc'[c] \notin {"displace", "scrub"}, tick.who # who[c]
  PROVE  HeldAlone' /\ Claimed'
<1>0. tick.who # None => tick.who \in Conn
  BY DEF SessionInv, TypeOK, Someone
<1>1. \A d \in Conn : pc'[d] \in Holding => who[d] \in Conn /\ actor'[who[d]].phase = "playing"
  BY DEF SessionInv, HeldAlone, BuiltOnly, Built, Holding, Acquainted
<1>2. HeldAlone'
  BY <1>1 DEF SessionInv, HeldAlone
<1>3. \A d \in Conn : pc'[d] \in {"displace", "scrub"} => pc[d] = pc'[d] /\ who[d] \in Conn
  BY DEF SessionInv, BuiltOnly, Built, Acquainted
<1>4. Claimed'
  BY <1>0, <1>3 DEF SessionInv, Claimed
<1> QED
  BY <1>2, <1>4

(* One actor is given another value of the type.                           *)
LEMMA SetActor ==
  ASSUME actor \in [Conn -> ActorType], NEW a, NEW r \in ActorType,
         actor' = [d \in Conn |-> IF d = a THEN r ELSE actor[d]]
  PROVE  actor' \in [Conn -> ActorType]
  OBVIOUS

(* Reading the roster keeps the invariant.                                 *)
LEMMA LoadInv ==
  ASSUME NEW c \in Conn, SessionInv, Load(c)
  PROVE  SessionInv'
<1> USE DEF SessionInv
<1>1. TypeOK'
  BY DEF Load, Goto, memVars, TypeOK, Labels
<1>2. BuiltLate'
  BY DEF Load, Goto, BuiltLate, Before, ActorType, Someone
<1>3. BuiltOnly'
  BY DEF Load, Goto, BuiltOnly, Indexed, Built, Acquainted, Someone, ActorType
<1>4. HeldAlone'
  BY DEF Load, Goto, HeldAlone, Holding, Before, Built, ActorType
<1>5. Claimed'
  BY DEF Load, Goto, Claimed, Built, ActorType
<1> QED
  BY <1>1, <1>2, <1>3, <1>4, <1>5

(* Giving up keeps the invariant.                                          *)
LEMMA LeaveInv ==
  ASSUME NEW c \in Conn, SessionInv, Leave(c)
  PROVE  SessionInv'
<1> USE DEF SessionInv
<1>1. TypeOK'
  BY DEF Leave, Goto, memVars, Return, TypeOK, Labels
<1>2. BuiltLate'
  BY DEF Leave, Goto, Return, BuiltLate, Before, Built, ActorType, Someone
<1>3. BuiltOnly'
  BY DEF Leave, Goto, Return, BuiltOnly, Indexed, Built, Acquainted
<1>4. HeldAlone'
  BY DEF Leave, Goto, Return, HeldAlone, Holding
<1>5. Claimed'
  BY DEF Leave, Goto, Return, Claimed, Before, Built, ActorType
<1> QED
  BY <1>1, <1>2, <1>3, <1>4, <1>5

(* A new session keeps the invariant.                                      *)
LEMMA EnterNewInv ==
  ASSUME NEW c \in Conn, SessionInv, EnterNew(c)
  PROVE  SessionInv'
<1> USE DEF SessionInv
<1>1. TypeOK'
  <2>1. actor' \in [Conn -> ActorType] /\ mem' \in [Conn -> Progress]
    BY DEF EnterNew, TypeOK, Someone, ActorType
  <2>2. pc' \in [Conn -> Labels]
    BY DEF EnterNew, Goto, TypeOK, Labels, Passing
  <2>3. \A d \in Conn : index'.conn[d] # None => actor'[index'.conn[d]].key = d
    BY DEF EnterNew, TypeOK, Someone, ActorType
  <2> QED
    BY <2>1, <2>2, <2>3 DEF EnterNew, TypeOK
<1>2. BuiltLate'
  BY DEF EnterNew, Goto, TypeOK, BuiltLate, Before, ActorType, Someone
<1>3. BuiltOnly'
  BY DEF EnterNew, Goto, BuiltOnly, Indexed, Built, Acquainted, Someone, ActorType
<1>4. HeldAlone'
  BY DEF EnterNew, Goto, HeldAlone, Holding, Acquainted, Before, Built, ActorType
<1>5. Claimed'
  BY DEF EnterNew, Goto, Claimed, Built, ActorType
<1> QED
  BY <1>1, <1>2, <1>3, <1>4, <1>5

(* Finding a session keeps the invariant.                                  *)
LEMMA EnterFoundInv ==
  ASSUME NEW c \in Conn, SessionInv, EnterFound(c)
  PROVE  SessionInv'
<1> USE DEF SessionInv
<1>1. TypeOK'
  BY DEF EnterFound, Goto, memVars, TypeOK, Labels
<1>2. BuiltLate'
  BY DEF EnterFound, Goto, BuiltLate, Before, ActorType, Someone
<1>3. BuiltOnly'
  BY DEF EnterFound, Goto, TypeOK, BuiltOnly, Indexed, Built, Acquainted, Someone, ActorType
<1>4. HeldAlone'
  BY DEF EnterFound, Goto, HeldAlone, Holding, Acquainted, Before, Built, ActorType
<1>5. Claimed'
  BY DEF EnterFound, Goto, Claimed, Built, ActorType
<1> QED
  BY <1>1, <1>2, <1>3, <1>4, <1>5

(* Building the actor, which nobody can know yet, keeps the invariant.     *)
LEMMA BuildInv ==
  ASSUME NEW c \in Conn, SessionInv, Build(c)
  PROVE  SessionInv'
<1> USE DEF SessionInv
<1>1. TypeOK'
  <2>1. actor' \in [Conn -> ActorType]
    <3> DEFINE r == [actor[c] EXCEPT !.phase = "playing", !.sock = c, !.key = c]
    <3>1. actor[c] \in ActorType
      BY DEF TypeOK
    <3>2. r \in ActorType
      BY <3>1 DEF ActorType, Someone
    <3>3. actor' = [d \in Conn |-> IF d = c THEN r ELSE actor[d]]
      BY DEF Build, TypeOK
    <3> QED
      BY <3>2, <3>3, SetActor DEF TypeOK
  <2>2. (\A d \in Conn : index.conn[d] # None => actor[index.conn[d]].key = d)'
    BY DEF Build, TypeOK, BuiltLate, BuiltOnly, Indexed, Before
  <2> QED
    BY <2>1, <2>2 DEF Build, Goto, memVars, TypeOK, Labels, Passing, Someone
<1>2. BuiltLate'
  BY DEF Build, TypeOK, BuiltLate, Before, ActorType, Someone
<1>3. BuiltOnly'
  BY DEF Build, TypeOK, BuiltLate, Before, ActorType
<1>4. HeldAlone'
  BY DEF Build, memVars, TypeOK, BuiltLate, BuiltOnly, HeldAlone, Before, Built, ActorType
<1>5. Claimed'
  BY DEF Build, TypeOK, BuiltLate, Before, ActorType
<1> QED
  BY <1>1, <1>2, <1>3, <1>4, <1>5

(* Indexing it keeps the invariant.                                        *)
LEMMA JoinInv ==
  ASSUME NEW c \in Conn, SessionInv, Join(c)
  PROVE  SessionInv'
<1> USE DEF SessionInv
<1>1. TypeOK'
  <2>1. actor' \in [Conn -> ActorType]
    BY DEF Join, TypeOK
  <2>2. (\A d \in Conn : index.conn[d] # None => actor[index.conn[d]].key = d)'
    BY DEF Join, TypeOK, BuiltLate
  <2> QED
    BY <2>1, <2>2 DEF Join, Goto, memVars, TypeOK, Labels, Someone
<1>2. BuiltLate'
  BY DEF Join, Goto, BuiltLate, Before, ActorType, Someone
<1>3. BuiltOnly'
  BY DEF Join, Goto, BuiltLate, BuiltOnly, Indexed, Built, Acquainted, Someone, ActorType
<1>4. HeldAlone'
  BY DEF Join, Goto, HeldAlone, Holding, Before, Built, ActorType
<1>5. Claimed'
  BY DEF Join, Goto, Claimed, Built, ActorType
<1> QED
  BY <1>1, <1>2, <1>3, <1>4, <1>5

(* The first rendering keeps the invariant.                                *)
LEMMA SpawnInv ==
  ASSUME NEW c \in Conn, SessionInv, Spawn(c)
  PROVE  SessionInv'
<1> USE DEF SessionInv
<1>1. TypeOK'
  BY DEF Spawn, Goto, memVars, TypeOK, Labels, Passing, Someone
<1>2. BuiltLate'
  BY DEF Spawn, Goto, TypeOK, BuiltLate, Before, ActorType, Someone
<1>3. BuiltOnly'
  BY DEF Spawn, Goto, TypeOK, BuiltOnly, Indexed, Built, Acquainted, Someone, ActorType
<1>4. HeldAlone'
  BY Walk DEF Spawn, Goto, Others, SameActors, TypeOK, Holding
<1>5. Claimed'
  BY Walk DEF Spawn, Goto, Others, SameActors, TypeOK, Holding
<1> QED
  BY <1>1, <1>2, <1>3, <1>4, <1>5

(* Taking over, which the latch grants to one, keeps the invariant.        *)
LEMMA ClaimInv ==
  ASSUME NEW c \in Conn, SessionInv, Claim(c)
  PROVE  SessionInv'
<1> USE DEF SessionInv
<1>a. who[c] \in Conn /\ actor[who[c]].phase # "none"
  BY DEF Claim, BuiltOnly, Acquainted, Built
<1>b. pc' \in [Conn -> Labels] /\ open' \subseteq Conn
  <2>1. {"displace", "gone"} \subseteq Labels
    BY DEF Labels, Passing
  <2> QED
    BY <2>1 DEF Claim, Goto, Return, TypeOK
<1>1. TypeOK'
  <2>0. CASE UNCHANGED actor
    BY <1>b, <2>0 DEF Claim, memVars, TypeOK
  <2>3. CASE actor' = [actor EXCEPT ![who[c]].taken = TRUE, ![who[c]].disc = TRUE]
    <3>1. actor' \in [Conn -> ActorType]
      <4> DEFINE r == [actor[who[c]] EXCEPT !.taken = TRUE, !.disc = TRUE]
      <4>1. actor[who[c]] \in ActorType
        BY <1>a DEF TypeOK
      <4>2. r \in ActorType
        BY <4>1 DEF ActorType
      <4>3. actor' = [d \in Conn |-> IF d = who[c] THEN r ELSE actor[d]]
        BY <1>a, <2>3 DEF TypeOK
      <4> QED
        BY <4>2, <4>3, SetActor DEF TypeOK
    <3>2. (\A d \in Conn : index.conn[d] # None => actor[index.conn[d]].key = d)'
      BY <1>a, <2>3 DEF Claim, TypeOK, Someone
    <3> QED
      BY <1>b, <3>1, <3>2 DEF Claim, memVars, TypeOK, Someone
  <2> QED
    BY <2>0, <2>3 DEF Claim
<1>2. BuiltLate'
  BY DEF Claim, Goto, memVars, Return, TypeOK, BuiltLate, BuiltOnly, Before, Built, ActorType,
    Someone
<1>3. BuiltOnly'
  <2>1. \A a \in Conn : /\ actor'[a].phase = actor[a].phase /\ actor'[a].save = actor[a].save
                        /\ actor'[a].dirty = actor[a].dirty
    BY <1>a DEF Claim, memVars, Return, TypeOK, ActorType
  <2>2. \A d \in Conn : pc'[d] \in Acquainted => pc[d] \in Acquainted /\ who'[d] = who[d]
    BY DEF Claim, Goto, Return, TypeOK, Acquainted
  <2>3. Indexed' = Indexed /\ UNCHANGED tick
    BY DEF Claim, Indexed
  <2> QED
    BY <2>1, <2>2, <2>3, StillBuilt DEF BuiltOnly
<1>4. HeldAlone'
  <2>1. \A a \in Conn : actor'[a].phase = actor[a].phase
    BY <1>a DEF Claim, Goto, memVars, Return, TypeOK, ActorType
  <2>2. \A d \in Conn : pc'[d] \in Holding => pc[d] \in Holding
    BY DEF Claim, Goto, Return, TypeOK, Holding
  <2> QED
    BY <2>1, <2>2 DEF Claim, HeldAlone, BuiltOnly, Acquainted, Holding, Built
<1>5. Claimed'
  <2>1. CASE actor[who[c]].taken
    <3>1. UNCHANGED <<actor, who, tick>> /\ Return(c)
      BY <2>1 DEF Claim
    <3>2. \A d \in Conn : pc'[d] \in {"displace", "scrub"} => pc[d] \in {"displace", "scrub"}
      BY <3>1 DEF Return, Goto, TypeOK
    <3> QED
      BY <3>1, <3>2 DEF Claimed
  <2>2. CASE ~actor[who[c]].taken
    <3>1. \A a \in Conn : /\ actor'[a].phase = actor[a].phase
                          /\ actor'[a].taken <=> (a = who[c] \/ actor[a].taken)
      BY <1>a, <2>2 DEF Claim, TypeOK, ActorType
    <3>2. \A d \in Conn \ {c} : pc'[d] = pc[d]
      BY DEF Claim, Goto, Return, TypeOK
    <3>3. \A d \in Conn \ {c} : pc[d] \in {"displace", "scrub"} => who[d] \in Conn /\ who[d] # who[c]
      BY <2>2 DEF Claimed, BuiltOnly, Acquainted, Built
    <3>4. UNCHANGED <<who, tick>>
      BY DEF Claim
    <3>5. (tick.who # None => actor[tick.who].phase = "tearing")'
      BY <3>1, <3>4 DEF Claimed, TypeOK, Someone
    <3>6. \A d \in Conn : pc'[d] \in {"displace", "scrub"} =>
            d = c \/ (pc[d] \in {"displace", "scrub"} /\ who[d] \in Conn /\ who[d] # who[c])
      BY <3>2, <3>3
    <3>7. \A d \in Conn : pc'[d] \in {"displace", "scrub"} => actor'[who'[d]].taken
      BY <1>a, <3>1, <3>4, <3>6 DEF Claimed
    <3>8. (\A d, e \in Conn : /\ pc[d] \in {"displace", "scrub"} /\ pc[e] \in {"displace", "scrub"}
                             /\ who[d] = who[e]
                             => d = e)'
      BY <3>4, <3>6 DEF Claimed
    <3> QED
      BY <3>5, <3>7, <3>8 DEF Claimed
  <2> QED
    BY <2>1, <2>2
<1> QED
  BY <1>1, <1>2, <1>3, <1>4, <1>5

(* The save before a takeover keeps the invariant.                         *)
LEMMA DisplaceSaveInv ==
  ASSUME NEW c \in Conn, SessionInv, DisplaceSave(c)
  PROVE  SessionInv'
<1> USE DEF SessionInv
<1>a. /\ SameActors /\ actor' \in [Conn -> ActorType]
      /\ \A d \in Conn : actor'[d].dirty => actor[d].dirty
      /\ job' \in [Conn \cup {Tick} -> [who : Someone, text : Progress, gen : Nat]]
      /\ mem' \in [Conn -> Progress] /\ disk' \in Progress /\ done' \in Progress
      /\ failed' \in BOOLEAN
  BY Saves DEF DisplaceSave, BuiltOnly, Acquainted, Built
<1>1. TypeOK'
  <2>1. (tick \in [op : {"idle", "sweep", "reap", "reapsave", "autosave"}, todo : SUBSET Conn, who : Someone])'
    BY DEF DisplaceSave, TypeOK
  <2>2. (\A d \in Conn : index.conn[d] # None => actor[index.conn[d]].key = d)'
    BY <1>a DEF DisplaceSave, TypeOK, SameActors, Someone
  <2> QED
    BY <1>a, <2>1, <2>2 DEF DisplaceSave, Goto, TypeOK, Labels, Passing
<1>2. BuiltLate'
  <2>1. \A d \in Conn : /\ pc'[d] \in Before => pc[d] \in Before
                        /\ pc'[d] = "build" => pc[d] = "build"
                        /\ pc'[d] = "join" => pc[d] = "join"
    BY DEF DisplaceSave, Goto, TypeOK, Before
  <2>2. UNCHANGED who
    BY DEF DisplaceSave
  <2> QED
    BY <1>a, <2>1, <2>2 DEF BuiltLate, SameActors
<1>3. BuiltOnly'
  <2>1. Indexed' = Indexed
    BY DEF DisplaceSave, Indexed
  <2>2. \A d \in Conn : pc'[d] \in Acquainted => pc[d] \in Acquainted /\ who'[d] = who[d]
    BY DEF DisplaceSave, Goto, TypeOK, Acquainted
  <2>3. tick'.op \in {"reap", "reapsave"} => tick'.who # None
    BY DEF DisplaceSave, BuiltOnly
  <2> QED
    BY <1>a, <2>1, <2>2, <2>3, StillBuilt DEF SameActors
<1>4. HeldAlone' /\ Claimed'
  <2>1. /\ pc[c] = "displace" /\ pc'[c] \in {"displace", "scrub"} /\ UNCHANGED <<who, tick>>
        /\ \A d \in Conn \ {c} : pc'[d] = pc[d]
    BY DEF DisplaceSave, Goto, TypeOK
  <2> QED
    BY <1>a, <2>1, Walk DEF Others, Holding
<1> QED
  BY <1>1, <1>2, <1>3, <1>4

(* Removing the displaced session keeps the invariant.                     *)
LEMMA ScrubInv ==
  ASSUME NEW c \in Conn, SessionInv, Scrub(c)
  PROVE  SessionInv'
<1> USE DEF SessionInv
<1>1. TypeOK'
  <2>1. actor' \in [Conn -> ActorType]
    <3>1. actor[who[c]].save \in Conn /\ actor[c] \in ActorType
      BY DEF Scrub, TypeOK, BuiltOnly, Acquainted, Built
    <3>2. [actor[c] EXCEPT !.save = actor[who[c]].save] \in ActorType
      BY <3>1 DEF ActorType, Someone
    <3> QED
      BY <3>2 DEF Scrub, TypeOK
  <2>2. (\A d \in Conn : index.conn[d] # None => actor[index.conn[d]].key = d)'
    BY DEF Scrub, Remove, TypeOK, Built
  <2> QED
    BY <2>1, <2>2 DEF Scrub, Goto, memVars, Remove, TypeOK, Labels, Passing, Someone
<1>2. BuiltLate'
  BY DEF Scrub, Goto, TypeOK, BuiltLate, BuiltOnly, Before, Acquainted, Built
<1>3. BuiltOnly'
  BY DEF Scrub, Goto, Remove, BuiltOnly, Indexed, Built, Acquainted
<1>4. HeldAlone'
  BY DEF Scrub, Goto, HeldAlone, Holding
<1>5. Claimed'
  BY DEF Scrub, Goto, Claimed, Before, Built, ActorType
<1> QED
  BY <1>1, <1>2, <1>3, <1>4, <1>5

(* A change keeps the invariant.                                           *)
LEMMA PlayInv ==
  ASSUME NEW c \in Conn, SessionInv, Play(c)
  PROVE  SessionInv'
<1> USE DEF SessionInv
<1>1. TypeOK'
  BY DEF Play, TypeOK, ActorType
<1>2. BuiltLate'
  BY DEF Play, TypeOK, ActorType, Someone
<1>3. BuiltOnly'
  BY DEF Play, TypeOK, Acquainted, Someone, ActorType
<1>4. HeldAlone'
  BY DEF Play, TypeOK, BuiltOnly, Before, Built, ActorType
<1>5. Claimed'
  <2>1. c \in Conn /\ \A a \in Conn : /\ actor'[a].phase = actor[a].phase
                                      /\ actor'[a].taken = actor[a].taken
    BY DEF Play, TypeOK
  <2> QED
    BY <2>1 DEF Play, Claimed, TypeOK, Someone, BuiltOnly, Acquainted, Built
<1> QED
  BY <1>1, <1>2, <1>3, <1>4, <1>5

(* Losing the client keeps the invariant.                                  *)
LEMMA HangupInv ==
  ASSUME NEW c \in Conn, SessionInv, Hangup(c)
  PROVE  SessionInv'
<1> USE DEF SessionInv
<1>1. TypeOK'
  BY DEF Hangup, memVars, TypeOK
<1>2. BuiltLate'
  BY DEF Hangup, BuiltLate, ActorType, Someone
<1>3. BuiltOnly'
  BY DEF Hangup, BuiltOnly, Indexed, Built, Acquainted, Someone, ActorType
<1>4. HeldAlone'
  BY DEF Hangup, HeldAlone, Before, Built, ActorType
<1>5. Claimed'
  BY DEF Hangup, Claimed, Built, ActorType
<1> QED
  BY <1>1, <1>2, <1>3, <1>4, <1>5

(* Leaving the read loop keeps the invariant.                              *)
LEMMA UnwindInv ==
  ASSUME NEW c \in Conn, SessionInv, Unwind(c)
  PROVE  SessionInv'
<1> USE DEF SessionInv
<1>1. TypeOK'
  BY DEF Unwind, Goto, memVars, Return, TypeOK, Labels, Passing, Someone
<1>2. BuiltLate'
  BY DEF Unwind, Goto, Return, TypeOK, BuiltLate, Before, Built, ActorType, Someone
<1>3. BuiltOnly'
  BY DEF Unwind, Goto, Return, TypeOK, BuiltOnly, Indexed, Built, Acquainted
<1>4. HeldAlone'
  BY Walk DEF Unwind, Goto, Return, Others, SameActors, TypeOK, Holding
<1>5. Claimed'
  BY Walk DEF Unwind, Goto, Return, Others, SameActors, TypeOK, Holding
<1> QED
  BY <1>1, <1>2, <1>3, <1>4, <1>5

(* Going link-dead, which its holder alone does, keeps the invariant.      *)
LEMMA ParkInv ==
  ASSUME NEW c \in Conn, SessionInv, Park(c)
  PROVE  SessionInv'
<1> USE DEF SessionInv
<1>a. who[c] \in Conn /\ actor[who[c]].phase # "none"
  BY DEF Park, BuiltOnly, Acquainted, Built
<1>b. \A a \in Conn : /\ actor'[a].save = actor[a].save /\ actor'[a].dirty = actor[a].dirty
                      /\ actor'[a].taken = actor[a].taken
                      /\ actor'[a].phase # "none" <=> actor[a].phase # "none"
                      /\ a # who[c] => actor'[a].phase = actor[a].phase
  <2>1. \A a \in Conn : \/ actor'[a] = actor[a]
                        \/ a = who[c] /\ actor'[a] = [actor[a] EXCEPT !.phase = "linkdead"]
    BY <1>a DEF Park, TypeOK
  <2>2. \A a \in Conn : actor[a] \in ActorType
    BY DEF TypeOK
  <2> TAKE a \in Conn
  <2>3. CASE actor'[a] = actor[a]
    BY <2>3
  <2>4. CASE a = who[c] /\ actor'[a] = [actor[a] EXCEPT !.phase = "linkdead"]
    BY <1>a, <2>2, <2>4 DEF ActorType
  <2> QED
    BY <2>1, <2>3, <2>4
<1>c. /\ pc'[c] \notin Holding /\ pc'[c] \notin {"displace", "scrub"}
      /\ \A d \in Conn \ {c} : pc'[d] = pc[d]
      /\ \A d \in Conn : pc'[d] \in Acquainted => pc[d] \in Acquainted
      /\ pc[c] \in Holding
  BY DEF Park, Goto, TypeOK, Holding, Acquainted
<1>d. \A d \in Conn \ {c} : pc[d] \in Holding => who[d] # who[c]
  BY <1>c DEF HeldAlone
<1>e. UNCHANGED <<who, tick>> /\ Indexed' = Indexed
  BY DEF Park, Indexed
<1>f. actor[who[c]].phase = "playing"
  BY <1>c DEF HeldAlone
<1>g. tick.who # who[c]
  BY <1>a, <1>f, SessionAssumption DEF Claimed
<1>1. TypeOK'
  BY DEF Park, Goto, memVars, TypeOK, Labels, Passing, Someone, ActorType, Progress
<1>2. BuiltLate'
  BY DEF Park, Goto, memVars, TypeOK, BuiltLate, Before, ActorType, Someone
<1>3. BuiltOnly'
  BY <1>b, <1>c, <1>e, StillBuilt DEF BuiltOnly
<1>4. HeldAlone'
  BY <1>a, <1>b, <1>c, <1>d, <1>e, <1>g, OneMoves
<1>5. Claimed'
  BY <1>a, <1>b, <1>c, <1>d, <1>e, <1>g, OneMoves
<1> QED
  BY <1>1, <1>2, <1>3, <1>4, <1>5

(* Unbinding the connection keeps the invariant.                           *)
LEMMA UnbindInv ==
  ASSUME NEW c \in Conn, SessionInv, Unbind(c)
  PROVE  SessionInv'
<1> USE DEF SessionInv
<1>1. TypeOK'
  BY DEF Unbind, Goto, memVars, Return, TypeOK, Labels, Someone
<1>2. BuiltLate'
  BY DEF Unbind, Goto, Return, BuiltLate, Before, Built, ActorType, Someone
<1>3. BuiltOnly'
  BY DEF Unbind, Goto, Return, BuiltOnly, Indexed, Built, Acquainted
<1>4. HeldAlone'
  BY DEF Unbind, Goto, Return, HeldAlone, Holding
<1>5. Claimed'
  BY DEF Unbind, Goto, Return, Claimed, Before, Built, ActorType
<1> QED
  BY <1>1, <1>2, <1>3, <1>4, <1>5

(* The end of a session keeps the invariant.                               *)
LEMMA EndInv ==
  ASSUME NEW c \in Conn, SessionInv, End(c)
  PROVE  SessionInv'
<1> USE DEF SessionInv
<1>1. TypeOK'
  BY DEF End, Goto, memVars, Remove, TypeOK, Labels, Passing, Someone
<1>2. BuiltLate'
  BY DEF End, Goto, BuiltLate, Before, ActorType, Someone
<1>3. BuiltOnly'
  BY DEF End, Goto, Remove, BuiltOnly, Indexed, Built, Acquainted
<1>4. HeldAlone'
  BY DEF End, Goto, HeldAlone, Holding
<1>5. Claimed'
  BY DEF End, Goto, Claimed, Before, Built, ActorType
<1> QED
  BY <1>1, <1>2, <1>3, <1>4, <1>5

(* Its save keeps the invariant.                                           *)
LEMMA EndSaveInv ==
  ASSUME NEW c \in Conn, SessionInv, EndSave(c)
  PROVE  SessionInv'
<1> USE DEF SessionInv
<1>a. /\ SameActors /\ actor' \in [Conn -> ActorType]
      /\ \A d \in Conn : actor'[d].dirty => actor[d].dirty
      /\ job' \in [Conn \cup {Tick} -> [who : Someone, text : Progress, gen : Nat]]
      /\ mem' \in [Conn -> Progress] /\ disk' \in Progress /\ done' \in Progress
      /\ failed' \in BOOLEAN
  BY Saves DEF EndSave, BuiltOnly, Acquainted, Built
<1>b. /\ Others(c) /\ UNCHANGED tick
      /\ pc'[c] \notin Holding /\ pc'[c] \notin {"displace", "scrub"}
  BY DEF EndSave, Goto, Others, TypeOK, Holding
<1>1. TypeOK'
  <2>1. (tick \in [op : {"idle", "sweep", "reap", "reapsave", "autosave"}, todo : SUBSET Conn, who : Someone])'
    BY DEF EndSave, TypeOK
  <2>2. (\A d \in Conn : index.conn[d] # None => actor[index.conn[d]].key = d)'
    BY <1>a DEF EndSave, TypeOK, SameActors, Someone
  <2> QED
    BY <1>a, <2>1, <2>2 DEF EndSave, Goto, TypeOK, Labels, Passing
<1>2. BuiltLate'
  <2>1. \A d \in Conn : /\ pc'[d] \in Before => pc[d] \in Before
                        /\ pc'[d] = "build" => pc[d] = "build"
                        /\ pc'[d] = "join" => pc[d] = "join"
    BY DEF EndSave, Goto, TypeOK, Before
  <2>2. UNCHANGED who
    BY DEF EndSave
  <2> QED
    BY <1>a, <2>1, <2>2 DEF BuiltLate, SameActors
<1>3. BuiltOnly'
  <2>1. Indexed' = Indexed
    BY DEF EndSave, Indexed
  <2>2. \A d \in Conn : pc'[d] \in Acquainted => pc[d] \in Acquainted /\ who'[d] = who[d]
    BY DEF EndSave, Goto, TypeOK, Acquainted
  <2>3. tick'.op \in {"reap", "reapsave"} => tick'.who # None
    BY DEF EndSave, BuiltOnly
  <2> QED
    BY <1>a, <2>1, <2>2, <2>3, StillBuilt DEF SameActors
<1>4. HeldAlone'
  BY <1>a, <1>b, Walk
<1>5. Claimed'
  BY <1>a, <1>b, Walk
<1> QED
  BY <1>1, <1>2, <1>3, <1>4, <1>5

(* Dropping what the registries hold keeps the invariant.                  *)
LEMMA DropInv ==
  ASSUME NEW c \in Conn, SessionInv, Drop(c)
  PROVE  SessionInv'
<1> USE DEF SessionInv
<1>1. TypeOK'
  BY DEF Drop, Goto, memVars, Return, TypeOK, Labels, Someone
<1>2. BuiltLate'
  BY DEF Drop, Goto, Return, BuiltLate, Before, ActorType, Someone
<1>3. BuiltOnly'
  BY DEF Drop, Goto, Return, BuiltOnly, Indexed, Built, Acquainted
<1>4. HeldAlone'
  BY DEF Drop, Goto, Return, HeldAlone, Holding
<1>5. Claimed'
  BY DEF Drop, Goto, Return, Claimed, Before, Built, ActorType
<1> QED
  BY <1>1, <1>2, <1>3, <1>4, <1>5

(* Resuming a link-dead session, which nobody holds, keeps the invariant.  *)
LEMMA ReattachInv ==
  ASSUME NEW c \in Conn, SessionInv, Reattach(c)
  PROVE  SessionInv'
<1> USE DEF SessionInv
<1>a. who[c] \in Conn /\ actor[who[c]].phase # "none"
  BY DEF Reattach, BuiltOnly, Acquainted, Built
<1>b. \A a \in Conn : /\ actor'[a].taken = actor[a].taken
                      /\ a # who[c] => actor'[a].phase = actor[a].phase
  BY <1>a DEF Reattach, TypeOK, ActorType
<1>c. /\ pc'[c] \notin {"displace", "scrub"} /\ \A d \in Conn \ {c} : pc'[d] = pc[d]
      /\ UNCHANGED <<who, tick>>
  BY DEF Reattach, Goto, Return, TypeOK
<1>d. actor[who[c]].phase = "linkdead" => HeldAlone' /\ Claimed'
  <2> HAVE actor[who[c]].phase = "linkdead"
  <2>1. \A d \in Conn \ {c} : pc[d] \in Holding => who[d] # who[c]
    BY DEF HeldAlone
  <2>2. actor'[who[c]].phase = "playing"
    BY <1>a DEF Reattach, TypeOK, ActorType
  <2>3. tick.who # who[c]
    BY <1>a, SessionAssumption DEF Claimed
  <2> QED
    BY <1>a, <1>b, <1>c, <2>1, <2>2, <2>3, OneMoves
<1>e. actor[who[c]].phase # "linkdead" => HeldAlone' /\ Claimed'
  <2> HAVE actor[who[c]].phase # "linkdead"
  <2>1. pc'[c] \notin Holding /\ UNCHANGED actor
    BY DEF Reattach, Goto, Return, TypeOK, Holding
  <2> QED
    BY <1>c, <2>1, Walk DEF Others, SameActors
<1>1. TypeOK'
  BY DEF Reattach, Goto, memVars, Return, TypeOK, Labels, Passing, Someone, ActorType
<1>2. BuiltLate'
  BY DEF Reattach, Goto, Return, TypeOK, BuiltLate, Before, Built, ActorType, Someone
<1>3. BuiltOnly'
  BY DEF Reattach, Goto, Return, TypeOK, BuiltOnly, Indexed, Built, Acquainted, Someone,
    ActorType
<1>4. HeldAlone'
  BY <1>d, <1>e
<1>5. Claimed'
  BY <1>d, <1>e
<1> QED
  BY <1>1, <1>2, <1>3, <1>4, <1>5

(* Indexing it anew under its holder keeps the invariant.                  *)
LEMMA ReRegisterInv ==
  ASSUME NEW c \in Conn, SessionInv, ReRegister(c)
  PROVE  SessionInv'
<1> USE DEF SessionInv
<1>a. who[c] \in Conn /\ actor[who[c]].phase # "none"
  BY DEF ReRegister, BuiltOnly, Acquainted, Built
<1>0. \/ /\ index.pid = who[c] /\ pc' = [pc EXCEPT ![c] = "playing"]
         /\ index' = [index EXCEPT !.conn[actor[who[c]].key] = None, !.conn[c] = who[c]]
         /\ actor' = [actor EXCEPT ![who[c]].key = c]
      \/ /\ pc' = [pc EXCEPT ![c] = "end"] /\ UNCHANGED index
         /\ actor' = [actor EXCEPT ![who[c]].disc = TRUE]
  BY DEF ReRegister, Goto
<1>b. /\ \A a \in Conn : /\ actor'[a].taken = actor[a].taken /\ actor'[a].phase = actor[a].phase
                         /\ actor'[a].save = actor[a].save /\ actor'[a].dirty = actor[a].dirty
                         /\ a # who[c] => actor'[a].key = actor[a].key
      /\ actor' \in [Conn -> ActorType]
  <2>1. CASE actor' = [actor EXCEPT ![who[c]].key = c]
    <3>1. \A a \in Conn : actor'[a] = IF a = who[c] THEN [actor[a] EXCEPT !.key = c] ELSE actor[a]
      BY <1>a, <2>1 DEF TypeOK
    <3>2. \A a \in Conn : actor[a] \in ActorType /\ actor'[a] \in ActorType
      <4>1. \A a \in Conn : actor[a] \in ActorType
        BY DEF TypeOK
      <4>2. \A r \in ActorType : [r EXCEPT !.key = c] \in ActorType
        BY DEF ActorType, Someone
      <4> QED
        BY <3>1, <4>1, <4>2
    <3>3. actor' \in [Conn -> ActorType]
      BY <2>1, <3>2 DEF TypeOK
    <3> QED
      BY <1>a, <3>1, <3>2, <3>3 DEF ActorType
  <2>2. CASE actor' = [actor EXCEPT ![who[c]].disc = TRUE]
    <3>1. \A a \in Conn : actor'[a] = IF a = who[c] THEN [actor[a] EXCEPT !.disc = TRUE] ELSE actor[a]
      BY <1>a, <2>2 DEF TypeOK
    <3>2. \A a \in Conn : actor[a] \in ActorType /\ actor'[a] \in ActorType
      <4>1. \A a \in Conn : actor[a] \in ActorType
        BY DEF TypeOK
      <4>2. \A r \in ActorType : [r EXCEPT !.disc = TRUE] \in ActorType
        BY DEF ActorType
      <4> QED
        BY <3>1, <4>1, <4>2
    <3>3. actor' \in [Conn -> ActorType]
      BY <2>2, <3>2 DEF TypeOK
    <3> QED
      BY <1>a, <3>1, <3>2, <3>3 DEF ActorType
  <2> QED
    BY <1>0, <2>1, <2>2
<1>c. /\ \A d \in Conn \ {c} : pc'[d] = pc[d]
      /\ pc'[c] \in {"playing", "end"} /\ pc' \in [Conn -> Labels]
  <2>1. {"playing", "end"} \subseteq Labels
    BY DEF Labels, Passing
  <2>2. pc \in [Conn -> Labels] /\ (Goto(c, "playing") \/ Goto(c, "end"))
    BY DEF ReRegister, TypeOK
  <2> QED
    BY <2>1, <2>2 DEF Goto
<1>d. /\ index' \in [conn : [Conn -> Someone], pid : Someone] /\ index'.pid = index.pid
      /\ \A d \in Conn : index'.conn[d] \in {None, index.conn[d], index.pid}
      /\ \A d \in Conn : index'.conn[d] # None => actor'[index'.conn[d]].key = d
  <2>1. CASE UNCHANGED index /\ actor' = [actor EXCEPT ![who[c]].disc = TRUE]
    BY <1>a, <2>1 DEF TypeOK
  <2>2. CASE /\ index.pid = who[c]
             /\ index' = [index EXCEPT !.conn[actor[who[c]].key] = None, !.conn[c] = who[c]]
             /\ actor' = [actor EXCEPT ![who[c]].key = c]
    <3>1. index'.pid = index.pid /\ index' \in [conn : [Conn -> Someone], pid : Someone]
      BY <1>a, <2>2 DEF TypeOK, Someone
    <3>2. \A d \in Conn : index'.conn[d] = IF d = c THEN who[c]
                                           ELSE IF d = actor[who[c]].key THEN None ELSE index.conn[d]
      BY <1>a, <2>2 DEF TypeOK
    <3>3. actor'[who[c]].key = c
      BY <1>a, <2>2 DEF TypeOK
    <3>4. \A d \in Conn \ {c} : index'.conn[d] # None => index.conn[d] \in Conn \ {who[c]}
      BY <3>2 DEF TypeOK, Someone
    <3> QED
      BY <1>a, <1>b, <2>2, <3>1, <3>2, <3>3, <3>4 DEF TypeOK
  <2> QED
    BY <1>0, <2>1, <2>2
<1>e. /\ UNCHANGED <<who, loaded, open, kept, memVars, job, tick>> /\ pc[c] = "rereg"
  BY DEF ReRegister
<1>f. /\ actor[who[c]].phase = "playing" /\ tick.who # who[c]
      /\ \A d \in Conn \ {c} : pc[d] \in Holding => who[d] # who[c]
  BY <1>a, <1>e, SessionAssumption DEF HeldAlone, Holding, Claimed
<1>1. TypeOK'
  BY <1>b, <1>c, <1>d, <1>e DEF memVars, TypeOK
<1>2. BuiltLate'
  BY <1>a, <1>b, <1>c, <1>e, <1>f DEF BuiltLate, Before, Holding
<1>3. BuiltOnly'
  <2>1. Indexed' \subseteq Indexed
    BY <1>d DEF Indexed
  <2>2. \A d \in Conn : pc'[d] \in Acquainted => pc[d] \in Acquainted /\ who'[d] = who[d]
    BY <1>c, <1>e DEF Acquainted
  <2> QED
    BY <1>b, <1>e, <2>1, <2>2, StillBuilt DEF BuiltOnly
<1>4. HeldAlone'
  BY <1>a, <1>b, <1>c, <1>e, <1>f, OneMoves
<1>5. Claimed'
  BY <1>a, <1>b, <1>c, <1>e, <1>f, OneMoves
<1> QED
  BY <1>1, <1>2, <1>3, <1>4, <1>5

(* The idle latch keeps the invariant.                                     *)
LEMMA IdleTimeoutInv ==
  ASSUME NEW c \in Conn, SessionInv, IdleTimeout(c)
  PROVE  SessionInv'
<1> USE DEF SessionInv
<1>1. TypeOK'
  <2>1. actor' \in [Conn -> ActorType]
    <3> DEFINE r == [actor[index.conn[c]] EXCEPT !.disc = TRUE]
    <3>1. actor[index.conn[c]] \in ActorType
      BY DEF IdleTimeout, TypeOK, Someone
    <3>2. r \in ActorType
      BY <3>1 DEF ActorType
    <3>3. actor' = [d \in Conn |-> IF d = index.conn[c] THEN r ELSE actor[d]]
      BY DEF IdleTimeout, TypeOK
    <3> QED
      BY <3>2, <3>3, SetActor DEF TypeOK
  <2>2. (\A d \in Conn : index.conn[d] # None => actor[index.conn[d]].key = d)'
    BY DEF IdleTimeout, TypeOK
  <2> QED
    BY <2>1, <2>2 DEF IdleTimeout, memVars, TypeOK
<1>2. BuiltLate'
  BY DEF IdleTimeout, BuiltLate, ActorType, Someone
<1>3. BuiltOnly'
  BY DEF IdleTimeout, BuiltOnly, Indexed, Built, Acquainted, Someone, ActorType
<1>4. HeldAlone'
  BY DEF IdleTimeout, HeldAlone, Acquainted, Before, Built, ActorType
<1>5. Claimed'
  BY DEF IdleTimeout, Claimed, Before, Built, ActorType
<1> QED
  BY <1>1, <1>2, <1>3, <1>4, <1>5

(* Listing keeps the invariant.                                            *)
LEMMA SweepInv ==
  ASSUME SessionInv, Sweep
  PROVE  SessionInv'
<1> USE DEF SessionInv
<1>1. TypeOK'
  BY DEF Sweep, memVars, TypeOK, Someone
<1>2. BuiltLate'
  BY DEF Sweep, BuiltLate, ActorType, Someone
<1>3. BuiltOnly'
  BY DEF Sweep, BuiltOnly, Indexed, Built, Acquainted, Someone, ActorType
<1>4. HeldAlone'
  BY DEF Sweep, HeldAlone, Before, Built, ActorType
<1>5. Claimed'
  BY DEF Sweep, Claimed, Built, ActorType
<1> QED
  BY <1>1, <1>2, <1>3, <1>4, <1>5

(* Reaping a link-dead session, which nobody holds, keeps the invariant.   *)
LEMMA SweepClaimInv ==
  ASSUME NEW c \in Conn, SessionInv, SweepClaim(c)
  PROVE  SessionInv'
<1> USE DEF SessionInv
<1>1. TypeOK'
  <2>1. actor' \in [Conn -> ActorType]
    <3> DEFINE r == [actor[c] EXCEPT !.phase = "tearing", !.disc = TRUE]
    <3>1. actor[c] \in ActorType
      BY DEF TypeOK
    <3>2. r \in ActorType
      BY <3>1 DEF ActorType
    <3>3. actor' = [d \in Conn |-> IF d = c THEN r ELSE actor[d]]
      BY DEF SweepClaim, TypeOK
    <3> QED
      BY <3>2, <3>3, SetActor DEF TypeOK
  <2>2. (\A d \in Conn : index.conn[d] # None => actor[index.conn[d]].key = d)'
    BY DEF SweepClaim, TypeOK, Someone
  <2> QED
    BY <2>1, <2>2 DEF SweepClaim, memVars, TypeOK, Someone
<1>2. BuiltLate'
  BY DEF SweepClaim, TypeOK, BuiltLate, ActorType, Someone
<1>3. BuiltOnly'
  BY DEF SweepClaim, TypeOK, BuiltOnly, Indexed, Built, Acquainted, Someone, ActorType
<1>4. HeldAlone'
  BY DEF SweepClaim, TypeOK, BuiltOnly, HeldAlone, Holding, Acquainted, Before, Built, ActorType
<1>5. Claimed'
  BY DEF SweepClaim, TypeOK, Claimed, BuiltOnly, Acquainted, Built, ActorType
<1> QED
  BY <1>1, <1>2, <1>3, <1>4, <1>5

(* Passing one by keeps the invariant.                                     *)
LEMMA SweepSkipInv ==
  ASSUME NEW c \in Conn, SessionInv, SweepSkip(c)
  PROVE  SessionInv'
<1> USE DEF SessionInv
<1>1. TypeOK'
  BY DEF SweepSkip, memVars, TypeOK
<1>2. BuiltLate'
  BY DEF SweepSkip, BuiltLate, ActorType, Someone
<1>3. BuiltOnly'
  BY DEF SweepSkip, BuiltOnly, Indexed, Built, Acquainted, Someone, ActorType
<1>4. HeldAlone'
  BY DEF SweepSkip, HeldAlone, Acquainted, Before, Built, ActorType
<1>5. Claimed'
  BY DEF SweepSkip, Claimed, Built, ActorType
<1> QED
  BY <1>1, <1>2, <1>3, <1>4, <1>5

(* Removing the one claimed keeps the invariant.                           *)
LEMMA SweepReapInv ==
  ASSUME SessionInv, SweepReap
  PROVE  SessionInv'
<1> USE DEF SessionInv
<1>1. TypeOK'
  BY DEF SweepReap, memVars, Remove, TypeOK, Someone
<1>2. BuiltLate'
  BY DEF SweepReap, BuiltLate, Built, ActorType, Someone
<1>3. BuiltOnly'
  BY DEF SweepReap, Remove, BuiltOnly, Indexed, Built
<1>4. HeldAlone'
  BY DEF SweepReap, HeldAlone, Acquainted, Before, Built, ActorType
<1>5. Claimed'
  BY DEF SweepReap, Claimed, Before, Built, ActorType
<1> QED
  BY <1>1, <1>2, <1>3, <1>4, <1>5

(* Saving it keeps the invariant.                                          *)
LEMMA SweepSaveInv ==
  ASSUME SessionInv, SweepSave
  PROVE  SessionInv'
<1> USE DEF SessionInv
<1>a. /\ SameActors /\ actor' \in [Conn -> ActorType]
      /\ \A d \in Conn : actor'[d].dirty => actor[d].dirty
      /\ job' \in [Conn \cup {Tick} -> [who : Someone, text : Progress, gen : Nat]]
      /\ mem' \in [Conn -> Progress] /\ disk' \in Progress /\ done' \in Progress
      /\ failed' \in BOOLEAN
  BY Saves DEF SweepSave, BuiltOnly, TypeOK, Someone
<1>1. TypeOK'
  <2>1. (tick \in [op : {"idle", "sweep", "reap", "reapsave", "autosave"}, todo : SUBSET Conn, who : Someone])'
    BY DEF SweepSave, TypeOK, Someone
  <2>2. (\A d \in Conn : index.conn[d] # None => actor[index.conn[d]].key = d)'
    BY <1>a DEF SweepSave, TypeOK, SameActors, Someone
  <2> QED
    BY <1>a, <2>1, <2>2 DEF SweepSave, TypeOK
<1>2. BuiltLate'
  BY <1>a DEF SweepSave, BuiltLate, SameActors
<1>3. BuiltOnly'
  <2>1. Indexed' = Indexed
    BY DEF SweepSave, Indexed
  <2>2. \A d \in Conn : pc'[d] \in Acquainted => pc[d] \in Acquainted /\ who'[d] = who[d]
    BY DEF SweepSave
  <2>3. tick'.op \in {"reap", "reapsave"} => tick'.who # None
    BY DEF SweepSave, TypeOK, BuiltOnly
  <2> QED
    BY <1>a, <2>1, <2>2, <2>3, StillBuilt DEF SameActors
<1>4. HeldAlone'
  BY <1>a DEF SweepSave, SameActors, HeldAlone, BuiltOnly, Holding, Acquainted, Built
<1>5. Claimed'
  <2>1. tick'.who \in {tick.who, None}
    BY DEF SweepSave, TypeOK
  <2> QED
    BY <1>a, <2>1 DEF SweepSave, SameActors, TypeOK, Claimed, BuiltOnly, Acquainted, Built,
      Someone
<1> QED
  BY <1>1, <1>2, <1>3, <1>4, <1>5

(* Listing all sessions keeps the invariant.                               *)
LEMMA AutosaveInv ==
  ASSUME SessionInv, Autosave
  PROVE  SessionInv'
<1> USE DEF SessionInv
<1>1. TypeOK'
  BY DEF Autosave, memVars, TypeOK, BuiltOnly
<1>2. BuiltLate'
  BY DEF Autosave, BuiltLate, ActorType, Someone
<1>3. BuiltOnly'
  BY DEF Autosave, BuiltOnly, Indexed, Built, Acquainted, Someone, ActorType
<1>4. HeldAlone'
  BY DEF Autosave, HeldAlone, Acquainted, Before, Built, ActorType
<1>5. Claimed'
  BY DEF Autosave, Claimed, Built, ActorType
<1> QED
  BY <1>1, <1>2, <1>3, <1>4, <1>5

(* Saving one keeps the invariant.                                         *)
LEMMA AutosaveOneInv ==
  ASSUME NEW c \in Conn, SessionInv, AutosaveOne(c)
  PROVE  SessionInv'
<1> USE DEF SessionInv
<1>a. /\ SameActors /\ actor' \in [Conn -> ActorType]
      /\ \A d \in Conn : actor'[d].dirty => actor[d].dirty
      /\ job' \in [Conn \cup {Tick} -> [who : Someone, text : Progress, gen : Nat]]
      /\ mem' \in [Conn -> Progress] /\ disk' \in Progress /\ done' \in Progress
      /\ failed' \in BOOLEAN
  BY Saves DEF AutosaveOne
<1>1. TypeOK'
  <2>1. (tick \in [op : {"idle", "sweep", "reap", "reapsave", "autosave"}, todo : SUBSET Conn, who : Someone])'
    BY DEF AutosaveOne, TypeOK
  <2>2. (\A d \in Conn : index.conn[d] # None => actor[index.conn[d]].key = d)'
    BY <1>a DEF AutosaveOne, TypeOK, SameActors, Someone
  <2> QED
    BY <1>a, <2>1, <2>2 DEF AutosaveOne, TypeOK
<1>2. BuiltLate'
  BY <1>a DEF AutosaveOne, Goto, memVars, BuiltLate, SameActors
<1>3. BuiltOnly'
  <2>1. Indexed' = Indexed
    BY DEF AutosaveOne, Indexed
  <2>2. \A d \in Conn : pc'[d] \in Acquainted => pc[d] \in Acquainted /\ who'[d] = who[d]
    BY DEF AutosaveOne
  <2>3. tick'.op \in {"reap", "reapsave"} => tick'.who # None
    BY DEF AutosaveOne, TypeOK
  <2> QED
    BY <1>a, <2>1, <2>2, <2>3, StillBuilt DEF SameActors
<1>4. HeldAlone'
  BY <1>a, Walk DEF AutosaveOne, Others, TypeOK
<1>5. Claimed'
  BY <1>a, Walk DEF AutosaveOne, Others, TypeOK
<1> QED
  BY <1>1, <1>2, <1>3, <1>4, <1>5

(* The end of a sweep keeps the invariant.                                 *)
LEMMA TickEndInv ==
  ASSUME SessionInv, TickEnd
  PROVE  SessionInv'
<1> USE DEF SessionInv
<1>1. TypeOK'
  BY DEF TickEnd, memVars, Resting, TypeOK, Someone
<1>2. BuiltLate'
  BY DEF TickEnd, BuiltLate, Built, ActorType, Someone
<1>3. BuiltOnly'
  BY DEF TickEnd, Resting, BuiltOnly, Indexed, Built
<1>4. HeldAlone'
  BY DEF TickEnd, HeldAlone, Acquainted, Before, Built, ActorType
<1>5. Claimed'
  BY DEF TickEnd, Resting, Claimed, Before, Built, ActorType
<1> QED
  BY <1>1, <1>2, <1>3, <1>4, <1>5

(* A restart keeps the invariant.                                          *)
LEMMA CrashInv ==
  ASSUME SessionInv, Crash
  PROVE  SessionInv'
<1> USE DEF SessionInv
<1>1. TypeOK'
  <2>1. pc' \in [Conn -> Labels] /\ open' \subseteq Conn
    BY DEF Crash, TypeOK, Labels
  <2>2. /\ who' \in [Conn -> Someone] /\ loaded' \in [Conn -> Progress]
        /\ mem' \in [Conn -> Progress] /\ disk' \in Progress /\ done' \in Progress
        /\ failed' \in BOOLEAN
    BY DEF Crash, TypeOK, Someone, Progress
  <2>3. job' \in [Conn \cup {Tick} -> [who : Someone, text : Progress, gen : Nat]]
    BY DEF Crash, NoJob, TypeOK, Someone, Progress
  <2>4. /\ actor' \in [Conn -> ActorType] /\ kept' \in Someone
        /\ index' \in [conn : [Conn -> Someone], pid : Someone]
        /\ tick' \in [op : {"idle", "sweep", "reap", "reapsave", "autosave"},
                      todo : SUBSET Conn, who : Someone]
        /\ \A c \in Conn : index'.conn[c] = None
    BY DEF Crash, NoActor, NoIndex, Resting, Someone, ActorType
  <2> QED
    BY <2>1, <2>2, <2>3, <2>4 DEF TypeOK
<1>2. BuiltLate'
  BY DEF Crash, NoActor, BuiltLate
<1>3. BuiltOnly'
  BY DEF Crash, NoActor, NoIndex, Resting, BuiltOnly, Indexed, Built, Acquainted
<1>4. HeldAlone'
  BY DEF Crash, HeldAlone, Holding, Acquainted, Before, Built, ActorType
<1>5. Claimed'
  BY DEF Crash, Resting, Claimed
<1> QED
  BY <1>1, <1>2, <1>3, <1>4, <1>5

(* Every step keeps the invariant.                                         *)
LEMMA NextInv == SessionInv /\ [Next]_vars => SessionInv'
<1> SUFFICES ASSUME SessionInv, [Next]_vars PROVE SessionInv'
  OBVIOUS
<1>1. CASE \E c \in Conn : Login(c)
  BY <1>1, LoadInv, LeaveInv, EnterNewInv, EnterFoundInv, ClaimInv DEF Login
<1>2. CASE \E c \in Conn : Runs(c)
  <2> PICK c \in Conn : Runs(c)
    BY <1>2
  <2>1. CASE Build(c) \/ Join(c) \/ Spawn(c) \/ DisplaceSave(c) \/ Scrub(c) \/ Park(c)
    BY <2>1, BuildInv, JoinInv, SpawnInv, DisplaceSaveInv, ScrubInv, ParkInv
  <2>2. CASE Unbind(c) \/ End(c) \/ EndSave(c) \/ Drop(c) \/ Reattach(c) \/ ReRegister(c)
    BY <2>2, UnbindInv, EndInv, EndSaveInv, DropInv, ReattachInv, ReRegisterInv
  <2> QED
    BY <2>1, <2>2 DEF Runs
<1>3. CASE \E c \in Conn : Play(c) \/ Hangup(c) \/ Unwind(c) \/ IdleTimeout(c) \/ SweepClaim(c)
  BY <1>3, PlayInv, HangupInv, UnwindInv, IdleTimeoutInv, SweepClaimInv
<1>4. CASE TickRuns
  BY <1>4, SweepSkipInv, AutosaveOneInv, SweepReapInv, SweepSaveInv, TickEndInv DEF TickRuns
<1>5. CASE Sweep \/ Autosave \/ Crash
  BY <1>5, SweepInv, AutosaveInv, CrashInv
<1>6. CASE UNCHANGED vars
  BY <1>6 DEF vars, SessionInv, TypeOK, BuiltLate, BuiltOnly, HeldAlone, Claimed, Built, Indexed
<1> QED
  BY <1>1, <1>2, <1>3, <1>4, <1>5, <1>6 DEF Next

(* Every variable keeps its type, and a connection is indexed under the id *)
(* its actor has (session.go, manager.go).                                 *)
THEOREM SessionTypeOK == Spec => []TypeOK
<1>1. Init => SessionInv
  BY InitInv
<1>2. SessionInv /\ [Next]_vars => SessionInv'
  BY NextInv
<1>3. SessionInv => TypeOK
  BY DEF SessionInv
<1> QED
  BY <1>1, <1>2, <1>3, PTL DEF Spec

(* The phase and the takeover latch let one side win: a session that is    *)
(* resumed or played is not being reaped, and no two takeovers displace    *)
(* the same session (claimForTeardown, reattach, markTakenOver).           *)
THEOREM SessionOneWinner == Spec => []OneWinner
<1>1. Init => SessionInv
  BY InitInv
<1>2. SessionInv /\ [Next]_vars => SessionInv'
  BY NextInv
<1>3. SessionInv => OneWinner
  <2> SUFFICES ASSUME SessionInv PROVE OneWinner
    OBVIOUS
  <2>1. ASSUME NEW c \in Conn, pc[c] \in {"rereg", "playing"}
        PROVE  who[c] # tick.who
    <3>1. who[c] \in Conn /\ actor[who[c]].phase = "playing"
      BY <2>1 DEF SessionInv, HeldAlone, Holding, BuiltOnly, Acquainted, Built
    <3> QED
      BY <3>1 DEF SessionInv, Claimed
  <2>2. \A c, d \in Conn : /\ pc[c] \in {"displace", "scrub"} /\ pc[d] \in {"displace", "scrub"}
                           /\ who[c] = who[d]
                           => c = d
    BY DEF SessionInv, Claimed
  <2> QED
    BY <2>1, <2>2 DEF OneWinner
<1> QED
  BY <1>1, <1>2, <1>3, PTL DEF Spec

------------------------------------------------------------------------------
(* Sessions that take turns. *)

Orderly == "overlap" \notin Allowed /\ "stale" \notin Allowed

(* Whose goroutine is with the character's session, or with none yet.      *)
Serving == {"spawn", "playing"}
Outside == {"new", "menu", "prompt", "reattach", "gone"}
Displacing == {"displace", "scrub"}

(* One session at a time begins, ends or is replaced.                      *)
OnePasses ==
  /\ \A c, d \in Conn : pc[c] \in Passing /\ pc[d] \in Passing => c = d
  /\ \A c \in Conn : pc[c] \in Passing => tick.who = None
  /\ tick.who # None => tick.op \in {"reap", "reapsave"}

(* The index holds one session, which is known from where its goroutines   *)
(* are, and so do the registries.                                          *)
OneIndexed ==
  /\ \A c \in Conn : /\ pc[c] \in Displacing \cup {"park", "unbind", "end", "rereg"}
                          => index.pid = who[c]
                     /\ pc[c] \in {"build", "join", "endsave", "drop"} => index.pid = None
                     /\ pc[c] \in Serving /\ ~actor[who[c]].taken => index.pid = who[c]
                     /\ index.conn[c] # None => index.conn[c] = index.pid
                     /\ pc[c] = "join" => kept = c
                     /\ actor[c].phase = "linkdead" /\ ~actor[c].taken => index.pid = c
  /\ tick.op = "reap" => index.pid = tick.who
  /\ tick.op = "reapsave" => index.pid = None
  /\ index.pid # None => kept = index.pid

(* What its goroutines know of the session.                                *)
Marked ==
  \A c \in Conn :
    /\ pc[c] \in Before \cup {"join"} => ~actor[c].taken
    /\ pc[c] = "join" => actor[c].sock = c
    /\ pc[c] = "spawn" => who[c] = c
    /\ pc[c] \in Serving /\ ~actor[who[c]].taken =>
         index.conn[c] = who[c] /\ actor[who[c]].key = c /\ actor[who[c]].sock = c
    /\ pc[c] = "rereg" => actor[who[c]].sock = c
    /\ pc[c] = "unbind" => actor[who[c]].phase = "linkdead"
    /\ pc[c] = "end" => /\ actor[who[c]].phase = "playing"
                        /\ \A d \in Conn : pc[d] \in Holding => who[d] # who[c]

(* Who is displaced is so by somebody, as long as he is indexed.           *)
Displaced ==
  index.pid # None /\ actor[index.pid].taken =>
    \E c \in Conn : pc[c] \in Displacing /\ who[c] = index.pid

OrderInv == SessionInv /\ OnePasses /\ OneIndexed /\ Marked /\ Displaced /\ NoGhost

USE SessionAssumption DEF Circumstances

(* The states the parts are about.                                         *)
LEMMA Places ==
  /\ Passing \cap (Serving \cup Outside) = {} /\ Serving \cap Outside = {}
  /\ Labels = Passing \cup Serving \cup Outside
  /\ Acquainted \subseteq Labels /\ Holding \subseteq Passing \cup Serving
  /\ Before \cap (Serving \cup Holding) = {}
  BY DEF Passing, Serving, Outside, Labels, Acquainted, Holding, Before

(* It holds at the start.                                                 *)
LEMMA InitOrder == Init => OrderInv
<1> SUFFICES ASSUME Init PROVE OrderInv
  OBVIOUS
<1>1. OnePasses /\ OneIndexed
  BY DEF Init, OnePasses, OneIndexed, Passing, Serving, Displacing, NoActor, NoIndex, Resting
<1>2. Marked /\ Displaced /\ NoGhost
  BY DEF Init, Marked, Displaced, NoGhost, Indexed, Serving, NoActor, NoIndex
<1> QED
  BY <1>1, <1>2, InitInv DEF OrderInv

(* Whoever holds the character's session and was not displaced is the only *)
(* one: the index says who it is.                                          *)
LEMMA OneServes ==
  ASSUME OrderInv, NEW c \in Conn, NEW d \in Conn, pc[c] \in Serving, pc[d] \in Serving,
         ~actor[who[c]].taken, ~actor[who[d]].taken
  PROVE  c = d
  BY DEF OrderInv, OneIndexed, SessionInv, HeldAlone, Holding, Serving

(* While a session passes, nobody serves one.                              *)
LEMMA NoneServes ==
  ASSUME OrderInv, NEW d \in Conn, pc[d] \in Serving,
         tick.who # None \/ \E c \in Conn : pc[c] \in Passing
  PROVE  actor[who[d]].taken
<1> SUFFICES ASSUME ~actor[who[d]].taken PROVE FALSE
  OBVIOUS
<1>1. who[d] \in Conn /\ index.pid = who[d] /\ actor[who[d]].phase = "playing"
  BY DEF OrderInv, OneIndexed, SessionInv, BuiltOnly, Built, Acquainted, HeldAlone, Holding, Serving
<1>2. CASE tick.who # None
  BY <1>1, <1>2 DEF OrderInv, OnePasses, OneIndexed, SessionInv, Claimed
<1>3. ASSUME NEW c \in Conn, pc[c] \in Passing
      PROVE  FALSE
  <2>0. pc[c] \notin {"build", "join", "endsave", "drop"}
    BY <1>1 DEF OrderInv, OneIndexed
  <2>1. CASE pc[c] \in Displacing
    BY <1>1, <2>1 DEF OrderInv, OneIndexed, SessionInv, Claimed, Displacing
  <2>2. CASE pc[c] \in {"park", "rereg"}
    BY <1>1, <2>2 DEF OrderInv, OneIndexed, SessionInv, HeldAlone, Holding, Serving
  <2>3. CASE pc[c] = "unbind"
    BY <1>1, <2>3 DEF OrderInv, OneIndexed, Marked
  <2>4. CASE pc[c] = "end"
    BY <1>1, <2>4 DEF OrderInv, OneIndexed, Marked, Holding, Serving
  <2> QED
    BY <1>3, <2>0, <2>1, <2>2, <2>3, <2>4 DEF Passing, Displacing
<1> QED
  BY <1>2, <1>3

(* What the parts say of an actor.                                         *)
SameMarks ==
  \A a \in Conn :
    /\ actor'[a].phase = actor[a].phase /\ actor'[a].key = actor[a].key
    /\ actor'[a].taken = actor[a].taken /\ actor'[a].sock = actor[a].sock

(* What a goroutine does while it has no session yet, or has left one it   *)
(* was displaced from, and what it does without changing the index.        *)
LEMMA Rests ==
  ASSUME OrderInv, SessionInv', NEW c, Others(c), SameMarks, UNCHANGED <<index, kept>>,
         tick'.who = tick.who,
         tick'.op = tick.op \/ {tick.op, tick'.op} \cap {"reap", "reapsave"} = {},
         \/ pc'[c] = pc[c] /\ who'[c] = who[c]
         \/ /\ pc'[c] \in Outside
            /\ pc[c] \in Outside \/ (pc[c] \in Serving /\ actor[who[c]].taken)
            /\ pc'[c] \in Before => pc[c] \in Before
  PROVE  OrderInv'
<1> USE DEF OrderInv, Others, SameMarks
<1>0. \A d \in Conn : \/ pc'[d] = pc[d] /\ who'[d] = who[d]
                      \/ /\ d = c /\ pc'[d] \in Outside
                         /\ pc[d] \in Outside \/ (pc[d] \in Serving /\ actor[who[d]].taken)
                         /\ pc'[d] \in Before => pc[d] \in Before
  OBVIOUS
<1>1. \A d \in Conn : pc'[d] \notin Outside => pc'[d] = pc[d] /\ who'[d] = who[d]
  BY <1>0
<1>2. \A d \in Conn : pc[d] \in Passing => pc'[d] = pc[d] /\ who'[d] = who[d]
  BY <1>0, Places
<1>3. \A d \in Conn : pc[d] \in Acquainted => who[d] \in Conn
  BY DEF SessionInv, BuiltOnly, Built
<1>a. OnePasses'
  BY <1>1, Places DEF OnePasses
<1>b. OneIndexed'
  <2>1. \A d \in Conn : pc'[d] \in Displacing \cup {"park", "unbind", "end", "rereg", "build",
          "join", "endsave", "drop"} \cup Serving => pc'[d] = pc[d] /\ who'[d] = who[d]
    BY <1>1 DEF Outside, Displacing, Serving
  <2>2. tick'.op = "reap" => tick.op = "reap"
    OBVIOUS
  <2>3. tick'.op = "reapsave" => tick.op = "reapsave"
    OBVIOUS
  <2> QED
    BY <1>3, <2>1, <2>2, <2>3 DEF OneIndexed, Serving, Acquainted
<1>c. Marked'
  <2> USE DEF Marked
  <2> TAKE d \in Conn
  <2>1. pc'[d] \in Before \cup {"join"} => pc[d] \in Before \cup {"join"}
    BY <1>0 DEF Outside
  <2>2. pc'[d] \in {"join", "unbind", "end", "rereg"} \cup Serving => pc'[d] = pc[d] /\ who'[d] = who[d]
    BY <1>1 DEF Outside, Serving
  <2>3. \A e \in Conn : pc'[e] \in Holding => pc[e] \in Holding /\ who'[e] = who[e]
    BY <1>1 DEF Outside, Holding
  <2> QED
    BY <1>3, <2>1, <2>2, <2>3 DEF Serving, Acquainted
<1>d. Displaced'
  BY <1>2 DEF Displaced, Displacing, Passing, SessionInv, TypeOK, Someone
<1>e. NoGhost'
  <2> SUFFICES ASSUME NEW a \in Indexed', ~(actor[a].phase = "linkdead" \/ tick.who = a)
               PROVE  \E d \in Conn : /\ who'[d] = a
                                      /\ pc'[d] \in {"rereg", "spawn", "playing", "park", "unbind",
                                                     "end", "displace", "scrub"}
    BY DEF NoGhost, Indexed, SessionInv, BuiltOnly
  <2>1. a \in Indexed /\ a \in Conn
    BY DEF Indexed, SessionInv, BuiltOnly
  <2>2. PICK d \in Conn : /\ who[d] = a
                          /\ pc[d] \in {"rereg", "spawn", "playing", "park", "unbind",
                                        "end", "displace", "scrub"}
    BY <2>1 DEF NoGhost
  <2>3. CASE pc'[d] = pc[d] /\ who'[d] = who[d]
    BY <2>2, <2>3
  <2>4. CASE pc[d] \in Serving /\ actor[who[d]].taken
    <3>1. index.pid = a
      BY <2>1 DEF OneIndexed, Indexed
    <3>2. \E e \in Conn : pc[e] \in Displacing /\ who[e] = a
      BY <2>1, <2>2, <2>4, <3>1, SessionAssumption DEF Displaced
    <3> QED
      BY <1>2, <3>2 DEF Displacing, Passing
  <2> QED
    BY <1>0, <2>2, <2>3, <2>4 DEF Outside
<1> QED
  BY <1>a, <1>b, <1>c, <1>d, <1>e

(* A Persist changes nothing of this.                                      *)
LEMMA SavesMarks ==
  ASSUME SessionInv, NEW w \in Conn \cup {Tick}, NEW a \in Conn,
         SaveBegins(w, a) \/ SaveReturns(w, a)
  PROVE  SameMarks
<1>1. actor \in [Conn -> ActorType]
  BY DEF SessionInv, TypeOK
<1>2. CASE UNCHANGED actor
  BY <1>2 DEF SameMarks
<1>3. CASE actor' = [actor EXCEPT ![a].dirty = IF actor[a].gen = job[w].gen THEN FALSE ELSE @]
  <2>1. PICK b : actor' = [actor EXCEPT ![a].dirty = b]
    BY <1>1, <1>3
  <2> QED
    BY <1>1, <2>1 DEF SameMarks, ActorType
<1> QED
  BY <1>2, <1>3 DEF SaveBegins, SaveReturns

(* The steps that begin, end or replace no session keep it.                *)
LEMMA QuietOrder ==
  ASSUME OrderInv, SessionInv', NEW c \in Conn,
         \/ Load(c) \/ Leave(c) \/ EnterFound(c) \/ Hangup(c) \/ Play(c) \/ IdleTimeout(c)
         \/ SweepSkip(c) \/ AutosaveOne(c)
  PROVE  OrderInv'
<1> USE DEF OrderInv
<1>0. SessionInv
  OBVIOUS
<1>1. CASE Load(c) \/ Leave(c) \/ EnterFound(c)
  <2>1. Others(c) /\ SameMarks /\ UNCHANGED <<index, kept, tick>>
    BY <1>1 DEF Load, Leave, EnterFound, Return, Goto, Others, SameMarks, SessionInv, TypeOK
  <2>2. pc[c] \in Outside /\ pc'[c] \in Outside /\ (pc'[c] \in Before => pc[c] \in Before)
    BY <1>1 DEF Load, Leave, EnterFound, Return, Goto, Outside, Before, SessionInv, TypeOK
  <2> QED
    BY <2>1, <2>2, Rests
<1>2. CASE Hangup(c)
  BY <1>2, Rests DEF Hangup, Others, SameMarks
<1>3. CASE Play(c) \/ IdleTimeout(c)
  <2>0. actor \in [Conn -> ActorType]
    BY DEF SessionInv, TypeOK
  <2>1. Play(c) => SameMarks
    BY <2>0 DEF Play, SameMarks, ActorType
  <2>2. IdleTimeout(c) => SameMarks
    <3> HAVE IdleTimeout(c)
    <3>1. index.conn[c] \in Conn
      BY DEF IdleTimeout, SessionInv, TypeOK, Someone
    <3>2. actor' = [actor EXCEPT ![index.conn[c]].disc = TRUE]
      BY DEF IdleTimeout
    <3> QED
      BY <2>0, <3>1, <3>2 DEF SameMarks, ActorType
  <2>3. SameMarks
    BY <1>3, <2>1, <2>2
  <2> QED
    BY <1>3, <2>3, Rests DEF Play, IdleTimeout, Others
<1>4. CASE SweepSkip(c)
  BY <1>4, Rests DEF SweepSkip, Others, SameMarks, SessionInv, TypeOK
<1>5. CASE AutosaveOne(c)
  <2>1. SameMarks
    BY <1>5, SavesMarks DEF AutosaveOne
  <2>2. /\ tick'.who = tick.who
        /\ tick'.op = tick.op \/ {tick.op, tick'.op} \cap {"reap", "reapsave"} = {}
    BY <1>5 DEF AutosaveOne, SessionInv, TypeOK
  <2> QED
    BY <1>5, <2>1, <2>2, Rests DEF AutosaveOne, Others
<1> QED
  BY <1>1, <1>2, <1>3, <1>4, <1>5

LEMMA TickOrder ==
  ASSUME OrderInv, SessionInv', Sweep \/ Autosave \/ TickEnd \/ UNCHANGED vars
  PROVE  OrderInv'
<1>1. tick \in [op : {"idle", "sweep", "reap", "reapsave", "autosave"},
                 todo : SUBSET Conn, who : Someone]
  BY DEF OrderInv, SessionInv, TypeOK
<1>2. tick.op \notin {"reap", "reapsave"} => tick.who = None
  BY DEF OrderInv, OnePasses
<1>3. CASE tick = Resting /\ tick'.who = tick.who /\ tick'.op \in {"sweep", "autosave"}
           /\ UNCHANGED <<pc, who, actor, index, kept>>
  BY <1>3, Rests DEF Resting, Others, SameMarks
<1>4. CASE UNCHANGED <<pc, who, actor, index, kept, tick>>
  BY <1>4, Rests DEF Others, SameMarks
<1>5. CASE tick.op \in {"sweep", "autosave"} /\ tick' = Resting
           /\ UNCHANGED <<pc, who, actor, index, kept>>
  BY <1>2, <1>5, Rests DEF Resting, Others, SameMarks
<1> QED
  BY <1>1, <1>3, <1>4, <1>5 DEF Sweep, Autosave, TickEnd, vars

(* A restart keeps it.                                                     *)
LEMMA CrashOrder ==
  ASSUME SessionInv', Crash
  PROVE  OrderInv'
<1>1. /\ \A c \in Conn : pc'[c] \in {"new", "gone"} /\ actor'[c] = NoActor /\ index'.conn[c] = None
      /\ index'.pid = None /\ tick'.who = None /\ tick'.op = "idle"
  BY DEF Crash, NoIndex, Resting
<1>2. OnePasses' /\ OneIndexed'
  BY <1>1 DEF OnePasses, OneIndexed, Passing, Serving, Displacing, NoActor
<1>3. Marked' /\ Displaced' /\ NoGhost'
  BY <1>1 DEF Marked, Displaced, NoGhost, Indexed, Serving, NoActor
<1> QED
  BY <1>2, <1>3 DEF OrderInv

(* While no session passes, one may begin to.                              *)
LEMMA Turn ==
  ASSUME Orderly, Alone
  PROVE  (\A c \in Conn : pc[c] \notin Passing) /\ tick.who = None
  BY DEF Orderly, Alone

(* Without an entry under the id there is none under a connection.         *)
LEMMA NoneIndexed ==
  ASSUME OrderInv, index.pid = None
  PROVE  Indexed = {}
  BY DEF OrderInv, OneIndexed, Indexed

(* A new session begins where there is none.                               *)
LEMMA EnterNewOrder ==
  ASSUME Orderly, OrderInv, NEW c \in Conn, EnterNew(c)
  PROVE  OrderInv'
<1> USE DEF OrderInv
<1>0. SessionInv'
  BY EnterNewInv
<1>1. /\ \A d \in Conn : pc[d] \notin Passing
      /\ tick.who = None /\ UNCHANGED <<who, index, kept, tick>>
      /\ pc[c] = "menu" /\ index.pid = None
      /\ \A d \in Conn : pc'[d] = IF d = c THEN "build" ELSE pc[d]
  BY Turn DEF EnterNew, Goto, SessionInv, TypeOK
<1>2. SameMarks
  <2>1. actor \in [Conn -> ActorType]
    BY DEF SessionInv, TypeOK
  <2> QED
    BY <2>1 DEF EnterNew, SameMarks, ActorType
<1>3. \A d \in Conn : pc[d] \in Acquainted => who[d] \in Conn
  BY DEF SessionInv, BuiltOnly, Built
<1>a. OnePasses'
  BY <1>1 DEF OnePasses
<1>b. OneIndexed'
  BY <1>1, <1>2, <1>3 DEF OneIndexed, SameMarks, Displacing, Serving, Acquainted
<1>c. Marked'
  BY <1>1, <1>2, <1>3 DEF Marked, SameMarks, Serving, Acquainted, Before, Holding
<1>d. Displaced' /\ NoGhost'
  BY <1>1, NoneIndexed DEF Displaced, NoGhost, Indexed
<1> QED
  BY <1>0, <1>a, <1>b, <1>c, <1>d

(* Its actor is built while nobody serves another.                         *)
LEMMA BuildOrder ==
  ASSUME OrderInv, NEW c \in Conn, Build(c)
  PROVE  OrderInv'
<1> USE DEF OrderInv
<1>0. SessionInv'
  BY BuildInv
<1>1. /\ UNCHANGED <<index, tick>> /\ pc[c] = "build" /\ index.pid = None
      /\ \A d \in Conn : pc'[d] = IF d = c THEN "join" ELSE pc[d]
      /\ \A d \in Conn : who'[d] = IF d = c THEN c ELSE who[d]
      /\ kept' = c
  BY DEF Build, Goto, SessionInv, TypeOK, OneIndexed
<1>2. /\ \A a \in Conn : /\ actor'[a].taken = actor[a].taken
                         /\ a # c => actor'[a] = actor[a]
      /\ actor'[c].phase = "playing" /\ actor'[c].sock = c
  <2>1. actor \in [Conn -> ActorType]
    BY DEF SessionInv, TypeOK
  <2> QED
    BY <2>1 DEF Build, ActorType
<1>3. \A d \in Conn : pc[d] \in Acquainted => who[d] \in Conn /\ who[d] # c
  BY <1>1 DEF SessionInv, BuiltOnly, BuiltLate, Built, Before
<1>a. OnePasses'
  BY <1>1 DEF OnePasses, Passing
<1>b. OneIndexed'
  BY <1>1, <1>2, <1>3 DEF OneIndexed, Displacing, Serving, Acquainted, OnePasses, Passing
<1>c. Marked'
  BY <1>1, <1>2, <1>3 DEF Marked, Serving, Acquainted, Before, Holding
<1>d. Displaced' /\ NoGhost'
  BY <1>1, NoneIndexed DEF Displaced, NoGhost, Indexed
<1> QED
  BY <1>0, <1>a, <1>b, <1>c, <1>d

(* It is indexed where none is.                                            *)
LEMMA JoinOrder ==
  ASSUME OrderInv, NEW c \in Conn, Join(c)
  PROVE  OrderInv'
<1> USE DEF OrderInv
<1>0. SessionInv'
  BY JoinInv
<1>1. /\ UNCHANGED <<who, actor, kept, tick>> /\ pc[c] = "join" /\ index.pid = None
      /\ \A d \in Conn : pc'[d] = IF d = c THEN "spawn" ELSE pc[d]
      /\ who[c] = c /\ kept = c /\ actor[c].key = c /\ actor[c].sock = c /\ ~actor[c].taken
      /\ index'.pid = c /\ \A d \in Conn : index'.conn[d] = IF d = c THEN c ELSE None
  BY DEF Join, Goto, SessionInv, TypeOK, OneIndexed, BuiltLate, Marked
<1>2. /\ tick.who = None /\ \A d \in Conn \ {c} : pc[d] \notin Passing
      /\ \A d \in Conn : pc[d] \in Serving => actor[who[d]].taken
      /\ tick.op \notin {"reap", "reapsave"}
  BY <1>1, NoneServes DEF OnePasses, Passing, SessionInv, BuiltOnly
<1>3. \A a \in Conn : actor[a].phase = "linkdead" => actor[a].taken
  BY <1>1, SessionAssumption DEF OneIndexed
<1>a. OnePasses'
  BY <1>1 DEF OnePasses, Passing
<1>b. OneIndexed'
  BY <1>1, <1>2, <1>3 DEF OneIndexed, Displacing, Serving, Passing
<1>c. Marked'
  BY <1>1, <1>2 DEF Marked, Serving, Before, Passing
<1>d. Displaced' /\ NoGhost'
  BY <1>1 DEF Displaced, NoGhost, Indexed
<1> QED
  BY <1>0, <1>a, <1>b, <1>c, <1>d

(* The first rendering: the session is served on, or ends.                 *)
LEMMA SpawnOrder ==
  ASSUME Orderly, OrderInv, NEW c \in Conn, Spawn(c)
  PROVE  OrderInv'
<1> USE DEF OrderInv
<1>0. SessionInv'
  BY SpawnInv
<1>1. /\ UNCHANGED <<who, actor, index, kept, tick>> /\ pc[c] = "spawn" /\ who[c] = c
      /\ \/ \A d \in Conn : pc'[d] = IF d = c THEN "playing" ELSE pc[d]
         \/ /\ \A d \in Conn : pc'[d] = IF d = c THEN "end" ELSE pc[d]
            /\ \A d \in Conn : pc[d] \notin Passing
            /\ tick.who = None /\ ~actor[c].taken
  BY Turn DEF Spawn, Goto, SessionInv, TypeOK, Marked, Orderly
<1>2. actor[c].phase = "playing" /\ \A d \in Conn \ {c} : pc[d] \in Holding => who[d] # c
  BY <1>1 DEF SessionInv, HeldAlone, Holding
<1>a. OnePasses'
  BY <1>1 DEF OnePasses, Passing
<1>b. OneIndexed'
  BY <1>1, <1>2 DEF OneIndexed, Displacing, Serving
<1>c. Marked'
  BY <1>1, <1>2 DEF Marked, Serving, Before, Holding
<1>d. Displaced' /\ NoGhost'
  <2>1. \A d \in Conn : pc[d] \in Displacing => pc'[d] = pc[d]
    BY <1>1 DEF Displacing
  <2>2. Displaced'
    BY <1>1, <2>1 DEF Displaced
  <2>3. NoGhost'
    BY <1>1 DEF NoGhost, Indexed
  <2> QED
    BY <2>2, <2>3
<1> QED
  BY <1>0, <1>a, <1>b, <1>c, <1>d

(* A takeover begins, of the session that is indexed.                      *)
LEMMA ClaimOrder ==
  ASSUME Orderly, OrderInv, NEW c \in Conn, Claim(c)
  PROVE  OrderInv'
<1> USE DEF OrderInv
<1>0. SessionInv'
  BY ClaimInv
<1>1. CASE Return(c) /\ UNCHANGED actor
  <2>1. Others(c) /\ SameMarks /\ UNCHANGED <<index, kept, tick>>
    BY <1>1 DEF Claim, Return, Goto, Others, SameMarks, SessionInv, TypeOK
  <2>2. pc[c] \in Outside /\ pc'[c] \in Outside /\ (pc'[c] \in Before => pc[c] \in Before)
    BY <1>1 DEF Claim, Return, Goto, Outside, Before, SessionInv, TypeOK
  <2> QED
    BY <1>0, <2>1, <2>2, Rests
<1>2. CASE ~actor[who[c]].taken /\ Goto(c, "displace")
           /\ actor' = [actor EXCEPT ![who[c]].taken = TRUE, ![who[c]].disc = TRUE]
  <2>1. /\ UNCHANGED <<who, index, kept, tick>> /\ pc[c] = "prompt"
        /\ \A d \in Conn : pc'[d] = IF d = c THEN "displace" ELSE pc[d]
        /\ \A d \in Conn : pc[d] \notin Passing
        /\ tick.who = None /\ index.pid = who[c] /\ who[c] \in Conn
    BY <1>2, Turn DEF Claim, Goto, Orderly, SessionInv, TypeOK, BuiltOnly, Built, Acquainted
  <2>2. \A a \in Conn : /\ actor'[a].taken <=> a = who[c] \/ actor[a].taken
                        /\ actor'[a].phase = actor[a].phase /\ actor'[a].key = actor[a].key
                        /\ actor'[a].sock = actor[a].sock
    <3>1. actor \in [Conn -> ActorType]
      BY DEF SessionInv, TypeOK
    <3> QED
      BY <1>2, <2>1, <3>1 DEF ActorType
  <2>3. \A d \in Conn : pc[d] \in Acquainted => who[d] \in Conn /\ actor[who[d]].phase # "none"
    BY DEF SessionInv, BuiltOnly, Built
  <2>4. \A d \in Conn : pc[d] \in Before \cup {"join"} => actor[d].phase = "none" \/ pc[d] = "join"
    BY DEF SessionInv, BuiltLate
  <2>5. \A d \in Conn : pc[d] \in Before \cup {"join"} => d # who[c]
    BY <2>1, <2>3, <2>4 DEF Passing, Acquainted
  <2>a. OnePasses'
    BY <2>1 DEF OnePasses
  <2>b. OneIndexed'
    BY <2>1, <2>2, <2>3 DEF OneIndexed, Displacing, Serving, Acquainted
  <2>c. Marked'
    BY <2>1, <2>2, <2>3, <2>5 DEF Marked, Serving, Acquainted, Before, Holding, Passing
  <2>d. Displaced'
    BY <2>1 DEF Displaced, Displacing
  <2>e. NoGhost'
    BY <2>1, SessionAssumption DEF NoGhost, Indexed, OneIndexed
  <2> QED
    BY <1>0, <2>a, <2>b, <2>c, <2>d, <2>e
<1> QED
  BY <1>1, <1>2 DEF Claim

(* The save before a takeover, and the save at the end of a session.       *)
LEMMA PassingSaves ==
  ASSUME OrderInv, NEW c \in Conn, DisplaceSave(c) \/ EndSave(c)
  PROVE  OrderInv'
<1> USE DEF OrderInv
<1>0. SessionInv'
  BY DisplaceSaveInv, EndSaveInv
<1>1. SameMarks
  BY SavesMarks DEF DisplaceSave, EndSave, SessionInv, BuiltOnly, Built, Acquainted
<1>2. /\ UNCHANGED <<who, index, kept, tick>>
      /\ \/ UNCHANGED pc
         \/ /\ pc[c] = "displace"
            /\ \A d \in Conn : pc'[d] = IF d = c THEN "scrub" ELSE pc[d]
         \/ /\ pc[c] = "endsave"
            /\ \A d \in Conn : pc'[d] = IF d = c THEN "drop" ELSE pc[d]
  BY DEF DisplaceSave, EndSave, Goto, SessionInv, TypeOK
<1>3. \A d \in Conn : pc[d] \in Acquainted => who[d] \in Conn
  BY DEF SessionInv, BuiltOnly, Built
<1>4. index.pid # None => index.pid \in Conn
  BY DEF SessionInv, TypeOK, Someone
<1>a. OnePasses'
  BY <1>2 DEF OnePasses, Passing
<1>b. OneIndexed'
  BY <1>1, <1>2, <1>3 DEF OneIndexed, SameMarks, Displacing, Serving, Acquainted
<1>c. Marked'
  BY <1>1, <1>2, <1>3 DEF Marked, SameMarks, Serving, Acquainted, Before, Holding
<1>d. Displaced'
  BY <1>1, <1>2, <1>4 DEF Displaced, Displacing, SameMarks
<1>e. NoGhost'
  <2>1. Indexed' = Indexed /\ Indexed \subseteq Conn
    BY <1>2 DEF Indexed, SessionInv, BuiltOnly
  <2> QED
    BY <1>1, <1>2, <2>1 DEF NoGhost, SameMarks
<1> QED
  BY <1>0, <1>a, <1>b, <1>c, <1>d, <1>e

(* Whoever is removed leaves the index empty.                              *)
LEMMA Emptied ==
  ASSUME OrderInv, index.pid \in Conn, Remove(index.pid)
  PROVE  index'.pid = None /\ \A d \in Conn : index'.conn[d] = None
  BY DEF OrderInv, OneIndexed, SessionInv, TypeOK, Remove

(* The displaced session is removed, which leaves none.                    *)
LEMMA ScrubOrder ==
  ASSUME OrderInv, NEW c \in Conn, Scrub(c)
  PROVE  OrderInv'
<1> USE DEF OrderInv
<1>0. SessionInv'
  BY ScrubInv
<1>1. /\ UNCHANGED <<who, kept, tick>> /\ pc[c] = "scrub" /\ index.pid = who[c] /\ who[c] \in Conn
      /\ actor[who[c]].taken
      /\ \A d \in Conn : pc'[d] = IF d = c THEN "build" ELSE pc[d]
  BY DEF Scrub, Goto, SessionInv, TypeOK, OneIndexed, Claimed, Displacing, BuiltOnly, Built, Acquainted
<1>2. SameMarks
  <2>1. actor \in [Conn -> ActorType]
    BY DEF SessionInv, TypeOK
  <2> QED
    BY <2>1 DEF Scrub, SameMarks, ActorType
<1>3. index'.pid = None /\ \A d \in Conn : index'.conn[d] = None
  BY <1>1, Emptied DEF Scrub
<1>4. /\ tick.who = None /\ \A d \in Conn \ {c} : pc[d] \notin Passing
      /\ \A d \in Conn : pc[d] \in Serving => actor[who[d]].taken
  BY <1>1, NoneServes DEF OnePasses, Passing
<1>5. \A d \in Conn : pc[d] \in Acquainted => who[d] \in Conn
  BY DEF SessionInv, BuiltOnly, Built
<1>6. \A a \in Conn : actor[a].phase = "linkdead" => actor[a].taken
  BY <1>1 DEF OneIndexed
<1>7. tick.op \notin {"reap", "reapsave"}
  BY <1>4 DEF SessionInv, BuiltOnly
<1>a. OnePasses'
  BY <1>1 DEF OnePasses, Passing
<1>b. OneIndexed'
  BY <1>1, <1>2, <1>3, <1>4, <1>5, <1>6, <1>7 DEF OneIndexed, SameMarks, Displacing, Serving,
    Acquainted, Passing
<1>c. Marked'
  BY <1>1, <1>2, <1>3, <1>4, <1>5 DEF Marked, SameMarks, Serving, Acquainted, Before, Passing
<1>d. Displaced' /\ NoGhost'
  BY <1>3 DEF Displaced, NoGhost, Indexed
<1> QED
  BY <1>0, <1>a, <1>b, <1>c, <1>d

(* The read loop ends.                                                     *)
LEMMA UnwindOrder ==
  ASSUME Orderly, OrderInv, NEW c \in Conn, Unwind(c)
  PROVE  OrderInv'
<1> USE DEF OrderInv
<1>0. SessionInv'
  BY UnwindInv
<1>1. CASE actor[who[c]].taken /\ Return(c)
  BY <1>0, <1>1, Rests DEF Unwind, Return, Goto, Others, SameMarks, Outside, Serving, Before,
    SessionInv, TypeOK
<1>2. CASE ~actor[who[c]].taken /\ Alone
  <2>1. /\ UNCHANGED <<who, actor, index, kept, tick>> /\ pc[c] = "playing"
        /\ \/ \A d \in Conn : pc'[d] = IF d = c THEN "end" ELSE pc[d]
           \/ \A d \in Conn : pc'[d] = IF d = c THEN "park" ELSE pc[d]
        /\ \A d \in Conn : pc[d] \notin Passing
        /\ tick.who = None
    BY <1>2, Turn DEF Unwind, Goto, SessionInv, TypeOK
  <2>2. /\ actor[who[c]].phase = "playing"
        /\ \A d \in Conn \ {c} : pc[d] \in Holding => who[d] # who[c]
    BY <2>1 DEF SessionInv, HeldAlone, Holding
  <2>a. OnePasses'
    BY <2>1 DEF OnePasses
  <2>b. OneIndexed'
    BY <1>2, <2>1 DEF OneIndexed, Displacing, Serving
  <2>c. Marked'
    BY <2>1, <2>2 DEF Marked, Serving, Before, Holding
  <2>d. Displaced'
    BY <2>1 DEF Displaced, Displacing, Passing
  <2>e. NoGhost'
    BY <2>1 DEF NoGhost, Indexed
  <2> QED
    BY <1>0, <2>a, <2>b, <2>c, <2>d, <2>e
<1> QED
  BY <1>1, <1>2 DEF Unwind

(* The session is left link-dead.                                          *)
LEMMA ParkOrder ==
  ASSUME OrderInv, NEW c \in Conn, Park(c)
  PROVE  OrderInv'
<1> USE DEF OrderInv
<1>0. SessionInv'
  BY ParkInv
<1>1. /\ UNCHANGED <<who, index, kept, tick>> /\ pc[c] = "park"
      /\ actor[who[c]].phase = "playing" /\ who[c] \in Conn /\ index.pid = who[c]
      /\ \A d \in Conn : pc'[d] = IF d = c THEN "unbind" ELSE pc[d]
      /\ actor' = [actor EXCEPT ![who[c]].phase = "linkdead"]
  BY DEF Park, Goto, SessionInv, TypeOK, HeldAlone, Holding, OneIndexed, BuiltOnly, Built, Acquainted
<1>2. \A a \in Conn : /\ actor'[a].phase = IF a = who[c] THEN "linkdead" ELSE actor[a].phase
                      /\ actor'[a].taken = actor[a].taken /\ actor'[a].key = actor[a].key
                      /\ actor'[a].sock = actor[a].sock
  <2>1. actor \in [Conn -> ActorType]
    BY DEF SessionInv, TypeOK
  <2> QED
    BY <1>1, <2>1 DEF ActorType
<1>3. \A d \in Conn \ {c} : pc[d] \in Holding => who[d] # who[c]
  BY <1>1 DEF SessionInv, HeldAlone, Holding
<1>4. \A d \in Conn : pc[d] \in Acquainted => who[d] \in Conn
  BY DEF SessionInv, BuiltOnly, Built
<1>5. \A d \in Conn \ {c} : pc[d] \notin Passing
  BY <1>1 DEF OnePasses, Passing
<1>a. OnePasses'
  BY <1>1 DEF OnePasses, Passing
<1>b. OneIndexed'
  BY <1>1, <1>2, <1>4 DEF OneIndexed, Displacing, Serving, Acquainted
<1>c. Marked'
  BY <1>1, <1>2, <1>3, <1>4, <1>5 DEF Marked, Serving, Before, Holding, Acquainted, Passing
<1>d. Displaced'
  BY <1>1, <1>2 DEF Displaced, Displacing
<1>e. NoGhost'
  BY <1>1, <1>2 DEF NoGhost, Indexed, OneIndexed
<1> QED
  BY <1>0, <1>a, <1>b, <1>c, <1>d, <1>e

(* Its connection is forgotten.                                            *)
LEMMA UnbindOrder ==
  ASSUME OrderInv, NEW c \in Conn, Unbind(c)
  PROVE  OrderInv'
<1> USE DEF OrderInv
<1>0. SessionInv'
  BY UnbindInv
<1>1. /\ UNCHANGED <<who, actor, kept, tick>> /\ pc[c] = "unbind"
      /\ who[c] \in Conn /\ index.pid = who[c] /\ index'.pid = index.pid
      /\ actor[who[c]].phase = "linkdead"
      /\ \A d \in Conn : pc'[d] = IF d = c THEN "gone" ELSE pc[d]
      /\ \A d \in Conn : index'.conn[d] \in {None, index.conn[d]}
  BY DEF Unbind, Return, Goto, SessionInv, TypeOK, OneIndexed, Marked, BuiltOnly, Built, Acquainted
<1>2. \A d \in Conn : pc[d] \in Serving => actor[who[d]].taken
  BY <1>1, NoneServes DEF Passing
<1>a. OnePasses'
  BY <1>1 DEF OnePasses, Passing
<1>b. OneIndexed'
  BY <1>1 DEF OneIndexed, Displacing, Serving
<1>c. Marked'
  BY <1>1, <1>2 DEF Marked, Serving, Before, Holding
<1>d. Displaced'
  BY <1>1 DEF Displaced, Displacing
<1>e. NoGhost'
  <2>1. Indexed' \subseteq {who[c]}
    BY <1>1 DEF Indexed, OneIndexed
  <2> QED
    BY <1>1, <2>1 DEF NoGhost
<1> QED
  BY <1>0, <1>a, <1>b, <1>c, <1>d, <1>e

(* A session is removed at its end, which leaves none.                     *)
LEMMA EndOrder ==
  ASSUME OrderInv, NEW c \in Conn, End(c)
  PROVE  OrderInv'
<1> USE DEF OrderInv
<1>0. SessionInv'
  BY EndInv
<1>1. /\ UNCHANGED <<who, actor, kept, tick>> /\ pc[c] = "end"
      /\ index.pid = who[c] /\ who[c] \in Conn /\ actor[who[c]].phase = "playing"
      /\ \A d \in Conn : pc'[d] = IF d = c THEN "endsave" ELSE pc[d]
  BY DEF End, Goto, SessionInv, TypeOK, OneIndexed, Marked, BuiltOnly, Built, Acquainted
<1>3. index'.pid = None /\ \A d \in Conn : index'.conn[d] = None
  BY <1>1, Emptied DEF End
<1>4. /\ tick.who = None /\ \A d \in Conn \ {c} : pc[d] \notin Passing
      /\ \A d \in Conn : pc[d] \in Serving => actor[who[d]].taken
  BY <1>1, NoneServes DEF OnePasses, Passing
<1>6. \A a \in Conn : actor[a].phase = "linkdead" => actor[a].taken
  BY <1>1 DEF OneIndexed
<1>7. tick.op \notin {"reap", "reapsave"}
  BY <1>4 DEF SessionInv, BuiltOnly
<1>a. OnePasses'
  BY <1>1 DEF OnePasses, Passing
<1>b. OneIndexed'
  BY <1>1, <1>3, <1>4, <1>6, <1>7 DEF OneIndexed, Displacing, Serving, Passing
<1>c. Marked'
  BY <1>1, <1>3, <1>4 DEF Marked, Serving, Before, Passing
<1>d. Displaced' /\ NoGhost'
  BY <1>3 DEF Displaced, NoGhost, Indexed
<1> QED
  BY <1>0, <1>a, <1>b, <1>c, <1>d

(* What the registries hold is dropped while none is indexed.              *)
LEMMA DropOrder ==
  ASSUME OrderInv, NEW c \in Conn, Drop(c)
  PROVE  OrderInv'
<1> USE DEF OrderInv
<1>0. SessionInv'
  BY DropInv
<1>1. /\ UNCHANGED <<who, actor, index, tick>> /\ pc[c] = "drop" /\ index.pid = None
      /\ \A d \in Conn : pc'[d] = IF d = c THEN "gone" ELSE pc[d]
  BY DEF Drop, Return, Goto, SessionInv, TypeOK, OneIndexed
<1>2. \A d \in Conn \ {c} : pc[d] \notin Passing
  BY <1>1 DEF OnePasses, Passing
<1>a. OnePasses'
  BY <1>1 DEF OnePasses, Passing
<1>b. OneIndexed'
  BY <1>1, <1>2 DEF OneIndexed, Displacing, Serving, Passing
<1>c. Marked'
  BY <1>1, <1>2 DEF Marked, Serving, Before, Passing
<1>d. Displaced' /\ NoGhost'
  BY <1>1, NoneIndexed DEF Displaced, NoGhost, Indexed
<1> QED
  BY <1>0, <1>a, <1>b, <1>c, <1>d

(* A link-dead session that can be found is resumed by one connection.     *)
LEMMA ReattachOrder ==
  ASSUME Orderly, OrderInv, NEW c \in Conn, Reattach(c)
  PROVE  OrderInv'
<1> USE DEF OrderInv
<1>0. SessionInv'
  BY ReattachInv
<1>1. CASE Return(c) /\ UNCHANGED actor
  BY <1>0, <1>1, Rests DEF Reattach, Return, Goto, Others, SameMarks, Outside, Before,
    SessionInv, TypeOK
<1>2. CASE actor[who[c]].phase = "linkdead" /\ Goto(c, "rereg")
           /\ actor' = [actor EXCEPT ![who[c]].sock = c, ![who[c]].phase = "playing",
                                     ![who[c]].disc = FALSE]
  <2>1. /\ UNCHANGED <<who, index, kept, tick>> /\ pc[c] = "reattach"
        /\ \A d \in Conn : pc'[d] = IF d = c THEN "rereg" ELSE pc[d]
        /\ \A d \in Conn : pc[d] \notin Passing
        /\ tick.who = None /\ who[c] \in Conn /\ ~actor[who[c]].taken
    BY <1>2, Turn DEF Reattach, Goto, Orderly, SessionInv, TypeOK, BuiltOnly, Built, Acquainted
  <2>2. index.pid = who[c]
    BY <1>2, <2>1 DEF OneIndexed
  <2>3. \A a \in Conn : /\ actor'[a].phase = IF a = who[c] THEN "playing" ELSE actor[a].phase
                        /\ actor'[a].sock = IF a = who[c] THEN c ELSE actor[a].sock
                        /\ actor'[a].taken = actor[a].taken /\ actor'[a].key = actor[a].key
    <3>1. actor \in [Conn -> ActorType]
      BY DEF SessionInv, TypeOK
    <3> QED
      BY <1>2, <2>1, <3>1 DEF ActorType
  <2>4. \A d \in Conn : pc[d] \in Serving => actor[who[d]].taken
    BY <1>2, <2>1, <2>2 DEF OneIndexed, SessionInv, HeldAlone, Holding, Serving
  <2>5. \A d \in Conn : pc[d] \in Acquainted => who[d] \in Conn
    BY DEF SessionInv, BuiltOnly, Built
  <2>6. \A d \in Conn : pc[d] = "join" => FALSE
    BY <2>1 DEF Passing
  <2>a. OnePasses'
    BY <2>1 DEF OnePasses
  <2>b. OneIndexed'
    BY <2>1, <2>2, <2>3, <2>5 DEF OneIndexed, Displacing, Serving, Acquainted
  <2>c. Marked'
    BY <2>1, <2>2, <2>3, <2>4, <2>5 DEF Marked, Serving, Acquainted, Before, Passing
  <2>d. Displaced'
    BY <2>1, <2>2, <2>3 DEF Displaced
  <2>e. NoGhost'
    BY <2>1, <2>2 DEF NoGhost, Indexed, OneIndexed
  <2> QED
    BY <1>0, <2>a, <2>b, <2>c, <2>d, <2>e
<1> QED
  BY <1>1, <1>2 DEF Reattach

(* It is indexed anew, under the connection it has now.                    *)
LEMMA ReRegisterOrder ==
  ASSUME OrderInv, NEW c \in Conn, ReRegister(c)
  PROVE  OrderInv'
<1> USE DEF OrderInv
<1>0. SessionInv'
  BY ReRegisterInv
<1>1. /\ UNCHANGED <<who, kept, tick>> /\ pc[c] = "rereg" /\ who[c] \in Conn
      /\ index.pid = who[c] /\ kept = who[c] /\ index'.pid = who[c]
      /\ actor[who[c]].phase = "playing" /\ actor[who[c]].sock = c
      /\ \A d \in Conn : pc'[d] = IF d = c THEN "playing" ELSE pc[d]
      /\ \A d \in Conn \ {c} : index'.conn[d] \in {None, index.conn[d]}
      /\ index'.conn[c] = who[c]
      /\ actor' = [actor EXCEPT ![who[c]].key = c]
  <2>1. pc[c] = "rereg" /\ who[c] \in Conn /\ index.pid = who[c] /\ kept = who[c]
    BY SessionAssumption DEF ReRegister, SessionInv, OneIndexed, BuiltOnly, Built, Acquainted
  <2>2. actor[who[c]].phase = "playing" /\ actor[who[c]].sock = c
    BY <2>1 DEF SessionInv, HeldAlone, Holding, Marked
  <2>3. index' = [index EXCEPT !.conn[actor[who[c]].key] = None, !.conn[c] = who[c]]
    BY <2>1 DEF ReRegister
  <2>4. index \in [conn : [Conn -> Someone], pid : Someone]
    BY DEF SessionInv, TypeOK
  <2>5. PICK f : f = [index.conn EXCEPT ![actor[who[c]].key] = None, ![c] = who[c]]
    OBVIOUS
  <2>6. index'.pid = index.pid /\ index'.conn = f
    BY <2>3, <2>4, <2>5
  <2> QED
    BY <2>1, <2>2, <2>4, <2>5, <2>6 DEF ReRegister, Goto, SessionInv, TypeOK
<1>2. \A a \in Conn : /\ actor'[a].phase = actor[a].phase
                      /\ actor'[a].taken = actor[a].taken
                      /\ actor'[a].sock = actor[a].sock
                      /\ actor'[a].key = IF a = who[c] THEN c ELSE actor[a].key
  <2>1. actor \in [Conn -> ActorType]
    BY DEF SessionInv, TypeOK
  <2> QED
    BY <1>1, <2>1 DEF ActorType
<1>3. \A d \in Conn : pc[d] \in Serving => actor[who[d]].taken
  BY <1>1, NoneServes DEF Passing
<1>4. \A d \in Conn \ {c} : pc[d] \notin Passing
  BY <1>1 DEF OnePasses, Passing
<1>5. \A d \in Conn : pc[d] \in Acquainted => who[d] \in Conn
  BY DEF SessionInv, BuiltOnly, Built
<1>a. OnePasses'
  BY <1>1 DEF OnePasses, Passing
<1>b. OneIndexed'
  BY <1>1, <1>2, <1>4, <1>5 DEF OneIndexed, Displacing, Serving, Acquainted, Passing
<1>c. Marked'
  BY <1>1, <1>2, <1>3, <1>4, <1>5 DEF Marked, Serving, Before, Acquainted, Passing
<1>d. Displaced'
  <2>1. ~actor[who[c]].taken
    <3> SUFFICES ASSUME actor[who[c]].taken PROVE FALSE
      OBVIOUS
    <3>1. PICK d \in Conn : pc[d] \in Displacing
      BY <1>1, SessionAssumption DEF Displaced
    <3> QED
      BY <1>1, <1>4, <3>1 DEF Displacing, Passing
  <2> QED
    BY <1>1, <1>2, <2>1 DEF Displaced
<1>e. NoGhost'
  <2>1. Indexed' \subseteq {who[c]}
    BY <1>1 DEF Indexed, OneIndexed
  <2> QED
    BY <1>1, <2>1 DEF NoGhost
<1> QED
  BY <1>0, <1>a, <1>b, <1>c, <1>d, <1>e

(* The sweep claims the session that is indexed.                           *)
LEMMA SweepClaimOrder ==
  ASSUME Orderly, OrderInv, NEW c \in Conn, SweepClaim(c)
  PROVE  OrderInv'
<1> USE DEF OrderInv
<1>0. SessionInv'
  BY SweepClaimInv
<1>1. /\ UNCHANGED <<pc, who, index, kept>> /\ actor[c].phase = "linkdead" /\ ~actor[c].taken
      /\ \A d \in Conn : pc[d] \notin Passing
      /\ tick'.op = "reap" /\ tick'.who = c /\ index.pid = c
  BY Turn DEF SweepClaim, Orderly, OneIndexed
<1>2. \A a \in Conn : /\ actor'[a].phase = IF a = c THEN "tearing" ELSE actor[a].phase
                      /\ actor'[a].taken = actor[a].taken /\ actor'[a].key = actor[a].key
                      /\ actor'[a].sock = actor[a].sock
  <2>1. actor \in [Conn -> ActorType]
    BY DEF SessionInv, TypeOK
  <2>2. actor' = [actor EXCEPT ![c].phase = "tearing", ![c].disc = TRUE]
    BY DEF SweepClaim
  <2> QED
    BY <2>1, <2>2 DEF ActorType
<1>3. \A d \in Conn : pc[d] \in Acquainted => who[d] \in Conn
  BY DEF SessionInv, BuiltOnly, Built
<1>a. OnePasses'
  BY <1>1 DEF OnePasses
<1>b. OneIndexed'
  BY <1>1, <1>2, <1>3 DEF OneIndexed, Displacing, Serving, Acquainted
<1>c. Marked'
  BY <1>1, <1>2, <1>3 DEF Marked, Serving, Before, Passing, Acquainted
<1>d. Displaced'
  BY <1>1, <1>2 DEF Displaced
<1>e. NoGhost'
  BY <1>1 DEF NoGhost, Indexed, OneIndexed
<1> QED
  BY <1>0, <1>a, <1>b, <1>c, <1>d, <1>e

(* It removes it, which leaves none, and saves it.                         *)
LEMMA SweepReapOrder ==
  ASSUME OrderInv, SweepReap
  PROVE  OrderInv'
<1> USE DEF OrderInv
<1>0. SessionInv'
  BY SweepReapInv
<1>1. /\ UNCHANGED <<pc, who, actor, kept>> /\ tick.op = "reap" /\ tick'.op = "reapsave"
      /\ tick.who # None /\ tick'.who = tick.who /\ index.pid = tick.who /\ tick.who \in Conn
      /\ actor[tick.who].phase = "tearing"
  BY DEF SweepReap, SessionInv, TypeOK, BuiltOnly, OneIndexed, Claimed, Someone
<1>2. index'.pid = None /\ \A d \in Conn : index'.conn[d] = None
  BY <1>1, Emptied DEF SweepReap
<1>3. \A d \in Conn : pc[d] \notin Passing
  BY <1>1 DEF OnePasses
<1>4. \A d \in Conn : pc[d] \in Serving => actor[who[d]].taken
  BY <1>1, NoneServes
<1>5. \A a \in Conn : actor[a].phase = "linkdead" => actor[a].taken
  BY <1>1 DEF OneIndexed
<1>a. OnePasses'
  BY <1>1, <1>3 DEF OnePasses
<1>b. OneIndexed'
  BY <1>1, <1>2, <1>3, <1>4, <1>5 DEF OneIndexed, Displacing, Serving, Passing
<1>c. Marked'
  BY <1>1, <1>2, <1>3, <1>4 DEF Marked, Serving, Before, Passing
<1>d. Displaced' /\ NoGhost'
  BY <1>2 DEF Displaced, NoGhost, Indexed
<1> QED
  BY <1>0, <1>a, <1>b, <1>c, <1>d

LEMMA SweepSaveOrder ==
  ASSUME OrderInv, SweepSave
  PROVE  OrderInv'
<1> USE DEF OrderInv
<1>0. SessionInv'
  BY SweepSaveInv
<1>1. tick.op = "reapsave" /\ tick.who \in Conn /\ index.pid = None
  BY DEF SweepSave, SessionInv, BuiltOnly, TypeOK, Someone, OneIndexed
<1>2. SameMarks
  BY <1>1, SavesMarks DEF SweepSave
<1>3. /\ UNCHANGED <<pc, who, index, kept>>
      /\ UNCHANGED tick \/ (tick'.op = "sweep" /\ tick'.who = None)
  BY DEF SweepSave, SessionInv, TypeOK
<1>4. \A d \in Conn : pc[d] \in Acquainted => who[d] \in Conn
  BY DEF SessionInv, BuiltOnly, Built
<1>a. OnePasses'
  BY <1>3 DEF OnePasses
<1>b. OneIndexed'
  BY <1>1, <1>2, <1>3, <1>4 DEF OneIndexed, SameMarks, Displacing, Serving, Acquainted
<1>c. Marked'
  BY <1>2, <1>3, <1>4 DEF Marked, SameMarks, Serving, Acquainted
<1>d. Displaced' /\ NoGhost'
  BY <1>1, <1>3, NoneIndexed DEF Displaced, NoGhost, Indexed
<1> QED
  BY <1>0, <1>a, <1>b, <1>c, <1>d

(* Every step keeps it.                                                    *)
LEMMA NextOrder ==
  ASSUME Orderly, OrderInv, [Next]_vars
  PROVE  OrderInv'
<1>0. SessionInv'
  BY NextInv DEF OrderInv
<1>1. CASE \E c \in Conn : Login(c)
  BY <1>0, <1>1, QuietOrder, EnterNewOrder, ClaimOrder DEF Login
<1>2. CASE \E c \in Conn : Runs(c)
  <2> PICK c \in Conn : Runs(c)
    BY <1>2
  <2>1. CASE Build(c) \/ Join(c) \/ Spawn(c) \/ DisplaceSave(c) \/ Scrub(c) \/ Park(c)
    BY <2>1, BuildOrder, JoinOrder, SpawnOrder, PassingSaves, ScrubOrder, ParkOrder
  <2>2. CASE Unbind(c) \/ End(c) \/ EndSave(c) \/ Drop(c) \/ Reattach(c) \/ ReRegister(c)
    BY <2>2, UnbindOrder, EndOrder, PassingSaves, DropOrder, ReattachOrder, ReRegisterOrder
  <2> QED
    BY <2>1, <2>2 DEF Runs
<1>3. CASE \E c \in Conn : Play(c) \/ Hangup(c) \/ Unwind(c) \/ IdleTimeout(c) \/ SweepClaim(c)
  BY <1>0, <1>3, QuietOrder, UnwindOrder, SweepClaimOrder
<1>4. CASE \E c \in Conn : SweepSkip(c) \/ AutosaveOne(c)
  BY <1>0, <1>4, QuietOrder
<1>5. CASE SweepReap \/ SweepSave \/ Crash
  BY <1>0, <1>5, SweepReapOrder, SweepSaveOrder, CrashOrder
<1>6. CASE Sweep \/ Autosave \/ TickEnd \/ UNCHANGED vars
  BY <1>0, <1>6, TickOrder
<1> QED
  BY <1>1, <1>2, <1>3, <1>4, <1>5, <1>6 DEF Next, TickRuns

(* A character is played by one connection at a time, whatever menu,       *)
(* takeover prompt or reconnect it came through (session.go, takeover.go,  *)
(* linkdead.go).                                                           *)
THEOREM SessionOneLive == ASSUME Orderly PROVE Spec => []OneLive
<1>1. Init => OrderInv
  BY InitOrder
<1>2. OrderInv /\ [Next]_vars => OrderInv'
  BY NextOrder
<1>3. OrderInv => OneLive
  <2> SUFFICES ASSUME OrderInv, NEW c \in Conn, NEW d \in Conn, Serves(c), Serves(d)
               PROVE  c = d
    BY DEF OneLive
  <2>1. CASE pc[c] = "rereg" /\ pc[d] = "rereg"
    BY <2>1 DEF OrderInv, OnePasses, Passing
  <2>2. CASE pc[c] = "rereg" /\ pc[d] \in Serving
    BY <2>2, NoneServes DEF Serves, Passing
  <2>3. CASE pc[c] \in Serving /\ pc[d] = "rereg"
    BY <2>3, NoneServes DEF Serves, Passing
  <2>4. CASE pc[c] \in Serving /\ pc[d] \in Serving
    BY <2>4, OneServes DEF Serves
  <2> QED
    BY <2>1, <2>2, <2>3, <2>4 DEF Serves, Serving
<1> QED
  BY <1>1, <1>2, <1>3, PTL DEF Spec

(* Whoever plays can be found by id and by connection, and the registries  *)
(* hold this session's state (manager.go).                                 *)
THEOREM SessionFindable == ASSUME Orderly PROVE Spec => []Findable
<1>1. Init => OrderInv
  BY InitOrder
<1>2. OrderInv /\ [Next]_vars => OrderInv'
  BY NextOrder
<1>3. OrderInv => Findable
  <2> SUFFICES ASSUME OrderInv, NEW c \in Conn, pc[c] = "playing", ~actor[who[c]].taken
               PROVE  /\ index.pid = who[c] /\ index.conn[c] = who[c] /\ kept = who[c]
                      /\ actor[who[c]].key = c /\ actor[who[c]].sock = c
    BY DEF Findable, Serves
  <2>1. who[c] # None
    BY SessionAssumption DEF OrderInv, SessionInv, BuiltOnly, Built, Acquainted
  <2> QED
    BY <2>1 DEF OrderInv, OneIndexed, Marked, Serving
<1> QED
  BY <1>1, <1>2, <1>3, PTL DEF Spec

(* What is indexed will be taken out again: it is link-dead, so that the   *)
(* sweep finds it, or a goroutine has still to unwind it (linkdead.go).    *)
THEOREM SessionNoGhost == ASSUME Orderly PROVE Spec => []NoGhost
<1>1. Init => OrderInv
  BY InitOrder
<1>2. OrderInv /\ [Next]_vars => OrderInv'
  BY NextOrder
<1>3. OrderInv => NoGhost
  BY DEF OrderInv
<1> QED
  BY <1>1, <1>2, <1>3, PTL DEF Spec

(* The saves of the character take turns too, nobody enters with what the  *)
(* file held before it changed, and no displaced session changes a record  *)
(* that its takeover has copied.                                           *)
InTurn ==
  Orderly /\ "menu" \notin Allowed /\ "saves" \notin Allowed /\ "late" \notin Allowed

Under(w) == job[w] # NoJob

(* One Persist at a time, of an actor that has something to save.          *)
OneSaves ==
  /\ \A v, w \in Conn \cup {Tick} : Under(v) /\ Under(w) => v = w
  /\ \A w \in Conn \cup {Tick} : Under(w) =>
       LET a == job[w].who IN
       /\ a \in Conn /\ actor[a].dirty /\ job[w].gen <= actor[a].gen
       /\ w \in Conn => /\ pc[w] \in {"displace", "endsave"} /\ who[w] = a
                        /\ job[w].gen = actor[a].gen
       /\ w = Tick => \/ tick.op = "autosave" /\ a \in tick.todo
                      \/ tick.op = "reapsave" /\ a = tick.who /\ job[w].gen = actor[a].gen

(* The session whose record is the character's: indexed, or on its way out. *)
Current(a) ==
  \/ index.pid = a
  \/ \E c \in Conn : pc[c] = "endsave" /\ who[c] = a
  \/ tick.op = "reapsave" /\ tick.who = a

(* While no save has failed, its record holds every change, and it knows   *)
(* what the file has not.                                                  *)
RecordFits ==
  ~failed =>
    /\ disk \subseteq done
    /\ \A a \in Conn : /\ Current(a) => mem[actor[a].save] = done /\ (disk = done \/ actor[a].dirty)
                       /\ actor[a].dirty => Current(a)
    /\ (\A a \in Conn : ~Current(a)) => disk = done
    /\ \A c \in Conn : /\ pc[c] \in {"build", "join"} => mem[actor[c].save] = done
                       /\ pc[c] = "scrub" => ~actor[who[c]].dirty

(* What is being written is not older than what has been.                  *)
TextFits ==
  ~failed =>
    \A w \in Conn \cup {Tick} : Under(w) =>
      /\ disk \subseteq job[w].text /\ job[w].text \subseteq done
      /\ job[w].gen = actor[job[w].who].gen => job[w].text = mem[actor[job[w].who].save]

RecordInv == OrderInv /\ OneSaves /\ RecordFits /\ TextFits

(* It holds at the start.                                                 *)
LEMMA InitRecord == Init => RecordInv
<1> SUFFICES ASSUME Init PROVE RecordInv
  OBVIOUS
<1>1. OneSaves /\ TextFits
  BY DEF Init, OneSaves, TextFits, Under
<1>2. RecordFits
  BY SessionAssumption DEF Init, RecordFits, Current, NoActor, NoIndex, Resting
<1> QED
  BY <1>1, <1>2, InitOrder DEF RecordInv

(* What the parts say of an actor.                                         *)
SameRecords ==
  \A a \in Conn : /\ actor'[a].save = actor[a].save /\ actor'[a].dirty = actor[a].dirty
                  /\ actor'[a].gen = actor[a].gen

(* The steps that write nothing and leave the session the current one.     *)
LEMMA Untouched ==
  ASSUME RecordInv, OrderInv', UNCHANGED <<memVars, job>>, SameRecords,
         \A a \in Conn : Current(a)' <=> Current(a),
         \A c \in Conn : /\ pc'[c] \in {"build", "join"} => pc[c] \in {"build", "join"}
                         /\ pc'[c] = "scrub" => pc[c] = "scrub" /\ who'[c] = who[c]
                         /\ Under(c) => pc'[c] = pc[c] /\ who'[c] = who[c],
         Under(Tick) => tick' = tick
  PROVE  RecordInv'
<1> USE DEF RecordInv, SameRecords
<1>0. \A c \in Conn : pc[c] = "scrub" => who[c] \in Conn
  BY DEF OrderInv, SessionInv, BuiltOnly, Built, Acquainted
<1>1. OneSaves'
  BY DEF OneSaves, Under
<1>2. RecordFits'
  BY <1>0 DEF RecordFits, memVars
<1>3. TextFits'
  BY DEF TextFits, OneSaves, Under, memVars
<1> QED
  BY <1>1, <1>2, <1>3

(* A step of one goroutine that leaves index, tick, marks and records.     *)
LEMMA UntouchedWalk ==
  ASSUME InTurn, RecordInv, OrderInv', NEW c \in Conn, SameRecords,
         UNCHANGED <<memVars, job, tick>>, Others(c), index'.pid = index.pid,
         pc[c] \notin {"displace", "endsave"}, pc'[c] \notin {"scrub", "endsave"},
         pc'[c] = "build" => pc[c] = "build", pc'[c] = "join" => pc[c] \in {"build", "join"}
  PROVE  RecordInv'
<1> USE DEF RecordInv, Others
<1>1. \A a \in Conn : Current(a)' <=> Current(a)
  BY DEF Current
<1>2. ~Under(c)
  BY DEF OneSaves
<1> QED
  BY <1>1, <1>2, Untouched

LEMMA UntouchedSteps ==
  ASSUME InTurn, RecordInv, OrderInv', NEW c \in Conn,
         \/ Load(c) \/ Leave(c) \/ EnterFound(c) \/ Claim(c) \/ Build(c) \/ Spawn(c) \/ Unwind(c)
         \/ Park(c) \/ Unbind(c) \/ Drop(c) \/ Reattach(c) \/ ReRegister(c)
  PROVE  RecordInv'
<1>0. actor \in [Conn -> ActorType] /\ pc \in [Conn -> Labels] /\ who \in [Conn -> Someone]
      /\ index \in [conn : [Conn -> Someone], pid : Someone]
  BY DEF RecordInv, OrderInv, SessionInv, TypeOK
<1>1. CASE Load(c) \/ Leave(c) \/ EnterFound(c) \/ Spawn(c) \/ Unwind(c) \/ Drop(c) \/ Unbind(c)
  <2>1. SameRecords /\ Others(c) /\ UNCHANGED <<memVars, job, tick>> /\ index'.pid = index.pid
    BY <1>0, <1>1 DEF Load, Leave, EnterFound, Spawn, Unwind, Drop, Unbind, Return, Goto,
      SameRecords, Others
  <2>2. pc[c] \notin {"displace", "endsave"} /\ pc'[c] \notin {"scrub", "endsave", "build", "join"}
    BY <1>0, <1>1 DEF Load, Leave, EnterFound, Spawn, Unwind, Drop, Unbind, Return, Goto
  <2> QED
    BY <2>1, <2>2, UntouchedWalk
<1>2. CASE Claim(c) \/ Build(c) \/ Park(c) \/ Reattach(c) \/ ReRegister(c)
  <2>1. SameRecords
    BY <1>0, <1>2 DEF Claim, Build, Park, Reattach, ReRegister, SameRecords, ActorType
  <2>2. Others(c) /\ UNCHANGED <<memVars, job, tick>> /\ index'.pid = index.pid
    BY <1>0, <1>2 DEF Claim, Build, Park, Reattach, ReRegister, Return, Goto, Others
  <2>3. /\ pc[c] \notin {"displace", "endsave"} /\ pc'[c] \notin {"scrub", "endsave", "build"}
        /\ pc'[c] = "join" => pc[c] = "build"
    BY <1>0, <1>2 DEF Claim, Build, Park, Reattach, ReRegister, Return, Goto
  <2> QED
    BY <2>1, <2>2, <2>3, UntouchedWalk
<1> QED
  BY <1>1, <1>2

(* The end of a session, and its reaping, leave it the current one until   *)
(* it has been saved.                                                      *)
LEMMA EndRecord ==
  ASSUME InTurn, RecordInv, NEW c \in Conn, End(c)
  PROVE  RecordInv'
<1> USE DEF RecordInv
<1>0. OrderInv' /\ SameRecords /\ UNCHANGED <<memVars, job, tick, who>>
  BY EndOrder DEF End, SameRecords
<1>1. /\ index.pid = who[c] /\ index'.pid = None /\ tick.who = None /\ tick.op # "reapsave"
      /\ pc[c] = "end" /\ \A d \in Conn : pc'[d] = IF d = c THEN "endsave" ELSE pc[d]
      /\ \A d \in Conn \ {c} : pc[d] \notin Passing
  BY DEF End, Goto, Remove, OrderInv, SessionInv, TypeOK, BuiltOnly, OneIndexed, OnePasses, Passing
<1>2. \A a \in Conn : Current(a)' <=> Current(a)
  BY <1>0, <1>1, SessionAssumption DEF Current, Passing
<1>3. ~Under(c)
  BY <1>1 DEF OneSaves
<1> QED
  BY <1>0, <1>1, <1>2, <1>3, Untouched

LEMMA ReapRecord ==
  ASSUME InTurn, RecordInv, SweepReap
  PROVE  RecordInv'
<1> USE DEF RecordInv
<1>0. OrderInv' /\ SameRecords /\ UNCHANGED <<memVars, job, pc, who>>
  BY SweepReapOrder DEF SweepReap, SameRecords
<1>1. /\ index.pid = tick.who /\ index'.pid = None /\ tick.who # None
      /\ tick.op = "reap" /\ tick'.op = "reapsave" /\ tick'.who = tick.who
      /\ \A d \in Conn : pc[d] \notin Passing
  BY DEF SweepReap, Remove, OrderInv, SessionInv, TypeOK, BuiltOnly, OneIndexed, OnePasses
<1>2. \A a \in Conn : Current(a)' <=> Current(a)
  BY <1>0, <1>1, SessionAssumption DEF Current, Passing
<1>3. ~Under(Tick)
  BY <1>1 DEF OneSaves
<1> QED
  BY <1>0, <1>1, <1>2, <1>3, Untouched

(* The tick goroutine's other steps that write nothing.                    *)
LEMMA TickRecord ==
  ASSUME InTurn, RecordInv, OrderInv',
         \/ Sweep \/ Autosave \/ TickEnd \/ UNCHANGED vars
         \/ \E c \in Conn : SweepSkip(c) \/ SweepClaim(c) \/ IdleTimeout(c) \/ Hangup(c)
  PROVE  RecordInv'
<1> USE DEF RecordInv
<1>0. actor \in [Conn -> ActorType]
      /\ index \in [conn : [Conn -> Someone], pid : Someone]
      /\ tick \in [op : {"idle", "sweep", "reap", "reapsave", "autosave"},
                   todo : SUBSET Conn, who : Someone]
  BY DEF OrderInv, SessionInv, TypeOK
<1>1. UNCHANGED <<memVars, job, pc, who, index>>
  BY DEF Sweep, Autosave, TickEnd, SweepSkip, SweepClaim, IdleTimeout, Hangup, vars, memVars
<1>5. \/ tick' = tick
      \/ tick.op \in {"idle", "sweep"} /\ tick'.op # "reapsave"
      \/ tick.op = "autosave" /\ tick.todo = {} /\ tick'.op # "reapsave"
  <2>1. CASE Sweep \/ Autosave
    <3>1. tick = Resting /\ tick'.op \in {"sweep", "autosave"}
      BY <1>0, <2>1 DEF Sweep, Autosave
    <3> QED
      BY <3>1 DEF Resting
  <2>2. CASE TickEnd
    BY <2>2 DEF TickEnd, Resting
  <2>3. ASSUME NEW c \in Conn, SweepSkip(c) \/ SweepClaim(c)
        PROVE  tick.op = "sweep" /\ tick'.op # "reapsave"
    BY <1>0, <2>3 DEF SweepSkip, SweepClaim
  <2> QED
    BY <2>1, <2>2, <2>3 DEF IdleTimeout, Hangup, vars
<1>2. SameRecords
  <2>1. CASE UNCHANGED actor
    BY <2>1 DEF SameRecords
  <2>2. ASSUME NEW c \in Conn, SweepClaim(c)
        PROVE  SameRecords
    BY <1>0, <2>2 DEF SweepClaim, SameRecords, ActorType
  <2>3. ASSUME NEW c \in Conn, IdleTimeout(c)
        PROVE  SameRecords
    <3>1. index.conn[c] \in Conn
      BY <1>0, <2>3 DEF IdleTimeout, Someone
    <3>2. actor' = [actor EXCEPT ![index.conn[c]].disc = TRUE]
      BY <2>3 DEF IdleTimeout
    <3> QED
      BY <1>0, <3>1, <3>2 DEF SameRecords, ActorType
  <2> QED
    BY <2>1, <2>2, <2>3 DEF Sweep, Autosave, TickEnd, SweepSkip, Hangup, vars
<1>3. \A a \in Conn : Current(a)' <=> Current(a)
  BY <1>1, <1>5 DEF Current
<1>4. Under(Tick) => tick' = tick
  BY <1>5 DEF OneSaves
<1> QED
  BY <1>1, <1>2, <1>3, <1>4, Untouched

(* The new session's record is the file.                                   *)
LEMMA EnterNewRecord ==
  ASSUME InTurn, RecordInv, NEW c \in Conn, EnterNew(c)
  PROVE  RecordInv'
<1> USE DEF RecordInv
<1>0. OrderInv' /\ UNCHANGED <<job, tick, disk, done, failed, who, index>>
  BY EnterNewOrder DEF EnterNew, InTurn
<1>1. /\ index.pid = None /\ tick.who = None /\ \A d \in Conn : pc[d] \notin Passing
      /\ \A d \in Conn : pc'[d] = IF d = c THEN "build" ELSE pc[d]
      /\ mem' = [mem EXCEPT ![c] = loaded[c]] /\ loaded[c] = disk
  BY Turn DEF EnterNew, Goto, InTurn, OrderInv, SessionInv, TypeOK
<1>2. /\ \A a \in Conn : /\ actor'[a].save = IF a = c THEN c ELSE actor[a].save
                         /\ actor'[a].dirty = actor[a].dirty /\ actor'[a].gen = actor[a].gen
      /\ mem'[c] = disk
  <2>1. actor \in [Conn -> ActorType] /\ mem \in [Conn -> Progress]
    BY DEF OrderInv, SessionInv, TypeOK
  <2> QED
    BY <1>1, <2>1 DEF EnterNew, ActorType
<1>3. \A a \in Conn : ~Current(a) /\ ~Current(a)'
  BY <1>0, <1>1, SessionAssumption DEF Current, Passing, OrderInv, SessionInv, BuiltOnly
<1>4. \A d \in Conn : ~Under(d)
  BY <1>1 DEF OneSaves, Passing
<1>5. ~failed => disk = done /\ ~Under(Tick)
  BY <1>3 DEF RecordFits, OneSaves
<1>a. OneSaves'
  BY <1>0, <1>1, <1>2, <1>4 DEF OneSaves, Under
<1>b. RecordFits'
  BY <1>0, <1>1, <1>2, <1>3, <1>5 DEF RecordFits, Passing
<1>c. TextFits'
  BY <1>0, <1>4, <1>5 DEF TextFits, Under
<1> QED
  BY <1>0, <1>a, <1>b, <1>c

(* Its actor is the current one once it is indexed.                        *)
LEMMA JoinRecord ==
  ASSUME InTurn, RecordInv, NEW c \in Conn, Join(c)
  PROVE  RecordInv'
<1> USE DEF RecordInv
<1>0. OrderInv' /\ UNCHANGED <<job, tick, memVars, who, actor>>
  BY JoinOrder DEF Join
<1>1. /\ pc[c] = "join" /\ index.pid = None /\ index'.pid = c /\ tick.who = None
      /\ \A d \in Conn : pc'[d] = IF d = c THEN "spawn" ELSE pc[d]
      /\ \A d \in Conn \ {c} : pc[d] \notin Passing
  BY DEF Join, Goto, OrderInv, SessionInv, TypeOK, OneIndexed, OnePasses, Passing
<1>2. \A a \in Conn : ~Current(a) /\ (Current(a)' => a = c)
  BY <1>0, <1>1, SessionAssumption DEF Current, Passing, OrderInv, SessionInv, BuiltOnly
<1>3. Current(c)'
  BY <1>1 DEF Current
<1>4. \A d \in Conn : ~Under(d)
  BY <1>1 DEF OneSaves, Passing
<1>a. OneSaves'
  BY <1>0, <1>4 DEF OneSaves, Under
<1>b. RecordFits'
  BY <1>0, <1>1, <1>2, <1>3 DEF RecordFits, Passing, memVars
<1>c. TextFits'
  BY <1>0 DEF TextFits, Under, memVars
<1> QED
  BY <1>0, <1>a, <1>b, <1>c

(* The new session goes on with the displaced one's record, which has been *)
(* saved.                                                                  *)
LEMMA ScrubRecord ==
  ASSUME InTurn, RecordInv, NEW c \in Conn, Scrub(c)
  PROVE  RecordInv'
<1> USE DEF RecordInv
<1>0. OrderInv' /\ UNCHANGED <<job, tick, memVars, who>>
  BY ScrubOrder DEF Scrub
<1>1. /\ pc[c] = "scrub" /\ who[c] \in Conn /\ index.pid = who[c] /\ index'.pid = None
      /\ tick.who = None
      /\ \A d \in Conn : pc'[d] = IF d = c THEN "build" ELSE pc[d]
      /\ \A d \in Conn \ {c} : pc[d] \notin Passing
  BY DEF Scrub, Goto, Remove, OrderInv, SessionInv, TypeOK, OneIndexed, OnePasses, Passing, Displacing,
    BuiltOnly, Built, Acquainted
<1>2. \A a \in Conn : /\ actor'[a].save = IF a = c THEN actor[who[c]].save ELSE actor[a].save
                      /\ actor'[a].dirty = actor[a].dirty /\ actor'[a].gen = actor[a].gen
  <2>1. actor \in [Conn -> ActorType]
    BY DEF OrderInv, SessionInv, TypeOK
  <2> QED
    BY <2>1 DEF Scrub, ActorType
<1>3. \A a \in Conn : (Current(a) <=> a = who[c]) /\ ~Current(a)'
  BY <1>0, <1>1, SessionAssumption DEF Current, Passing, OrderInv, SessionInv, BuiltOnly
<1>4. \A d \in Conn : ~Under(d)
  BY <1>1 DEF OneSaves, Passing
<1>5. ~failed => disk = done /\ ~Under(Tick) /\ mem[actor[who[c]].save] = done
  BY <1>1, <1>3 DEF RecordFits, OneSaves
<1>a. OneSaves'
  BY <1>0, <1>2, <1>4 DEF OneSaves, Under
<1>b. RecordFits'
  BY <1>0, <1>1, <1>2, <1>3, <1>5 DEF RecordFits, Passing, memVars
<1>c. TextFits'
  BY <1>0, <1>4, <1>5 DEF TextFits, Under, memVars
<1> QED
  BY <1>0, <1>a, <1>b, <1>c

(* A change is made to the current session's record, and marked.           *)
LEMMA PlayRecord ==
  ASSUME InTurn, RecordInv, NEW c \in Conn, Play(c)
  PROVE  RecordInv'
<1> USE DEF RecordInv
<1>0. OrderInv' /\ UNCHANGED <<pc, who, index, disk, failed, job, tick>>
  BY QuietOrder, PlayInv DEF Play, OrderInv
<1>1. ~actor[c].taken \/ Uncopied(c)
  BY DEF Play, InTurn
<1>2. index.pid = c
  <2>1. CASE ~actor[c].taken
    BY <2>1 DEF Play, OrderInv, OneIndexed, Indexed, Serving
  <2>2. CASE Uncopied(c)
    BY <2>2 DEF Uncopied, OrderInv, OneIndexed, Displacing
  <2> QED
    BY <1>1, <2>1, <2>2
<1>3. \A d \in Conn : pc[d] \notin {"build", "join", "endsave", "drop"}
  BY <1>2, SessionAssumption DEF OrderInv, OneIndexed
<1>3a. \A d \in Conn : pc[d] # "scrub" /\ ~Under(d)
  <2> SUFFICES ASSUME NEW d \in Conn PROVE pc[d] # "scrub" /\ ~Under(d)
    OBVIOUS
  <2>1. CASE ~actor[c].taken
    <3>1. pc[d] \notin Displacing
      BY <1>2, <2>1 DEF OrderInv, OneIndexed, SessionInv, Claimed, Displacing
    <3> QED
      BY <1>3, <3>1 DEF OneSaves, Displacing
  <2>2. CASE Uncopied(c)
    <3>1. PICK e \in Conn : pc[e] = "displace" /\ job[e] = NoJob
      BY <2>2 DEF Uncopied
    <3>2. pc[d] \in Displacing => d = e
      BY <3>1 DEF OrderInv, OnePasses, Passing, Displacing
    <3> QED
      BY <1>3, <3>1, <3>2 DEF OneSaves, Under, Displacing
  <2> QED
    BY <1>1, <2>1, <2>2
<1>4. tick.op # "reapsave"
  BY <1>2, SessionAssumption DEF OrderInv, OneIndexed
<1>5. PICK n \in Change : /\ mem' = [mem EXCEPT ![actor[c].save] = @ \cup {n}]
                          /\ done' = done \cup {n}
  BY DEF Play
<1>6. /\ \A a \in Conn : /\ actor'[a].save = actor[a].save
                         /\ actor'[a].dirty <=> (a = c \/ actor[a].dirty)
                         /\ actor'[a].gen = IF a = c THEN actor[a].gen + 1 ELSE actor[a].gen
                         /\ actor[a].gen \in Nat
      /\ mem'[actor[c].save] = mem[actor[c].save] \cup {n}
  <2>1. actor \in [Conn -> ActorType] /\ mem \in [Conn -> Progress]
    BY DEF OrderInv, SessionInv, TypeOK
  <2>2. actor[c].save \in Conn
    BY DEF Play, OrderInv, SessionInv, BuiltOnly, Acquainted
  <2>3. actor' = [actor EXCEPT ![c].dirty = TRUE, ![c].gen = @ + 1]
    BY DEF Play
  <2>4. \A a \in Conn : actor[a].dirty \in BOOLEAN /\ actor[a].gen \in Nat
    BY <2>1 DEF ActorType
  <2> QED
    BY <1>5, <2>1, <2>2, <2>3, <2>4 DEF ActorType
<1>7. \A a \in Conn : (Current(a) <=> a = c) /\ (Current(a)' <=> a = c)
  BY <1>0, <1>2, <1>3, <1>4 DEF Current
<1>9. \A w \in Conn \cup {Tick} : job[w].gen \in Nat
  BY DEF OrderInv, SessionInv, TypeOK
<1>a. OneSaves'
  <2>1. ASSUME Under(Tick)
        PROVE  /\ job[Tick].who \in Conn /\ actor'[job[Tick].who].dirty
               /\ job[Tick].gen <= actor'[job[Tick].who].gen
               /\ tick.op = "autosave" /\ job[Tick].who \in tick.todo
    <3>1. PICK a : /\ a = job[Tick].who /\ a \in Conn /\ actor[a].dirty /\ job[Tick].gen <= actor[a].gen
                   /\ tick.op = "autosave" /\ a \in tick.todo
      BY <1>4, <2>1 DEF OneSaves
    <3>2. actor'[a].dirty /\ actor[a].gen <= actor'[a].gen /\ actor[a].gen \in Nat /\ actor'[a].gen \in Nat
      BY <1>6, <3>1
    <3>3. job[Tick].gen <= actor'[a].gen
      BY <1>9, <3>1, <3>2
    <3> QED
      BY <3>1, <3>2, <3>3
  <2> QED
    BY <1>0, <1>3a, <2>1 DEF OneSaves, Under
<1>b. RecordFits'
  BY <1>0, <1>3, <1>3a, <1>5, <1>6, <1>7 DEF RecordFits
<1>c. TextFits'
  <2> SUFFICES ASSUME ~failed, NEW w \in Conn \cup {Tick}, Under(w)
               PROVE  /\ disk \subseteq job[w].text /\ job[w].text \subseteq done'
                      /\ job[w].gen # actor'[job[w].who].gen
    BY <1>0 DEF TextFits, Under
  <2>1. job[w].who = c /\ job[w].gen <= actor[c].gen
    BY <1>7 DEF OneSaves, RecordFits
  <2> QED
    BY <1>5, <1>6, <1>9, <2>1 DEF TextFits
<1> QED
  BY <1>0, <1>a, <1>b, <1>c

(* A restart begins with what the file holds.                              *)
LEMMA CrashRecord ==
  ASSUME RecordInv, Crash
  PROVE  RecordInv'
<1>0. OrderInv'
  BY CrashOrder, CrashInv DEF RecordInv, OrderInv
<1>1. /\ \A c \in Conn : pc'[c] \in {"new", "gone"} /\ ~actor'[c].dirty
      /\ index'.pid = None /\ tick'.op = "idle" /\ done' = disk' /\ job' = [w \in DOMAIN job |-> NoJob]
  BY DEF Crash, NoActor, NoIndex, Resting
<1>2. \A w \in Conn \cup {Tick} : job'[w] = NoJob
  BY <1>1 DEF RecordInv, OrderInv, SessionInv, TypeOK
<1>3. \A a \in Conn : ~Current(a)'
  BY <1>1, SessionAssumption DEF Current
<1>a. OneSaves' /\ TextFits'
  BY <1>2 DEF OneSaves, TextFits, Under
<1>b. RecordFits'
  BY <1>1, <1>3 DEF RecordFits
<1> QED
  BY <1>0, <1>a, <1>b DEF RecordInv

(* A copy of the record is made: it holds what the file holds, and more.   *)
LEMMA SaveStarts ==
  ASSUME InTurn, RecordInv, OrderInv', NEW w \in Conn \cup {Tick}, NEW a \in Conn, SaveBegins(w, a),
         UNCHANGED <<pc, who, index, tick>>,
         w \in Conn => pc[w] \in {"displace", "endsave"} /\ who[w] = a,
         w = Tick => \/ tick.op = "autosave" /\ a \in tick.todo
                     \/ tick.op = "reapsave" /\ a = tick.who
  PROVE  RecordInv'
<1> USE DEF RecordInv
<1>0. UNCHANGED <<actor, mem, disk, done, failed>> /\ actor[a].dirty /\ actor[a].gen \in Nat
  BY DEF SaveBegins, memVars, OrderInv, SessionInv, TypeOK, ActorType
<1>1. \A v \in Conn \cup {Tick} : ~Under(v)
  BY DEF SaveBegins, InTurn, OrderInv, SessionInv, TypeOK, Under
<1>2. \A v \in Conn \cup {Tick} :
        job'[v] = IF v = w THEN [who |-> a, text |-> mem[actor[a].save], gen |-> actor[a].gen]
                  ELSE NoJob
  BY <1>1 DEF SaveBegins, OrderInv, SessionInv, TypeOK, Under
<1>3. \A b \in Conn : Current(b)' <=> Current(b)
  BY DEF Current
<1>4. ~failed => Current(a) /\ disk \subseteq done /\ mem[actor[a].save] = done
  BY <1>0 DEF RecordFits
<1>a. OneSaves'
  <2>1. \A v \in Conn \cup {Tick} : Under(v)' => v = w
    BY <1>2 DEF Under
  <2>2. job'[w].who = a /\ job'[w].gen = actor[a].gen
    BY <1>2
  <2> QED
    BY <1>0, <2>1, <2>2 DEF OneSaves
<1>b. RecordFits'
  BY <1>0, <1>3 DEF RecordFits
<1>c. TextFits'
  BY <1>0, <1>2, <1>4 DEF TextFits, Under
<1> QED
  BY <1>a, <1>b, <1>c

(* It is written: the file does not go back, and a record that did not     *)
(* change meanwhile is clean.                                              *)
LEMMA SaveEnds ==
  ASSUME InTurn, RecordInv, NEW w \in Conn \cup {Tick}, NEW a \in Conn, SaveReturns(w, a),
         Under(w) => job[w].who = a
  PROVE  \/ UNCHANGED <<job, actor, memVars>> /\ ~Under(w) /\ ~actor[a].dirty
         \/ /\ Under(w) /\ \A v \in Conn \cup {Tick} : job'[v] = NoJob
            /\ UNCHANGED <<mem, done>>
            /\ \A b \in Conn : /\ actor'[b].save = actor[b].save /\ actor'[b].gen = actor[b].gen
                               /\ actor'[b].dirty => actor[b].dirty
                               /\ b # a => (actor'[b].dirty <=> actor[b].dirty)
            /\ ~failed' => /\ ~failed /\ disk' \subseteq done /\ disk \subseteq disk'
                           /\ Current(a) /\ mem[actor[a].save] = done
                           /\ disk' = done \/ actor'[a].dirty
                           /\ job[w].gen = actor[a].gen => disk' = done /\ ~actor'[a].dirty
<1> USE DEF RecordInv
<1>1. CASE ~Under(w) /\ ~actor[a].dirty /\ UNCHANGED <<job, actor, memVars>>
  BY <1>1
<1>2. CASE Under(w) /\ job' = [job EXCEPT ![w] = NoJob] /\ UNCHANGED <<mem, done>>
  <2>1. \A v \in Conn \cup {Tick} : job'[v] = NoJob
    BY <1>2 DEF OneSaves, Under, OrderInv, SessionInv, TypeOK
  <2>2. actor \in [Conn -> ActorType] /\ actor[a].dirty
    BY <1>2 DEF OrderInv, SessionInv, TypeOK, OneSaves
  <2>3. CASE failed' = TRUE /\ UNCHANGED <<disk, actor>>
    BY <1>2, <2>1, <2>3
  <2>4. CASE /\ disk' = job[w].text /\ UNCHANGED failed
             /\ actor' = [actor EXCEPT ![a].dirty = IF actor[a].gen = job[w].gen THEN FALSE ELSE @]
    <3>1. \A b \in Conn : /\ actor'[b].save = actor[b].save /\ actor'[b].gen = actor[b].gen
                          /\ b # a => (actor'[b].dirty <=> actor[b].dirty)
                          /\ actor'[b].dirty => actor[b].dirty
      <4>1. PICK t : t = IF actor[a].gen = job[w].gen THEN FALSE ELSE actor[a].dirty
        OBVIOUS
      <4>2. actor' = [actor EXCEPT ![a].dirty = t]
        BY <2>2, <2>4, <4>1
      <4> QED
        BY <2>2, <4>1, <4>2 DEF ActorType
    <3>2. actor[a].gen = job[w].gen <=> ~actor'[a].dirty
      BY <2>2, <2>4 DEF ActorType
    <3>3. ~failed => /\ disk \subseteq job[w].text /\ job[w].text \subseteq done
                     /\ job[w].gen = actor[a].gen => job[w].text = mem[actor[a].save]
      BY <1>2 DEF TextFits
    <3>4. ~failed => Current(a) /\ mem[actor[a].save] = done
      BY <2>2 DEF RecordFits
    <3> QED
      BY <1>2, <2>1, <2>4, <3>1, <3>2, <3>3, <3>4
  <2> QED
    BY <1>2, <2>3, <2>4 DEF SaveReturns, Under
<1> QED
  BY <1>1, <1>2 DEF SaveReturns, Under

(* The save before a takeover: the displaced record is clean when it ends. *)
LEMMA DisplaceSaveRecord ==
  ASSUME InTurn, RecordInv, NEW c \in Conn, DisplaceSave(c)
  PROVE  RecordInv'
<1> USE DEF RecordInv
<1>0. /\ OrderInv' /\ UNCHANGED <<who, index, tick>>
      /\ pc[c] = "displace" /\ who[c] \in Conn /\ index.pid = who[c]
  BY PassingSaves DEF DisplaceSave, OrderInv, SessionInv, BuiltOnly, Built, Acquainted,
    OneIndexed, Displacing
<1>1. CASE SaveBegins(c, who[c]) /\ UNCHANGED pc
  BY <1>0, <1>1, SaveStarts
<1>2. CASE SaveReturns(c, who[c]) /\ Goto(c, "scrub")
  <2>1. /\ \A d \in Conn : pc'[d] = IF d = c THEN "scrub" ELSE pc[d]
        /\ Under(c) => job[c].who = who[c] /\ job[c].gen = actor[who[c]].gen
    BY <1>0, <1>2 DEF Goto, OneSaves, OrderInv, SessionInv, TypeOK
  <2>2. \A b \in Conn : (Current(b)' <=> Current(b)) /\ Current(who[c])
    BY <1>0, <2>1 DEF Current
  <2>5. \A d \in Conn : pc[d] = "scrub" => who[d] \in Conn
    BY DEF OrderInv, SessionInv, BuiltOnly, Built, Acquainted
  <2>3. CASE UNCHANGED <<job, actor, memVars>> /\ ~Under(c) /\ ~actor[who[c]].dirty
    <3>1. OneSaves'
      BY <1>0, <2>1, <2>3 DEF OneSaves, Under
    <3>2. RecordFits'
      BY <1>0, <2>1, <2>2, <2>3 DEF RecordFits, memVars
    <3>3. TextFits'
      BY <2>3 DEF TextFits, Under, memVars
    <3> QED
      BY <1>0, <3>1, <3>2, <3>3
  <2>4. CASE Under(c) /\ \A v \in Conn \cup {Tick} : job'[v] = NoJob
    <3>1. OneSaves' /\ TextFits'
      BY <2>4 DEF OneSaves, TextFits, Under
    <3>2. RecordFits'
      <4> HIDE DEF RecordInv
      <4> SUFFICES ASSUME ~failed'
                   PROVE  RecordFits'
        BY DEF RecordFits
      <4>1. /\ UNCHANGED <<mem, done>> /\ ~failed /\ disk' \subseteq done /\ disk \subseteq disk'
            /\ disk' = done /\ ~actor'[who[c]].dirty
            /\ \A b \in Conn : actor'[b].save = actor[b].save /\ (actor'[b].dirty => actor[b].dirty)
        BY <1>0, <1>2, <2>1, <2>4, SaveEnds DEF memVars
      <4>2. RecordFits
        BY DEF RecordInv
      <4> QED
        BY <1>0, <2>1, <2>2, <2>5, <4>1, <4>2 DEF RecordFits
    <3> QED
      BY <1>0, <3>1, <3>2
  <2> QED
    BY <1>0, <1>2, <2>1, <2>3, <2>4, SaveEnds
<1> QED
  BY <1>1, <1>2 DEF DisplaceSave

(* The save at the end of a session: with it the file is up to date.       *)
LEMMA EndSaveRecord ==
  ASSUME InTurn, RecordInv, NEW c \in Conn, EndSave(c)
  PROVE  RecordInv'
<1> USE DEF RecordInv
<1>0. /\ OrderInv' /\ UNCHANGED <<who, index, tick>> /\ pc[c] = "endsave" /\ who[c] \in Conn
      /\ index.pid = None /\ tick.who = None /\ tick.op # "reapsave"
      /\ \A d \in Conn \ {c} : pc[d] \notin Passing
  BY PassingSaves DEF EndSave, OrderInv, SessionInv, BuiltOnly, Built, Acquainted, OneIndexed,
    OnePasses, Passing
<1>1. CASE SaveBegins(c, who[c]) /\ UNCHANGED pc
  BY <1>0, <1>1, SaveStarts
<1>2. CASE SaveReturns(c, who[c]) /\ Goto(c, "drop")
  <2>1. /\ \A d \in Conn : pc'[d] = IF d = c THEN "drop" ELSE pc[d]
        /\ Under(c) => job[c].who = who[c] /\ job[c].gen = actor[who[c]].gen
    BY <1>0, <1>2 DEF Goto, OneSaves, OrderInv, SessionInv, TypeOK
  <2>2. \A b \in Conn : (Current(b) <=> b = who[c]) /\ ~Current(b)'
    BY <1>0, <2>1, SessionAssumption DEF Current, Passing
  <2>3. CASE UNCHANGED <<job, actor, memVars>> /\ ~Under(c) /\ ~actor[who[c]].dirty
    <3>1. OneSaves'
      BY <1>0, <2>1, <2>3 DEF OneSaves, Under
    <3>2. RecordFits'
      BY <1>0, <2>1, <2>2, <2>3 DEF RecordFits, memVars, Passing
    <3>3. TextFits'
      BY <2>3 DEF TextFits, Under, memVars
    <3> QED
      BY <1>0, <3>1, <3>2, <3>3
  <2>4. CASE Under(c) /\ \A v \in Conn \cup {Tick} : job'[v] = NoJob
    <3>1. OneSaves' /\ TextFits'
      BY <2>4 DEF OneSaves, TextFits, Under
    <3>2. RecordFits'
      <4> HIDE DEF RecordInv
      <4> SUFFICES ASSUME ~failed'
                   PROVE  RecordFits'
        BY DEF RecordFits
      <4>1. /\ UNCHANGED <<mem, done>> /\ ~failed
            /\ disk' = done /\ ~actor'[who[c]].dirty
            /\ \A b \in Conn : actor'[b].save = actor[b].save /\ (actor'[b].dirty => actor[b].dirty)
        BY <1>0, <1>2, <2>1, <2>4, SaveEnds DEF memVars
      <4>2. RecordFits
        BY DEF RecordInv
      <4> QED
        BY <1>0, <2>1, <2>2, <4>1, <4>2 DEF RecordFits, Passing
    <3> QED
      BY <1>0, <3>1, <3>2
  <2> QED
    BY <1>0, <1>2, <2>1, <2>3, <2>4, SaveEnds
<1> QED
  BY <1>1, <1>2 DEF EndSave

(* The save of a session the sweep has reaped.                             *)
LEMMA SweepSaveRecord ==
  ASSUME InTurn, RecordInv, SweepSave
  PROVE  RecordInv'
<1> USE DEF RecordInv
<1>0. /\ OrderInv' /\ UNCHANGED <<who, index, pc>> /\ tick.op = "reapsave" /\ tick.who \in Conn
      /\ index.pid = None /\ \A d \in Conn : pc[d] \notin Passing
  BY SweepSaveOrder, SessionAssumption DEF SweepSave, OrderInv, SessionInv, BuiltOnly, TypeOK,
    Someone, OneIndexed, OnePasses
<1>1. CASE SaveBegins(Tick, tick.who) /\ UNCHANGED tick
  BY <1>0, <1>1, SaveStarts
<1>2. CASE SaveReturns(Tick, tick.who) /\ tick' = [tick EXCEPT !.op = "sweep", !.who = None]
  <2>1. /\ tick'.op = "sweep"
        /\ Under(Tick) => job[Tick].who = tick.who /\ job[Tick].gen = actor[tick.who].gen
        /\ \A d \in Conn : ~Under(d)
    BY <1>0, <1>2 DEF OneSaves, OrderInv, SessionInv, TypeOK, Passing
  <2>2. \A b \in Conn : (Current(b) <=> b = tick.who) /\ ~Current(b)'
    BY <1>0, <2>1, SessionAssumption DEF Current, Passing
  <2>3. CASE UNCHANGED <<job, actor, memVars>> /\ ~Under(Tick) /\ ~actor[tick.who].dirty
    <3>1. OneSaves' /\ TextFits'
      BY <2>1, <2>3 DEF OneSaves, TextFits, Under
    <3>2. RecordFits'
      BY <1>0, <2>1, <2>2, <2>3 DEF RecordFits, memVars, Passing
    <3> QED
      BY <1>0, <3>1, <3>2
  <2>4. CASE Under(Tick) /\ \A v \in Conn \cup {Tick} : job'[v] = NoJob
    <3>1. OneSaves' /\ TextFits'
      BY <2>4 DEF OneSaves, TextFits, Under
    <3>2. RecordFits'
      <4> HIDE DEF RecordInv
      <4> SUFFICES ASSUME ~failed'
                   PROVE  RecordFits'
        BY DEF RecordFits
      <4>1. /\ UNCHANGED <<mem, done>> /\ ~failed
            /\ disk' = done /\ ~actor'[tick.who].dirty
            /\ \A b \in Conn : actor'[b].save = actor[b].save /\ (actor'[b].dirty => actor[b].dirty)
        BY <1>0, <1>2, <2>1, <2>4, SaveEnds DEF memVars
      <4>2. RecordFits
        BY DEF RecordInv
      <4> QED
        BY <1>0, <2>1, <2>2, <4>1, <4>2 DEF RecordFits, Passing
    <3> QED
      BY <1>0, <3>1, <3>2
  <2> QED
    BY <1>0, <1>2, <2>1, <2>3, <2>4, SaveEnds
<1> QED
  BY <1>1, <1>2 DEF SweepSave

(* The autosave of a session, which may change while it is written.        *)
LEMMA AutosaveOneRecord ==
  ASSUME InTurn, RecordInv, OrderInv', NEW a \in Conn, AutosaveOne(a)
  PROVE  RecordInv'
<1> USE DEF RecordInv
<1>0. UNCHANGED <<who, index, pc>> /\ tick.op = "autosave" /\ a \in tick.todo
  BY DEF AutosaveOne
<1>1. CASE SaveBegins(Tick, a) /\ UNCHANGED tick
  BY <1>0, <1>1, SaveStarts
<1>2. CASE /\ SaveReturns(Tick, a) /\ job[Tick].who \in {None, a}
           /\ tick' = [tick EXCEPT !.todo = @ \ {a}]
  <2>1. tick'.op = "autosave" /\ (Under(Tick) => job[Tick].who = a)
    BY <1>0, <1>2, SessionAssumption DEF OneSaves, OrderInv, SessionInv, TypeOK
  <2>2. \A b \in Conn : Current(b)' <=> Current(b)
    BY <1>0, <2>1 DEF Current
  <2>5. \A d \in Conn : pc[d] = "scrub" => who[d] \in Conn
    BY DEF OrderInv, SessionInv, BuiltOnly, Built, Acquainted
  <2>3. CASE UNCHANGED <<job, actor, memVars>> /\ ~Under(Tick) /\ ~actor[a].dirty
    BY <1>0, <2>2, <2>3, <2>5, Untouched DEF SameRecords, Under
  <2>4. CASE Under(Tick) /\ \A v \in Conn \cup {Tick} : job'[v] = NoJob
    <3>1. OneSaves' /\ TextFits'
      BY <2>4 DEF OneSaves, TextFits, Under
    <3>2. RecordFits'
      <4> HIDE DEF RecordInv
      <4> SUFFICES ASSUME ~failed'
                   PROVE  RecordFits'
        BY DEF RecordFits
      <4>1. /\ UNCHANGED <<mem, done>> /\ ~failed /\ disk' \subseteq done /\ disk \subseteq disk'
            /\ Current(a) /\ (disk' = done \/ actor'[a].dirty)
            /\ \A b \in Conn : /\ actor'[b].save = actor[b].save /\ (actor'[b].dirty => actor[b].dirty)
                               /\ b # a => (actor'[b].dirty <=> actor[b].dirty)
        BY <1>0, <1>2, <2>1, <2>4, SaveEnds DEF memVars
      <4>2. RecordFits
        BY DEF RecordInv
      <4> QED
        BY <1>0, <2>2, <2>5, <4>1, <4>2, SMTT(60) DEF RecordFits
    <3> QED
      BY <3>1, <3>2
  <2> QED
    BY <1>2, <2>1, <2>3, <2>4, SaveEnds
<1> QED
  BY <1>1, <1>2 DEF AutosaveOne

(* Every step keeps it.                                                    *)
LEMMA NextRecord ==
  ASSUME InTurn, RecordInv, [Next]_vars
  PROVE  RecordInv'
<1>0. OrderInv'
  BY NextOrder DEF RecordInv, InTurn
<1>1. CASE \E c \in Conn : Login(c)
  BY <1>0, <1>1, UntouchedSteps, EnterNewRecord DEF Login
<1>2. CASE \E c \in Conn : Runs(c)
  <2> PICK c \in Conn : Runs(c)
    BY <1>2
  <2>1. CASE Build(c) \/ Spawn(c) \/ Park(c) \/ Unbind(c) \/ Drop(c) \/ Reattach(c) \/ ReRegister(c)
    BY <1>0, <2>1, UntouchedSteps
  <2>2. CASE Join(c) \/ DisplaceSave(c) \/ Scrub(c) \/ End(c) \/ EndSave(c)
    BY <2>2, JoinRecord, DisplaceSaveRecord, ScrubRecord, EndRecord, EndSaveRecord
  <2> QED
    BY <2>1, <2>2 DEF Runs
<1>3. CASE \E c \in Conn : Play(c) \/ Hangup(c) \/ Unwind(c) \/ IdleTimeout(c) \/ SweepClaim(c)
  BY <1>0, <1>3, PlayRecord, TickRecord, UntouchedSteps
<1>4. CASE \E c \in Conn : SweepSkip(c) \/ AutosaveOne(c)
  BY <1>0, <1>4, TickRecord, AutosaveOneRecord
<1>5. CASE SweepReap \/ SweepSave \/ Crash
  BY <1>5, ReapRecord, SweepSaveRecord, CrashRecord
<1>6. CASE Sweep \/ Autosave \/ TickEnd \/ UNCHANGED vars
  BY <1>0, <1>6, TickRecord
<1> QED
  BY <1>1, <1>2, <1>3, <1>4, <1>5, <1>6 DEF Next, TickRuns

(* While no save fails, whatever a player has done is in the record of the *)
(* session, which knows what the file has not; with no session, it is in   *)
(* the file (session.go, manager.go).                                      *)
THEOREM SessionProgressKept == ASSUME InTurn PROVE Spec => []ProgressKept
<1>1. Init => RecordInv
  BY InitRecord
<1>2. RecordInv /\ [Next]_vars => RecordInv'
  BY NextRecord
<1>3. RecordInv => ProgressKept
  <2> SUFFICES ASSUME RecordInv, ~failed, \A c \in Conn : pc[c] \notin Passing, tick.who = None
               PROVE  IF index.pid = None THEN disk = done
                      ELSE /\ mem[actor[index.pid].save] = done
                           /\ disk = done \/ actor[index.pid].dirty
    BY DEF ProgressKept
  <2>1. tick.op # "reapsave" /\ index.pid \in Conn \cup {None}
    BY DEF RecordInv, OrderInv, SessionInv, BuiltOnly, TypeOK, Someone
  <2>2. CASE index.pid = None
    <3>1. \A a \in Conn : ~Current(a)
      BY <2>1, <2>2, SessionAssumption DEF Current, Passing
    <3> QED
      BY <2>2, <3>1 DEF RecordInv, RecordFits
  <2>3. CASE index.pid # None
    BY <2>1, <2>3 DEF RecordInv, RecordFits, Current
  <2> QED
    BY <2>2, <2>3
<1> QED
  BY <1>1, <1>2, <1>3, PTL DEF Spec

(* No save takes back what an earlier one has written.                     *)
LEMMA WritesForward ==
  ASSUME InTurn, RecordInv, Next, ~failed
  PROVE  disk \subseteq disk'
<1>1. ASSUME NEW w \in Conn \cup {Tick}, NEW a \in Conn, SaveReturns(w, a)
      PROVE  disk \subseteq disk'
  <2>1. disk' = disk \/ (job[w] # NoJob /\ disk' = job[w].text)
    BY <1>1 DEF SaveReturns, memVars
  <2>2. Under(w) => disk \subseteq job[w].text
    BY DEF RecordInv, TextFits
  <2> QED
    BY <2>1, <2>2 DEF Under
<1>2. ASSUME NEW w \in Conn \cup {Tick}, NEW a \in Conn, SaveBegins(w, a)
      PROVE  disk' = disk
  BY <1>2 DEF SaveBegins, memVars
<1>3. ASSUME NEW c \in Conn, DisplaceSave(c) \/ EndSave(c)
      PROVE  disk \subseteq disk'
  <2>1. who[c] \in Conn
    BY <1>3 DEF DisplaceSave, EndSave, RecordInv, OrderInv, SessionInv, BuiltOnly, Built, Acquainted
  <2> QED
    BY <1>1, <1>2, <1>3, <2>1 DEF DisplaceSave, EndSave
<1>4. ASSUME SweepSave
      PROVE  disk \subseteq disk'
  <2>1. tick.who \in Conn
    BY <1>4 DEF SweepSave, RecordInv, OrderInv, SessionInv, BuiltOnly, TypeOK, Someone
  <2> QED
    BY <1>1, <1>2, <1>4, <2>1 DEF SweepSave
<1>5. ASSUME NEW a \in Conn, AutosaveOne(a)
      PROVE  disk \subseteq disk'
  BY <1>1, <1>2, <1>5 DEF AutosaveOne
<1>6. ASSUME NEW c \in Conn, Login(c)
      PROVE  disk' = disk
  BY <1>6 DEF Login, Load, Leave, EnterNew, EnterFound, Claim, memVars
<1>7. ASSUME NEW c \in Conn, Runs(c), ~DisplaceSave(c), ~EndSave(c)
      PROVE  disk' = disk
  BY <1>7 DEF Runs, Build, Join, Spawn, Scrub, Park, Unbind, End, Drop, Reattach, ReRegister, memVars
<1>8. ASSUME NEW c \in Conn,
             Play(c) \/ Hangup(c) \/ Unwind(c) \/ IdleTimeout(c) \/ SweepClaim(c) \/ SweepSkip(c)
      PROVE  disk' = disk
  BY <1>8 DEF Play, Hangup, Unwind, IdleTimeout, SweepClaim, SweepSkip, memVars
<1>9. ASSUME Sweep \/ Autosave \/ SweepReap \/ TickEnd \/ Crash
      PROVE  disk' = disk
  BY <1>9 DEF Sweep, Autosave, SweepReap, TickEnd, Crash, memVars
<1> QED
  BY <1>3, <1>4, <1>5, <1>6, <1>7, <1>8, <1>9 DEF Next, TickRuns

(* A save never takes back what an earlier one has written: not that of an *)
(* actor displaced, reaped or autosaved late (session.go, connActor.Persist). *)
THEOREM SessionNoRollback == ASSUME InTurn PROVE Spec => NoRollback
<1>1. Init => RecordInv
  BY InitRecord
<1>2. RecordInv /\ [Next]_vars => RecordInv'
  BY NextRecord
<1>3. RecordInv /\ [Next]_vars => [~failed => disk \subseteq disk']_vars
  BY WritesForward
<1> QED
  BY <1>1, <1>2, <1>3, PTL DEF Spec, NoRollback
==============================================================================
