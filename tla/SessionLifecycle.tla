-------------------------- MODULE SessionLifecycle --------------------------
(***************************************************************************)
(* The sessions of one character: src/internal/session (session.go,        *)
(* manager.go, takeover.go, linkdead.go, idle.go) with the roster of       *)
(* internal/login that loads the character's save.                         *)
(*                                                                         *)
(* Every connection is served by one goroutine, and builds at most one     *)
(* actor, which is named after it; a reconnect serves the actor of an      *)
(* earlier connection.  Autosave, idle sweep and link-dead sweep share the *)
(* tick goroutine.  A step is what one goroutine does under one lock, or   *)
(* one write of the save file, under the store's mutex; what a crash in    *)
(* the middle of it leaves is in Crash.  A character's progress is the set *)
(* of changes its record holds.                                            *)
(***************************************************************************)
EXTENDS Naturals, FiniteSets

CONSTANTS
  Conn,     \* connections, each used once
  None,     \* no connection, no actor
  Tick,     \* the tick goroutine
  Change,   \* changes a player can make to the character, each once
  Allowed   \* what of Circumstances may happen

(***************************************************************************)
(* "overlap": the beginning of one session of the character may fall into  *)
(*   the end, the takeover or the beginning of another;                    *)
(* "stale": the takeover prompt may be answered when the session it asks   *)
(*   about has ended;                                                      *)
(* "menu": the file may have changed since the roster was read;            *)
(* "saves": two saves of the character may overlap;                        *)
(* "late": a session that is taken over may change its record when the     *)
(*   takeover has already copied it;                                       *)
(* "disk": a save may fail;  "crash": the process may die.                 *)
(***************************************************************************)
Circumstances == {"overlap", "stale", "menu", "saves", "late", "disk", "crash"}

ASSUME SessionAssumption ==
  /\ Allowed \subseteq Circumstances
  /\ None \notin Conn /\ Tick \notin Conn /\ Tick # None
  /\ Change \subseteq Nat

VARIABLES
  pc,      \* connection -> where its goroutine is
  who,     \* connection -> the actor its goroutine has looked up or serves
  loaded,  \* connection -> the progress in the save its roster has read
  open,    \* connections whose transport is open
  actor,   \* connection -> the actor it has built
  index,   \* the manager's byConn and byPlayerID
  kept,    \* the actor whose proficiencies, quests, effects are registered
  mem,     \* save record -> progress; records are named after their reader
  disk,    \* progress in the character's file
  job,     \* goroutine -> the Persist it has under way
  tick,    \* the sweep or autosave under way on the tick goroutine
  done,    \* (history) changes made and not lost in a crash
  failed   \* (history) has a save failed since the last crash?

memVars == <<mem, disk, done, failed>>
vars == <<pc, who, loaded, open, actor, index, kept, mem, disk, job, tick, done, failed>>

NoActor == [phase |-> "none", taken |-> FALSE, disc |-> FALSE, sock |-> None,
            key |-> None, save |-> None, dirty |-> FALSE, gen |-> 0]
NoIndex == [conn |-> [c \in Conn |-> None], pid |-> None]
NoJob == [who |-> None, text |-> {}, gen |-> 0]
Resting == [op |-> "idle", todo |-> {}, who |-> None]

Init ==
  /\ pc = [c \in Conn |-> "new"] /\ who = [c \in Conn |-> None]
  /\ loaded = [c \in Conn |-> {}] /\ open = Conn
  /\ actor = [c \in Conn |-> NoActor] /\ index = NoIndex /\ kept = None
  /\ mem = [c \in Conn |-> {}] /\ disk = {} /\ done = {} /\ failed = FALSE
  /\ job = [w \in Conn \cup {Tick} |-> NoJob] /\ tick = Resting

-----------------------------------------------------------------------------
(* Helpers.                                                                *)

Goto(c, label) == pc' = [pc EXCEPT ![c] = label]

(* The goroutine returns, and the server closes its connection.            *)
Return(c) == Goto(c, "gone") /\ open' = open \ {c}

Indexed == ({index.conn[c] : c \in Conn} \cup {index.pid}) \ {None}

(* Manager.Remove: by id, whoever is entered there.                        *)
Remove(a) == index' = [conn |-> [index.conn EXCEPT ![actor[a].key] = None], pid |-> None]

(* Some session of the character is between deciding to begin, to end or   *)
(* to be replaced, and having done so.                                     *)
Passing == {"displace", "scrub", "build", "join", "park", "unbind", "rereg",
            "end", "endsave", "drop"}
Alone == \/ "overlap" \in Allowed
         \/ (\A c \in Conn : pc[c] \notin Passing) /\ tick.who = None

(* connActor.Persist: a copy of the record under the actor's lock...       *)
SaveBegins(w, a) ==
  /\ job[w] = NoJob /\ actor[a].dirty
  /\ "saves" \in Allowed \/ \A v \in DOMAIN job : job[v] = NoJob
  /\ job' = [job EXCEPT ![w] = [who |-> a, text |-> mem[actor[a].save], gen |-> actor[a].gen]]
  /\ UNCHANGED <<actor, memVars>>

(* Mutant of SaveReturns: the record is clean whatever happened meanwhile.   *)
SaveReturnsClean(w, a) ==
  \/ job[w] = NoJob /\ ~actor[a].dirty /\ UNCHANGED <<job, actor, memVars>>
  \/ /\ job[w] # NoJob
     /\ job' = [job EXCEPT ![w] = NoJob] /\ disk' = job[w].text
     /\ actor' = [actor EXCEPT ![a].dirty = FALSE]
     /\ UNCHANGED <<mem, done, failed>>

(* ...which is written, or not; the record is clean if it did not change   *)
(* meanwhile.                                                              *)
SaveReturns(w, a) ==
  \/ job[w] = NoJob /\ ~actor[a].dirty /\ UNCHANGED <<job, actor, memVars>>
  \/ /\ job[w] # NoJob
     /\ job' = [job EXCEPT ![w] = NoJob]
     /\ UNCHANGED <<mem, done>>
     /\ \/ /\ disk' = job[w].text
           /\ actor' = [actor EXCEPT ![a].dirty = IF actor[a].gen = job[w].gen THEN FALSE ELSE @]
           /\ UNCHANGED failed
        \/ "disk" \in Allowed /\ failed' = TRUE /\ UNCHANGED <<disk, actor>>

-----------------------------------------------------------------------------
(* Logging in.                                                             *)

(* buildRoster reads the save, then the player looks at the menus, and is   *)
(* shown a new roster when coming back from them.                          *)
Load(c) ==
  /\ pc[c] \in {"new", "menu"}
  /\ loaded' = [loaded EXCEPT ![c] = disk]
  /\ Goto(c, "menu")
  /\ UNCHANGED <<who, open, actor, index, kept, memVars, job, tick>>

(* The player or the transport gives up before a session is there.         *)
Leave(c) ==
  /\ pc[c] \in {"new", "menu", "prompt"}
  /\ Return(c)
  /\ UNCHANGED <<who, loaded, actor, index, kept, memVars, job, tick>>

(* run: "enter" at the menu, with no session of the character indexed.     *)
EnterNew(c) ==
  /\ pc[c] = "menu" /\ index.pid = None
  /\ Alone /\ ("menu" \in Allowed \/ loaded[c] = disk)
  /\ mem' = [mem EXCEPT ![c] = loaded[c]]
  /\ actor' = [actor EXCEPT ![c].save = c]
  /\ Goto(c, "build")
  /\ UNCHANGED <<who, loaded, open, index, kept, disk, done, failed, job, tick>>

(* With one indexed: reconnect to it if it is link-dead, else ask.         *)
EnterFound(c) ==
  /\ pc[c] = "menu" /\ index.pid # None /\ Alone
  /\ who' = [who EXCEPT ![c] = index.pid]
  /\ Goto(c, IF actor[index.pid].phase = "linkdead" THEN "reattach" ELSE "prompt")
  /\ UNCHANGED <<loaded, open, actor, index, kept, memVars, job, tick>>

(* run: a new actor, and the registries' state of the player id from it.   *)
Build(c) ==
  /\ pc[c] = "build"
  /\ actor' = [actor EXCEPT ![c].phase = "playing", ![c].sock = c, ![c].key = c]
  /\ kept' = c /\ who' = [who EXCEPT ![c] = c]
  /\ Goto(c, "join")
  /\ UNCHANGED <<loaded, open, index, memVars, job, tick>>

(* Manager.Add.                                                            *)
Join(c) ==
  /\ pc[c] = "join"
  /\ index' = [conn |-> [index.conn EXCEPT ![c] = c], pid |-> c]
  /\ Goto(c, "spawn")
  /\ UNCHANGED <<who, loaded, open, actor, kept, memVars, job, tick>>

(* The first rendering of the room: if it cannot be written, the session   *)
(* ends.                                                                   *)
Spawn(c) ==
  /\ pc[c] = "spawn"
  /\ \/ Goto(c, "playing")
     \/ /\ c \notin open /\ Alone
        /\ "overlap" \in Allowed \/ ~actor[c].taken
        /\ Goto(c, "end")
  /\ UNCHANGED <<who, loaded, open, actor, index, kept, memVars, job, tick>>

-----------------------------------------------------------------------------
(* Takeover.                                                               *)

(* Mutant of Claim: whoever answers owns the takeover.                      *)
ClaimRepeated(c) ==
  LET a == who[c] IN
  /\ pc[c] = "prompt" /\ Alone
  /\ "stale" \in Allowed \/ index.pid = a \/ actor[a].taken
  /\ actor' = [actor EXCEPT ![a].taken = TRUE, ![a].disc = TRUE]
  /\ Goto(c, "displace")
  /\ UNCHANGED <<open, who, loaded, index, kept, memVars, job, tick>>

(* performTakeover: whoever sets the latch first owns the takeover.        *)
Claim(c) ==
  LET a == who[c] IN
  /\ pc[c] = "prompt" /\ Alone
  /\ "stale" \in Allowed \/ index.pid = a \/ actor[a].taken
  /\ \/ actor[a].taken /\ Return(c) /\ UNCHANGED actor
     \/ /\ ~actor[a].taken
        /\ actor' = [actor EXCEPT ![a].taken = TRUE, ![a].disc = TRUE]
        /\ Goto(c, "displace") /\ UNCHANGED open
  /\ UNCHANGED <<who, loaded, index, kept, memVars, job, tick>>

DisplaceSave(c) ==
  /\ pc[c] = "displace"
  /\ \/ SaveBegins(c, who[c]) /\ UNCHANGED pc
     \/ SaveReturns(c, who[c]) /\ Goto(c, "scrub")
  /\ UNCHANGED <<who, loaded, open, index, kept, tick>>

(* Mutant of Scrub: the new session goes on with what its roster has read.  *)
ScrubReload(c) ==
  LET a == who[c] IN
  /\ pc[c] = "scrub"
  /\ actor' = [actor EXCEPT ![c].save = c]
  /\ mem' = [mem EXCEPT ![c] = loaded[c]]
  /\ Remove(a) /\ open' = open \ {actor[a].sock}
  /\ Goto(c, "build")
  /\ UNCHANGED <<who, loaded, kept, disk, done, failed, job, tick>>

(* The new session goes on with the old one's record.                      *)
Scrub(c) ==
  LET a == who[c] IN
  /\ pc[c] = "scrub"
  /\ actor' = [actor EXCEPT ![c].save = actor[a].save]
  /\ Remove(a) /\ open' = open \ {actor[a].sock}
  /\ Goto(c, "build")
  /\ UNCHANGED <<who, loaded, kept, memVars, job, tick>>

-----------------------------------------------------------------------------
(* Playing.                                                                *)

(* A takeover of a has yet to copy its record.                             *)
Uncopied(a) == \E c \in Conn : pc[c] = "displace" /\ who[c] = a /\ job[c] = NoJob

(* A command, or the drain of a tick, changes the record and marks it. No  *)
(* one looks at the latch of a takeover: the displaced session is pumping  *)
(* and indexed until its connection is closed.                             *)
Play(a) ==
  /\ a \in Indexed \/ \E c \in Conn : pc[c] = "playing" /\ who[c] = a
  /\ actor[a].taken => "late" \in Allowed \/ Uncopied(a)
  /\ \E n \in Change \ (done \cup disk) :
       /\ \A m \in Change \ (done \cup disk) : n <= m
       /\ mem' = [mem EXCEPT ![actor[a].save] = @ \cup {n}]
       /\ done' = done \cup {n}
  /\ actor' = [actor EXCEPT ![a].dirty = TRUE, ![a].gen = @ + 1]
  /\ UNCHANGED <<pc, who, loaded, open, index, kept, disk, failed, job, tick>>

(* The client goes away; the goroutine finds out at its next read.         *)
Hangup(c) ==
  /\ c \in open
  /\ pc[c] \in {"displace", "scrub", "build", "join", "spawn", "reattach", "rereg", "playing"}
  /\ open' = open \ {c}
  /\ UNCHANGED <<pc, who, loaded, actor, index, kept, memVars, job, tick>>

(* Mutant of Unwind: no look at the latch of a takeover.                    *)
UnwindTaken(c) ==
  /\ pc[c] = "playing" /\ Alone
  /\ \E quits \in BOOLEAN :
       /\ quits \/ c \notin open
       /\ Goto(c, IF quits \/ actor[who[c]].disc THEN "end" ELSE "park")
  /\ UNCHANGED <<open, who, loaded, actor, index, kept, memVars, job, tick>>

(* pump returns and dispatchTeardown looks at the latches: nothing is done *)
(* for an actor that was taken over, and a connection that went away on    *)
(* its own leaves the session link-dead.  "quit" ends it.                  *)
Unwind(c) ==
  LET a == who[c] IN
  /\ pc[c] = "playing"
  /\ \/ actor[a].taken /\ Return(c)
     \/ /\ ~actor[a].taken /\ Alone /\ UNCHANGED open
        /\ \E quits \in BOOLEAN :
             /\ quits \/ c \notin open
             /\ Goto(c, IF quits \/ actor[a].disc THEN "end" ELSE "park")
  /\ UNCHANGED <<who, loaded, actor, index, kept, memVars, job, tick>>

(* enterLinkDeadTeardown, or the full teardown if the phase has moved on.  *)
Park(c) ==
  LET a == who[c] IN
  /\ pc[c] = "park"
  /\ \/ /\ actor[a].phase = "playing"
        /\ actor' = [actor EXCEPT ![a].phase = "linkdead"]
        /\ Goto(c, "unbind")
     \/ actor[a].phase # "playing" /\ Goto(c, "end") /\ UNCHANGED actor
  /\ UNCHANGED <<who, loaded, open, index, kept, memVars, job, tick>>

(* Manager.RemoveConnectionOnly.                                           *)
Unbind(c) ==
  /\ pc[c] = "unbind"
  /\ index' = [index EXCEPT !.conn[actor[who[c]].key] = None]
  /\ Return(c)
  /\ UNCHANGED <<who, loaded, actor, kept, memVars, job, tick>>

(* Mutant of End: only the connection is removed from the index.            *)
EndUnbinds(c) ==
  /\ pc[c] = "end"
  /\ index' = [index EXCEPT !.conn[actor[who[c]].key] = None]
  /\ Goto(c, "endsave")
  /\ UNCHANGED <<who, loaded, open, actor, kept, memVars, job, tick>>

(* fullTeardown: Remove, Persist, then drop what the registries hold of    *)
(* the player id.                                                          *)
End(c) ==
  /\ pc[c] = "end"
  /\ Remove(who[c]) /\ Goto(c, "endsave")
  /\ UNCHANGED <<who, loaded, open, actor, kept, memVars, job, tick>>

EndSave(c) ==
  /\ pc[c] = "endsave"
  /\ \/ SaveBegins(c, who[c]) /\ UNCHANGED pc
     \/ SaveReturns(c, who[c]) /\ Goto(c, "drop")
  /\ UNCHANGED <<who, loaded, open, index, kept, tick>>

Drop(c) ==
  /\ pc[c] = "drop"
  /\ kept' = None /\ Return(c)
  /\ UNCHANGED <<who, loaded, actor, index, memVars, job, tick>>

-----------------------------------------------------------------------------
(* Reconnecting to a link-dead session.                                    *)

(* connActor.reattach, unless the sweep was faster.                        *)
Reattach(c) ==
  LET a == who[c] IN
  /\ pc[c] = "reattach" /\ Alone
  /\ "overlap" \in Allowed \/ ~actor[a].taken
  /\ \/ /\ actor[a].phase = "linkdead"
        /\ actor' = [actor EXCEPT ![a].sock = c, ![a].phase = "playing", ![a].disc = FALSE]
        /\ Goto(c, "rereg") /\ UNCHANGED open
     \/ actor[a].phase # "linkdead" /\ Return(c) /\ UNCHANGED actor
  /\ UNCHANGED <<who, loaded, index, kept, memVars, job, tick>>

(* Mutant of ReRegister: the actor keeps its old connection id.              *)
ReRegisterOldId(c) ==
  LET a == who[c] IN
  /\ pc[c] = "rereg" /\ index.pid = a
  /\ index' = [index EXCEPT !.conn[c] = a]
  /\ Goto(c, "playing")
  /\ UNCHANGED <<actor, who, loaded, open, kept, memVars, job, tick>>

(* Manager.ReRegisterConnectionForSession, or ErrSessionGone.              *)
ReRegister(c) ==
  LET a == who[c] IN
  /\ pc[c] = "rereg"
  /\ \/ /\ index.pid = a
        /\ index' = [index EXCEPT !.conn[actor[a].key] = None, !.conn[c] = a]
        /\ actor' = [actor EXCEPT ![a].key = c]
        /\ Goto(c, "playing")
     \/ /\ index.pid # a
        /\ actor' = [actor EXCEPT ![a].disc = TRUE]
        /\ Goto(c, "end") /\ UNCHANGED index
  /\ UNCHANGED <<who, loaded, open, kept, memVars, job, tick>>

-----------------------------------------------------------------------------
(* The tick goroutine.                                                     *)

(* IdleSweep: an actor found idle is latched and its connection closed.    *)
IdleTimeout(c) ==
  LET a == index.conn[c] IN
  /\ tick = Resting /\ a # None /\ ~actor[a].disc
  /\ actor' = [actor EXCEPT ![a].disc = TRUE]
  /\ open' = open \ {actor[a].sock}
  /\ UNCHANGED <<pc, who, loaded, index, kept, memVars, job, tick>>

(* Mutant of Sweep: it looks for link-dead sessions by connection.           *)
SweepByConn ==
  /\ tick = Resting
  /\ tick' = [tick EXCEPT !.op = "sweep",
       !.todo = {a \in {index.conn[c] : c \in Conn} \ {None} : actor[a].phase = "linkdead"}]
  /\ UNCHANGED <<pc, who, loaded, open, actor, index, kept, memVars, job>>

(* LinkDeadCleanup lists who is link-dead...                               *)
Sweep ==
  /\ tick = Resting
  /\ tick' = [tick EXCEPT !.op = "sweep",
                !.todo = {a \in {index.pid} \ {None} : actor[a].phase = "linkdead"}]
  /\ UNCHANGED <<pc, who, loaded, open, actor, index, kept, memVars, job>>

(* Mutant of SweepClaim: the phase is not looked at again.                   *)
SweepClaimListed(a) ==
  /\ tick.op = "sweep" /\ a \in tick.todo
  /\ Alone /\ ("overlap" \in Allowed \/ ~actor[a].taken)
  /\ actor' = [actor EXCEPT ![a].phase = "tearing", ![a].disc = TRUE]
  /\ tick' = [op |-> "reap", todo |-> tick.todo \ {a}, who |-> a]
  /\ UNCHANGED <<pc, who, loaded, open, index, kept, memVars, job>>

(* ...claims who still is and has been for long enough...                  *)
SweepClaim(a) ==
  /\ tick.op = "sweep" /\ a \in tick.todo /\ actor[a].phase = "linkdead"
  /\ Alone /\ ("overlap" \in Allowed \/ ~actor[a].taken)
  /\ actor' = [actor EXCEPT ![a].phase = "tearing", ![a].disc = TRUE]
  /\ tick' = [op |-> "reap", todo |-> tick.todo \ {a}, who |-> a]
  /\ UNCHANGED <<pc, who, loaded, open, index, kept, memVars, job>>

SweepSkip(a) ==
  /\ tick.op = "sweep" /\ a \in tick.todo
  /\ tick' = [tick EXCEPT !.todo = @ \ {a}]
  /\ UNCHANGED <<pc, who, loaded, open, actor, index, kept, memVars, job>>

(* ...and removes and saves it.                                            *)
SweepReap ==
  /\ tick.op = "reap"
  /\ Remove(tick.who)
  /\ tick' = [tick EXCEPT !.op = "reapsave"]
  /\ UNCHANGED <<pc, who, loaded, open, actor, kept, memVars, job>>

SweepSave ==
  /\ tick.op = "reapsave"
  /\ \/ SaveBegins(Tick, tick.who) /\ UNCHANGED tick
     \/ SaveReturns(Tick, tick.who) /\ tick' = [tick EXCEPT !.op = "sweep", !.who = None]
  /\ UNCHANGED <<pc, who, loaded, open, index, kept>>

(* SaveAll: who is indexed is listed, and saved one after the other.       *)
Autosave ==
  /\ tick = Resting
  /\ tick' = [tick EXCEPT !.op = "autosave", !.todo = Indexed]
  /\ UNCHANGED <<pc, who, loaded, open, actor, index, kept, memVars, job>>

AutosaveOne(a) ==
  /\ tick.op = "autosave" /\ a \in tick.todo
  /\ \/ SaveBegins(Tick, a) /\ UNCHANGED tick
     \/ /\ job[Tick].who \in {None, a}
        /\ SaveReturns(Tick, a)
        /\ tick' = [tick EXCEPT !.todo = @ \ {a}]
  /\ UNCHANGED <<pc, who, loaded, open, index, kept>>

TickEnd ==
  /\ tick.op \in {"sweep", "autosave"} /\ tick.todo = {}
  /\ tick' = Resting
  /\ UNCHANGED <<pc, who, loaded, open, actor, index, kept, memVars, job>>

(* The process dies and is started again. When it dies between the two     *)
(* renames of a save, the record is left under the name of the backup, and *)
(* the roster lists a character that nobody can enter.                     *)
Crash ==
  /\ "crash" \in Allowed
  /\ \/ /\ pc' = [c \in Conn |-> IF pc[c] = "new" THEN "new" ELSE "gone"]
        /\ open' = {c \in open : pc[c] = "new"}
     \/ /\ \E w \in DOMAIN job : job[w] # NoJob
        /\ pc' = [c \in Conn |-> "gone"] /\ open' = {}
  /\ who' = [c \in Conn |-> None] /\ loaded' = [c \in Conn |-> {}]
  /\ actor' = [c \in Conn |-> NoActor] /\ index' = NoIndex /\ kept' = None
  /\ mem' = [c \in Conn |-> {}] /\ done' = disk /\ failed' = FALSE
  /\ job' = [w \in DOMAIN job |-> NoJob] /\ tick' = Resting
  /\ UNCHANGED disk

-----------------------------------------------------------------------------
Login(c) == Load(c) \/ Leave(c) \/ EnterNew(c) \/ EnterFound(c) \/ Claim(c)
Runs(c) == \/ Build(c) \/ Join(c) \/ Spawn(c) \/ DisplaceSave(c) \/ Scrub(c)
           \/ Park(c) \/ Unbind(c) \/ End(c) \/ EndSave(c) \/ Drop(c)
           \/ Reattach(c) \/ ReRegister(c)
TickRuns == \/ \E a \in Conn : SweepSkip(a) \/ AutosaveOne(a)
            \/ SweepReap \/ SweepSave \/ TickEnd

Next ==
  \/ \E c \in Conn : Login(c) \/ Runs(c) \/ Play(c) \/ Hangup(c) \/ Unwind(c)
                     \/ IdleTimeout(c) \/ SweepClaim(c)
  \/ Sweep \/ Autosave \/ TickRuns \/ Crash

Spec == Init /\ [][Next]_vars

(* Goroutines run on, the read of a closed connection fails, sweeps keep   *)
(* coming, and a session that is listed as link-dead again and again has   *)
(* at some time been so for long enough.                                   *)
FairSpec ==
  /\ Spec
  /\ \A c \in Conn : SF_vars(Runs(c)) /\ WF_vars(c \notin open /\ Unwind(c))
                     /\ SF_vars(SweepClaim(c))
  /\ SF_vars(Sweep) /\ WF_vars(TickRuns)

-----------------------------------------------------------------------------
(* Properties.                                                             *)

(* The goroutine of a connection serves a session that is the character's. *)
Serves(c) == pc[c] \in {"rereg", "spawn", "playing"} /\ ~actor[who[c]].taken

(* Types; an entry of byConn is under the id its actor has (connActor.id   *)
(* and byConn change under one lock).                                      *)
Labels == Passing \cup {"new", "menu", "prompt", "reattach", "spawn", "playing", "gone"}
Someone == Conn \cup {None}
Progress == SUBSET Change
ActorType == [phase : {"none", "playing", "linkdead", "tearing"},
              taken : BOOLEAN, disc : BOOLEAN, sock : Someone, key : Someone,
              save : Someone, dirty : BOOLEAN, gen : Nat]

TypeOK ==
  /\ pc \in [Conn -> Labels] /\ who \in [Conn -> Someone]
  /\ loaded \in [Conn -> Progress] /\ open \subseteq Conn
  /\ actor \in [Conn -> ActorType]
  /\ index \in [conn : [Conn -> Someone], pid : Someone] /\ kept \in Someone
  /\ mem \in [Conn -> Progress] /\ disk \in Progress /\ done \in Progress
  /\ failed \in BOOLEAN
  /\ job \in [Conn \cup {Tick} -> [who : Someone, text : Progress, gen : Nat]]
  /\ tick \in [op : {"idle", "sweep", "reap", "reapsave", "autosave"},
               todo : SUBSET Conn, who : Someone]
  /\ \A c \in Conn : index.conn[c] # None => actor[index.conn[c]].key = c

(* A character is played by one connection at a time: not by two that came *)
(* through the menu, the takeover prompt and a reconnect in some order.    *)
OneLive == \A c, d \in Conn : Serves(c) /\ Serves(d) => c = d

(* Whoever plays can be found: by id for a takeover, a tell or the         *)
(* autosave, by connection for the idle sweep, and what the registries     *)
(* hold for the player id is this session's.                               *)
Findable ==
  \A c \in Conn : pc[c] = "playing" /\ Serves(c) =>
    LET a == who[c] IN
    /\ index.pid = a /\ index.conn[c] = a /\ kept = a
    /\ actor[a].key = c /\ actor[a].sock = c

(* Whatever overlaps, one side wins: the sweep does not reap a session that *)
(* a reconnect has resumed, and two takeovers do not displace one session. *)
OneWinner ==
  /\ \A c \in Conn : pc[c] \in {"rereg", "playing"} => who[c] # tick.who
  /\ \A c, d \in Conn : /\ pc[c] \in {"displace", "scrub"} /\ pc[d] \in {"displace", "scrub"}
                       /\ who[c] = who[d]
                       => c = d

(* What is indexed will be taken out again: it is link-dead, so that the   *)
(* sweep finds it, or some goroutine has still to unwind, displace or reap *)
(* it.                                                                     *)
NoGhost ==
  \A a \in Indexed :
    \/ actor[a].phase = "linkdead" \/ tick.who = a
    \/ \E c \in Conn : /\ who[c] = a
                       /\ pc[c] \in {"rereg", "spawn", "playing", "park", "unbind",
                                     "end", "displace", "scrub"}

(* While no session begins or ends and no save has failed, the one session *)
(* has every change in its record and knows what the file has not, and     *)
(* with no session all of it is in the file; what a displaced session has  *)
(* done before its takeover copied the record included.                    *)
ProgressKept ==
  ~failed /\ (\A c \in Conn : pc[c] \notin Passing) /\ tick.who = None =>
    IF index.pid = None THEN disk = done
    ELSE LET a == index.pid
         IN  mem[actor[a].save] = done /\ (disk = done \/ actor[a].dirty)

(* A save never takes back what an earlier one has written: not that of an *)
(* actor displaced, reaped or autosaved late (as long as none has failed). *)
NoRollback == [][~failed => disk \subseteq disk']_vars

(* A link-dead session that can be found is resumed, replaced or reaped.   *)
Lost(a) == index.pid = a /\ actor[a].phase = "linkdead"
LinkDeadEnds == \A a \in Conn : Lost(a) ~> ~Lost(a)
=============================================================================
