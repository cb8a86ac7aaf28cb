---------------------------- MODULE Notifications ----------------------------
(***************************************************************************)
(* The notifications one player is sent: src/internal/notifications        *)
(* (queue.go, store.go, manager.go) with the session goroutines that       *)
(* register, drain and unregister it (session/notifications.go and the     *)
(* session manager's onRemove), the publishers and the autosave.           *)
(*                                                                         *)
(* Players do not share queues, so one is enough. A step is what one       *)
(* goroutine does under the manager's mutex, or one read or write of the   *)
(* file; between two steps of one goroutine the others act. A write gives  *)
(* the file its name in one step, but takes the old one away before: who   *)
(* reads in between, and who reads after a crash or a failure in between,  *)
(* finds no file (SaveFile has the system calls).                          *)
(***************************************************************************)
EXTENDS Naturals, FiniteSets, SequencesExt

CONSTANTS
  Message,    \* notifications, each published once
  Prio,       \* message -> priority
  Login,      \* this player's sessions, one after the other
  Cap,        \* cap of the queue
  NoEntry,    \* no entry in the manager's map
  NoSnap,     \* no autosave under way
  Envs        \* sets of circumstances: "again", the player logs in more than
              \* once; "drops", the connection drops and comes back; "saves",
              \* the autosave runs; "gap", a publish finds the player offline
              \* during a login or logout; "overlap", a login starts while the
              \* last session is still going; "disk", writing the file
              \* fails; "unread", reading it fails; "crash", the process
              \* dies; "torn", it dies, or the second rename and the one that
              \* takes it back fail, between the two renames of a write

Entry == [login : Login, queue : Seq(Message), dirty : BOOLEAN]

ASSUME NotifyAssumption ==
  /\ Cap \in Nat
  /\ Prio \in [Message -> Nat]
  /\ NoEntry \notin Entry /\ NoSnap \notin Seq(Message)
  /\ Envs \subseteq SUBSET {"again", "drops", "saves", "gap", "overlap", "disk", "unread",
                            "crash", "torn"}

VARIABLES
  file,     \* notifications.yaml
  named,    \* does the store know the player's file name?
  entry,    \* the player's entityState, with the login whose sink it has
  stamp,    \* message -> published_at (0: not yet published)
  pub,      \* message -> where its publisher is
  via,      \* message -> the login whose sink its publisher has taken
  read,     \* message -> the queue its publisher has loaded and appended to
  reg,      \* login -> where its Register and Drain are
  loaded,   \* login -> the queue it has loaded, then what it still drains
  from,     \* login -> the login whose entry it drains
  leave,    \* login -> where its removal is
  flush,    \* login -> the queue its Unregister has still to save
  taken,    \* logins removed by the takeover of the next one
  up,       \* login -> does writing to its connection work?
  snap,     \* what the autosave has still to save
  got,      \* message -> times it was written to the player
  dropped,  \* messages evicted, refused or never acknowledged
  env       \* the circumstances of this behaviour

fileVars  == <<file, named>>
pubVars   == <<stamp, pub, via, read>>
regVars   == <<reg, loaded, from>>
leaveVars == <<leave, flush, taken>>
vars == <<fileVars, entry, pubVars, regVars, leaveVars, up, snap, got, dropped, env>>

Init ==
  /\ file = <<>> /\ named = FALSE /\ entry = NoEntry
  /\ stamp = [m \in Message |-> 0]
  /\ pub = [m \in Message |-> "new"]
  /\ via \in [Message -> Login] /\ \A m, n \in Message : via[m] = via[n]
  /\ read = [m \in Message |-> <<>>]
  /\ reg = [s \in Login |-> "out"]
  /\ loaded = [s \in Login |-> <<>>]
  /\ from = [s \in Login |-> s]
  /\ leave = [s \in Login |-> "no"]
  /\ flush = [s \in Login |-> <<>>]
  /\ taken = {}
  /\ up = [s \in Login |-> FALSE]
  /\ snap = NoSnap
  /\ got = [m \in Message |-> 0]
  /\ dropped = {}
  /\ env \in Envs

------------------------------------------------------------------------------
(* The queue: drain order, insertion, the cap. *)

DrainLess(m, n) == \/ Prio[m] > Prio[n]
                   \/ Prio[m] = Prio[n] /\ stamp[m] < stamp[n]

Sorted(q) == \A i, j \in 1..Len(q) : i < j => ~DrainLess(q[j], q[i])

(* Mutant of Insert: what comes in goes to the end. *)
InsertLast(q, m) == q \o <<m>>

(* sort.Search: the first place before something that drains later. *)
Place(q, m) ==
  CHOOSE i \in 1..(Len(q) + 1) : /\ \A j \in 1..(i - 1) : ~DrainLess(m, q[j])
                                 /\ i <= Len(q) => DrainLess(m, q[i])

Insert(q, m) == InsertAt(q, Place(q, m), m)

Full(q) == Len(q) >= Cap

(* The first of a tier is its oldest. *)
OldestAtTier(q, tier) ==
  CHOOSE i \in 1..Len(q) : /\ Prio[q[i]] = tier
                           /\ \A j \in 1..(i - 1) : Prio[q[j]] # tier

(* Queue.Append: the queue after it, and what is evicted or refused. *)
Append1(q, m) ==
  IF ~Full(q)
  THEN [queue |-> Insert(q, m), out |-> {}]
  ELSE IF q = <<>> \/ Prio[Last(q)] > Prio[m]
       THEN [queue |-> q, out |-> {m}]
       ELSE LET i == OldestAtTier(q, Prio[Last(q)])
            IN  [queue |-> Insert(RemoveAt(q, i), m), out |-> {q[i]}]

(* The loop that puts back what a drain has not delivered. *)
AppendEach(q, ms) ==
  LET after[k \in 0..Len(ms)] ==
        IF k = 0
        THEN [queue |-> q, out |-> {}]
        ELSE LET r == Append1(after[k - 1].queue, ms[k])
             IN  [queue |-> r.queue, out |-> after[k - 1].out \cup r.out]
  IN  after[Len(ms)]

------------------------------------------------------------------------------
(* Publishing *)

Online == entry # NoEntry
Goto(m, step) == pub' = [pub EXCEPT ![m] = step]
Told(m) == got' = [got EXCEPT ![m] = @ + 1]

(* Publish stamps the notification before it routes it. *)
Publish(m) ==
  /\ pub[m] = "new"
  /\ stamp' = [stamp EXCEPT ![m] = 1 + Cardinality({n \in Message : stamp[n] # 0})]
  /\ Goto(m, "route")
  /\ UNCHANGED <<fileVars, entry, via, read, regVars, leaveVars, up, snap, got, dropped, env>>

(* Without "gap": no login or logout is between two of its steps when a
   publish finds the player offline, and none starts one meanwhile. *)
Settled == \A s \in Login : reg[s] # "loading" /\ leave[s] \in {"no", "removed", "gone"}
NobodyOffline == \A m \in Message : pub[m] \notin {"offline", "saving"}

(* routeOne: online with nothing queued ... *)
RouteImmediate(m) ==
  /\ pub[m] = "route"
  /\ Online /\ entry.queue = <<>>
  /\ via' = [via EXCEPT ![m] = entry.login]
  /\ Goto(m, "deliver")
  /\ UNCHANGED <<fileVars, entry, stamp, read, regVars, leaveVars, up, snap, got, dropped, env>>

(* ... online with a backlog, or after a delivery that failed ... *)
RouteQueue(m) ==
  /\ pub[m] \in {"route", "requeue"}
  /\ Online
  /\ pub[m] = "route" => entry.queue # <<>>
  /\ LET r == Append1(entry.queue, m)
     IN /\ entry' = [entry EXCEPT !.queue = r.queue, !.dirty = TRUE]
        /\ dropped' = dropped \cup r.out
  /\ Goto(m, "done")
  /\ UNCHANGED <<fileVars, stamp, via, read, regVars, leaveVars, up, snap, got, env>>

(* ... and offline. *)
RouteOffline(m) ==
  /\ pub[m] \in {"route", "requeue"}
  /\ ~Online
  /\ "gap" \in env \/ Settled
  /\ Goto(m, "offline")
  /\ UNCHANGED <<fileVars, entry, stamp, via, read, regVars, leaveVars, up, snap, got, dropped, env>>

(* Mutant of Deliver: a line is queued even though it was written. *)
DeliverQueued(m) ==
  /\ pub[m] = "deliver"
  /\ Goto(m, "requeue")
  /\ IF up[via[m]] THEN Told(m) ELSE UNCHANGED got
  /\ UNCHANGED <<fileVars, entry, stamp, via, read, regVars, leaveVars, up, snap, dropped, env>>

(* The sink writes to the session, with no lock held. *)
Deliver(m) ==
  /\ pub[m] = "deliver"
  /\ IF up[via[m]]
     THEN Told(m) /\ Goto(m, "done")
     ELSE Goto(m, "requeue") /\ UNCHANGED got
  /\ UNCHANGED <<fileVars, entry, stamp, via, read, regVars, leaveVars, up, snap, dropped, env>>

(* Somebody is in Store.Save, and may be between the two renames. *)
Writing == \/ \E m \in Message : pub[m] = "saving"
           \/ \E s \in Login : leave[s] = "saving"
           \/ snap # NoSnap

(* Store.Load takes a file that it cannot read, or does not find, for an
   empty one. *)
Read(q) == q = file \/ (q = <<>> /\ (Writing \/ "unread" \in env))

(* A write that does not come to its end leaves the file, or with "torn" only
   its .bak, which nobody reads. *)
Unfinished == file' = file \/ ("torn" \in env /\ named /\ file' = <<>>)

(* Mutant of AppendLoad: AppendOne does not take the lock of the name. *)
AppendLoadUnlocked(m) ==
  /\ pub[m] = "offline"
  /\ \E q \in {file, <<>>} :
       /\ Read(q)
       /\ read' = [read EXCEPT ![m] = Append1(q, m).queue]
       /\ dropped' = dropped \cup Append1(q, m).out
  /\ named' = TRUE
  /\ Goto(m, "saving")
  /\ UNCHANGED <<file, entry, stamp, via, regVars, leaveVars, up, snap, got, env>>

(* AppendOne, under the lock of the name: load and append, then save. *)
AppendLoad(m) ==
  /\ pub[m] = "offline"
  /\ \A n \in Message : pub[n] # "saving"
  /\ \E q \in {file, <<>>} :
       /\ Read(q)
       /\ read' = [read EXCEPT ![m] = Append1(q, m).queue]
       /\ dropped' = dropped \cup Append1(q, m).out
  /\ named' = TRUE
  /\ Goto(m, "saving")
  /\ UNCHANGED <<file, entry, stamp, via, regVars, leaveVars, up, snap, got, env>>

(* Store.Save writes nothing, and reports no error, when the name has been
   forgotten. *)
Write(q) == file' = IF named THEN q ELSE file

AppendSave(m) ==
  /\ pub[m] = "saving"
  /\ Write(read[m])
  /\ read' = [read EXCEPT ![m] = <<>>]
  /\ Goto(m, "done")
  /\ UNCHANGED <<named, entry, stamp, via, regVars, leaveVars, up, snap, got, dropped, env>>

(* The publisher is told that it did not work. *)
AppendFails(m) ==
  /\ "disk" \in env
  /\ pub[m] = "saving"
  /\ read' = [read EXCEPT ![m] = <<>>]
  /\ dropped' = dropped \cup {m}
  /\ Goto(m, "done")
  /\ Unfinished
  /\ UNCHANGED <<named, entry, stamp, via, regVars, leaveVars, up, snap, got, env>>

------------------------------------------------------------------------------
(* A session: Register and Drain, then the removal. *)

(* The others have gone. With "overlap" it is enough that the session manager
   no longer finds one that quit; a takeover waits for the removal to end. *)
Alone(s) == \A r \in Login \ {s} :
              \/ reg[r] = "out"
              \/ "again" \in env /\ leave[r] = "gone"
              \/ {"again", "overlap"} \subseteq env /\ leave[r] # "no" /\ r \notin taken

RegisterLoad(s) ==
  /\ reg[s] = "out" /\ leave[s] = "no" /\ Alone(s)
  /\ "gap" \in env \/ NobodyOffline
  /\ \E q \in {file, <<>>} : Read(q) /\ loaded' = [loaded EXCEPT ![s] = q]
  /\ named' = TRUE
  /\ reg' = [reg EXCEPT ![s] = "loading"]
  /\ up' = [up EXCEPT ![s] = TRUE]
  /\ UNCHANGED <<file, entry, pubVars, from, leaveVars, snap, got, dropped, env>>

RegisterInstall(s) ==
  /\ reg[s] = "loading"
  /\ entry' = [login |-> s, queue |-> loaded[s], dirty |-> FALSE]
  /\ loaded' = [loaded EXCEPT ![s] = <<>>]
  /\ reg' = [reg EXCEPT ![s] = "registered"]
  /\ UNCHANGED <<fileVars, pubVars, from, leaveVars, up, snap, got, dropped, env>>

(* Drain takes whatever entry the player has now, with its whole queue. *)
DrainTake(s) ==
  /\ reg[s] = "registered" /\ Online
  /\ loaded' = [loaded EXCEPT ![s] = entry.queue]
  /\ from' = [from EXCEPT ![s] = entry.login]
  /\ entry' = [entry EXCEPT !.queue = <<>>, !.dirty = @ \/ entry.queue # <<>>]
  /\ reg' = [reg EXCEPT ![s] = "draining"]
  /\ UNCHANGED <<fileVars, pubVars, leaveVars, up, snap, got, dropped, env>>

DrainDeliver(s) ==
  /\ reg[s] = "draining" /\ loaded[s] # <<>>
  /\ up[from[s]]
  /\ Told(Head(loaded[s]))
  /\ loaded' = [loaded EXCEPT ![s] = Tail(@)]
  /\ UNCHANGED <<fileVars, entry, pubVars, reg, from, leaveVars, up, snap, dropped, env>>

(* Mutant of DrainFails: what is left is not put back. *)
DrainFailsDropping(s) ==
  /\ reg[s] = "draining" /\ loaded[s] # <<>>
  /\ ~up[from[s]]
  /\ loaded' = [loaded EXCEPT ![s] = <<>>]
  /\ reg' = [reg EXCEPT ![s] = "active"]
  /\ UNCHANGED <<fileVars, entry, pubVars, from, leaveVars, up, snap, got, dropped, env>>

(* The writer fails: what is left goes back into the queue, unless another
   session's entry has taken its place. *)
DrainFails(s) ==
  /\ reg[s] = "draining" /\ loaded[s] # <<>>
  /\ ~up[from[s]]
  /\ IF Online /\ entry.login = from[s]
     THEN LET r == AppendEach(entry.queue, loaded[s])
          IN /\ entry' = [entry EXCEPT !.queue = r.queue]
             /\ dropped' = dropped \cup r.out
     ELSE UNCHANGED <<entry, dropped>>
  /\ loaded' = [loaded EXCEPT ![s] = <<>>]
  /\ reg' = [reg EXCEPT ![s] = "active"]
  /\ UNCHANGED <<fileVars, pubVars, from, leaveVars, up, snap, got, env>>

DrainEnd(s) ==
  /\ \/ reg[s] = "draining" /\ loaded[s] = <<>>
     \/ reg[s] = "registered" /\ ~Online
  /\ reg' = [reg EXCEPT ![s] = "active"]
  /\ UNCHANGED <<fileVars, entry, pubVars, loaded, from, leaveVars, up, snap, got, dropped, env>>

(* Link-dead, and reconnect with a new connection to the same session. *)
Drop(s) ==
  /\ "drops" \in env
  /\ reg[s] # "out" /\ leave[s] # "gone" /\ up[s]
  /\ up' = [up EXCEPT ![s] = FALSE]
  /\ UNCHANGED <<fileVars, entry, pubVars, regVars, leaveVars, snap, got, dropped, env>>

Reconnect(s) ==
  /\ reg[s] = "active" /\ leave[s] = "no" /\ ~up[s]
  /\ up' = [up EXCEPT ![s] = TRUE]
  /\ UNCHANGED <<fileVars, entry, pubVars, regVars, leaveVars, snap, got, dropped, env>>

(* session.Manager.Remove scrubs its index: a quit, or a reap ... *)
RemoveFromIndex(s) ==
  /\ leave[s] = "no" /\ reg[s] = "active"
  /\ leave' = [leave EXCEPT ![s] = "removed"]
  /\ UNCHANGED <<fileVars, entry, pubVars, regVars, flush, taken, up, snap, got, dropped, env>>

(* ... or a takeover, which may find a session that still registers. *)
Takeover(s) ==
  /\ "overlap" \in env
  /\ leave[s] = "no" /\ reg[s] # "out"
  /\ leave' = [leave EXCEPT ![s] = "removed"]
  /\ taken' = taken \cup {s}
  /\ UNCHANGED <<fileVars, entry, pubVars, regVars, flush, up, snap, got, dropped, env>>

(* Its callback unregisters the player's entry, whosever it is. *)
UnregisterAbsent(s) ==
  /\ leave[s] = "removed" /\ ~Online
  /\ leave' = [leave EXCEPT ![s] = "gone"]
  /\ up' = [up EXCEPT ![s] = FALSE]
  /\ UNCHANGED <<fileVars, entry, pubVars, regVars, flush, taken, snap, got, dropped, env>>

Unregister(s) ==
  /\ leave[s] = "removed" /\ Online
  /\ "gap" \in env \/ NobodyOffline
  /\ entry' = NoEntry
  /\ flush' = [flush EXCEPT ![s] = IF entry.dirty THEN entry.queue ELSE <<>>]
  /\ leave' = [leave EXCEPT ![s] = IF entry.dirty THEN "saving" ELSE "forget"]
  /\ UNCHANGED <<fileVars, pubVars, regVars, taken, up, snap, got, dropped, env>>

UnregisterSave(s) ==
  /\ leave[s] = "saving"
  /\ Write(flush[s])
  /\ flush' = [flush EXCEPT ![s] = <<>>]
  /\ leave' = [leave EXCEPT ![s] = "forget"]
  /\ UNCHANGED <<named, entry, pubVars, regVars, taken, up, snap, got, dropped, env>>

(* The error is returned, to a callback that ignores it. *)
UnregisterSaveFails(s) ==
  /\ "disk" \in env
  /\ leave[s] = "saving"
  /\ flush' = [flush EXCEPT ![s] = <<>>]
  /\ leave' = [leave EXCEPT ![s] = "gone"]
  /\ up' = [up EXCEPT ![s] = FALSE]
  /\ Unfinished
  /\ UNCHANGED <<named, entry, pubVars, regVars, taken, snap, got, dropped, env>>

Forget(s) ==
  /\ leave[s] = "forget"
  /\ named' = FALSE
  /\ leave' = [leave EXCEPT ![s] = "gone"]
  /\ up' = [up EXCEPT ![s] = FALSE]
  /\ UNCHANGED <<file, entry, pubVars, regVars, flush, taken, snap, got, dropped, env>>

------------------------------------------------------------------------------
(* The autosave tick, and the end of the process. *)

SaveAllTake ==
  /\ "saves" \in env
  /\ snap = NoSnap /\ Online /\ entry.dirty
  /\ snap' = entry.queue
  /\ entry' = [entry EXCEPT !.dirty = FALSE]
  /\ UNCHANGED <<fileVars, pubVars, regVars, leaveVars, up, got, dropped, env>>

SaveAllWrite ==
  /\ snap # NoSnap
  /\ Write(snap)
  /\ snap' = NoSnap
  /\ UNCHANGED <<named, entry, pubVars, regVars, leaveVars, up, got, dropped, env>>

SaveAllFails ==
  /\ "disk" \in env
  /\ snap # NoSnap
  /\ entry' = IF Online THEN [entry EXCEPT !.dirty = TRUE] ELSE entry
  /\ snap' = NoSnap
  /\ Unfinished
  /\ UNCHANGED <<named, pubVars, regVars, leaveVars, up, got, dropped, env>>

(* What is in memory is lost, and publishers in the middle of a publish
   never hear of it. *)
Crash ==
  /\ "crash" \in env
  /\ IF Writing THEN Unfinished ELSE UNCHANGED file
  /\ entry' = NoEntry /\ named' = FALSE /\ snap' = NoSnap
  /\ LET begun == {m \in Message : pub[m] \notin {"new", "done"}}
     IN /\ pub' = [m \in Message |-> IF m \in begun THEN "done" ELSE pub[m]]
        /\ dropped' = dropped \cup begun
  /\ read' = [m \in Message |-> <<>>]
  /\ leave' = [s \in Login |-> IF reg[s] = "out" THEN "no" ELSE "gone"]
  /\ reg' = [s \in Login |-> IF reg[s] = "out" THEN "out" ELSE "active"]
  /\ loaded' = [s \in Login |-> <<>>]
  /\ flush' = [s \in Login |-> <<>>]
  /\ up' = [s \in Login |-> FALSE]
  /\ UNCHANGED <<stamp, via, from, taken, got, env>>

------------------------------------------------------------------------------
Publisher(m) ==
  \/ RouteImmediate(m) \/ RouteQueue(m) \/ RouteOffline(m) \/ Deliver(m)
  \/ AppendLoad(m) \/ AppendSave(m) \/ AppendFails(m)

(* What a session's goroutine does of itself once it has logged in. *)
Registering(s) ==
  \/ RegisterInstall(s)
  \/ DrainTake(s) \/ DrainDeliver(s) \/ DrainFails(s) \/ DrainEnd(s)

Leaving(s) == UnregisterAbsent(s) \/ Unregister(s) \/ UnregisterSave(s)
              \/ UnregisterSaveFails(s) \/ Forget(s)

Session(s) ==
  \/ RegisterLoad(s) \/ Registering(s)
  \/ Drop(s) \/ Reconnect(s) \/ RemoveFromIndex(s)
  \/ Takeover(s) \/ Leaving(s)

Autosave == SaveAllTake \/ SaveAllWrite \/ SaveAllFails

Next ==
  \/ \E m \in Message : Publish(m) \/ Publisher(m)
  \/ \E s \in Login : Session(s)
  \/ Autosave
  \/ Crash

Spec == Init /\ [][Next]_vars

(* Every goroutine gets on with what it has begun. *)
FairSpec ==
  /\ Spec
  /\ \A m \in Message : WF_vars(Publisher(m))
  /\ \A s \in Login : WF_vars(Registering(s)) /\ WF_vars(Leaving(s))
  /\ WF_vars(Autosave)

------------------------------------------------------------------------------
(* Properties *)

Backlog == IF Online THEN entry.queue ELSE <<>>
Snapshots == {file, Backlog} \cup {read[m] : m \in Message}
               \cup {loaded[s] : s \in Login} \cup {flush[s] : s \in Login}
               \cup ({snap} \ {NoSnap})

(* Every queue, in memory, on disk or on its way there, holds each message
   once, in drain order, and no more of them than the cap. *)
QueuesInOrder ==
  \A q \in Snapshots : /\ q \in Seq(Message) /\ IsInjective(q)
                       /\ Sorted(q)
                       /\ Len(q) <= Cap

NotifyTypeOK ==
  /\ named \in BOOLEAN
  /\ entry = NoEntry \/ (entry.login \in Login /\ entry.dirty \in BOOLEAN)
  /\ pub \in [Message -> {"new", "route", "deliver", "requeue", "offline", "saving", "done"}]
  /\ via \in [Message -> Login]
  /\ reg \in [Login -> {"out", "loading", "registered", "draining", "active"}]
  /\ from \in [Login -> Login]
  /\ leave \in [Login -> {"no", "removed", "saving", "forget", "gone"}]
  /\ up \in [Login -> BOOLEAN]
  /\ taken \subseteq Login
  /\ dropped \subseteq Message
  /\ QueuesInOrder

(* What has been published successfully, not delivered, and not given up. *)
Owed == {m \in Message : pub[m] = "done" /\ got[m] = 0 /\ m \notin dropped}

(* "Two simultaneous publishes ... neither is lost": while the player has not
   logged in, all it is owed is in the file, crash or no crash, as long as the
   file can be read and no write ends between its two renames. *)
OfflineKept ==
  env \cap {"unread", "torn"} = {} /\ (\A s \in Login : reg[s] = "out") => Owed \subseteq ToSet(file)

(* "Survives logout": what the player is owed is in its file, or in a queue
   from which it will be delivered or saved, and it is not delivered twice
   ("does not reappear on subsequent reconnect"), while beginnings and ends
   of sessions and publishes to the file take turns and nothing fails. *)
Kept ==
  env \subseteq {"again", "drops"} =>
    /\ Owed \subseteq ToSet(file) \cup ToSet(Backlog)
                   \cup UNION {ToSet(loaded[s]) \cup ToSet(flush[s]) : s \in Login}
    /\ \A m \in Message : got[m] <= 1

(* Whoever is logged in, and alone, has an entry with its own sink: it is
   sent what is published, as "an online recipient with no backlog receives
   a notification in the same tick it was published" says. *)
ActiveIsRegistered ==
  \A s \in Login :
    /\ reg[s] = "active" /\ leave[s] = "no"
    /\ \A r \in Login \ {s} : leave[r] \in {"no", "gone"}
    => Online /\ entry.login = s

(* What is delivered is first in drain order of all that waits. *)
DrainOrder ==
  [][\A m \in Message : got'[m] > got[m] =>
       \A n \in Message : /\ n \in ToSet(Backlog) \/ \E s \in Login : n \in ToSet(loaded[s])
                          /\ n # m
                          => ~DrainLess(n, m)]_vars

(* A backlog is delivered when the player comes back from link-dead. *)
ReconnectDrains ==
  \A s \in Login :
    reg[s] = "active" /\ up[s] /\ Backlog # <<>> ~> Backlog = <<>> \/ ~up[s]
==============================================================================
