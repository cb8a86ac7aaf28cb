--------------------------- MODULE SaveFileProofs ---------------------------
(***************************************************************************)
(* With the store's mutex, no reader ever finds half a file, and the       *)
(* system calls of AtomicWrite implement the one step of AtomicFile, for   *)
(* any number of writers, whichever calls fail and wherever the process    *)
(* dies.                                                                   *)
(***************************************************************************)
EXTENDS SaveFile, TLAPS

(* The mutex: one write at a time. *)
OneWriter == \A v, w \in Writer : pc[v] # "idle" /\ pc[w] # "idle" => v = w

(* Only the ".tmp" is ever incomplete. *)
WholeFiles == \A n \in {"file", "bak"} : dir[n] # NoFile => data[dir[n]] # Half

(* Where the names lead at each step of a write. *)
NamesAt(w) ==
  /\ pc[w] = "write" => dir["tmp"] # NoFile /\ fd[w] = dir["tmp"] /\ data[dir["tmp"]] = Half
  /\ pc[w] \in {"stat", "rotate", "promote"} => dir["tmp"] # NoFile /\ data[dir["tmp"]] = text[w]
  /\ pc[w] = "rotate" => dir["file"] # NoFile
  /\ pc[w] = "restore" => dir["file"] = NoFile
  /\ pc[w] = "promote" => dir["file"] = NoFile
  /\ (pc[w] = "promote" /\ prior[w]) \/ pc[w] = "restore" => dir["bak"] # NoFile
  /\ pc[w] = "drop" => dir["file"] # NoFile

(* Nothing is open but what is being written. *)
OpenFiles == \A w \in Writer : fd[w] # NoFile => pc[w] = "write"

SaveInv ==
  /\ TypeOK
  /\ OneWriter
  /\ WholeFiles
  /\ \A w \in Writer : NamesAt(w)
  /\ OpenFiles
LEMMA InitSave == Init => SaveInv
  BY SaveFileAssumption
  DEF Init, SaveInv, TypeOK, OneWriter, WholeFiles, NamesAt, OpenFiles, Name, Step

(* A step of one writer leaves the others idle. *)
LEMMA StepSave ==
  ASSUME Serialized, SaveInv, [Next]_vars
  PROVE  SaveInv'
  <1> USE SaveFileAssumption DEF SaveInv, TypeOK, OneWriter, Name, Step
  <1>1. ASSUME NEW w \in Writer, NEW c \in Content, Save(w, c)
        PROVE  SaveInv'
    BY <1>1 DEF Save, At, Unlocked, Goto, WholeFiles, NamesAt, OpenFiles
  <1>2. ASSUME NEW w \in Writer, OpenTmp(w)
        PROVE  SaveInv'
    <2>1. PICK i \in Inode :
            /\ IF Exists("tmp") THEN i = dir["tmp"] ELSE i \in Unused
            /\ dir' = [dir EXCEPT !["tmp"] = i]
            /\ data' = [data EXCEPT ![i] = Half]
            /\ fd' = [fd EXCEPT ![w] = i]
      BY <1>2 DEF OpenTmp
    <2>2. i # NoFile /\ \A n \in Name : dir[n] = i => n = "tmp"
      BY <2>1 DEF Exists, Unused
    <2>3. pc' = [pc EXCEPT ![w] = "write"] /\ pc[w] = "open" /\ UNCHANGED <<text, prior>>
      BY <1>2 DEF OpenTmp, At, Goto
    <2>4. TypeOK' /\ OneWriter'
      BY <2>1, <2>2, <2>3
    <2>5. WholeFiles' /\ OpenFiles'
      BY <2>1, <2>2, <2>3 DEF WholeFiles, OpenFiles
    <2>6. \A v \in Writer : NamesAt(v)'
      BY <2>1, <2>2, <2>3 DEF NamesAt
    <2> QED BY <2>4, <2>5, <2>6
  <1>3. ASSUME NEW w \in Writer, WriteTmp(w)
        PROVE  SaveInv'
    <2>1. pc[w] = "write" /\ fd[w] = dir["tmp"] /\ dir["tmp"] \in Inode /\ data[dir["tmp"]] = Half
      BY <1>3 DEF WriteTmp, At, NamesAt
    <2>2. data' = [data EXCEPT ![dir["tmp"]] = text[w]]
      BY <1>3, <2>1 DEF WriteTmp
    <2>3. pc' = [pc EXCEPT ![w] = "stat"] /\ fd' = [fd EXCEPT ![w] = NoFile] /\ UNCHANGED <<dir, text, prior>>
      BY <1>3 DEF WriteTmp, Goto
    <2>4. TypeOK' /\ OneWriter'
      BY <2>1, <2>2, <2>3
    <2>5. WholeFiles' /\ OpenFiles'
      BY <2>1, <2>2, <2>3 DEF WholeFiles, OpenFiles
    <2>6. \A v \in Writer : NamesAt(v)'
      BY <2>1, <2>2, <2>3 DEF NamesAt
    <2> QED BY <2>4, <2>5, <2>6
  <1>4. ASSUME NEW w \in Writer, Stat(w) \/ Rotate(w) \/ Promote(w) \/ DropBak(w)
        PROVE  SaveInv'
    <2>1. CASE Stat(w)
      BY <2>1 DEF Stat, At, Goto, Exists, WholeFiles, NamesAt, OpenFiles
    <2>2. CASE Rotate(w)
      BY <2>2 DEF Rotate, Rename, At, Goto, Exists, WholeFiles, NamesAt, OpenFiles
    <2>3. CASE Promote(w)
      BY <2>3 DEF Promote, Rename, At, Goto, Exists, WholeFiles, NamesAt, OpenFiles
    <2>4. CASE DropBak(w)
      BY <2>4 DEF DropBak, At, Goto, Exists, WholeFiles, NamesAt, OpenFiles
    <2> QED BY <1>4, <2>1, <2>2, <2>3, <2>4
  <1>5. ASSUME NEW w \in Writer, CallFails(w) \/ Restore(w) \/ Clean(w)
        PROVE  SaveInv'
    <2>1. CASE CallFails(w)
      BY <2>1 DEF CallFails, At, Goto, Exists, WholeFiles, NamesAt, OpenFiles
    <2>2. CASE Restore(w)
      BY <2>2 DEF Restore, Rename, At, Goto, Exists, WholeFiles, NamesAt, OpenFiles
    <2>3. CASE Clean(w)
      BY <2>3 DEF Clean, At, Goto, WholeFiles, NamesAt, OpenFiles
    <2> QED BY <1>5, <2>1, <2>2, <2>3
  <1>6. CASE Delete
    BY <1>6 DEF Delete, Unlocked, WholeFiles, NamesAt, OpenFiles
  <1>7. CASE Crash
    BY <1>7 DEF Crash, WholeFiles, NamesAt, OpenFiles
  <1>8. CASE UNCHANGED vars
    BY <1>8 DEF vars, WholeFiles, NamesAt, OpenFiles
  <1> QED
    BY <1>1, <1>2, <1>3, <1>4, <1>5, <1>6, <1>7, <1>8 DEF Next, AtomicWrite

LEMMA SaveInvAlways == ASSUME Serialized PROVE Spec => []SaveInv
  <1>1. SaveInv /\ [Next]_vars => SaveInv'
    BY StepSave
  <1> QED BY InitSave, <1>1, PTL DEF Spec

(* The variables keep their types and a file its one name. *)
THEOREM SaveTypeOK == ASSUME Serialized PROVE Spec => []TypeOK
  <1>1. SaveInv => TypeOK
    BY DEF SaveInv
  <1> QED BY SaveInvAlways, <1>1, PTL

(* A reader, who takes no lock, never finds half a file, nor would a sweep
   that puts a ".bak" back, wherever a writer is or was when it died. *)
THEOREM WholeFileAlways == ASSUME Serialized PROVE Spec => []NoHalfFile
  <1>1. SaveInv => NoHalfFile
    BY SaveFileAssumption DEF SaveInv, WholeFiles, NoHalfFile, Read, Exists
  <1> QED BY SaveInvAlways, <1>1, PTL

------------------------------------------------------------------------------
(* The refinement: one system call of AtomicWrite changes what the save     *)
(* holds, the promotion of the ".tmp"; the others leave it alone.           *)

Want == [w \in Writer |-> IF pc[w] = "idle" THEN NoFile ELSE text[w]]
Done == {w \in Writer : pc[w] = "drop"}

LEMMA StepImplements ==
  ASSUME Serialized, SaveInv, SaveInv', [Next]_vars
  PROVE  File!Next \/ UNCHANGED <<Effective, Want, Done>>
  <1> USE SaveFileAssumption DEF SaveInv, TypeOK, OneWriter, Name, Step
  <1> SUFFICES ASSUME ~ UNCHANGED vars
               PROVE  File!Next \/ UNCHANGED <<Effective, Want, Done>>
    BY DEF vars, Effective, Read, Exists, Want, Done
  <1>1. ASSUME NEW w \in Writer, NEW c \in Content, Save(w, c)
        PROVE  File!Ask(w)
    <2>1. pc[w] = "idle" /\ pc' = [pc EXCEPT ![w] = "open"]
          /\ text' = [text EXCEPT ![w] = c] /\ UNCHANGED <<dir, data>>
      BY <1>1 DEF Save, At, Goto
    <2>2. UNCHANGED <<Effective, Done>>
      BY <2>1 DEF Effective, Read, Exists, Done
    <2>3. Want[w] = NoFile
      BY <2>1 DEF Want
    <2>4. Want' = [Want EXCEPT ![w] = c]
      <3>1. pc'[w] # "idle" /\ text'[w] = c
        BY <2>1
      <3>2. \A v \in Writer \ {w} : pc'[v] = pc[v] /\ text'[v] = text[v]
        BY <2>1
      <3> QED BY <3>1, <3>2 DEF Want
    <2> QED BY <2>2, <2>3, <2>4 DEF File!Ask, Want, Done
  <1>2. ASSUME NEW w \in Writer, OpenTmp(w) \/ WriteTmp(w) \/ Stat(w) \/ Rotate(w) \/ Restore(w)
        PROVE  UNCHANGED <<Effective, Want, Done>>
    <2>1. UNCHANGED text
      BY <1>2 DEF OpenTmp, WriteTmp, Stat, Rotate, Restore
    <2>2. /\ pc[w] \in {"open", "write", "stat", "rotate", "restore"}
          /\ \E s \in {"write", "stat", "rotate", "promote", "clean"} : pc' = [pc EXCEPT ![w] = s]
      BY <1>2 DEF OpenTmp, WriteTmp, Stat, Rotate, Restore, At, Goto
    <2>3. UNCHANGED <<Want, Done>>
      BY <2>1, <2>2 DEF Want, Done
    <2>4. UNCHANGED Effective
      <3>1. CASE OpenTmp(w)
        BY <3>1 DEF OpenTmp, Effective, Read, Exists, Unused
      <3>2. CASE WriteTmp(w)
        BY <3>2 DEF WriteTmp, At, NamesAt, Effective, Read, Exists
      <3>3. CASE Stat(w)
        BY <3>3 DEF Stat, Effective, Read, Exists
      <3>4. CASE Rotate(w)
        BY <3>4 DEF Rotate, Rename, Effective, Read, Exists
      <3>5. CASE Restore(w)
        BY <3>5 DEF Restore, Rename, At, NamesAt, Effective, Read, Exists
      <3> QED BY <1>2, <3>1, <3>2, <3>3, <3>4, <3>5
    <2> QED BY <2>3, <2>4
  <1>3. ASSUME NEW w \in Writer, Promote(w)
        PROVE  File!Put(w)
    <2>1. /\ pc[w] = "promote" /\ pc' = [pc EXCEPT ![w] = "drop"]
          /\ UNCHANGED <<text, data>>
          /\ dir["tmp"] # NoFile /\ data[dir["tmp"]] = text[w]
          /\ dir' = [dir EXCEPT !["file"] = dir["tmp"], !["tmp"] = NoFile]
      BY <1>3 DEF Promote, Rename, At, Goto, NamesAt
    <2>2. Effective' = text[w] /\ UNCHANGED Want
      BY <2>1 DEF Effective, Read, Exists, Want
    <2>3. Done' = Done \cup {w} /\ w \notin Done /\ Want[w] = text[w] /\ text[w] # NoFile
      BY <2>1 DEF Done, Want
    <2> QED BY <2>2, <2>3 DEF File!Put, Want, Done
  <1>4. ASSUME NEW w \in Writer, DropBak(w)
        PROVE  File!Acknowledge(w)
    <2>1. pc[w] = "drop" /\ pc' = [pc EXCEPT ![w] = "idle"] /\ UNCHANGED <<text, data>>
      BY <1>4 DEF DropBak, At, Goto
    <2>2. UNCHANGED Effective
      BY <1>4, <2>1 DEF DropBak, NamesAt, Effective, Read, Exists
    <2>3. w \in Done /\ Done' = Done \ {w} /\ Want' = [Want EXCEPT ![w] = NoFile]
      BY <2>1 DEF Done, Want
    <2> QED BY <2>2, <2>3 DEF File!Acknowledge, Want, Done
  <1>5. ASSUME NEW w \in Writer, CallFails(w)
        PROVE  File!Refuse(w) \/ UNCHANGED <<Effective, Want, Done>>
    <2>1. UNCHANGED <<dir, data, text>> /\ UNCHANGED Effective
      BY <1>5 DEF CallFails, Effective, Read, Exists
    <2>2. pc[w] \in {"open", "write", "stat", "rotate", "promote"}
      BY <1>5 DEF CallFails, At
    <2>3. pc' = [pc EXCEPT ![w] = "idle"] \/ \E s \in {"restore", "clean"} : pc' = [pc EXCEPT ![w] = s]
      BY <1>5, <2>2 DEF CallFails, Goto
    <2>4. CASE pc' = [pc EXCEPT ![w] = "idle"]
      <3>1. UNCHANGED Done /\ w \notin Done /\ Want[w] # NoFile
        BY <2>1, <2>2, <2>4 DEF Done, Want
      <3>2. Want' = [Want EXCEPT ![w] = NoFile]
        BY <2>1, <2>4 DEF Want
      <3> QED BY <2>1, <3>1, <3>2 DEF File!Refuse, Want, Done
    <2>5. CASE \E s \in {"restore", "clean"} : pc' = [pc EXCEPT ![w] = s]
      BY <2>1, <2>2, <2>5 DEF Done, Want
    <2> QED BY <2>3, <2>4, <2>5
  <1>6. ASSUME NEW w \in Writer, Clean(w)
        PROVE  File!Refuse(w)
    <2>1. pc[w] = "clean" /\ pc' = [pc EXCEPT ![w] = "idle"] /\ UNCHANGED <<text, data>>
      BY <1>6 DEF Clean, At, Goto
    <2>2. UNCHANGED Effective
      BY <1>6 DEF Clean, Effective, Read, Exists
    <2>3. UNCHANGED Done /\ w \notin Done /\ Want[w] # NoFile
      BY <2>1 DEF Done, Want
    <2>4. Want' = [Want EXCEPT ![w] = NoFile]
      BY <2>1 DEF Want
    <2> QED BY <2>2, <2>3, <2>4 DEF File!Refuse, Want, Done
  <1>7. CASE Delete
    <2>1. \A w \in Writer : pc[w] = "idle"
      BY <1>7 DEF Delete, Unlocked
    <2>2. Effective' = NoFile /\ UNCHANGED <<Want, Done>> /\ Want = [w \in Writer |-> NoFile]
      BY <1>7, <2>1 DEF Delete, Effective, Read, Exists, Want, Done
    <2> QED BY <2>2 DEF File!Next, File!Remove, Want, Done
  <1>8. CASE Crash
    <2>1. UNCHANGED Effective
      BY <1>8 DEF Crash, Effective, Read, Exists
    <2>2. Want' = [w \in Writer |-> NoFile] /\ Done' = {}
      BY <1>8 DEF Crash, Want, Done
    <2> QED BY <2>1, <2>2 DEF File!Next, File!Crash, Want, Done
  <1> QED
    BY <1>1, <1>2, <1>3, <1>4, <1>5, <1>6, <1>7, <1>8 DEF Next, AtomicWrite, File!Next

(* With the mutex, AtomicWrite is one atomic write: a write acknowledged has
   replaced the save, one refused has left it, and neither a crash nor a
   failed call between any two of its steps can lose it. *)
THEOREM WriteIsAtomic == ASSUME Serialized PROVE Spec => ImplementsFile
  <1>1. Init => File!Init
    BY SaveFileAssumption DEF Init, File!Init, Effective, Read, Exists, Name
  <1>2. SaveInv /\ SaveInv' /\ [Next]_vars => [File!Next]_<<Effective, Want, Done>>
    BY StepImplements
  <1>3. ImplementsFile <=> File!Init /\ [][File!Next]_<<Effective, Want, Done>>
    BY DEF ImplementsFile, File!Spec, Want, Done
  <1> QED BY SaveInvAlways, <1>1, <1>2, <1>3, PTL DEF Spec
==============================================================================
