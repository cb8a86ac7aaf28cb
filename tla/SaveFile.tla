------------------------------ MODULE SaveFile ------------------------------
(***************************************************************************)
(* One saved file: persistence.AtomicWrite (src/internal/persistence) and  *)
(* a store above it, such as player.Store, whose mutex it holds across the *)
(* write. Each system call of AtomicWrite is a step: the process may crash *)
(* between any two of them, and a reader, who takes no lock, may look      *)
(* between any two of them.                                                *)
(*                                                                         *)
(* A name leads to an inode and an inode holds data, so that two writers   *)
(* that share the ".tmp" of a store without a mutex (Serialized = FALSE)   *)
(* write into each other's file, as they do on a disk. A rename is taken   *)
(* to be on disk once it has returned.                                     *)
(***************************************************************************)
EXTENDS Naturals

CONSTANTS
  Writer,      \* goroutines that save
  Content,     \* what can be saved
  Inode,
  NoFile,      \* a name that leads nowhere
  Half,        \* a file written in part, or by two writers at once
  Serialized,  \* does the store hold a mutex across AtomicWrite?
  DiskFails,   \* may a system call fail?
  Crashes      \* may the process crash and restart?

ASSUME SaveFileAssumption ==
  /\ NoFile \notin Inode \cup Content
  /\ Half \notin Content \cup {NoFile}
  /\ {Serialized, DiskFails, Crashes} \subseteq BOOLEAN

Name == {"tmp", "file", "bak"}
Step == {"idle", "open", "write", "stat", "rotate", "promote", "restore", "clean", "drop"}

VARIABLES
  dir,     \* name -> inode
  data,    \* inode -> what is in it
  pc,      \* writer -> the system call it is about to make
  fd,      \* writer -> the inode it has opened
  text,    \* writer -> what it saves
  prior    \* writer -> hadPrior

vars == <<dir, data, pc, fd, text, prior>>

Init ==
  /\ dir = [n \in Name |-> NoFile]
  /\ data = [i \in Inode |-> Half]
  /\ pc = [w \in Writer |-> "idle"]
  /\ fd = [w \in Writer |-> NoFile]
  /\ text \in [Writer -> Content]
  /\ prior = [w \in Writer |-> FALSE]

------------------------------------------------------------------------------
At(w, step) == pc[w] = step
Goto(w, step) == pc' = [pc EXCEPT ![w] = step]
Exists(n) == dir[n] # NoFile
Rename(m, n) == dir' = [dir EXCEPT ![n] = dir[m], ![m] = NoFile]

(* What os.ReadFile finds under a name: a content, half of one, or no file. *)
Read(n) == IF Exists(n) THEN data[dir[n]] ELSE NoFile

(* The store's mutex is free. *)
Unlocked == Serialized => \A w \in Writer : pc[w] = "idle"

Unused == {i \in Inode : (\A n \in Name : dir[n] # i) /\ (\A w \in Writer : fd[w] # i)}

(* Store.Save: marshal, take the mutex, and start the write. *)
Save(w, c) ==
  /\ At(w, "idle") /\ Unlocked
  /\ text' = [text EXCEPT ![w] = c]
  /\ Goto(w, "open")
  /\ UNCHANGED <<dir, data, fd, prior>>

(* Mutant of OpenTmp: the file itself is written, in place. *)
OpenInPlace(w) ==
  /\ At(w, "open")
  /\ \E i \in Inode :
       /\ IF Exists("file") THEN i = dir["file"] ELSE i \in Unused
       /\ dir' = [dir EXCEPT !["file"] = i]
       /\ data' = [data EXCEPT ![i] = Half]
       /\ fd' = [fd EXCEPT ![w] = i]
  /\ Goto(w, "write")
  /\ UNCHANGED <<text, prior>>

(* Step 1, os.WriteFile: open with truncation ... *)
OpenTmp(w) ==
  /\ At(w, "open")
  /\ \E i \in Inode :
       /\ IF Exists("tmp") THEN i = dir["tmp"] ELSE i \in Unused
       /\ dir' = [dir EXCEPT !["tmp"] = i]
       /\ data' = [data EXCEPT ![i] = Half]
       /\ fd' = [fd EXCEPT ![w] = i]
  /\ Goto(w, "write")
  /\ UNCHANGED <<text, prior>>

(* ... and write. Over what another writer has put there in the meantime,
   the result is this content, or a mixture of the two. *)
WriteTmp(w) ==
  /\ At(w, "write")
  /\ \E d \in IF data[fd[w]] = Half THEN {text[w]} ELSE {text[w], Half} :
       data' = [data EXCEPT ![fd[w]] = d]
  /\ fd' = [fd EXCEPT ![w] = NoFile]
  /\ Goto(w, "stat")
  /\ UNCHANGED <<dir, text, prior>>

(* Step 2: is there a file to keep? *)
Stat(w) ==
  /\ At(w, "stat")
  /\ prior' = [prior EXCEPT ![w] = FALSE]
  /\ Goto(w, IF Exists("file") THEN "rotate" ELSE "promote")
  /\ UNCHANGED <<dir, data, fd, text>>

(* Mutant of Rotate: the ".bak" is a second link to the prior file. *)
RotateLink(w) ==
  /\ At(w, "rotate")
  /\ Exists("file")
  /\ dir' = [dir EXCEPT !["bak"] = dir["file"]]
  /\ prior' = [prior EXCEPT ![w] = TRUE]
  /\ Goto(w, "promote")
  /\ UNCHANGED <<data, fd, text>>

(* Mutant of Rotate: the prior file is removed rather than kept. *)
RotateAway(w) ==
  /\ At(w, "rotate")
  /\ Exists("file")
  /\ dir' = [dir EXCEPT !["file"] = NoFile]
  /\ prior' = [prior EXCEPT ![w] = TRUE]
  /\ Goto(w, "promote")
  /\ UNCHANGED <<data, fd, text>>

(* It becomes the ".bak". *)
Rotate(w) ==
  /\ At(w, "rotate")
  /\ Exists("file")
  /\ Rename("file", "bak")
  /\ prior' = [prior EXCEPT ![w] = TRUE]
  /\ Goto(w, "promote")
  /\ UNCHANGED <<data, fd, text>>

(* Step 3: the new file takes its name. *)
Promote(w) ==
  /\ At(w, "promote")
  /\ Exists("tmp")
  /\ Rename("tmp", "file")
  /\ Goto(w, "drop")
  /\ UNCHANGED <<data, fd, text, prior>>

(* Step 4, whose outcome is ignored; then the caller is told of success and
   the mutex is released. *)
DropBak(w) ==
  /\ At(w, "drop")
  /\ \/ prior[w] /\ dir' = [dir EXCEPT !["bak"] = NoFile]
     \/ (prior[w] => DiskFails) /\ UNCHANGED dir
  /\ Goto(w, "idle")
  /\ UNCHANGED <<data, fd, text, prior>>

(* A call fails - or, without a mutex, its file has gone. A failed promotion
   puts the prior file back, if that works; then the ".tmp" is removed, if
   that works, and the caller is told. *)
CallFails(w) ==
  /\ \/ At(w, "open") /\ DiskFails
     \/ At(w, "write") /\ DiskFails
     \/ At(w, "stat") /\ DiskFails
     \/ At(w, "rotate") /\ (DiskFails \/ ~Exists("file"))
     \/ At(w, "promote") /\ (DiskFails \/ ~Exists("tmp"))
  /\ Goto(w, CASE pc[w] \in {"open", "write"} -> "idle"
               [] pc[w] = "promote" /\ prior[w] -> "restore"
               [] OTHER -> "clean")
  /\ fd' = [fd EXCEPT ![w] = NoFile]
  /\ UNCHANGED <<dir, data, text, prior>>

Restore(w) ==
  /\ At(w, "restore")
  /\ \/ Exists("bak") /\ Rename("bak", "file")
     \/ (DiskFails \/ ~Exists("bak")) /\ UNCHANGED dir
  /\ Goto(w, "clean")
  /\ UNCHANGED <<data, fd, text, prior>>

Clean(w) ==
  /\ At(w, "clean")
  /\ \/ dir' = [dir EXCEPT !["tmp"] = NoFile]
     \/ DiskFails /\ UNCHANGED dir
  /\ Goto(w, "idle")
  /\ UNCHANGED <<data, fd, text, prior>>

(* Store.Delete: the directory and everything in it, under the mutex; that
   it might stop half-way is left out. *)
Delete ==
  /\ Serialized /\ Unlocked
  /\ dir' = [n \in Name |-> NoFile]
  /\ UNCHANGED <<data, pc, fd, text, prior>>

(* The process dies and comes back: what is on disk stays. *)
Crash ==
  /\ Crashes
  /\ pc' = [w \in Writer |-> "idle"]
  /\ fd' = [w \in Writer |-> NoFile]
  /\ UNCHANGED <<dir, data, text, prior>>

AtomicWrite(w) ==
  \/ OpenTmp(w) \/ WriteTmp(w) \/ Stat(w) \/ Rotate(w) \/ Promote(w) \/ DropBak(w)
  \/ CallFails(w) \/ Restore(w) \/ Clean(w)

Next ==
  \/ \E w \in Writer : AtomicWrite(w) \/ \E c \in Content : Save(w, c)
  \/ Delete
  \/ Crash

Spec == Init /\ [][Next]_vars
------------------------------------------------------------------------------
(* The types of the variables; and a file has one name. *)
TypeOK ==
  /\ dir \in [Name -> Inode \cup {NoFile}]
  /\ data \in [Inode -> Content \cup {Half}]
  /\ pc \in [Writer -> Step]
  /\ fd \in [Writer -> Inode \cup {NoFile}]
  /\ text \in [Writer -> Content]
  /\ prior \in [Writer -> BOOLEAN]
  /\ \A m, n \in Name : dir[m] = dir[n] => m = n \/ dir[m] = NoFile

(* "Load never sees a half-written file" (docs/specs/persistence.md): neither
   the file nor what could be recovered from the ".bak" is ever half of one,
   whenever the reader looks and wherever the last process died. *)
NoHalfFile == Read("file") # Half /\ Read("bak") # Half

(* What the save amounts to: the file, or the ".bak" that a write has made of
   it and not yet put another in the place of. *)
Effective == IF Exists("file") THEN Read("file") ELSE Read("bak")

(* With the mutex, the system calls of AtomicWrite together do what
   AtomicFile does in one step, the promotion: an acknowledged write is what
   the save holds, a write that returned an error has left it as it was, and
   no crash or failed call loses it. *)
File == INSTANCE AtomicFile WITH
  value <- Effective,
  want  <- [w \in Writer |-> IF pc[w] = "idle" THEN NoFile ELSE text[w]],
  put   <- {w \in Writer : pc[w] = "drop"}

ImplementsFile == File!Spec

(* Store's comment: "concurrent reads see either the prior or the new file":
   once there has been a file, a reader finds one. *)
ReadersSeeFile == Exists("bak") => Exists("file")

(* AtomicWrite's comment, of a crash between its steps: "a reader sees one
   valid file in either case". *)
CrashLeavesFile == (\A w \in Writer : pc[w] = "idle") => ReadersSeeFile
==============================================================================
