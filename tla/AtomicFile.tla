----------------------------- MODULE AtomicFile -----------------------------
(***************************************************************************)
(* What persistence.AtomicWrite promises its callers: one value, replaced  *)
(* in one step by each write. An acknowledged write has taken effect, a    *)
(* refused one has not, and one that a crash cuts off did or did not.      *)
(***************************************************************************)
CONSTANTS Writer, Content, NoFile

VARIABLES
  value,  \* what the save holds
  want,   \* writer -> what it has asked for, if anything
  put     \* writers whose write has taken effect

Init == /\ value = NoFile
        /\ want = [w \in Writer |-> NoFile]
        /\ put = {}

Ask(w) == /\ want[w] = NoFile
          /\ \E c \in Content : want' = [want EXCEPT ![w] = c]
          /\ UNCHANGED <<value, put>>

Put(w) == /\ want[w] # NoFile /\ w \notin put
          /\ value' = want[w]
          /\ put' = put \cup {w}
          /\ UNCHANGED want

(* The write returns nil, once it has taken effect ... *)
Acknowledge(w) == /\ w \in put
                  /\ want' = [want EXCEPT ![w] = NoFile]
                  /\ put' = put \ {w}
                  /\ UNCHANGED value

(* ... or an error, and then it never will. *)
Refuse(w) == /\ want[w] # NoFile /\ w \notin put
             /\ want' = [want EXCEPT ![w] = NoFile]
             /\ UNCHANGED <<value, put>>

Remove == /\ want = [w \in Writer |-> NoFile]
          /\ value' = NoFile
          /\ UNCHANGED <<want, put>>

Crash == /\ want' = [w \in Writer |-> NoFile]
         /\ put' = {}
         /\ UNCHANGED value

Next == \/ \E w \in Writer : Ask(w) \/ Put(w) \/ Acknowledge(w) \/ Refuse(w)
        \/ Remove
        \/ Crash

Spec == Init /\ [][Next]_<<value, want, put>>
==============================================================================
