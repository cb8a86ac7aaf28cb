----------------------------- MODULE MCSaveFile -----------------------------
(* One file, two goroutines that save it, two things to save. Four inodes:  *)
(* as many as three names and the descriptor of a writer whose ".tmp" has   *)
(* been renamed can hold; they are interchangeable.                         *)
EXTENDS SaveFile, TLC

Interchangeable == Permutations(Inode)
==============================================================================
