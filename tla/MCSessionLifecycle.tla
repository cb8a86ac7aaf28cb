------------------------- MODULE MCSessionLifecycle -------------------------
(* The sessions of one character over two or three connections, which are    *)
(* alike; so is nothing else, as changes are made in order.                  *)
EXTENDS SessionLifecycle, TLC

MCSymmetry == Permutations(Conn)
=============================================================================
