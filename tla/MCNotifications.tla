--------------------------- MODULE MCNotifications ---------------------------
(* Notifications on small instances: a channel line, a tell and a second     *)
(* tell, with room for two, so that the third evicts or is refused; two       *)
(* sessions with a connection that drops, one with whatever may happen but   *)
(* a torn write, two while the file cannot always be read, and one whose     *)
(* writes are torn.                                                          *)
EXTENDS Notifications, TLC
CONSTANTS chat, tell1, tell2

MCSym == Permutations(Login)

MCPrio == [m \in Message |-> IF m = chat THEN 1 ELSE 2]
MCEnvs == {{"again", "drops"}, {"again", "unread"},
           {"drops", "saves", "gap", "overlap", "disk", "crash"},
           {"saves", "disk", "crash", "torn"}}
==============================================================================
