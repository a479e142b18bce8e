------------------------------- MODULE MCTeam -------------------------------
(***************************************************************************)
(* A bounded instance of Team: the loops and handlers of one name.  (Two   *)
(* goroutines of a name are the interesting case: they share its status,   *)
(* inbox and lease, and one spawns the name again when the other has set   *)
(* its status.)                                                            *)
(***************************************************************************)
EXTENDS Team

CONSTANTS l1, l2, h1, a
=============================================================================
