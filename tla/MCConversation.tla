--------------------------- MODULE MCConversation ---------------------------
(* Bounded instances of Conversation. *)
EXTENDS Conversation

\* One process that neither ends nor dies.
AliveNext == TurnStep \/ ManualCompact
AliveSpec == Init /\ [][AliveNext]_vars
=============================================================================
