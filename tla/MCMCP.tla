------------------------------- MODULE MCMCP -------------------------------
(***************************************************************************)
(* A bounded instance of MCP: one configured server, started at most       *)
(* MaxClients times, and one tool call at a time beside the health loop.   *)
(***************************************************************************)
EXTENDS MCP
CONSTANTS s1, c1
=============================================================================
