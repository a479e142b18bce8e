--------------------------- MODULE MCAgentLoop ---------------------------
(* AgentLoop with a handful of tool calls, one of every class a guard tells *)
(* apart, for the lead and for an explore subagent.                         *)
EXTENDS AgentLoop

Call(tool, arg) == [tool |-> tool, arg |-> arg]

\* A plan, a side effect, a broken call, an explore prompt, two reads
\* and a repo walk.
TurnCalls == {Call("TodoWrite", "x"), Call("side_effect", "x"),
              Call("malformed", "x"), Call("explore", "x"),
              Call("read_file", "x"), Call("list_dir", "x"),
              Call("repo_walk", "x")}
==========================================================================
