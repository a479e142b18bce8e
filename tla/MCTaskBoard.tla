---------------------------- MODULE MCTaskBoard ----------------------------
(***************************************************************************)
(* Bounded instances of TaskBoard.  Each specification leaves out the      *)
(* steps that its question is not about.                                   *)
(***************************************************************************)
EXTENDS TaskBoard, TLC

CONSTANTS lead, t1, b1, b2

BatchSymmetry == Permutations({b1, b2})

\* No task has a dependency: without AddEdge, RemoveEdge and depends_on, of which
\* PlanSpec has all.
CreateAlone(a) == TaskCreate(a) \/ (CreateForBatch(a) /\ op'[a].pc = "idle")
SharedNext ==
  \/ \E a \in Agents : CreateAlone(a) \/ BatchStep(a) \/ UpdateStep(a) \/ ClaimStep(a)
  \/ NewRun \/ SealStep \/ ClearCompleted \/ Reset \/ Crash
SharedSpec == Init /\ [][SharedNext]_vars
=============================================================================
