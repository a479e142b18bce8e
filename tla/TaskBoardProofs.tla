-------------------------- MODULE TaskBoardProofs --------------------------
(***************************************************************************)
(* Proofs about TaskBoard for any set of agents, any number of tasks and   *)
(* batches, with and without failing writes and crashes.                   *)
(*                                                                         *)
(* The inductive invariant is TypeOK /\ CacheBacked, regrouped by the part *)
(* of the state an action touches: a helper (Save, SealBatch, SaveEdges,   *)
(* Goto) preserves its part, and an action is the helpers it is made of.   *)
(*                                                                         *)
(* The second part is about the plan of one agent whose writes do not fail *)
(* (PlanSpec): its graph is free of cycles, one of its tasks is always     *)
(* ready, and its sealed batches stay closed.  The last part shows that    *)
(* the board implements ClaimRegistry.                                     *)
(***************************************************************************)
EXTENDS TaskBoard, TLAPS, WellFoundedInduction, FiniteSetTheorems

USE TaskBoardAssumption, NoTaskAssumption

BoardOK ==
  /\ files \in [Ids -> Task \cup {NoTask}]
  /\ tasks \in [Ids -> Task \cup {NoTask}]
  /\ \A i \in Present(tasks) : files[i] = tasks[i]
EdgesOK == edges \subseteq Edge /\ edgesFile = edges
BatchesOK ==
  /\ minted \in [Batches -> Agents \cup {NoAgent}]
  /\ ref \in [Agents -> Batches \cup {NoBatch}]
  /\ pin \in [Agents -> Batches \cup {NoBatch}]
OpsOK == op \in [Agents -> Op]

Inv == BoardOK /\ EdgesOK /\ BatchesOK /\ OpsOK

LEMMA InvRegroups == Inv <=> TypeOK /\ CacheBacked
  BY DEF Inv, BoardOK, EdgesOK, BatchesOK, OpsOK, TypeOK, CacheBacked

-----------------------------------------------------------------------------
(* The parts an action is made of. *)

LEMMA BoardStays == ASSUME BoardOK, UnchangedTasks PROVE BoardOK'
  BY DEF BoardOK, UnchangedTasks, Present

LEMMA EdgesStay == ASSUME EdgesOK, UnchangedEdges PROVE EdgesOK'
  BY DEF EdgesOK, UnchangedEdges

LEMMA BatchesStay == ASSUME BatchesOK, UnchangedBatches PROVE BatchesOK'
  BY DEF BatchesOK, UnchangedBatches

LEMMA OpsStay == ASSUME OpsOK, UNCHANGED op PROVE OpsOK'
  BY DEF OpsOK

LEMMA PresentTask ==
  ASSUME BoardOK, NEW i \in Present(tasks)
  PROVE  i \in Ids /\ tasks[i] \in Task /\ tasks[i] # NoTask
  BY DEF BoardOK, Present

\* Writing through the cache keeps it backed by the files.
LEMMA SaveKeeps ==
  ASSUME BoardOK, NEW id \in Ids, NEW t \in Task, Save(id, t)
  PROVE  BoardOK'
  BY DEF BoardOK, Save, Present

\* Sealing rewrites file and cache alike, whichever saves fail.
LEMMA SealBatchKeeps ==
  ASSUME BoardOK, NEW b, SealBatch(b)
  PROVE  BoardOK'
<1>1. PICK failed \in SUBSET Ids :
        LET Sealed(T) == [i \in Ids |->
              IF /\ i \in Present(tasks) \ failed
                 /\ tasks[i].batch = b /\ tasks[i].status # "deleted"
              THEN [tasks[i] EXCEPT !.sealed = TRUE] ELSE T[i]]
        IN tasks' = Sealed(tasks) /\ files' = Sealed(files)
  BY DEF SealBatch
<1>2. \A i \in Present(tasks) : [tasks[i] EXCEPT !.sealed = TRUE] \in Task
  BY PresentTask DEF Task
<1> QED
  BY <1>1, <1>2 DEF BoardOK, Present

LEMMA SaveEdgesKeeps ==
  ASSUME NEW E \in SUBSET Edge, SaveEdges(E)
  PROVE  EdgesOK'
  BY DEF SaveEdges, EdgesOK

LEMMA GotoKeeps ==
  ASSUME OpsOK, NEW a \in Agents, NEW o \in Op, Goto(a, o)
  PROVE  OpsOK'
  BY DEF OpsOK, Goto

LEMMA IdleIsOp == Idle \in Op
  BY DEF Idle, Op, Stations

LEMMA DoneKeeps == ASSUME OpsOK, NEW a \in Agents, Done(a) PROVE OpsOK'
  BY GotoKeeps, IdleIsOp DEF Done

\* Opening a batch and pointing an agent's reference at it, or only the latter.
LEMMA RefKeeps ==
  ASSUME BatchesOK, NEW a \in Agents, NEW b \in Batches,
         minted' = minted \/ minted' = [minted EXCEPT ![b] = a],
         ref' = [ref EXCEPT ![a] = b],
         pin' = pin \/ pin' = [pin EXCEPT ![a] = b]
  PROVE  BatchesOK'
  BY DEF BatchesOK

\* The stations an action can go to.
LEMMA StationTypes ==
  ASSUME NEW b \in Batches \cup {NoBatch}, NEW id \in Ids
  PROVE  /\ b # NoBatch => [Idle EXCEPT !.pc = "save", !.batch = b] \in Op
         /\ [Idle EXCEPT !.pc = "seal", !.batch = b] \in Op
         /\ [Idle EXCEPT !.pc = "sealOnly", !.batch = b] \in Op
         /\ [Idle EXCEPT !.pc = "clean", !.id = id] \in Op
         /\ [Idle EXCEPT !.pc = "claim", !.id = id] \in Op
  BY DEF Idle, Op, Stations

\* A non-empty set of ids has a largest element.
LEMMA LargestId ==
  ASSUME NEW S \in SUBSET Ids, S # {}
  PROVE  \E n \in S : \A j \in S : j <= n
<1> DEFINE R == OpToRel(<, Nat)
           T == {MaxTasks - i : i \in S}
<1>1. \A i \in S : i \in Nat /\ MaxTasks - i \in Nat
  BY DEF Ids
<1>2. T \subseteq Nat /\ T # {}
  BY <1>1
<1>3. \A p, q \in Nat : p < q => <<p, q>> \in R
  BY DEF OpToRel
<1>4. \E x \in T : \A y \in T : <<y, x>> \notin R
  <2> HIDE DEF R, T
  <2> QED
    BY <1>2, NatLessThanWellFounded, WFMin DEF R
<1> HIDE DEF R
<1>5. PICK n \in S : \A j \in S : <<MaxTasks - j, MaxTasks - n>> \notin R
  BY <1>4
<1>6. \A j \in S : ~(MaxTasks - j < MaxTasks - n)
  BY <1>1, <1>3, <1>5
<1> QED
  BY <1>1, <1>6

LEMMA ActiveBatchType ==
  ASSUME BoardOK PROVE ActiveBatch(tasks) \in Batches \cup {NoBatch}
<1> DEFINE open == {i \in Present(tasks) :
                      /\ tasks[i].status \notin {"deleted", "completed"}
                      /\ tasks[i].batch \notin SealedBatches(tasks)}
<1>1. CASE open = {}
  BY <1>1 DEF ActiveBatch
<1>2. CASE open # {}
  <2>1. PICK n \in open : \A j \in open : j <= n
    BY <1>2, LargestId DEF Present
  <2> QED
    BY <1>2, <2>1, PresentTask DEF ActiveBatch, Task
<1> QED
  BY <1>1, <1>2

-----------------------------------------------------------------------------
(* Every action preserves Inv. *)

LEMMA InitInv == Init => Inv
  BY IdleIsOp DEF Init, Inv, BoardOK, EdgesOK, BatchesOK, OpsOK, Present

LEMMA CreateStepInv ==
  ASSUME Inv, NEW a \in Agents, CreateStep(a)
  PROVE  Inv'
<1> USE DEF Inv
<1>1. CASE TaskCreate(a)
  <2>1. PICK b \in Batches :
          /\ minted' = minted \/ minted' = [minted EXCEPT ![b] = a]
          /\ ref' = [ref EXCEPT ![a] = b] /\ pin' = pin
          /\ Goto(a, [Idle EXCEPT !.pc = "save", !.batch = b])
    BY <1>1 DEF TaskCreate, NewBatchID
  <2>2. [Idle EXCEPT !.pc = "save", !.batch = b] \in Op
    BY DEF Idle, Op, Stations
  <2>3. BatchesOK' /\ OpsOK'
    BY <2>1, <2>2, RefKeeps, GotoKeeps
  <2> QED
    BY <1>1, <2>3, BoardStays, EdgesStay DEF TaskCreate
<1>2. CASE CreateForBatch(a)
  <2>1. op[a] \in Op /\ op[a].pc = "save" /\ op[a].batch \in Batches
    BY <1>2 DEF CreateForBatch, OpsOK, Op
  <2>2. BoardOK' /\ OpsOK'
    <3>1. CASE Done(a) /\ UnchangedTasks
      BY <3>1, DoneKeeps, BoardStays
    <3>2. ASSUME NEW id \in Ids, NEW pc \in {"idle", "ids"},
                 Save(id, [status |-> "pending", owner |-> NoAgent,
                           batch |-> op[a].batch, sealed |-> FALSE]),
                 Goto(a, IF pc = "idle" THEN Idle
                         ELSE [op[a] EXCEPT !.pc = "ids", !.id = id])
          PROVE  BoardOK' /\ OpsOK'
      <4>1. [status |-> "pending", owner |-> NoAgent,
             batch |-> op[a].batch, sealed |-> FALSE] \in Task
        BY <2>1 DEF Task, Statuses
      <4>2. [op[a] EXCEPT !.pc = "ids", !.id = id] \in Op
        BY <2>1 DEF Op, Stations
      <4>3. BoardOK'
        BY <3>2, <4>1, SaveKeeps
      <4>4. OpsOK'
        BY <3>2, <4>2, IdleIsOp, GotoKeeps
      <4> QED
        BY <4>3, <4>4
    <3> QED
      BY <1>2, <3>1, <3>2 DEF CreateForBatch
  <2> QED
    BY <1>2, <2>2, EdgesStay, BatchesStay DEF CreateForBatch
<1>3. CASE CreateReadIDs(a)
  <2>1. [op[a] EXCEPT !.pc = "edges", !.ids = Present(tasks)] \in Op
    BY <1>3 DEF CreateReadIDs, OpsOK, Op, Stations, Present
  <2>2. OpsOK'
    BY <1>3, <2>1, GotoKeeps DEF CreateReadIDs
  <2> QED
    BY <1>3, <2>2, BoardStays, EdgesStay, BatchesStay DEF CreateReadIDs
<1>4. CASE CreateReadEdges(a)
  <2>1. [op[a] EXCEPT !.pc = "link", !.edges = edges] \in Op
    BY <1>4 DEF CreateReadEdges, OpsOK, EdgesOK, Op, Stations
  <2>2. OpsOK'
    BY <1>4, <2>1, GotoKeeps DEF CreateReadEdges
  <2> QED
    BY <1>4, <2>2, BoardStays, EdgesStay, BatchesStay DEF CreateReadEdges
<1>5. CASE CreateLink(a)
  <2>1. op[a].id \in Ids /\ op[a].edges \in SUBSET Edge
    BY <1>5 DEF CreateLink, OpsOK, Op
  <2>2. ASSUME NEW deps \in SUBSET Ids
        PROVE  op[a].edges \cup {<<d, op[a].id>> : d \in AcceptedDeps(op[a], deps)}
                 \in SUBSET Edge
    BY <2>1 DEF AcceptedDeps, Edge
  <2>3. EdgesOK'
    BY <1>5, <2>2, EdgesStay, SaveEdgesKeeps DEF CreateLink
  <2> QED
    BY <1>5, <2>3, DoneKeeps, BoardStays, BatchesStay DEF CreateLink
<1> QED
  BY <1>1, <1>2, <1>3, <1>4, <1>5 DEF CreateStep

LEMMA BatchStepInv ==
  ASSUME Inv, NEW a \in Agents, BatchStep(a)
  PROVE  Inv'
<1> USE DEF Inv
<1>1. CASE SpawnTeammate(a)
  <2>1. BatchesOK'
    BY <1>1, RefKeeps DEF SpawnTeammate, NewBatchID
  <2> QED
    BY <1>1, <2>1, OpsStay, BoardStays, EdgesStay DEF SpawnTeammate
<1>2. CASE TaskCreateNewPlan(a)
  <2>1. [Idle EXCEPT !.pc = "seal", !.batch = ActiveBatch(tasks)] \in Op
    BY ActiveBatchType DEF Idle, Op, Stations
  <2>2. OpsOK'
    BY <1>2, <2>1, GotoKeeps DEF TaskCreateNewPlan
  <2> QED
    BY <1>2, <2>2, BoardStays, EdgesStay, BatchesStay DEF TaskCreateNewPlan
<1>3. CASE StartNewBatch(a)
  <2>1. PICK b \in Batches :
          /\ minted' = [minted EXCEPT ![b] = a]
          /\ ref' = [ref EXCEPT ![a] = b] /\ pin' = pin
          /\ Goto(a, [Idle EXCEPT !.pc = "save", !.batch = b])
    BY <1>3 DEF StartNewBatch, NewBatchID
  <2>2. [Idle EXCEPT !.pc = "save", !.batch = b] \in Op
    BY DEF Idle, Op, Stations
  <2>3. BatchesOK' /\ OpsOK'
    BY <2>1, <2>2, RefKeeps, GotoKeeps
  <2>4. BoardOK'
    BY <1>3, SealBatchKeeps DEF StartNewBatch
  <2> QED
    BY <1>3, <2>3, <2>4, EdgesStay DEF StartNewBatch
<1>4. CASE WorkPhase(a)
  <2>1. BatchesOK'
    BY <1>4 DEF WorkPhase, BatchesOK
  <2> QED
    BY <1>4, <2>1, OpsStay, BoardStays, EdgesStay DEF WorkPhase
<1> QED
  BY <1>1, <1>2, <1>3, <1>4 DEF BatchStep

LEMMA UpdateStepInv ==
  ASSUME Inv, NEW a \in Agents, UpdateStep(a)
  PROVE  Inv'
<1> USE DEF Inv
<1>1. ASSUME NEW id \in Ids, NEW status \in Statuses, UpdateStatus(a, id, status)
      PROVE  Inv'
  <2>1. [tasks[id] EXCEPT !.status = status] \in Task
    BY <1>1, PresentTask DEF UpdateStatus, Task
  <2>2. BoardOK'
    BY <1>1, <2>1, SaveKeeps DEF UpdateStatus
  <2> QED
    BY <1>1, <2>2, OpsStay, EdgesStay, BatchesStay DEF UpdateStatus
<1>2. ASSUME NEW id \in Ids, UpdateDelete(a, id)
      PROVE  Inv'
  <2>1. [Idle EXCEPT !.pc = "clean", !.id = id] \in Op
    BY DEF Idle, Op, Stations
  <2>2. OpsOK'
    BY <1>2, <2>1, GotoKeeps DEF UpdateDelete
  <2>3. BoardOK'
    BY <1>2 DEF UpdateDelete, BoardOK, Present
  <2> QED
    BY <1>2, <2>2, <2>3, EdgesStay, BatchesStay DEF UpdateDelete
<1>3. CASE UpdateCleanEdges(a)
  <2>1. {e \in edges : e[1] # op[a].id /\ e[2] # op[a].id} \in SUBSET Edge
    BY DEF EdgesOK
  <2>2. EdgesOK'
    BY <1>3, <2>1, EdgesStay, SaveEdgesKeeps DEF UpdateCleanEdges
  <2> QED
    BY <1>3, <2>2, DoneKeeps, BoardStays, BatchesStay DEF UpdateCleanEdges
<1> QED
  BY <1>1, <1>2, <1>3 DEF UpdateStep

LEMMA DoClaimKeeps ==
  ASSUME BoardOK, NEW a \in Agents, NEW id \in Ids, ~ClaimRefused(a, id), DoClaim(a, id)
  PROVE  BoardOK'
<1>1. [tasks[id] EXCEPT !.owner = a, !.status = "in_progress"] \in Task
  BY PresentTask DEF ClaimRefused, Task, Statuses
<1> QED
  BY <1>1, SaveKeeps DEF DoClaim

LEMMA ClaimStepInv ==
  ASSUME Inv, NEW a \in Agents, ClaimStep(a)
  PROVE  Inv'
<1> USE DEF Inv
<1>1. ASSUME NEW id \in Ids, Claim(a, id)
      PROVE  Inv'
  BY <1>1, DoClaimKeeps, OpsStay, EdgesStay, BatchesStay DEF Claim
<1>2. ASSUME NEW id \in Ids, IdleScan(a, id)
      PROVE  Inv'
  <2>1. [Idle EXCEPT !.pc = "claim", !.id = id] \in Op
    BY DEF Idle, Op, Stations
  <2>2. OpsOK'
    BY <1>2, <2>1, GotoKeeps DEF IdleScan
  <2> QED
    BY <1>2, <2>2, BoardStays, EdgesStay, BatchesStay DEF IdleScan
<1>3. CASE IdleClaim(a)
  <2>1. BoardOK'
    <3>1. CASE UnchangedTasks
      BY <3>1, BoardStays
    <3>2. CASE ~ClaimRefused(a, op[a].id) /\ DoClaim(a, op[a].id)
      <4>1. op[a].id \in Ids
        BY <3>2 DEF ClaimRefused, Present
      <4> QED
        BY <3>2, <4>1, DoClaimKeeps
    <3> QED
      BY <1>3, <3>1, <3>2 DEF IdleClaim
  <2> QED
    BY <1>3, <2>1, DoneKeeps, EdgesStay, BatchesStay DEF IdleClaim
<1> QED
  BY <1>1, <1>2, <1>3 DEF ClaimStep

LEMMA EdgeStepInv ==
  ASSUME Inv, NEW a \in Agents, EdgeStep(a)
  PROVE  Inv'
<1> USE DEF Inv
<1>1. PICK from \in Ids, to \in Ids : AddEdge(a, from, to) \/ RemoveEdge(a, from, to)
  BY DEF EdgeStep
<1>2. edges \cup {<<from, to>>} \in SUBSET Edge /\ edges \ {<<from, to>>} \in SUBSET Edge
  BY DEF EdgesOK, Edge
<1>3. EdgesOK'
  BY <1>1, <1>2, SaveEdgesKeeps DEF AddEdge, RemoveEdge
<1> QED
  BY <1>1, <1>3, OpsStay, BoardStays, BatchesStay DEF AddEdge, RemoveEdge

LEMMA SealStepInv ==
  ASSUME Inv, SealStep
  PROVE  Inv'
<1> USE DEF Inv
<1>1. CASE SealActiveBatch
  <2>1. [Idle EXCEPT !.pc = "sealOnly", !.batch = ActiveBatch(tasks)] \in Op
    BY ActiveBatchType DEF Idle, Op, Stations
  <2>2. OpsOK'
    BY <1>1, <2>1, GotoKeeps DEF SealActiveBatch
  <2> QED
    BY <1>1, <2>2, BoardStays, EdgesStay, BatchesStay DEF SealActiveBatch
<1>2. CASE FinishSealActiveBatch
  BY <1>2, SealBatchKeeps, DoneKeeps, EdgesStay, BatchesStay DEF FinishSealActiveBatch
<1> QED
  BY <1>1, <1>2 DEF SealStep

LEMMA ClearCompletedInv ==
  ASSUME Inv, ClearCompleted
  PROVE  Inv'
<1> USE DEF Inv
<1>1. PICK last \in Ids :
        LET Cleared(T) == [i \in Ids |->
              IF i \in Completed(tasks) /\ i <= last
              THEN [tasks[i] EXCEPT !.status = "deleted"] ELSE T[i]]
        IN tasks' = Cleared(tasks) /\ files' = Cleared(files)
  BY DEF ClearCompleted
<1>2. \A i \in Present(tasks) : [tasks[i] EXCEPT !.status = "deleted"] \in Task
  BY PresentTask DEF Task, Statuses
<1>3. BoardOK'
  BY <1>1, <1>2 DEF BoardOK, Present, Completed
<1> QED
  BY <1>3, OpsStay, EdgesStay, BatchesStay DEF ClearCompleted

LEMMA ResetInv ==
  ASSUME Inv, Reset
  PROVE  Inv'
<1> USE DEF Inv
<1>1. PICK kept \in SUBSET Ids :
        files' = [i \in Ids |-> IF i \in Present(tasks) \ kept THEN NoTask ELSE files[i]]
  BY DEF Reset
<1>2. BoardOK'
  BY <1>1 DEF Reset, BoardOK, Present
<1>3. EdgesOK'
  BY DEF Reset, EdgesOK, Edge
<1> QED
  BY <1>2, <1>3, OpsStay, BatchesStay DEF Reset

LEMMA CrashInv ==
  ASSUME Inv, Crash
  PROVE  Inv'
<1> USE DEF Inv
<1>1. BoardOK' /\ EdgesOK' /\ BatchesOK'
  BY DEF Crash, BoardOK, EdgesOK, BatchesOK, Present
<1>2. OpsOK'
  BY IdleIsOp DEF Crash, OpsOK
<1> QED
  BY <1>1, <1>2

LEMMA NewRunInv ==
  ASSUME Inv, NewRun
  PROVE  Inv'
<1> USE DEF Inv
<1>1. BatchesOK'
  BY DEF NewRun, BatchesOK
<1> QED
  BY <1>1, OpsStay, BoardStays, EdgesStay DEF NewRun

LEMMA NextInv == Inv /\ [Next]_vars => Inv'
<1> SUFFICES ASSUME Inv, [Next]_vars PROVE Inv'
  OBVIOUS
<1>1. CASE UNCHANGED vars
  BY <1>1, OpsStay, BoardStays, EdgesStay, BatchesStay
     DEF Inv, vars, UnchangedTasks, UnchangedEdges, UnchangedBatches
<1>2. CASE Next
  BY <1>2, CreateStepInv, BatchStepInv, UpdateStepInv, ClaimStepInv, EdgeStepInv,
     NewRunInv, SealStepInv, ClearCompletedInv, ResetInv, CrashInv DEF Next, AgentStep
<1> QED
  BY <1>1, <1>2

LEMMA SpecInv == Spec => []Inv
  BY InitInv, NextInv, PTL DEF Spec

\* Every value in the board, its files, its edges and the operations in
\* progress has its type, through every handler, failed write and crash.
THEOREM TypeCorrect == Spec => []TypeOK
<1>1. Inv => TypeOK
  BY InvRegroups
<1> QED
  BY <1>1, SpecInv, PTL

\* No task or edge the cache answers is missing on disk (Service.save and
\* saveEdges write the file first), so a crash loses nothing a call reported.
THEOREM CacheIsBacked == Spec => []CacheBacked
<1>1. Inv => CacheBacked
  BY InvRegroups
<1> QED
  BY <1>1, SpecInv, PTL

-----------------------------------------------------------------------------
(* What no step may do to a task that stays on the board. *)

Kept == \A i \in Ids : ClaimKept(i) /\ RecordKept(i)

LEMMA KeptIfSame == ASSUME UNCHANGED tasks PROVE Kept
  BY DEF Kept, ClaimKept, RecordKept

\* A step that only drops tasks, or reloads them from files that back them.
LEMMA KeptIfDropped ==
  ASSUME \A i \in Ids : tasks[i] # NoTask => tasks'[i] \in {NoTask, tasks[i]}
  PROVE  Kept
  BY DEF Kept, ClaimKept, RecordKept

\* nextID is not on the board.
LEMMA NextIDFree ==
  ASSUME NEW id \in Ids, IsNextID(id)
  PROVE  tasks[id] = NoTask
  BY DEF IsNextID, Present, Ids

\* Saving under a free id, or saving a task that keeps what must be kept.
LEMMA KeptBySave ==
  ASSUME BoardOK, NEW id \in Ids, NEW t \in Task, Save(id, t),
         tasks[id] # NoTask =>
           /\ tasks[id].owner # NoAgent => t.owner = tasks[id].owner
           /\ t.batch = tasks[id].batch
           /\ tasks[id].sealed => t.sealed
  PROVE  Kept
  BY DEF Kept, ClaimKept, RecordKept, BoardOK, Save

LEMMA KeptBySeal ==
  ASSUME BoardOK, NEW b, SealBatch(b)
  PROVE  Kept
<1>1. PICK failed \in SUBSET Ids :
        tasks' = [i \in Ids |->
              IF /\ i \in Present(tasks) \ failed
                 /\ tasks[i].batch = b /\ tasks[i].status # "deleted"
              THEN [tasks[i] EXCEPT !.sealed = TRUE] ELSE tasks[i]]
  BY DEF SealBatch
<1> QED
  BY <1>1, PresentTask DEF Kept, ClaimKept, RecordKept, Task

LEMMA KeptByClaim ==
  ASSUME BoardOK, NEW a \in Agents, NEW id \in Ids, ~ClaimRefused(a, id), DoClaim(a, id)
  PROVE  Kept
<1>1. tasks[id] \in Task /\ tasks[id].owner \in {NoAgent, a}
  BY PresentTask DEF ClaimRefused
<1>2. [tasks[id] EXCEPT !.owner = a, !.status = "in_progress"] \in Task
  BY <1>1 DEF Task, Statuses
<1> QED
  BY <1>1, <1>2, KeptBySave DEF DoClaim, Task

LEMMA CreateAndBatchKeep ==
  ASSUME Inv, NEW a \in Agents, CreateStep(a) \/ BatchStep(a)
  PROVE  Kept
<1>1. CASE CreateForBatch(a)
  <2>1. op[a].batch \in Batches
    BY <1>1 DEF Inv, OpsOK, Op, CreateForBatch
  <2>2. [status |-> "pending", owner |-> NoAgent,
         batch |-> op[a].batch, sealed |-> FALSE] \in Task
    BY <2>1 DEF Task, Statuses
  <2> QED
    BY <1>1, <2>2, NextIDFree, KeptBySave, KeptIfSame
       DEF Inv, CreateForBatch, UnchangedTasks
<1>2. CASE StartNewBatch(a)
  BY <1>2, KeptBySeal DEF Inv, StartNewBatch
<1>3. CASE ~CreateForBatch(a) /\ ~StartNewBatch(a)
  BY <1>3, KeptIfSame DEF CreateStep, BatchStep, TaskCreate, CreateReadIDs, CreateReadEdges,
     CreateLink, SpawnTeammate, WorkPhase, TaskCreateNewPlan, UnchangedTasks
<1> QED
  BY <1>1, <1>2, <1>3

LEMMA UpdateKeeps ==
  ASSUME Inv, NEW a \in Agents, UpdateStep(a)
  PROVE  Kept
<1>1. ASSUME NEW id \in Ids, NEW status \in Statuses, UpdateStatus(a, id, status)
      PROVE  Kept
  <2>1. tasks[id] \in Task /\ [tasks[id] EXCEPT !.status = status] \in Task
    BY <1>1, PresentTask DEF Inv, UpdateStatus, Task
  <2> QED
    BY <1>1, <2>1, KeptBySave DEF Inv, UpdateStatus, Task
<1>2. ASSUME NEW id \in Ids, UpdateDelete(a, id)
      PROVE  Kept
  BY <1>2, KeptIfDropped DEF Inv, BoardOK, UpdateDelete
<1>3. CASE UpdateCleanEdges(a)
  BY <1>3, KeptIfSame DEF UpdateCleanEdges, UnchangedTasks
<1> QED
  BY <1>1, <1>2, <1>3 DEF UpdateStep

LEMMA ClaimAndEdgeKeep ==
  ASSUME Inv, NEW a \in Agents, ClaimStep(a) \/ EdgeStep(a)
  PROVE  Kept
<1>1. ASSUME NEW id \in Ids, Claim(a, id)
      PROVE  Kept
  BY <1>1, KeptByClaim DEF Inv, Claim
<1>2. CASE IdleClaim(a)
  <2>1. CASE UnchangedTasks
    BY <2>1, KeptIfSame DEF UnchangedTasks
  <2>2. CASE ~ClaimRefused(a, op[a].id) /\ DoClaim(a, op[a].id)
    BY <2>2, KeptByClaim DEF Inv, ClaimRefused, Present
  <2> QED
    BY <1>2, <2>1, <2>2 DEF IdleClaim
<1>3. CASE EdgeStep(a) \/ \E id \in Ids : IdleScan(a, id)
  BY <1>3, KeptIfSame DEF EdgeStep, AddEdge, RemoveEdge, IdleScan, UnchangedTasks
<1> QED
  BY <1>1, <1>2, <1>3 DEF ClaimStep

LEMMA CommandsKeep ==
  ASSUME Inv, NewRun \/ SealStep \/ ClearCompleted \/ Reset \/ Crash
  PROVE  Kept
<1>1. CASE NewRun \/ SealActiveBatch
  BY <1>1, KeptIfSame DEF NewRun, SealActiveBatch, UnchangedTasks
<1>2. CASE FinishSealActiveBatch
  BY <1>2, KeptBySeal DEF Inv, FinishSealActiveBatch
<1>3. CASE ClearCompleted
  <2>1. PICK last \in Ids :
          tasks' = [i \in Ids |->
                IF i \in Completed(tasks) /\ i <= last
                THEN [tasks[i] EXCEPT !.status = "deleted"] ELSE tasks[i]]
    BY <1>3 DEF ClearCompleted
  <2> QED
    BY <2>1, PresentTask DEF Inv, Completed, Kept, ClaimKept, RecordKept, Task
<1>4. CASE Reset \/ Crash
  BY <1>4, KeptIfDropped DEF Inv, BoardOK, Reset, Crash, Present
<1> QED
  BY <1>1, <1>2, <1>3, <1>4 DEF SealStep

LEMMA NextKeeps == Inv /\ [Next]_vars => Kept
<1>1. ASSUME UNCHANGED vars PROVE Kept
  BY <1>1, KeptIfSame DEF vars
<1> QED
  BY <1>1, CreateAndBatchKeep, UpdateKeeps, ClaimAndEdgeKeep, CommandsKeep
     DEF Next, AgentStep

\* Service.Claim looks at the owner again under s.mu: no interleaving of lead
\* and teammates, and no crash, hands a claimed task to a second owner.
THEOREM ClaimsAreExclusive == Spec => ClaimExclusive
<1>1. Inv /\ [Next]_vars => [\A i \in Ids : ClaimKept(i)]_vars
  BY NextKeeps DEF Kept
<1> QED
  BY <1>1, SpecInv, PTL DEF Spec, ClaimExclusive

\* nextID never hands out an id on the board: creating a task cannot move
\* another one to a different batch or unseal it.
THEOREM CreationNeverOverwrites == Spec => CreateNeverOverwrites
<1>1. Inv /\ [Next]_vars => [\A i \in Ids : RecordKept(i)]_vars
  BY NextKeeps DEF Kept
<1> QED
  BY <1>1, SpecInv, PTL DEF Spec, CreateNeverOverwrites

-----------------------------------------------------------------------------
(* Graphs.  HasPath quantifies over the sets closed under the edges, so a    *)
(* graph is shown free of cycles by closed sets that separate.               *)

Closed(E, S) == \A e \in E : e[1] \in S => e[2] \in S

LEMMA PathBySets ==
  ASSUME NEW E, NEW x, NEW y
  PROVE  HasPath(E, x, y) <=> \A S \in SUBSET Ids : x \in S /\ Closed(E, S) => y \in S
  BY DEF HasPath, Closed

Dag(E) == \A e \in E : ~HasPath(E, e[2], e[1])

\* Fewer edges make no path.
LEMMA FewerEdges ==
  ASSUME NEW E \in SUBSET Edge, Dag(E), NEW F \in SUBSET E
  PROVE  Dag(F)
<1> SUFFICES ASSUME NEW e \in F PROVE ~HasPath(F, e[2], e[1])
  BY DEF Dag
<1>1. PICK S \in SUBSET Ids : e[2] \in S /\ Closed(E, S) /\ e[1] \notin S
  BY PathBySets DEF Dag
<1>2. Closed(F, S)
  BY <1>1 DEF Closed
<1> QED
  BY <1>1, <1>2, PathBySets

\* addEdge: an edge without a path back closes no cycle.
LEMMA OneMoreEdge ==
  ASSUME NEW E \in SUBSET Edge, Dag(E), NEW from \in Ids, NEW to \in Ids,
         ~HasPath(E, to, from)
  PROVE  Dag(E \cup {<<from, to>>})
<1> DEFINE F == E \cup {<<from, to>>}
<1>1. PICK T \in SUBSET Ids : to \in T /\ Closed(E, T) /\ from \notin T
  BY PathBySets
<1>2. \A S \in SUBSET Ids : Closed(E, S) /\ (from \in S => to \in S) => Closed(F, S)
  BY DEF Closed
<1>3. ~HasPath(F, to, from)
  BY <1>1, <1>2, PathBySets
<1>4. ASSUME NEW e \in E PROVE ~HasPath(F, e[2], e[1])
  <2>1. PICK S \in SUBSET Ids : e[2] \in S /\ Closed(E, S) /\ e[1] \notin S
    BY PathBySets DEF Dag
  <2>2. CASE e[1] \in T
    <3>1. e[2] \in S \cap T /\ e[1] \notin S \cap T /\ from \notin S \cap T
      BY <1>1, <2>1, <2>2 DEF Closed
    <3>2. Closed(E, S \cap T)
      BY <1>1, <2>1 DEF Closed
    <3>3. Closed(F, S \cap T) /\ S \cap T \in SUBSET Ids
      BY <1>2, <3>1, <3>2
    <3> QED
      BY <3>1, <3>3, PathBySets
  <2>3. CASE e[1] \notin T
    <3>1. e[2] \in S \cup T /\ e[1] \notin S \cup T /\ to \in S \cup T
      BY <1>1, <2>1, <2>3
    <3>2. Closed(E, S \cup T)
      BY <1>1, <2>1 DEF Closed
    <3>3. Closed(F, S \cup T) /\ S \cup T \in SUBSET Ids
      BY <1>2, <3>1, <3>2
    <3> QED
      BY <3>1, <3>3, PathBySets
  <2> QED
    BY <2>2, <2>3
<1>5. <<from, to>>[1] = from /\ <<from, to>>[2] = to
  OBVIOUS
<1> QED
  BY <1>3, <1>4, <1>5 DEF Dag

\* CreateForBatch: edges into a task that none touches close no cycle.
LEMMA EdgesIntoFresh ==
  ASSUME NEW E \in SUBSET Edge, Dag(E), NEW id \in Ids, NEW D \in SUBSET (Ids \ {id}),
         \A e \in E : e[1] # id /\ e[2] # id
  PROVE  Dag(E \cup {<<d, id>> : d \in D})
<1> DEFINE F == E \cup {<<d, id>> : d \in D}
<1>1. \A e \in F : e[1] # id /\ (e \in E \/ e[2] = id)
  OBVIOUS
<1>2. ASSUME NEW S \in SUBSET Ids, Closed(E, S), id \in S PROVE Closed(F, S)
  BY <1>1, <1>2 DEF Closed
<1>3. ASSUME NEW e \in F PROVE ~HasPath(F, e[2], e[1])
  <2>1. CASE e \in E
    <3>1. PICK S \in SUBSET Ids : e[2] \in S /\ Closed(E, S) /\ e[1] \notin S
      BY <2>1, PathBySets DEF Dag
    <3>2. /\ S \cup {id} \in SUBSET Ids /\ Closed(E, S \cup {id})
          /\ e[2] \in S \cup {id} /\ e[1] \notin S \cup {id}
      BY <2>1, <3>1 DEF Closed
    <3>3. Closed(F, S \cup {id})
      BY <1>2, <3>2
    <3> QED
      BY <3>2, <3>3, PathBySets
  <2>2. CASE e[2] = id
    <3>1. Closed(E, {id}) /\ e[1] # id
      BY <1>1 DEF Closed
    <3>2. Closed(F, {id}) /\ e[1] \notin {id} /\ e[2] \in {id}
      BY <1>2, <2>2, <3>1
    <3> QED
      BY <3>2, PathBySets
  <2> QED
    BY <1>1, <2>1, <2>2
<1> QED
  BY <1>3 DEF Dag

\* A set of tasks that is not empty has one with no predecessor in the set: the one with
\* the fewest tasks behind it.
LEMMA FirstOfSome ==
  ASSUME NEW E \in SUBSET Edge, Dag(E), NEW P \in SUBSET Ids, P # {}
  PROVE  \E i \in P : \A e \in E : e[2] = i => e[1] \notin P
<1> DEFINE Behind(x) == {y \in Ids : HasPath(E, y, x)}
           Size(x) == Cardinality(Behind(x))
           Sizes == {Size(x) : x \in P}
           R == OpToRel(<, Nat)
<1>1. IsFiniteSet(Ids)
  <2>1. 1 \in Int /\ MaxTasks \in Int
    OBVIOUS
  <2> QED
    BY <2>1, FS_Interval DEF Ids
<1>2. \A x \in Ids : Behind(x) \in SUBSET Ids /\ IsFiniteSet(Behind(x)) /\ Size(x) \in Nat
  <2>1. \A x \in Ids : Behind(x) \in SUBSET Ids
    OBVIOUS
  <2> HIDE DEF Behind
  <2> QED
    BY <1>1, <2>1, FS_Subset, FS_CardinalityType
<1>3. ASSUME NEW e \in E PROVE Size(e[1]) < Size(e[2])
  <2>1. e[1] \in Ids /\ e[2] \in Ids
    BY DEF Edge
  <2>2. Behind(e[1]) \subseteq Behind(e[2])
    <3> SUFFICES ASSUME NEW y \in Behind(e[1]) PROVE HasPath(E, y, e[2])
      OBVIOUS
    <3>1. ASSUME NEW S \in SUBSET Ids, y \in S, Closed(E, S) PROVE e[2] \in S
      <4>1. e[1] \in S
        BY <3>1, PathBySets
      <4> QED
        BY <3>1, <4>1 DEF Closed
    <3> QED
      BY <3>1, PathBySets
  <2>3. e[2] \in Behind(e[2]) /\ e[2] \notin Behind(e[1])
    BY <2>1, PathBySets DEF Dag
  <2> HIDE DEF Behind
  <2>4. /\ Cardinality(Behind(e[1])) <= Cardinality(Behind(e[2]))
        /\ Cardinality(Behind(e[1])) # Cardinality(Behind(e[2]))
    BY <1>2, <2>1, <2>2, <2>3, FS_Subset
  <2> QED
    BY <1>2, <2>1, <2>4
<1> HIDE DEF Size
<1>4. \A p, q \in Nat : p < q => <<p, q>> \in R
  BY DEF OpToRel
<1>5. Sizes \subseteq Nat /\ Sizes # {}
  BY <1>2
<1>6. \E n \in Sizes : \A m \in Sizes : <<m, n>> \notin R
  <2> HIDE DEF R, Sizes
  <2> QED
    BY <1>5, NatLessThanWellFounded, WFMin DEF R
<1> HIDE DEF R
<1>7. PICK i \in P : \A j \in P : <<Size(j), Size(i)>> \notin R
  BY <1>6
<1>8. \A j \in P : ~(Size(j) < Size(i))
  BY <1>2, <1>4, <1>7
<1> QED
  BY <1>3, <1>8

-----------------------------------------------------------------------------
(* The plan of one agent whose writes do not fail.  While it works on the    *)
(* graph, an edge may end in the task it is deleting, and no edge touches    *)
(* the task it is linking.                                                   *)

Alone == Agents = {Lead} /\ ~IOFaults

now == op[Lead]

EndsOK(e) ==
  /\ \A x \in {e[1], e[2]} : x \in Present(tasks) \/ (now.pc = "clean" /\ x = now.id)
  /\ {e[1], e[2]} \subseteq Present(tasks) => tasks[e[1]].batch = tasks[e[2]].batch

LinkOK ==
  now.pc \in {"ids", "edges", "link"} =>
    /\ now.id \in Present(tasks) /\ tasks[now.id].batch = now.batch
    /\ \A e \in edges : e[1] # now.id /\ e[2] # now.id
    /\ now.pc = "link" => now.edges = edges

GraphOK == Dag(edges) /\ (\A e \in edges : EndsOK(e)) /\ LinkOK

\* No removal fails, and without /task clear no task has the status "deleted".
FilesOK == files = tasks /\ \A i \in Present(tasks) : tasks[i].status # "deleted"

\* A sealed batch is not where the agent creates its next task.
Minted(b) == minted[b] # NoAgent
OpenBatch(b) == Minted(b) /\ b \notin SealedBatches(tasks)
BatchUse ==
  /\ \A i \in Present(tasks) : Minted(tasks[i].batch)
  /\ ref[Lead] # NoBatch => OpenBatch(ref[Lead])
  /\ now.pc = "save" => OpenBatch(now.batch)
  /\ now.pc = "sealOnly" => ref[Lead] = NoBatch

PlanInv == Inv /\ GraphOK /\ FilesOK /\ BatchUse

AtRest(o) == o.pc \notin {"ids", "edges", "link", "clean"}

\* The tasks on the board and their batches stay.
SameShape ==
  /\ Present(tasks') = Present(tasks)
  /\ \A i \in Present(tasks) : tasks'[i].batch = tasks[i].batch

LEMMA GraphStays ==
  ASSUME GraphOK, UnchangedEdges, SameShape, AtRest(now), AtRest(now') \/ now' = now
  PROVE  GraphOK'
  BY DEF GraphOK, UnchangedEdges, SameShape, EndsOK, LinkOK, AtRest

\* No batch is sealed that was open, and no task changes its batch.
LEMMA BatchesKept ==
  ASSUME BatchUse, UNCHANGED minted, ref'[Lead] \in {ref[Lead], NoBatch},
         now'.pc = "save" => now' = now, now'.pc = "sealOnly" => ref'[Lead] = NoBatch,
         \A i \in Present(tasks') :
           /\ i \in Present(tasks) /\ tasks'[i].batch = tasks[i].batch
           /\ tasks'[i].sealed => tasks[i].sealed
  PROVE  BatchUse'
<1>1. SealedBatches(tasks') \subseteq SealedBatches(tasks)
  BY DEF SealedBatches, Present
<1> QED
  BY <1>1 DEF BatchUse, OpenBatch, Minted

LEMMA OpOfLead ==
  ASSUME OpsOK, NEW o, Goto(Lead, o) PROVE now' = o
  BY DEF OpsOK, Goto, now

LEMMA IdleFacts == Idle.pc = "idle" /\ AtRest(Idle)
  BY DEF Idle, AtRest

\* Saving a task anew that keeps its batch and is not sealed by it.
LEMMA SaveShape ==
  ASSUME PlanInv, NEW id \in Present(tasks), NEW t \in Task, Save(id, t),
         t.batch = tasks[id].batch, t.sealed = tasks[id].sealed, t.status # "deleted"
  PROVE  /\ SameShape /\ FilesOK'
         /\ \A i \in Present(tasks') :
              /\ i \in Present(tasks) /\ tasks'[i].batch = tasks[i].batch
              /\ tasks'[i].sealed => tasks[i].sealed
<1>1. /\ id \in Ids /\ tasks[id] # NoTask /\ t # NoTask /\ files = tasks
      /\ tasks \in [Ids -> Task \cup {NoTask}]
  BY DEF PlanInv, FilesOK, Inv, BoardOK, Present
<1>2. tasks' = [tasks EXCEPT ![id] = t] /\ files' = tasks'
  BY <1>1 DEF Save
<1>3. \A i \in Ids : tasks'[i] = IF i = id THEN t ELSE tasks[i]
  BY <1>1, <1>2
<1>4. Present(tasks') = Present(tasks)
  BY <1>1, <1>3 DEF Present
<1>5. \A i \in Present(tasks) : tasks[i].status # "deleted"
  BY DEF PlanInv, FilesOK
<1> QED
  BY <1>2, <1>3, <1>4, <1>5 DEF SameShape, FilesOK, Present

LEMMA SealShape ==
  ASSUME PlanInv, NEW b, SealBatch(b)
  PROVE  /\ SameShape /\ FilesOK'
         /\ SealedBatches(tasks') \subseteq SealedBatches(tasks) \cup {b}
<1> DEFINE S(i) == [tasks[i] EXCEPT !.sealed = TRUE]
           Sealed(failed, T) ==
             [i \in Ids |-> IF /\ i \in Present(tasks) \ failed
                               /\ tasks[i].batch = b /\ tasks[i].status # "deleted"
                            THEN S(i) ELSE T[i]]
<1>1. PICK failed \in SUBSET Ids :
        tasks' = Sealed(failed, tasks) /\ files' = Sealed(failed, files)
  BY DEF SealBatch
<1>2. files = tasks /\ tasks \in [Ids -> Task \cup {NoTask}]
  BY DEF PlanInv, FilesOK, Inv, BoardOK
<1>3. files' = tasks'
  BY <1>1, <1>2
<1>4. \A i \in Present(tasks) :
        S(i) \in Task /\ S(i).batch = tasks[i].batch /\ S(i).status = tasks[i].status
  <2>1. ASSUME NEW i \in Present(tasks), NEW d \in BOOLEAN
        PROVE  LET t == [tasks[i] EXCEPT !.sealed = d]
               IN t \in Task /\ t.batch = tasks[i].batch /\ t.status = tasks[i].status
    BY <1>2 DEF Present, Task
  <2>2. TRUE \in BOOLEAN
    OBVIOUS
  <2> QED
    BY <2>1, <2>2, Zenon
<1> HIDE DEF S
<1>5. ASSUME NEW i \in Ids
      PROVE  \/ tasks'[i] = tasks[i]
             \/ /\ tasks[i] # NoTask /\ tasks'[i] # NoTask /\ tasks[i].batch = b
                /\ tasks'[i].batch = b /\ tasks'[i].status = tasks[i].status
  <2>1. tasks'[i] = IF /\ i \in Present(tasks) \ failed
                       /\ tasks[i].batch = b /\ tasks[i].status # "deleted"
                    THEN S(i) ELSE tasks[i]
    BY <1>1
  <2> QED
    BY <1>4, <2>1 DEF Present
<1>6. SameShape
  BY <1>5 DEF SameShape, Present
<1>7. FilesOK'
  BY <1>3, <1>5 DEF PlanInv, FilesOK, Present
<1>8. SealedBatches(tasks') \subseteq SealedBatches(tasks) \cup {b}
  BY <1>5 DEF SealedBatches, Present
<1> QED
  BY <1>6, <1>7, <1>8

Planned == GraphOK /\ FilesOK /\ BatchUse

LEMMA SameTasksShape ==
  ASSUME UnchangedTasks, FilesOK
  PROVE  /\ SameShape /\ FilesOK'
         /\ \A i \in Present(tasks') :
              /\ i \in Present(tasks) /\ tasks'[i].batch = tasks[i].batch
              /\ tasks'[i].sealed => tasks[i].sealed
  BY DEF UnchangedTasks, SameShape, FilesOK, Present

\* A step of the agent that moves no task between batches and leaves the graph alone.
LEMMA CalmStep ==
  ASSUME PlanInv, UnchangedEdges, UNCHANGED minted, SameShape, FilesOK',
         \A i \in Present(tasks') :
           /\ i \in Present(tasks) /\ tasks'[i].batch = tasks[i].batch
           /\ tasks'[i].sealed => tasks[i].sealed,
         ref'[Lead] \in {ref[Lead], NoBatch},
         \/ now' = now /\ (now.pc = "sealOnly" => ref'[Lead] = NoBatch)
         \/ AtRest(now) /\ AtRest(now') /\ now'.pc \notin {"save", "sealOnly"}
  PROVE  Planned'
<1>1. (AtRest(now) /\ AtRest(now')) \/ now' = now
  OBVIOUS
<1>2. AtRest(now) /\ AtRest(now') => GraphOK'
  BY GraphStays DEF PlanInv
<1>3. now' = now => GraphOK'
  BY DEF PlanInv, GraphOK, UnchangedEdges, SameShape, EndsOK, LinkOK
<1>4. BatchUse'
  BY BatchesKept DEF PlanInv
<1> QED
  BY <1>1, <1>2, <1>3, <1>4 DEF Planned

LEMMA FreeFacts ==
  ASSUME Free(Lead) PROVE now.pc = "idle" /\ AtRest(now)
  BY DEF Free, now, AtRest

\* A batch just minted has no task, and the batches in use stay minted.
LEMMA FreshBatch ==
  ASSUME PlanInv, NEW b \in Batches, NewBatchID(Lead, b)
  PROVE  /\ \A c : c \in Batches /\ Minted(c) => Minted(c)' /\ c # b
         /\ Minted(b)' /\ b \notin SealedBatches(tasks)
         /\ \A i \in Present(tasks) : tasks[i].batch # b
<1>1. minted[b] = NoAgent /\ minted' = [minted EXCEPT ![b] = Lead]
  BY DEF NewBatchID
<1>2. \A i \in Present(tasks) : tasks[i].batch # b
  BY <1>1 DEF PlanInv, BatchUse, Minted
<1>3. minted \in [Batches -> Agents \cup {NoAgent}] /\ Lead # NoAgent
  BY DEF PlanInv, Inv, BatchesOK
<1>4. Minted(b)' /\ \A c \in Batches : Minted(c) => Minted(c)' /\ c # b
  BY <1>1, <1>3 DEF Minted
<1>5. b \notin SealedBatches(tasks)
  BY <1>2 DEF SealedBatches
<1> QED
  BY <1>2, <1>4, <1>5

LEMMA TaskBatches ==
  ASSUME PlanInv, NEW i \in Present(tasks)
  PROVE  tasks[i].batch \in Batches /\ Minted(tasks[i].batch)
  BY PresentTask DEF PlanInv, Inv, BatchUse, Task

\* The active batch is one with tasks that is not sealed.
LEMMA ActiveBatchOpen ==
  ASSUME PlanInv, ActiveBatch(tasks) # NoBatch
  PROVE  OpenBatch(ActiveBatch(tasks))
<1> DEFINE open == {i \in Present(tasks) :
                      /\ tasks[i].status \notin {"deleted", "completed"}
                      /\ tasks[i].batch \notin SealedBatches(tasks)}
<1>1. open # {}
  BY DEF ActiveBatch
<1>2. PICK n \in open : \A j \in open : j <= n
  BY <1>1, LargestId DEF Present
<1> DEFINE m == CHOOSE i \in open : \A j \in open : j <= i
<1>3. m \in open
  BY <1>2
<1>4. ActiveBatch(tasks) = tasks[m].batch
  BY <1>1 DEF ActiveBatch
<1> HIDE DEF m
<1> QED
  BY <1>3, <1>4, TaskBatches DEF OpenBatch

\* The agent opens its next task in batch b.
LEMMA SaveNext ==
  ASSUME PlanInv, NEW b \in Batches, UnchangedTasks, UnchangedEdges, AtRest(now),
         ref' = [ref EXCEPT ![Lead] = b], Goto(Lead, [Idle EXCEPT !.pc = "save", !.batch = b]),
         OpenBatch(b)', \A c \in Batches : Minted(c) => Minted(c)'
  PROVE  Planned'
<1> DEFINE o == [Idle EXCEPT !.pc = "save", !.batch = b]
<1>1. o.pc = "save" /\ o.batch = b
  BY DEF Idle
<1>2. now' = o
  BY OpOfLead DEF PlanInv, Inv
<1> HIDE DEF o
<1>3. SameShape /\ FilesOK'
  BY SameTasksShape DEF PlanInv
<1>4. GraphOK'
  BY <1>1, <1>2, <1>3, GraphStays DEF PlanInv, AtRest
<1>5. ref'[Lead] = b
  BY DEF PlanInv, Inv, BatchesOK
<1>6. \A i \in Present(tasks') : minted'[tasks'[i].batch] # NoAgent
  BY TaskBatches DEF UnchangedTasks, Minted
<1>7. BatchUse'
  BY <1>1, <1>2, <1>5, <1>6 DEF BatchUse, OpenBatch, Minted
<1> QED
  BY <1>3, <1>4, <1>7 DEF Planned

LEMMA TaskCreatePlanned ==
  ASSUME PlanInv, TaskCreate(Lead) PROVE Planned'
<1>1. PICK b \in Batches :
        /\ \/ b = ref[Lead] /\ UNCHANGED minted
           \/ ref[Lead] = NoBatch /\ b = ActiveBatch(tasks) /\ UNCHANGED minted
           \/ ref[Lead] = NoBatch /\ ActiveBatch(tasks) = NoBatch /\ NewBatchID(Lead, b)
        /\ ref' = [ref EXCEPT ![Lead] = b]
        /\ Goto(Lead, [Idle EXCEPT !.pc = "save", !.batch = b])
  BY DEF TaskCreate
<1>2. UnchangedTasks /\ UnchangedEdges /\ AtRest(now) /\ b # NoBatch
  BY FreeFacts DEF TaskCreate
<1>3. CASE UNCHANGED minted /\ (b = ref[Lead] \/ b = ActiveBatch(tasks))
  <2>1. OpenBatch(b)
    BY <1>2, <1>3, ActiveBatchOpen DEF PlanInv, BatchUse
  <2>2. OpenBatch(b)' /\ \A c \in Batches : Minted(c) => Minted(c)'
    BY <1>2, <1>3, <2>1 DEF OpenBatch, Minted, UnchangedTasks
  <2> QED
    BY <1>1, <1>2, <2>2, SaveNext
<1>4. CASE NewBatchID(Lead, b)
  <2>1. OpenBatch(b)' /\ \A c \in Batches : Minted(c) => Minted(c)'
    BY <1>2, <1>4, FreshBatch DEF OpenBatch, UnchangedTasks
  <2> QED
    BY <1>1, <1>2, <2>1, SaveNext
<1> QED
  BY <1>1, <1>3, <1>4

LEMMA StartNewBatchPlanned ==
  ASSUME PlanInv, StartNewBatch(Lead) PROVE Planned'
<1>1. PICK b \in Batches :
        /\ NewBatchID(Lead, b) /\ ref' = [ref EXCEPT ![Lead] = b]
        /\ Goto(Lead, [Idle EXCEPT !.pc = "save", !.batch = b])
  BY DEF StartNewBatch
<1>2. now.pc = "seal" /\ SealBatch(now.batch) /\ UnchangedEdges
  BY DEF StartNewBatch, now
<1> DEFINE o == [Idle EXCEPT !.pc = "save", !.batch = b]
<1>3. o.pc = "save" /\ o.batch = b
  BY DEF Idle
<1>4. now' = o
  BY <1>1, OpOfLead DEF PlanInv, Inv
<1> HIDE DEF o
<1>5. SameShape /\ FilesOK'
  BY <1>2, SealShape
<1>6. GraphOK'
  BY <1>2, <1>3, <1>4, <1>5, GraphStays DEF PlanInv, AtRest
<1>7. ref'[Lead] = b
  BY <1>1 DEF PlanInv, Inv, BatchesOK
<1>8. \A i \in Present(tasks') :
        i \in Present(tasks) /\ tasks'[i].batch = tasks[i].batch /\ tasks[i].batch # b
  BY <1>1, <1>5, FreshBatch DEF SameShape
<1>9. b \notin SealedBatches(tasks')
  BY <1>8 DEF SealedBatches
<1>10. Minted(b)' /\ \A i \in Present(tasks') : minted'[tasks'[i].batch] # NoAgent
  BY <1>1, <1>8, FreshBatch, TaskBatches DEF Minted
<1>11. BatchUse'
  BY <1>3, <1>4, <1>7, <1>9, <1>10 DEF BatchUse, OpenBatch, Minted
<1> QED
  BY <1>5, <1>6, <1>11 DEF Planned

\* Sealing while no run of the lead uses a batch.
LEMMA FinishSealPlanned ==
  ASSUME PlanInv, FinishSealActiveBatch PROVE Planned'
<1>1. /\ now.pc = "sealOnly" /\ SealBatch(now.batch) /\ Goto(Lead, Idle)
      /\ UnchangedEdges /\ UnchangedBatches
  BY DEF FinishSealActiveBatch, Done, now
<1>2. now' = Idle
  BY <1>1, OpOfLead DEF PlanInv, Inv
<1>3. SameShape /\ FilesOK'
  BY <1>1, SealShape
<1>4. GraphOK'
  BY <1>1, <1>2, <1>3, IdleFacts, GraphStays DEF PlanInv, AtRest
<1>5. ref'[Lead] = NoBatch
  BY <1>1 DEF PlanInv, BatchUse, UnchangedBatches
<1>6. \A i \in Present(tasks') : minted'[tasks'[i].batch] # NoAgent
  BY <1>1, <1>3, TaskBatches DEF SameShape, UnchangedBatches, Minted
<1>7. BatchUse'
  BY <1>2, <1>5, <1>6, IdleFacts DEF BatchUse, OpenBatch, Minted
<1> QED
  BY <1>3, <1>4, <1>7 DEF Planned

LEMMA StartSealPlanned ==
  ASSUME PlanInv, TaskCreateNewPlan(Lead) \/ SealActiveBatch PROVE Planned'
<1>1. PICK pc \in {"seal", "sealOnly"} :
        /\ Goto(Lead, [Idle EXCEPT !.pc = pc, !.batch = ActiveBatch(tasks)])
        /\ pc = "sealOnly" => ref[Lead] = NoBatch
  BY DEF TaskCreateNewPlan, SealActiveBatch, AtPrompt
<1>2. /\ AtRest(now) /\ UnchangedTasks /\ UnchangedEdges /\ UnchangedBatches
  BY FreeFacts DEF TaskCreateNewPlan, SealActiveBatch, AtPrompt
<1> DEFINE o == [Idle EXCEPT !.pc = pc, !.batch = ActiveBatch(tasks)]
<1>3. o.pc = pc
  BY DEF Idle
<1>4. now' = o
  BY <1>1, OpOfLead DEF PlanInv, Inv
<1> HIDE DEF o
<1>5. SameShape /\ FilesOK'
  BY <1>2, SameTasksShape DEF PlanInv
<1>6. GraphOK'
  BY <1>2, <1>3, <1>4, <1>5, GraphStays DEF PlanInv, AtRest
<1>7. BatchUse'
  BY <1>1, <1>2, <1>3, <1>4 DEF PlanInv, BatchUse, OpenBatch, Minted, UnchangedTasks,
     UnchangedBatches
<1> QED
  BY <1>5, <1>6, <1>7 DEF Planned

\* A task that is created is on no edge yet.
LEMMA CreateForBatchPlanned ==
  ASSUME PlanInv, Alone, CreateForBatch(Lead) PROVE Planned'
<1>1. PICK id \in Ids, pc \in {"idle", "ids"} :
        /\ IsNextID(id)
        /\ Save(id, [status |-> "pending", owner |-> NoAgent,
                     batch |-> op[Lead].batch, sealed |-> FALSE])
        /\ Goto(Lead, IF pc = "idle" THEN Idle ELSE [op[Lead] EXCEPT !.pc = "ids", !.id = id])
  BY DEF CreateForBatch, Alone
<1>2. now.pc = "save" /\ now \in Op /\ UnchangedEdges /\ UnchangedBatches
  BY DEF CreateForBatch, now, PlanInv, Inv, OpsOK
<1> DEFINE t == [status |-> "pending", owner |-> NoAgent, batch |-> op[Lead].batch,
                 sealed |-> FALSE]
<1>3. t \in Task /\ t.status = "pending" /\ t.batch = now.batch
  <2>1. ASSUME NEW d \in BOOLEAN
        PROVE  LET r == [status |-> "pending", owner |-> NoAgent, batch |-> now.batch,
                         sealed |-> d]
               IN r \in Task /\ r.status = "pending" /\ r.batch = now.batch
    BY <1>2 DEF Op, Task, Statuses
  <2>2. FALSE \in BOOLEAN
    OBVIOUS
  <2> QED
    BY <2>1, <2>2, Zenon DEF now
<1>4. ~t.sealed
  OBVIOUS
<1>5. tasks' = [tasks EXCEPT ![id] = t] /\ files' = [files EXCEPT ![id] = t]
  BY <1>1 DEF Save
<1> HIDE DEF t
<1>6. /\ files = tasks /\ tasks \in [Ids -> Task \cup {NoTask}] /\ tasks[id] = NoTask
      /\ \A i \in Present(tasks) : tasks[i].status # "deleted"
  BY <1>1, NextIDFree DEF PlanInv, FilesOK, Inv, BoardOK
<1>7. /\ \A i \in Ids : tasks'[i] = IF i = id THEN t ELSE tasks[i]
      /\ Present(tasks') = Present(tasks) \cup {id} /\ id \notin Present(tasks)
  BY <1>3, <1>5, <1>6 DEF Present
<1>8. FilesOK'
  BY <1>3, <1>5, <1>6, <1>7 DEF FilesOK, Present
<1>9. /\ now'.pc \in {"idle", "ids"}
      /\ now'.pc = "ids" => now'.id = id /\ now'.batch = now.batch
  <2>1. CASE pc = "idle"
    BY <1>1, <2>1, OpOfLead, IdleFacts DEF PlanInv, Inv
  <2>2. CASE pc = "ids"
    <3> DEFINE o == [op[Lead] EXCEPT !.pc = "ids", !.id = id]
    <3>1. o.pc = "ids" /\ o.id = id /\ o.batch = now.batch
      BY <1>2 DEF now, Op
    <3>2. now' = o
      BY <1>1, <2>2, OpOfLead DEF PlanInv, Inv
    <3> HIDE DEF o
    <3> QED
      BY <3>1, <3>2
  <2> QED
    BY <2>1, <2>2
<1>10. GraphOK'
  <2>1. \A e \in edges : /\ {e[1], e[2]} \subseteq Present(tasks)
                         /\ tasks[e[1]].batch = tasks[e[2]].batch
    BY <1>2 DEF PlanInv, GraphOK, EndsOK
  <2>2. /\ edges' = edges
        /\ \A e \in edges : EndsOK(e)'
    BY <1>2, <1>7, <2>1 DEF UnchangedEdges, EndsOK, Present
  <2>3. LinkOK'
    BY <1>3, <1>7, <1>9, <2>1, <2>2 DEF LinkOK
  <2> QED
    BY <2>2, <2>3 DEF PlanInv, GraphOK
<1>11. BatchUse'
  <2>1. SealedBatches(tasks') = SealedBatches(tasks)
    BY <1>4, <1>7 DEF SealedBatches, Present
  <2>2. Minted(now.batch)
    BY <1>2 DEF PlanInv, BatchUse, OpenBatch
  <2>3. \A i \in Present(tasks') : minted'[tasks'[i].batch] # NoAgent
    BY <1>2, <1>3, <1>7, <2>2, TaskBatches DEF UnchangedBatches, Minted, Present
  <2> QED
    BY <1>2, <1>9, <2>1, <2>3 DEF PlanInv, BatchUse, OpenBatch, Minted, UnchangedBatches
<1> QED
  BY <1>8, <1>10, <1>11 DEF Planned

\* Reading the ids and the edges that the new task is linked with.
LEMMA CreateReadsPlanned ==
  ASSUME PlanInv, CreateReadIDs(Lead) \/ CreateReadEdges(Lead) PROVE Planned'
<1>1. /\ UnchangedTasks /\ UnchangedEdges /\ UnchangedBatches /\ now \in Op
      /\ now.pc \in {"ids", "edges"}
  BY DEF CreateReadIDs, CreateReadEdges, now, PlanInv, Inv, OpsOK
<1>2. /\ now'.pc \in {"edges", "link"} /\ now'.id = now.id /\ now'.batch = now.batch
      /\ now'.pc = "link" => now'.edges = edges
  <2>1. CASE CreateReadIDs(Lead)
    <3> DEFINE o == [op[Lead] EXCEPT !.pc = "edges", !.ids = Present(tasks)]
    <3>1. o.pc = "edges" /\ o.id = now.id /\ o.batch = now.batch
      BY <1>1 DEF now, Op
    <3>2. now' = o
      BY <2>1, OpOfLead DEF CreateReadIDs, PlanInv, Inv
    <3> HIDE DEF o
    <3> QED
      BY <3>1, <3>2
  <2>2. CASE CreateReadEdges(Lead)
    <3> DEFINE o == [op[Lead] EXCEPT !.pc = "link", !.edges = edges]
    <3>1. o.pc = "link" /\ o.id = now.id /\ o.batch = now.batch /\ o.edges = edges
      BY <1>1 DEF now, Op
    <3>2. now' = o
      BY <2>2, OpOfLead DEF CreateReadEdges, PlanInv, Inv
    <3> HIDE DEF o
    <3> QED
      BY <3>1, <3>2
  <2> QED
    BY <2>1, <2>2
<1>3. GraphOK'
  BY <1>1, <1>2 DEF PlanInv, GraphOK, EndsOK, LinkOK, UnchangedTasks, UnchangedEdges
<1>4. BatchUse'
  BY <1>1, <1>2, SameTasksShape, BatchesKept DEF PlanInv, UnchangedBatches
<1> QED
  BY <1>1, <1>3, <1>4, SameTasksShape DEF PlanInv, Planned

LEMMA CreateLinkPlanned ==
  ASSUME PlanInv, Alone, CreateLink(Lead) PROVE Planned'
<1>1. PICK deps \in SUBSET Ids :
        edges' = edges \cup {<<d, now.id>> : d \in AcceptedDeps(now, deps)}
  <2>1. now.pc = "link" /\ now.edges = edges
    BY DEF CreateLink, now, PlanInv, GraphOK, LinkOK
  <2> QED
    BY <2>1 DEF CreateLink, SaveEdges, Alone, now
<1>2. now.pc = "link" /\ now' = Idle /\ UnchangedTasks /\ UnchangedBatches
  BY OpOfLead DEF CreateLink, Done, now, PlanInv, Inv
<1> DEFINE D == AcceptedDeps(now, deps)
<1>3. /\ now.id \in Present(tasks) /\ now.id \in Ids
      /\ \A e \in edges : e[1] # now.id /\ e[2] # now.id
      /\ tasks[now.id].batch = now.batch
  BY <1>2 DEF PlanInv, GraphOK, LinkOK, Present
<1>4. \A d \in D : d \in Ids \ {now.id} /\ d \in Present(tasks)
                   /\ tasks[d].batch = tasks[now.id].batch
  BY <1>3 DEF AcceptedDeps, Present
<1> HIDE DEF D
<1>5. Dag(edges')
  <2>1. edges \in SUBSET Edge /\ Dag(edges)
    BY DEF PlanInv, Inv, EdgesOK, GraphOK
  <2>2. D \in SUBSET (Ids \ {now.id})
    BY <1>4
  <2>3. edges' = edges \cup {<<d, now.id>> : d \in D}
    BY <1>1 DEF D
  <2>4. Dag(edges \cup {<<d, now.id>> : d \in D})
    BY <1>3, <2>1, <2>2, EdgesIntoFresh
  <2> QED
    BY <2>3, <2>4
<1>6. \A e \in edges' : EndsOK(e)'
  <2> SUFFICES ASSUME NEW e \in edges' PROVE EndsOK(e)'
    OBVIOUS
  <2>1. CASE e \in edges
    BY <1>2, <2>1 DEF PlanInv, GraphOK, EndsOK, UnchangedTasks
  <2>2. CASE \E d \in D : e = <<d, now.id>>
    BY <1>2, <1>3, <1>4, <2>2 DEF EndsOK, UnchangedTasks
  <2> QED
    BY <1>1, <2>1, <2>2 DEF D
<1>7. GraphOK'
  BY <1>2, <1>5, <1>6, IdleFacts DEF GraphOK, LinkOK
<1>8. BatchUse'
  BY <1>2, IdleFacts, SameTasksShape, BatchesKept DEF PlanInv, UnchangedBatches
<1> QED
  BY <1>2, <1>7, <1>8, SameTasksShape DEF PlanInv, Planned

LEMMA UpdateStatusPlanned ==
  ASSUME PlanInv, NEW id \in Ids, NEW status \in Statuses, UpdateStatus(Lead, id, status)
  PROVE  Planned'
<1>1. /\ id \in Present(tasks) /\ status # "deleted"
      /\ Save(id, [tasks[id] EXCEPT !.status = status])
      /\ UNCHANGED op /\ UnchangedEdges /\ UnchangedBatches /\ AtRest(now) /\ now.pc = "idle"
  BY FreeFacts DEF UpdateStatus
<1> DEFINE t == [tasks[id] EXCEPT !.status = status]
<1>2. /\ t \in Task /\ t.batch = tasks[id].batch /\ t.sealed = tasks[id].sealed
      /\ t.status = status
  BY <1>1, PresentTask DEF PlanInv, Inv, Task
<1>3. Save(id, t)
  BY <1>1
<1> HIDE DEF t
<1>4. /\ SameShape /\ FilesOK'
      /\ \A i \in Present(tasks') :
           /\ i \in Present(tasks) /\ tasks'[i].batch = tasks[i].batch
           /\ tasks'[i].sealed => tasks[i].sealed
  BY <1>1, <1>2, <1>3, SaveShape
<1>5. now' = now
  BY <1>1 DEF now
<1> QED
  BY <1>1, <1>4, <1>5, CalmStep DEF UnchangedBatches

LEMMA ClaimPlanned ==
  ASSUME PlanInv, NEW id \in Ids, ~ClaimRefused(Lead, id), DoClaim(Lead, id),
         UnchangedEdges, UnchangedBatches, now.pc \in {"idle", "claim"}, now' \in {now, Idle}
  PROVE  Planned'
<1> DEFINE t == [tasks[id] EXCEPT !.owner = Lead, !.status = "in_progress"]
<1>1. id \in Present(tasks)
  BY DEF ClaimRefused
<1>2. /\ t \in Task /\ t.batch = tasks[id].batch /\ t.sealed = tasks[id].sealed
      /\ t.status # "deleted"
  BY <1>1, PresentTask DEF PlanInv, Inv, Task, Statuses
<1>3. Save(id, t)
  BY DEF DoClaim
<1> HIDE DEF t
<1>4. /\ SameShape /\ FilesOK'
      /\ \A i \in Present(tasks') :
           /\ i \in Present(tasks) /\ tasks'[i].batch = tasks[i].batch
           /\ tasks'[i].sealed => tasks[i].sealed
  BY <1>1, <1>2, <1>3, SaveShape
<1>5. AtRest(now) /\ AtRest(now') /\ now'.pc \notin {"save", "sealOnly"}
  BY IdleFacts DEF AtRest
<1> QED
  BY <1>4, <1>5, CalmStep DEF UnchangedBatches

LEMMA ClaimStepPlanned ==
  ASSUME PlanInv, Alone, ClaimStep(Lead) PROVE Planned'
<1>1. ASSUME NEW id \in Ids, Claim(Lead, id) PROVE Planned'
  <2>1. now.pc = "idle" /\ now' = now
    BY <1>1, FreeFacts DEF Claim, now
  <2> QED
    BY <1>1, <2>1, ClaimPlanned DEF Claim
<1>2. ASSUME NEW id \in Ids, IdleScan(Lead, id) PROVE FALSE
  BY <1>2 DEF IdleScan
<1>3. CASE IdleClaim(Lead)
  <2>1. now.pc = "claim" /\ now' = Idle /\ UnchangedEdges /\ UnchangedBatches
    BY <1>3, OpOfLead DEF IdleClaim, Done, now, PlanInv, Inv
  <2>2. CASE UnchangedTasks
    <3>1. AtRest(now) /\ AtRest(now') /\ now'.pc \notin {"save", "sealOnly"}
      BY <2>1, IdleFacts DEF AtRest
    <3> QED
      BY <2>1, <2>2, <3>1, SameTasksShape, CalmStep DEF PlanInv, UnchangedBatches
  <2>3. CASE ~ClaimRefused(Lead, op[Lead].id) /\ DoClaim(Lead, op[Lead].id)
    <3>1. op[Lead].id \in Ids
      BY <2>3 DEF ClaimRefused, Present
    <3> QED
      BY <2>1, <2>3, <3>1, ClaimPlanned
  <2> QED
    BY <1>3, <2>2, <2>3 DEF IdleClaim
<1> QED
  BY <1>1, <1>2, <1>3 DEF ClaimStep

\* While a task is deleted and its edges are not, they end in the task being deleted.
LEMMA UpdateDeletePlanned ==
  ASSUME PlanInv, Alone, NEW id \in Ids, UpdateDelete(Lead, id) PROVE Planned'
<1>1. /\ id \in Present(tasks) /\ now.pc = "idle" /\ UnchangedEdges /\ UnchangedBatches
      /\ tasks' = [tasks EXCEPT ![id] = NoTask] /\ files' = [files EXCEPT ![id] = NoTask]
  BY FreeFacts DEF UpdateDelete, Alone
<1> DEFINE o == [Idle EXCEPT !.pc = "clean", !.id = id]
<1>2. o.pc = "clean" /\ o.id = id
  BY DEF Idle
<1>3. now' = o
  BY OpOfLead DEF UpdateDelete, PlanInv, Inv
<1> HIDE DEF o
<1>4. /\ files = tasks /\ tasks \in [Ids -> Task \cup {NoTask}]
      /\ \A i \in Present(tasks) : tasks[i].status # "deleted"
  BY DEF PlanInv, FilesOK, Inv, BoardOK
<1>5. /\ \A i \in Ids : tasks'[i] = IF i = id THEN NoTask ELSE tasks[i]
      /\ Present(tasks') = Present(tasks) \ {id}
  BY <1>1, <1>4 DEF Present
<1>6. FilesOK'
  BY <1>1, <1>4, <1>5 DEF FilesOK, Present
<1>7. GraphOK'
  <2>1. \A e \in edges : /\ {e[1], e[2]} \subseteq Present(tasks)
                         /\ tasks[e[1]].batch = tasks[e[2]].batch
    BY <1>1 DEF PlanInv, GraphOK, EndsOK
  <2>2. \A e \in edges : EndsOK(e)'
    BY <1>2, <1>3, <1>5, <2>1 DEF EndsOK, Present
  <2>3. LinkOK' /\ edges' = edges
    BY <1>1, <1>2, <1>3 DEF LinkOK, UnchangedEdges
  <2> QED
    BY <2>2, <2>3 DEF PlanInv, GraphOK
<1>8. BatchUse'
  <2>1. \A i \in Present(tasks') : i \in Present(tasks) /\ tasks'[i] = tasks[i]
    BY <1>5 DEF Present
  <2> QED
    BY <1>1, <1>2, <1>3, <2>1, BatchesKept DEF PlanInv, UnchangedBatches
<1> QED
  BY <1>6, <1>7, <1>8 DEF Planned

LEMMA UpdateCleanEdgesPlanned ==
  ASSUME PlanInv, Alone, UpdateCleanEdges(Lead) PROVE Planned'
<1>1. /\ now.pc = "clean" /\ now' = Idle /\ UnchangedTasks /\ UnchangedBatches
      /\ edges' = {e \in edges : e[1] # now.id /\ e[2] # now.id}
  BY OpOfLead DEF UpdateCleanEdges, SaveEdges, Done, Alone, now, PlanInv, Inv
<1>2. Dag(edges')
  BY <1>1, FewerEdges DEF PlanInv, Inv, EdgesOK, GraphOK
<1>3. \A e \in edges' : EndsOK(e)'
  BY <1>1 DEF PlanInv, GraphOK, EndsOK, UnchangedTasks
<1>4. GraphOK'
  BY <1>1, <1>2, <1>3, IdleFacts DEF GraphOK, LinkOK
<1>5. BatchUse'
  BY <1>1, IdleFacts, SameTasksShape, BatchesKept DEF PlanInv, UnchangedBatches
<1> QED
  BY <1>1, <1>4, <1>5, SameTasksShape DEF PlanInv, Planned

LEMMA EdgeStepPlanned ==
  ASSUME PlanInv, EdgeStep(Lead) PROVE Planned'
<1>1. PICK from \in Ids, to \in Ids : AddEdge(Lead, from, to) \/ RemoveEdge(Lead, from, to)
  BY DEF EdgeStep
<1>2. /\ now.pc = "idle" /\ now' = now /\ UnchangedTasks /\ UnchangedBatches
      /\ edges \in SUBSET Edge /\ Dag(edges)
  BY <1>1, FreeFacts DEF AddEdge, RemoveEdge, now, PlanInv, Inv, EdgesOK, GraphOK
<1>3. Dag(edges') /\ \A e \in edges' : EndsOK(e)'
  <2>1. CASE AddEdge(Lead, from, to)
    <3>1. /\ edges' = edges \cup {<<from, to>>} /\ ~HasPath(edges, to, from)
          /\ {from, to} \subseteq Present(tasks) /\ tasks[from].batch = tasks[to].batch
      BY <2>1 DEF AddEdge, SaveEdges
    <3>2. Dag(edges')
      BY <1>2, <3>1, OneMoreEdge
    <3>3. \A e \in edges : EndsOK(e)'
      BY <1>2 DEF PlanInv, GraphOK, EndsOK, UnchangedTasks
    <3>4. EndsOK(<<from, to>>)'
      BY <1>2, <3>1 DEF EndsOK, UnchangedTasks
    <3> QED
      BY <3>1, <3>2, <3>3, <3>4
  <2>2. CASE RemoveEdge(Lead, from, to)
    <3>1. edges' = edges \ {<<from, to>>}
      BY <2>2 DEF RemoveEdge, SaveEdges
    <3>2. Dag(edges')
      BY <1>2, <3>1, FewerEdges
    <3>3. \A e \in edges' : EndsOK(e)'
      BY <1>2, <3>1 DEF PlanInv, GraphOK, EndsOK, UnchangedTasks
    <3> QED
      BY <3>2, <3>3
  <2> QED
    BY <1>1, <2>1, <2>2
<1>4. GraphOK'
  BY <1>2, <1>3 DEF GraphOK, LinkOK
<1>5. BatchUse'
  BY <1>2, SameTasksShape, BatchesKept DEF PlanInv, UnchangedBatches
<1> QED
  BY <1>2, <1>4, <1>5, SameTasksShape DEF PlanInv, Planned

LEMMA NewRunPlanned ==
  ASSUME PlanInv, NewRun PROVE Planned'
<1>1. /\ now.pc = "idle" /\ now' = now /\ UnchangedTasks /\ UnchangedEdges
      /\ UNCHANGED minted /\ ref' = [ref EXCEPT ![Lead] = NoBatch]
  BY FreeFacts DEF NewRun, now
<1>2. ref'[Lead] = NoBatch
  BY <1>1 DEF PlanInv, Inv, BatchesOK
<1> QED
  BY <1>1, <1>2, SameTasksShape, CalmStep DEF PlanInv

\* Reset empties the board, since no removal fails.
LEMMA ResetPlanned ==
  ASSUME PlanInv, Alone, Reset PROVE Planned'
<1>1. /\ tasks' = files' /\ edges' = {} /\ UNCHANGED op /\ UnchangedBatches
      /\ files' = [i \in Ids |-> IF i \in Present(tasks) THEN NoTask ELSE files[i]]
  BY DEF Reset, Alone
<1>2. now.pc = "idle" /\ now' = now /\ ref[Lead] = NoBatch
  BY <1>1, FreeFacts DEF Reset, AtPrompt, now
<1>3. Present(tasks') = {}
  BY <1>1 DEF PlanInv, FilesOK, Present
<1>4. GraphOK'
  BY <1>1, <1>2 DEF GraphOK, Dag, LinkOK
<1>5. FilesOK' /\ BatchUse'
  BY <1>1, <1>2, <1>3 DEF FilesOK, BatchUse, UnchangedBatches
<1> QED
  BY <1>4, <1>5 DEF Planned

LEMMA IdlePlanned ==
  ASSUME PlanInv, UNCHANGED vars PROVE Planned'
<1>1. /\ UnchangedTasks /\ UnchangedEdges /\ UNCHANGED <<minted, ref>> /\ now' = now
  BY DEF vars, UnchangedTasks, UnchangedEdges, now
<1> QED
  BY <1>1, SameTasksShape, CalmStep DEF PlanInv, BatchUse

LEMMA AgentPlanned ==
  ASSUME PlanInv, Alone, AgentStep(Lead) PROVE Planned'
<1>1. CASE CreateStep(Lead)
  BY <1>1, TaskCreatePlanned, CreateForBatchPlanned, CreateReadsPlanned, CreateLinkPlanned
     DEF CreateStep
<1>2. CASE BatchStep(Lead)
  BY <1>2, StartSealPlanned, StartNewBatchPlanned DEF BatchStep, SpawnTeammate, WorkPhase
<1>3. CASE UpdateStep(Lead)
  BY <1>3, UpdateStatusPlanned, UpdateDeletePlanned, UpdateCleanEdgesPlanned DEF UpdateStep
<1>4. CASE ClaimStep(Lead)
  BY <1>4, ClaimStepPlanned
<1>5. CASE EdgeStep(Lead)
  BY <1>5, EdgeStepPlanned
<1> QED
  BY <1>1, <1>2, <1>3, <1>4, <1>5 DEF AgentStep

LEMMA PlanNextPlanned ==
  ASSUME PlanInv, Alone, [PlanNext]_vars PROVE Planned'
<1>1. CASE \E a \in Agents : AgentStep(a)
  BY <1>1, AgentPlanned DEF Alone
<1>2. CASE NewRun \/ Reset
  BY <1>2, NewRunPlanned, ResetPlanned
<1>3. CASE SealStep
  BY <1>3, StartSealPlanned, FinishSealPlanned DEF SealStep
<1>4. CASE UNCHANGED vars
  BY <1>4, IdlePlanned
<1> QED
  BY <1>1, <1>2, <1>3, <1>4 DEF PlanNext

LEMMA InitPlanned ==
  ASSUME Init PROVE Planned
<1>1. Present(tasks) = {} /\ edges = {} /\ now = Idle /\ ref[Lead] = NoBatch /\ files = tasks
  BY DEF Init, Present, now
<1> QED
  BY <1>1, IdleFacts DEF Planned, GraphOK, Dag, LinkOK, AtRest, FilesOK, BatchUse

\* Its inductive invariant, over the steps of one agent whose writes do not fail.
LEMMA PlanInvHolds ==
  ASSUME Alone PROVE PlanSpec => []PlanInv
<1>1. Init => PlanInv
  BY InitInv, InitPlanned DEF PlanInv, Planned
<1>2. PlanInv /\ [PlanNext]_vars => PlanInv'
  <2> SUFFICES ASSUME PlanInv, [PlanNext]_vars PROVE PlanInv'
    OBVIOUS
  <2>1. Inv'
    BY NextInv DEF PlanInv, PlanNext, Next
  <2>2. Planned'
    BY PlanNextPlanned
  <2> QED
    BY <2>1, <2>2 DEF PlanInv, Planned
<1> QED
  BY <1>1, <1>2, PTL DEF PlanSpec

\* The graph stays a plan through every way to create, link, seal and delete: while
\* the agent is between operations both ends of an edge are on the board and in one
\* batch, and at no time is there a cycle (CreateForBatch, AddEdge, Update).
THEOREM PlanIsDagHolds ==
  ASSUME Agents = {Lead}, ~IOFaults PROVE PlanSpec => []PlanIsDag
<1>1. PlanInv => PlanIsDag
  <2> SUFFICES ASSUME PlanInv PROVE PlanIsDag
    OBVIOUS
  <2>1. Acyclic
    BY DEF PlanInv, GraphOK, Dag, Acyclic
  <2>2. EdgesWithinBatch
    BY DEF PlanInv, GraphOK, EndsOK, EdgesWithinBatch, Quiet, now
  <2> QED
    BY <2>1, <2>2 DEF PlanIsDag
<1>2. Alone
  BY DEF Alone
<1> QED
  BY <1>1, <1>2, PlanInvHolds, PTL

\* A batch with pending tasks and none in progress has a task that is ready: the one
\* with the fewest tasks behind it, whose predecessors in the batch are all completed.
THEOREM PlanNeverStuckHolds ==
  ASSUME Agents = {Lead}, ~IOFaults PROVE PlanSpec => []PlanNeverStuck
<1>1. PlanInv => PlanNeverStuck
  <2> SUFFICES ASSUME PlanInv, Quiet, NEW b \in Batches, Stuck(b) PROVE FALSE
    BY DEF PlanNeverStuck
  <2> DEFINE of(st) == {i \in Present(tasks) : tasks[i].batch = b /\ tasks[i].status = st}
  <2>1. /\ of("pending") # {} /\ of("in_progress") = {}
        /\ \A i \in of("pending") : i \notin ReadyTasks(tasks, edges)
    BY DEF Stuck
  <2>2. edges \in SUBSET Edge /\ Dag(edges) /\ of("pending") \in SUBSET Ids
    BY DEF PlanInv, Inv, EdgesOK, GraphOK, Present
  <2>3. PICK i \in of("pending") : \A e \in edges : e[2] = i => e[1] \notin of("pending")
    <3> HIDE DEF of
    <3> QED
      BY <2>1, <2>2, FirstOfSome
  <2>4. ASSUME NEW e \in edges, e[2] = i PROVE e[1] \in Completed(tasks)
    <3>1. /\ e[1] \in Present(tasks) /\ e[2] \in Present(tasks)
          /\ tasks[e[1]].batch = tasks[e[2]].batch
      BY DEF PlanInv, GraphOK, EndsOK, Quiet, now
    <3>2. tasks[e[1]].batch = b
      BY <2>3, <2>4, <3>1
    <3>3. tasks[e[1]].status \notin {"pending", "in_progress", "deleted"}
      BY <2>1, <2>3, <2>4, <3>1, <3>2 DEF PlanInv, FilesOK
    <3>4. tasks[e[1]].status \in Statuses
      BY <3>1, PresentTask DEF PlanInv, Inv, Task
    <3> QED
      BY <3>1, <3>3, <3>4 DEF Completed, Statuses
  <2>5. i \in ReadyTasks(tasks, edges)
    BY <2>3, <2>4 DEF ReadyTasks
  <2> QED
    BY <2>1, <2>3, <2>5
<1>2. Alone
  BY DEF Alone
<1> QED
  BY <1>1, <1>2, PlanInvHolds, PTL

-----------------------------------------------------------------------------
(* Only task_create puts a task on the board. *)

NoNewTask == \A i \in Ids : tasks[i] = NoTask => tasks'[i] = NoTask

LEMMA AgentAddsNoTask ==
  ASSUME PlanInv, Alone, AgentStep(Lead), ~CreateForBatch(Lead) PROVE NoNewTask
<1>1. tasks \in [Ids -> Task \cup {NoTask}]
  BY DEF PlanInv, Inv, BoardOK
<1>2. ASSUME NEW id \in Present(tasks), NEW t, Save(id, t) PROVE NoNewTask
  BY <1>1, <1>2 DEF NoNewTask, Save, Present
<1>3. CASE CreateStep(Lead)
  BY <1>3 DEF CreateStep, TaskCreate, CreateReadIDs, CreateReadEdges, CreateLink,
     UnchangedTasks, NoNewTask
<1>4. CASE BatchStep(Lead)
  <2>1. CASE TaskCreateNewPlan(Lead)
    BY <2>1 DEF TaskCreateNewPlan, UnchangedTasks, NoNewTask
  <2>2. CASE StartNewBatch(Lead)
    BY <1>1, <2>2, SealShape DEF StartNewBatch, SameShape, Present, NoNewTask
  <2> QED
    BY <1>4, <2>1, <2>2 DEF BatchStep, SpawnTeammate, WorkPhase
<1>5. CASE UpdateStep(Lead)
  <2>1. ASSUME NEW id \in Ids, NEW status \in Statuses, UpdateStatus(Lead, id, status)
        PROVE  NoNewTask
    BY <1>2, <2>1 DEF UpdateStatus
  <2>2. ASSUME NEW id \in Ids, UpdateDelete(Lead, id) PROVE NoNewTask
    BY <1>1, <2>2 DEF UpdateDelete, NoNewTask
  <2>3. CASE UpdateCleanEdges(Lead)
    BY <2>3 DEF UpdateCleanEdges, UnchangedTasks, NoNewTask
  <2> QED
    BY <1>5, <2>1, <2>2, <2>3 DEF UpdateStep
<1>6. CASE ClaimStep(Lead)
  <2>1. ASSUME NEW id \in Ids, ~ClaimRefused(Lead, id), DoClaim(Lead, id) PROVE NoNewTask
    BY <1>2, <2>1 DEF ClaimRefused, DoClaim
  <2>2. CASE IdleClaim(Lead)
    <3>1. CASE UnchangedTasks
      BY <3>1 DEF UnchangedTasks, NoNewTask
    <3>2. CASE ~ClaimRefused(Lead, op[Lead].id) /\ DoClaim(Lead, op[Lead].id)
      BY <2>1, <3>2 DEF ClaimRefused, Present
    <3> QED
      BY <2>2, <3>1, <3>2 DEF IdleClaim
  <2> QED
    BY <1>6, <2>1, <2>2 DEF ClaimStep, Claim, IdleScan
<1>7. CASE EdgeStep(Lead)
  BY <1>7 DEF EdgeStep, AddEdge, RemoveEdge, UnchangedTasks, NoNewTask
<1> QED
  BY <1>3, <1>4, <1>5, <1>6, <1>7 DEF AgentStep

LEMMA CommandsAddNoTask ==
  ASSUME PlanInv, Alone, NewRun \/ SealStep \/ Reset \/ UNCHANGED vars PROVE NoNewTask
<1>1. CASE NewRun \/ SealActiveBatch \/ UNCHANGED vars
  BY <1>1 DEF NewRun, SealActiveBatch, UnchangedTasks, vars, NoNewTask
<1>2. CASE FinishSealActiveBatch
  BY <1>2, SealShape DEF FinishSealActiveBatch, SameShape, Present, NoNewTask
<1>3. CASE Reset
  BY <1>3 DEF Reset, PlanInv, FilesOK, NoNewTask
<1> QED
  BY <1>1, <1>2, <1>3 DEF SealStep

LEMMA CreatesInOpenBatch ==
  ASSUME PlanInv, CreateForBatch(Lead), NEW b \in SealedBatches(tasks)
  PROVE  SealedClosed(b)
<1> SUFFICES ASSUME NEW i \in Ids, tasks[i] = NoTask, tasks'[i] # NoTask
             PROVE  tasks'[i].batch # b
  BY DEF SealedClosed
<1> DEFINE t == [status |-> "pending", owner |-> NoAgent, batch |-> op[Lead].batch,
                 sealed |-> FALSE]
<1>1. PICK id \in Ids : Save(id, t)
  BY DEF CreateForBatch, UnchangedTasks
<1>2. t.batch = op[Lead].batch
  OBVIOUS
<1>3. tasks' = [tasks EXCEPT ![id] = t] /\ tasks \in [Ids -> Task \cup {NoTask}]
  BY <1>1 DEF Save, PlanInv, Inv, BoardOK
<1> HIDE DEF t
<1>4. tasks'[i] = t
  BY <1>3
<1>5. op[Lead].batch \notin SealedBatches(tasks)
  BY DEF CreateForBatch, PlanInv, BatchUse, OpenBatch, now
<1> QED
  BY <1>2, <1>4, <1>5

\* A sealed batch is closed for good to one agent whose writes do not fail, for any
\* number of tasks and batches: the batch that its task_create resolves is none that
\* its own new_plan or the user's /task new has sealed (resolveTaskBatch, activeBatch,
\* StartNewBatch).  Of a reference that another agent has resolved it says nothing.
THEOREM SealedBatchClosedHolds ==
  ASSUME Agents = {Lead}, ~IOFaults PROVE PlanSpec => SealedBatchClosed
<1>1. Alone
  BY DEF Alone
<1>2. PlanInv /\ [PlanNext]_vars => [\A b \in SealedBatches(tasks) : SealedClosed(b)]_vars
  <2> SUFFICES ASSUME PlanInv, [PlanNext]_vars, NEW b \in SealedBatches(tasks)
               PROVE  SealedClosed(b)
    OBVIOUS
  <2>1. CASE CreateForBatch(Lead)
    BY <2>1, CreatesInOpenBatch
  <2>2. CASE ~CreateForBatch(Lead)
    <3>1. NoNewTask
      BY <1>1, <2>2, AgentAddsNoTask, CommandsAddNoTask DEF PlanNext, Alone
    <3> QED
      BY <3>1 DEF NoNewTask, SealedClosed
  <2> QED
    BY <2>1, <2>2
<1> QED
  BY <1>1, <1>2, PlanInvHolds, PTL DEF PlanSpec, SealedBatchClosed

-----------------------------------------------------------------------------
(***************************************************************************)
(* The task board implements ClaimRegistry, for any set of agents and any  *)
(* number of tasks and batches: each step is a step of the registry or     *)
(* leaves it alone.  The refinement mapping reads the board from the cache *)
(* and the attic from the files, so it needs the invariant above, which    *)
(* says that the files back the cache.                                     *)
(***************************************************************************)

USE NoItemAssumption

Stutters == UNCHANGED <<BoardItems, AtticItems>>
Simulated == Registry!Next \/ Stutters

LEMMA ItemOfTask ==
  ASSUME NEW t \in Task
  PROVE  /\ ItemOf(t) = [group |-> t.batch, owner |-> t.owner, closed |-> t.sealed]
         /\ ItemOf(t) \in Registry!Item /\ ItemOf(t) # NoTask
<1>1. ItemOf(t) = [group |-> t.batch, owner |-> t.owner, closed |-> t.sealed]
  BY DEF ItemOf
<1>2. ItemOf(t) \in Registry!Item
  BY <1>1 DEF Task, Registry!Item
<1> QED
  BY <1>1, <1>2

LEMMA ItemOfNoTask == ItemOf(NoTask) = NoTask
  BY DEF ItemOf

LEMMA PostedIsPresent == ASSUME BoardOK PROVE Registry!Posted = Present(tasks)
<1>1. \A i \in Ids : tasks[i] # NoTask => ItemOf(tasks[i]) # NoTask
  BY ItemOfTask DEF BoardOK
<1> QED
  BY <1>1, ItemOfNoTask DEF Registry!Posted, BoardItems, Present

LEMMA SameTasks == ASSUME UnchangedTasks PROVE Stutters
  BY DEF Stutters, UnchangedTasks, BoardItems, AtticItems

\* What the registry sees of a task saved under an id: the board changes at that
\* id, and nothing of it stays in the attic.
LEMMA SavedItem ==
  ASSUME BoardOK, NEW id \in Ids, NEW t \in Task, Save(id, t)
  PROVE  /\ BoardItems' = [BoardItems EXCEPT ![id] = ItemOf(t)]
         /\ AtticItems' = [AtticItems EXCEPT ![id] = NoTask]
<1>1. tasks' = [tasks EXCEPT ![id] = t] /\ files' = [files EXCEPT ![id] = t]
  BY DEF Save
<1>2. \A i \in Ids : /\ tasks'[i] = IF i = id THEN t ELSE tasks[i]
                     /\ files'[i] = IF i = id THEN t ELSE files[i]
  BY <1>1 DEF BoardOK
<1>3. BoardItems' = [i \in Ids |-> ItemOf(tasks'[i])]
  BY DEF BoardItems, ItemOf
<1>4. AtticItems' = [i \in Ids |-> IF tasks'[i] = NoTask THEN ItemOf(files'[i]) ELSE NoTask]
  BY DEF AtticItems, ItemOf
<1>5. BoardItems' = [BoardItems EXCEPT ![id] = ItemOf(t)]
  BY <1>2, <1>3 DEF BoardItems
<1>6. AtticItems' = [AtticItems EXCEPT ![id] = NoTask]
  BY <1>2, <1>4, NoTaskAssumption DEF AtticItems
<1> QED
  BY <1>5, <1>6

\* A present task has nothing in the attic.
LEMMA AtticOfPresent ==
  ASSUME NEW id \in Present(tasks)
  PROVE  AtticItems = [AtticItems EXCEPT ![id] = NoTask]
  BY DEF AtticItems, Present

LEMMA PostRefines ==
  ASSUME BoardOK, NEW id \in Ids, tasks[id] = NoTask, NEW b \in Batches,
         Save(id, [status |-> "pending", owner |-> NoAgent, batch |-> b, sealed |-> FALSE])
  PROVE  Simulated
<1> DEFINE t == [status |-> "pending", owner |-> NoAgent, batch |-> b, sealed |-> FALSE]
<1>1. t \in Task
  BY DEF Task, Statuses
<1>2. ItemOf(t) = [group |-> b, owner |-> NoAgent, closed |-> FALSE]
  BY <1>1, ItemOfTask
<1>3. id \notin Registry!Posted
  BY PostedIsPresent DEF Present
<1>4. Registry!Post(id, b)
  BY <1>1, <1>2, <1>3, SavedItem DEF Registry!Post
<1> QED
  BY <1>4 DEF Simulated, Registry!Next

LEMMA TakeRefines ==
  ASSUME BoardOK, NEW a \in Agents, NEW id \in Ids, ~ClaimRefused(a, id), DoClaim(a, id)
  PROVE  Simulated
<1> DEFINE t == [tasks[id] EXCEPT !.owner = a, !.status = "in_progress"]
<1>1. id \in Present(tasks) /\ tasks[id] \in Task /\ tasks[id].owner \in {NoAgent, a}
  BY PresentTask DEF ClaimRefused
<1>2. t \in Task
  BY <1>1 DEF Task, Statuses
<1>3. ItemOf(t) = [BoardItems[id] EXCEPT !.owner = a]
  <2>1. /\ BoardItems[id] = [group |-> tasks[id].batch, owner |-> tasks[id].owner,
                             closed |-> tasks[id].sealed]
        /\ ItemOf(t) = [group |-> t.batch, owner |-> t.owner, closed |-> t.sealed]
    BY <1>1, <1>2, ItemOfTask DEF BoardItems, Present
  <2>2. t.batch = tasks[id].batch /\ t.owner = a /\ t.sealed = tasks[id].sealed
    BY <1>1 DEF Task
  <2> QED
    BY <2>1, <2>2
<1>4. BoardItems' = [BoardItems EXCEPT ![id].owner = a] /\ AtticItems' = AtticItems
  BY <1>1, <1>2, <1>3, SavedItem, AtticOfPresent DEF DoClaim
<1>5. id \in Registry!Posted /\ BoardItems[id].owner \in {NoAgent, a}
  BY <1>1, PostedIsPresent, ItemOfTask DEF BoardItems
<1>6. Registry!Take(id, a)
  BY <1>4, <1>5 DEF Registry!Take
<1> QED
  BY <1>6 DEF Simulated, Registry!Next

LEMMA ClosedItem ==
  ASSUME NEW g, NEW o, NEW c, NEW d, NEW r, r = [group |-> g, owner |-> o, closed |-> c]
  PROVE  [r EXCEPT !.closed = d] = [group |-> g, owner |-> o, closed |-> d]
  OBVIOUS

LEMMA SealRefines ==
  ASSUME BoardOK, NEW b, SealBatch(b)
  PROVE  Simulated
<1>1. PICK failed \in SUBSET Ids :
        LET Sealed(T) == [i \in Ids |->
              IF /\ i \in Present(tasks) \ failed
                 /\ tasks[i].batch = b /\ tasks[i].status # "deleted"
              THEN [tasks[i] EXCEPT !.sealed = TRUE] ELSE T[i]]
        IN tasks' = Sealed(tasks) /\ files' = Sealed(files)
  BY DEF SealBatch
<1> DEFINE S == {i \in Present(tasks) \ failed :
                   tasks[i].batch = b /\ tasks[i].status # "deleted"}
<1>2. \A i \in Ids : /\ tasks'[i] = IF i \in S THEN [tasks[i] EXCEPT !.sealed = TRUE] ELSE tasks[i]
                     /\ files'[i] = IF i \in S THEN [tasks[i] EXCEPT !.sealed = TRUE] ELSE files[i]
  BY <1>1
<1>3. \A i \in S : /\ tasks[i] \in Task /\ tasks[i] # NoTask
                   /\ [tasks[i] EXCEPT !.sealed = TRUE] \in Task
                   /\ ItemOf([tasks[i] EXCEPT !.sealed = TRUE])
                        = [ItemOf(tasks[i]) EXCEPT !.closed = TRUE]
  <2>1. SUFFICES ASSUME NEW i \in S
                 PROVE  /\ tasks[i] \in Task /\ tasks[i] # NoTask
                        /\ [tasks[i] EXCEPT !.sealed = TRUE] \in Task
                        /\ ItemOf([tasks[i] EXCEPT !.sealed = TRUE])
                             = [ItemOf(tasks[i]) EXCEPT !.closed = TRUE]
    OBVIOUS
  <2>2. tasks[i] \in Task /\ tasks[i] # NoTask
    BY PresentTask
  <2>3. [tasks[i] EXCEPT !.sealed = TRUE] \in Task
    BY <2>2 DEF Task
  <2>4. ItemOf(tasks[i]) = [group |-> tasks[i].batch, owner |-> tasks[i].owner,
                             closed |-> tasks[i].sealed]
    BY <2>2, ItemOfTask
  <2>5. ItemOf([tasks[i] EXCEPT !.sealed = TRUE])
          = [group |-> tasks[i].batch, owner |-> tasks[i].owner, closed |-> TRUE]
    <3> DEFINE t == [tasks[i] EXCEPT !.sealed = TRUE]
    <3>1. t.batch = tasks[i].batch /\ t.owner = tasks[i].owner /\ t.sealed = TRUE
      BY <2>2 DEF Task
    <3>2. ItemOf(t) = [group |-> t.batch, owner |-> t.owner, closed |-> t.sealed]
      BY <2>3, ItemOfTask
    <3> QED
      BY <3>1, <3>2
  <2>6. [ItemOf(tasks[i]) EXCEPT !.closed = TRUE]
          = [group |-> tasks[i].batch, owner |-> tasks[i].owner, closed |-> TRUE]
    <3>1. \A d : [ItemOf(tasks[i]) EXCEPT !.closed = d]
                   = [group |-> tasks[i].batch, owner |-> tasks[i].owner, closed |-> d]
      BY <2>4, ClosedItem
    <3> QED
      BY <3>1, Zenon
  <2>7. ItemOf([tasks[i] EXCEPT !.sealed = TRUE]) = [ItemOf(tasks[i]) EXCEPT !.closed = TRUE]
    BY <2>5, <2>6, Zenon
  <2> HIDE DEF S
  <2> QED
    BY <2>2, <2>3, <2>7, Zenon
<1>4. \A i \in Ids : ItemOf(tasks'[i]) =
        IF i \in S THEN [BoardItems[i] EXCEPT !.closed = TRUE] ELSE BoardItems[i]
  BY <1>2, <1>3 DEF BoardItems, Present
<1>5. BoardItems' = [i \in Ids |-> ItemOf(tasks'[i])]
  BY DEF BoardItems, ItemOf
<1>6. BoardItems' = [i \in Ids |-> IF i \in S THEN [BoardItems[i] EXCEPT !.closed = TRUE]
                                   ELSE BoardItems[i]]
  <2> HIDE DEF S
  <2> QED BY <1>4, <1>5
<1>7. AtticItems' = AtticItems
  <2>1. AtticItems' = [i \in Ids |-> IF tasks'[i] = NoTask THEN ItemOf(files'[i]) ELSE NoTask]
    BY DEF AtticItems, ItemOf
  <2>2. \A i \in S : tasks[i] # NoTask /\ [tasks[i] EXCEPT !.sealed = TRUE] # NoTask
    BY <1>3, NoTaskAssumption
  <2>3. \A i \in Ids : (IF tasks'[i] = NoTask THEN ItemOf(files'[i]) ELSE NoTask)
                         = IF tasks[i] = NoTask THEN ItemOf(files[i]) ELSE NoTask
    <3> HIDE DEF S
    <3> QED BY <1>2, <2>2
  <2> QED
    BY <2>1, <2>3 DEF AtticItems
<1>8. S \subseteq Registry!Posted /\ S \in SUBSET Ids
  BY PostedIsPresent DEF Present
<1>9. Registry!Close(S)
  BY <1>6, <1>7, <1>8 DEF Registry!Close
<1> QED
  BY <1>8, <1>9 DEF Simulated, Registry!Next

\* A saved task that keeps batch, owner and seal is the same item.
LEMMA StatusInvisible ==
  ASSUME BoardOK, NEW id \in Present(tasks), NEW status \in Statuses,
         Save(id, [tasks[id] EXCEPT !.status = status])
  PROVE  Stutters
<1>1. id \in Ids /\ tasks[id] \in Task /\ [tasks[id] EXCEPT !.status = status] \in Task
  BY PresentTask DEF Task
<1>2. ItemOf([tasks[id] EXCEPT !.status = status]) = BoardItems[id]
  BY <1>1, ItemOfTask DEF BoardItems, Task
<1>3. BoardItems' = [BoardItems EXCEPT ![id] = BoardItems[id]]
      /\ AtticItems' = [AtticItems EXCEPT ![id] = NoTask]
  BY <1>1, <1>2, SavedItem
<1>4. BoardItems' = BoardItems
  BY <1>1, <1>3 DEF BoardItems
<1> QED
  BY <1>3, <1>4, AtticOfPresent DEF Stutters

\* A deleted task may leave its file behind.
LEMMA DeleteRefines ==
  ASSUME BoardOK, NEW id \in Present(tasks), tasks' = [tasks EXCEPT ![id] = NoTask],
         files' = [files EXCEPT ![id] = NoTask] \/ UNCHANGED files
  PROVE  Simulated
<1>1. id \in Ids /\ files[id] = tasks[id] /\ id \in Registry!Posted
  BY PresentTask, PostedIsPresent DEF BoardOK
<1>2. \A i \in Ids : tasks'[i] = IF i = id THEN NoTask ELSE tasks[i]
  BY DEF BoardOK
<1>3. \A i \in Ids : i # id => files'[i] = files[i]
  BY DEF BoardOK
<1>4. files'[id] \in {NoTask, tasks[id]}
  BY <1>1 DEF BoardOK
<1>5. BoardItems' = [i \in Ids |-> ItemOf(tasks'[i])]
  BY DEF BoardItems, ItemOf
<1>6. AtticItems' = [i \in Ids |-> IF tasks'[i] = NoTask THEN ItemOf(files'[i]) ELSE NoTask]
  BY DEF AtticItems, ItemOf
<1>7. BoardItems' = [BoardItems EXCEPT ![id] = NoTask]
  <2>1. \A i \in Ids : ItemOf(tasks'[i]) = IF i = id THEN NoTask ELSE BoardItems[i]
    BY <1>2, ItemOfNoTask DEF BoardItems
  <2> QED
    BY <1>5, <2>1 DEF BoardItems
<1>8. \A i \in Ids : i # id => AtticItems'[i] = AtticItems[i]
  BY <1>2, <1>3, <1>6 DEF AtticItems
<1>9. AtticItems'[id] \in {NoTask, BoardItems[id]}
  BY <1>1, <1>2, <1>4, <1>6, ItemOfNoTask DEF BoardItems
<1>10. AtticItems[id] = NoTask
  BY <1>1 DEF AtticItems, Present
<1>11. AtticItems' \in {AtticItems, [AtticItems EXCEPT ![id] = BoardItems[id]]}
  <2>1. AtticItems = [i \in Ids |-> AtticItems[i]] /\ AtticItems' = [i \in Ids |-> AtticItems'[i]]
    BY <1>6 DEF AtticItems
  <2>2. CASE AtticItems'[id] = NoTask
    BY <1>8, <1>10, <2>1, <2>2
  <2>3. CASE AtticItems'[id] = BoardItems[id]
    BY <1>1, <1>8, <2>1, <2>3
  <2> QED
    BY <1>9, <2>2, <2>3
<1>12. Registry!Remove(id)
  BY <1>1, <1>7, <1>11 DEF Registry!Remove
<1> QED
  BY <1>1, <1>12 DEF Simulated, Registry!Next

\* Files outlive the cache: those that were not removed are the new board.
LEMMA ReloadRefines ==
  ASSUME BoardOK, NEW S \in SUBSET Present(tasks), tasks' = files',
         files' = [i \in Ids |-> IF i \in S THEN NoTask ELSE files[i]]
  PROVE  Simulated
<1>1. \A i \in Ids : /\ tasks'[i] = IF i \in S THEN NoTask ELSE files[i]
                     /\ files'[i] = tasks'[i]
  OBVIOUS
<1>2. \A i \in Present(tasks) : i \in Ids /\ files[i] = tasks[i]
  BY DEF BoardOK, Present
<1>3. BoardItems' = [i \in Ids |-> ItemOf(tasks'[i])]
  BY DEF BoardItems, ItemOf
<1>4. \A i \in Ids : ItemOf(tasks'[i]) =
        IF i \in S THEN NoTask ELSE IF i \in Present(tasks) THEN BoardItems[i] ELSE AtticItems[i]
  BY <1>1, <1>2, ItemOfNoTask DEF BoardItems, AtticItems, Present
<1>5. AtticItems' = [i \in Ids |-> IF tasks'[i] = NoTask THEN ItemOf(files'[i]) ELSE NoTask]
  BY DEF AtticItems, ItemOf
<1>6. AtticItems' = [i \in Ids |-> NoTask]
  BY <1>1, <1>5, ItemOfNoTask
<1>7. BoardItems' = [i \in Ids |-> IF i \in S THEN NoTask
                                  ELSE IF i \in Present(tasks) THEN BoardItems[i] ELSE AtticItems[i]]
  BY <1>3, <1>4
<1>8. Registry!Recover(S)
  BY <1>6, <1>7, PostedIsPresent DEF Registry!Recover
<1>9. S \in SUBSET Ids
  BY DEF Present
<1> QED
  BY <1>8, <1>9 DEF Simulated, Registry!Next

\* /task clear changes the status of several tasks, and nothing else of them.
LEMMA ClearRefines ==
  ASSUME BoardOK, ClearCompleted
  PROVE  Stutters
<1>1. PICK last \in Ids :
        LET Cleared(T) == [i \in Ids |->
              IF i \in Completed(tasks) /\ i <= last
              THEN [tasks[i] EXCEPT !.status = "deleted"] ELSE T[i]]
        IN tasks' = Cleared(tasks) /\ files' = Cleared(files)
  BY DEF ClearCompleted
<1> DEFINE C == {i \in Completed(tasks) : i <= last}
<1>2. \A i \in Ids :
        /\ tasks'[i] = IF i \in C THEN [tasks[i] EXCEPT !.status = "deleted"] ELSE tasks[i]
        /\ files'[i] = IF i \in C THEN [tasks[i] EXCEPT !.status = "deleted"] ELSE files[i]
  BY <1>1
<1>3. ASSUME NEW i \in C
      PROVE  /\ tasks[i] # NoTask /\ [tasks[i] EXCEPT !.status = "deleted"] # NoTask
             /\ ItemOf([tasks[i] EXCEPT !.status = "deleted"]) = ItemOf(tasks[i])
  <2>1. tasks[i] \in Task /\ tasks[i] # NoTask
    BY PresentTask DEF Completed
  <2>2. [tasks[i] EXCEPT !.status = "deleted"] \in Task
    BY <2>1 DEF Task, Statuses
  <2> QED
    BY <2>1, <2>2, ItemOfTask DEF Task
<1> HIDE DEF C
<1>4. \A i \in Ids : ItemOf(tasks'[i]) = ItemOf(tasks[i])
  BY <1>2, <1>3
<1>5. \A i \in Ids : (IF tasks'[i] = NoTask THEN ItemOf(files'[i]) ELSE NoTask)
                      = IF tasks[i] = NoTask THEN ItemOf(files[i]) ELSE NoTask
  BY <1>2, <1>3
<1>6. BoardItems' = [i \in Ids |-> ItemOf(tasks'[i])]
  BY DEF BoardItems, ItemOf
<1>7. AtticItems' = [i \in Ids |-> IF tasks'[i] = NoTask THEN ItemOf(files'[i]) ELSE NoTask]
  BY DEF AtticItems, ItemOf
<1> QED
  BY <1>4, <1>5, <1>6, <1>7 DEF Stutters, BoardItems, AtticItems

-----------------------------------------------------------------------------
(* The steps. *)

LEMMA CreateAndBatchRefine ==
  ASSUME Inv, NEW a \in Agents, CreateStep(a) \/ BatchStep(a)
  PROVE  Simulated
<1> USE DEF Inv
<1>1. CASE CreateForBatch(a)
  <2>1. CASE UnchangedTasks
    BY <2>1, SameTasks DEF Simulated
  <2>2. ASSUME NEW id \in Ids, IsNextID(id), op[a].batch \in Batches,
               Save(id, [status |-> "pending", owner |-> NoAgent,
                         batch |-> op[a].batch, sealed |-> FALSE])
        PROVE  Simulated
    BY <2>2, NextIDFree, PostRefines
  <2>3. op[a].batch \in Batches
    BY <1>1 DEF CreateForBatch, OpsOK, Op
  <2> HIDE DEF Inv
  <2>4. UnchangedTasks \/ \E id \in Ids :
          /\ IsNextID(id)
          /\ Save(id, [status |-> "pending", owner |-> NoAgent,
                       batch |-> op[a].batch, sealed |-> FALSE])
    BY <1>1 DEF CreateForBatch
  <2> QED
    BY <2>1, <2>2, <2>3, <2>4
<1>2. CASE StartNewBatch(a)
  BY <1>2, SealRefines DEF StartNewBatch
<1>3. CASE UnchangedTasks
  BY <1>3, SameTasks DEF Simulated
<1> QED
  BY <1>1, <1>2, <1>3 DEF CreateStep, BatchStep, TaskCreate, CreateReadIDs, CreateReadEdges,
     CreateLink, SpawnTeammate, WorkPhase, TaskCreateNewPlan

LEMMA UpdateRefines ==
  ASSUME Inv, NEW a \in Agents, UpdateStep(a)
  PROVE  Simulated
<1> USE DEF Inv
<1>1. ASSUME NEW id \in Ids, NEW status \in Statuses, UpdateStatus(a, id, status)
      PROVE  Simulated
  BY <1>1, StatusInvisible DEF UpdateStatus, Simulated
<1>2. ASSUME NEW id \in Ids, UpdateDelete(a, id)
      PROVE  Simulated
  BY <1>2, DeleteRefines DEF UpdateDelete
<1>3. CASE UpdateCleanEdges(a)
  BY <1>3, SameTasks DEF UpdateCleanEdges, Simulated
<1> QED
  BY <1>1, <1>2, <1>3 DEF UpdateStep

LEMMA ClaimAndEdgeRefine ==
  ASSUME Inv, NEW a \in Agents, ClaimStep(a) \/ EdgeStep(a)
  PROVE  Simulated
<1> USE DEF Inv
<1>1. ASSUME NEW id \in Ids, Claim(a, id)
      PROVE  Simulated
  BY <1>1, TakeRefines DEF Claim
<1>2. CASE IdleClaim(a) /\ ~UnchangedTasks
  <2>1. ~ClaimRefused(a, op[a].id) /\ DoClaim(a, op[a].id)
    BY <1>2 DEF IdleClaim
  <2>2. op[a].id \in Ids
    BY <2>1 DEF ClaimRefused, Present
  <2> QED
    BY <2>1, <2>2, TakeRefines
<1>3. CASE UnchangedTasks
  BY <1>3, SameTasks DEF Simulated
<1> QED
  BY <1>1, <1>2, <1>3 DEF ClaimStep, EdgeStep, IdleScan, AddEdge, RemoveEdge

LEMMA CommandsRefine ==
  ASSUME Inv, NewRun \/ SealStep \/ ClearCompleted \/ Reset \/ Crash
  PROVE  Simulated
<1> USE DEF Inv
<1>1. CASE UnchangedTasks
  BY <1>1, SameTasks DEF Simulated
<1>2. CASE FinishSealActiveBatch
  BY <1>2, SealRefines DEF FinishSealActiveBatch
<1>3. CASE ClearCompleted
  BY <1>3, ClearRefines DEF Simulated
<1>4. CASE Reset
  <2>1. PICK kept \in SUBSET Ids :
          files' = [i \in Ids |-> IF i \in Present(tasks) \ kept THEN NoTask ELSE files[i]]
    BY <1>4 DEF Reset
  <2>2. tasks' = files'
    BY <1>4 DEF Reset
  <2> QED
    BY <2>1, <2>2, ReloadRefines
<1>5. CASE Crash
  <2>1. tasks' = files' /\ files' = files
    BY <1>5 DEF Crash
  <2>2. files' = [i \in Ids |-> IF i \in {} THEN NoTask ELSE files[i]]
    BY <2>1 DEF BoardOK
  <2>3. {} \in SUBSET Present(tasks)
    OBVIOUS
  <2> HIDE DEF Inv
  <2>4. BoardOK
    BY DEF Inv
  <2> QED
    BY <2>1, <2>2, <2>3, <2>4, ReloadRefines
<1> QED
  BY <1>1, <1>2, <1>3, <1>4, <1>5 DEF NewRun, SealStep, SealActiveBatch

LEMMA NextRefines ==
  Inv /\ [Next]_vars => [Registry!Next]_<<BoardItems, AtticItems>>
<1> SUFFICES ASSUME Inv, [Next]_vars PROVE Simulated
  BY DEF Simulated, Stutters
<1>1. CASE UNCHANGED vars
  BY <1>1, SameTasks DEF vars, Simulated, UnchangedTasks
<1>2. CASE Next
  BY <1>2, CreateAndBatchRefine, UpdateRefines, ClaimAndEdgeRefine, CommandsRefine
     DEF Next, AgentStep
<1> QED
  BY <1>1, <1>2

LEMMA InitRefines == Init => Registry!Init
  BY ItemOfNoTask DEF Init, Registry!Init, BoardItems, AtticItems

\* The Service of internal/task keeps what ClaimRegistry promises: an item is
\* never posted over, taken from its owner or reopened, in every interleaving of
\* its operations with failing writes, crashes and reloads.
THEOREM RegistryImplemented == Spec => ImplementsRegistry
<1>1. Init => Registry!Init
  BY InitRefines
<1>2. Inv /\ [Next]_vars => [Registry!Next]_(Registry!vars)
  BY NextRefines DEF Registry!vars
<1> QED
  BY <1>1, <1>2, SpecInv, PTL DEF Spec, ImplementsRegistry, Registry!Spec
=============================================================================
