----------------------------- MODULE TaskBoard -----------------------------
(***************************************************************************)
(* The persistent task board of internal/task/service.go: tasks stored one *)
(* JSON file each with a write-through cache, the dependency edges in one  *)
(* file, and DAG batches.  The lead and the teammates share one Service.   *)
(*                                                                         *)
(* Every critical section of s.mu is one atomic action.  What the code     *)
(* does outside s.mu (resolving a batch, reading the ids and edges that a  *)
(* task_create links to, the teammate's scan of the task files) and what   *)
(* it does in a second critical section (cleaning the edges of a deleted   *)
(* task) is a step of its own, its intermediate values kept in op[a].      *)
(***************************************************************************)
EXTENDS Naturals, FiniteSets

CONSTANTS
  Agents,    \* names that own tasks: the lead and the teammates
  Lead,      \* the lead agent, on whose goroutine the REPL commands run too
  MaxTasks,  \* bound: task ids are 1..MaxTasks
  Batches,   \* bound: the ids NewBatchID can hand out
  NoAgent,   \* "owner": nil
  NoBatch,   \* the empty batch id
  NoTask,    \* no such file or cache entry
  IOFaults   \* whether file writes and removals may fail

ASSUME TaskBoardAssumption ==
  /\ Lead \in Agents
  /\ NoAgent \notin Agents
  /\ NoBatch \notin Batches
  /\ MaxTasks \in Nat
  /\ IOFaults \in BOOLEAN

Ids == 1..MaxTasks
Statuses == {"pending", "in_progress", "completed", "deleted"}
Edge == Ids \X Ids
Task == [status : Statuses, owner : Agents \cup {NoAgent},
         batch : Batches, sealed : BOOLEAN]

ASSUME NoTaskAssumption == NoTask \notin Task

VARIABLES
  files,     \* the task_<id>.json files
  tasks,     \* Service.cache, reloaded from files by ensureCache
  edgesFile, \* dag_edges.json
  edges,     \* Service.edges, reloaded from edgesFile by loadEdges
  minted,    \* batch id -> the agent it was made for (the id's prefix)
  ref,       \* each agent's TaskBatchRef
  pin,       \* the batch a teammate was spawned with
  op         \* the operation each agent is in the middle of

vars == <<files, tasks, edgesFile, edges, minted, ref, pin, op>>

(***************************************************************************)
(* Operations in progress.  "seal" and "sealOnly" hold the batch that      *)
(* activeBatch returned, "save" the batch a task is created in, "ids",     *)
(* "edges" and "link" are the stations of linking the created task, "clean"*)
(* has removed a task and not its edges, "claim" has seen a claimable file.*)
(***************************************************************************)
Stations == {"idle", "seal", "sealOnly", "save", "ids", "edges", "link",
             "clean", "claim"}
Op ==
  {o \in [pc : Stations, id : Ids \cup {0}, batch : Batches \cup {NoBatch},
          ids : SUBSET Ids, edges : SUBSET Edge] :
     /\ o.pc = "save" => o.batch \in Batches
     /\ o.pc \in {"ids", "edges", "link"} => o.id \in Ids}
Idle == [pc |-> "idle", id |-> 0, batch |-> NoBatch, ids |-> {}, edges |-> {}]

\* A teammate exists from its Spawn on, which pins its batch reference.
Active(a) == a = Lead \/ pin[a] # NoBatch
Free(a) == Active(a) /\ op[a].pc = "idle"

\* The REPL reads commands only between two lead runs.
AtPrompt == Free(Lead) /\ ref[Lead] = NoBatch

-----------------------------------------------------------------------------
Present(T) == {i \in Ids : T[i] # NoTask}

\* Mutant of IsNextID: counts the tasks instead of taking the largest id.
IsNextIDByCount(id) == id = Cardinality(Present(tasks)) + 1

\* nextID: one more than the largest id in the cache.
IsNextID(id) ==
  /\ \A i \in Present(tasks) : i < id
  /\ id = 1 \/ id - 1 \in Present(tasks)

\* validTransitions; a status may also be set to itself.
ValidTransition(old, new) ==
  \/ old = new
  \/ old = "pending" /\ new \in {"in_progress", "completed", "deleted"}
  \/ old = "in_progress" /\ new \in {"completed", "pending", "deleted"}
  \/ old = "completed" /\ new = "deleted"

SealedBatches(T) == {T[i].batch : i \in {j \in Present(T) : T[j].sealed}}

\* Mutant of ActiveBatch: sealed batches are not skipped.
ActiveBatchSealedToo(T) ==
  LET open == {i \in Present(T) : T[i].status \notin {"deleted", "completed"}}
  IN IF open = {} THEN NoBatch
     ELSE T[CHOOSE i \in open : \A j \in open : j <= i].batch

\* activeBatch: the unsealed batch owning the newest unfinished task.
ActiveBatch(T) ==
  LET open == {i \in Present(T) : /\ T[i].status \notin {"deleted", "completed"}
                                  /\ T[i].batch \notin SealedBatches(T)}
  IN IF open = {} THEN NoBatch
     ELSE T[CHOOSE i \in open : \A j \in open : j <= i].batch

\* hasPath: dst is in every set that holds src and is closed under E.
HasPath(E, src, dst) ==
  \A S \in SUBSET Ids :
    (src \in S /\ \A e \in E : e[1] \in S => e[2] \in S) => dst \in S

Completed(T) == {i \in Present(T) : T[i].status = "completed"}

\* ReadyTasks, and the list onComplete reports.
ReadyTasks(T, E) ==
  {i \in Present(T) : /\ T[i].status = "pending"
                      /\ \A e \in E : e[2] = i => e[1] \in Completed(T)}

-----------------------------------------------------------------------------
\* Mutant of Save: the cache entry is replaced whether or not the write succeeds.
SaveCacheAnyway(id, t) ==
  /\ tasks' = [tasks EXCEPT ![id] = t]
  /\ \/ files' = [files EXCEPT ![id] = t]
     \/ IOFaults /\ UNCHANGED files

\* save: the file is replaced atomically, then the cache entry.
Save(id, t) ==
  /\ files' = [files EXCEPT ![id] = t]
  /\ tasks' = [tasks EXCEPT ![id] = t]

SaveEdges(E) == edges' = E /\ edgesFile' = E

\* NewBatchID: random, hence fresh.
NewBatchID(a, b) == minted[b] = NoAgent /\ minted' = [minted EXCEPT ![b] = a]

Goto(a, o) == op' = [op EXCEPT ![a] = o]
Done(a) == Goto(a, Idle)

UnchangedTasks == UNCHANGED <<files, tasks>>
UnchangedEdges == UNCHANGED <<edgesFile, edges>>
UnchangedBatches == UNCHANGED <<minted, ref, pin>>
-----------------------------------------------------------------------------
(* Runs and their batch references. *)

\* RunWithTaskBatch(""): a lead run starts with an unresolved reference.  The
\* reference is not read between two runs, so the step also ends a run.
NewRun ==
  /\ Free(Lead)
  /\ ref' = [ref EXCEPT ![Lead] = NoBatch]
  /\ UNCHANGED <<minted, pin>> /\ UNCHANGED op /\ UnchangedTasks /\ UnchangedEdges

\* workPhase: each of a teammate's work phases starts from the batch of its
\* Spawn again, whatever batch a new_plan of the last phase had opened.
WorkPhase(a) ==
  /\ a # Lead /\ Free(a)
  /\ ref' = [ref EXCEPT ![a] = pin[a]]
  /\ UNCHANGED <<minted, pin>> /\ UNCHANGED op /\ UnchangedTasks /\ UnchangedEdges

\* Spawn pins a fresh batch to the teammate for the life of its loop.
SpawnTeammate(a) ==
  /\ a # Lead /\ op[a].pc = "idle"
  /\ \E b \in Batches : /\ NewBatchID(a, b)
                        /\ ref' = [ref EXCEPT ![a] = b]
                        /\ pin' = [pin EXCEPT ![a] = b]
  /\ UNCHANGED op /\ UnchangedTasks /\ UnchangedEdges

-----------------------------------------------------------------------------
(* task_create: resolveTaskBatch, then CreateForBatch. *)

\* Resolve: the reference if it is set, else the active batch, else a new one.
TaskCreate(a) ==
  /\ Free(a)
  /\ \E b \in Batches :
       /\ \/ b = ref[a] /\ UNCHANGED minted
          \/ ref[a] = NoBatch /\ b = ActiveBatch(tasks) /\ UNCHANGED minted
          \/ ref[a] = NoBatch /\ ActiveBatch(tasks) = NoBatch /\ NewBatchID(a, b)
       /\ ref' = [ref EXCEPT ![a] = b]
       /\ Goto(a, [Idle EXCEPT !.pc = "save", !.batch = b])
  /\ UNCHANGED pin /\ UnchangedTasks /\ UnchangedEdges

\* new_plan: StartNewBatch reads the active batch without s.mu ...
TaskCreateNewPlan(a) ==
  /\ Free(a)
  /\ Goto(a, [Idle EXCEPT !.pc = "seal", !.batch = ActiveBatch(tasks)])
  /\ UnchangedTasks /\ UnchangedEdges /\ UnchangedBatches

\* /task new: SealActiveBatch does the same, and nothing if no batch is active.
SealActiveBatch ==
  /\ AtPrompt /\ ActiveBatch(tasks) # NoBatch
  /\ Goto(Lead, [Idle EXCEPT !.pc = "sealOnly", !.batch = ActiveBatch(tasks)])
  /\ UnchangedTasks /\ UnchangedEdges /\ UnchangedBatches

\* sealBatch: every live task of the batch whose save does not fail.
SealBatch(b) ==
  \E failed \in SUBSET Ids :
    LET Sealed(T) == [i \in Ids |->
          IF /\ i \in Present(tasks) \ failed
             /\ tasks[i].batch = b /\ tasks[i].status # "deleted"
          THEN [tasks[i] EXCEPT !.sealed = TRUE] ELSE T[i]]
    IN /\ failed = {} \/ IOFaults
       /\ tasks' = Sealed(tasks) /\ files' = Sealed(files)

\* ... and seals it later; the reference moves to a fresh batch.
StartNewBatch(a) ==
  /\ op[a].pc = "seal"
  /\ SealBatch(op[a].batch)
  /\ \E b \in Batches :
       /\ NewBatchID(a, b)
       /\ ref' = [ref EXCEPT ![a] = b]
       /\ Goto(a, [Idle EXCEPT !.pc = "save", !.batch = b])
  /\ UNCHANGED pin /\ UnchangedEdges

FinishSealActiveBatch ==
  /\ op[Lead].pc = "sealOnly"
  /\ SealBatch(op[Lead].batch)
  /\ Done(Lead) /\ UnchangedEdges /\ UnchangedBatches

\* First critical section of CreateForBatch: the task without its edges.  The
\* call goes on to link only when depends_on is not empty.
CreateForBatch(a) ==
  /\ op[a].pc = "save"
  /\ \/ \E id \in Ids, pc \in {"idle", "ids"} :
          /\ IsNextID(id)
          /\ Save(id, [status |-> "pending", owner |-> NoAgent,
                       batch |-> op[a].batch, sealed |-> FALSE])
          /\ Goto(a, IF pc = "idle" THEN Idle
                     ELSE [op[a] EXCEPT !.pc = "ids", !.id = id])
     \/ IOFaults /\ Done(a) /\ UnchangedTasks
  /\ UnchangedEdges /\ UnchangedBatches

\* loadAllIDs and loadEdges, both before s.mu is taken again.
CreateReadIDs(a) ==
  /\ op[a].pc = "ids"
  /\ Goto(a, [op[a] EXCEPT !.pc = "edges", !.ids = Present(tasks)])
  /\ UnchangedTasks /\ UnchangedEdges /\ UnchangedBatches

CreateReadEdges(a) ==
  /\ op[a].pc = "edges"
  /\ Goto(a, [op[a] EXCEPT !.pc = "link", !.edges = edges])
  /\ UnchangedTasks /\ UnchangedEdges /\ UnchangedBatches

\* Dependencies of a created task that are not skipped with a warning.
AcceptedDeps(o, deps) ==
  {d \in deps : d # o.id /\ d \in o.ids /\ tasks[d] # NoTask /\ tasks[d].batch = o.batch}

\* Second critical section: the edges read earlier plus the accepted ones
\* replace the edges file, even when every dependency was skipped.
CreateLink(a) ==
  /\ op[a].pc = "link"
  /\ \/ \E deps \in (SUBSET Ids) \ {{}} :
          SaveEdges(op[a].edges \cup {<<d, op[a].id>> : d \in AcceptedDeps(op[a], deps)})
     \/ IOFaults /\ UnchangedEdges
  /\ Done(a) /\ UnchangedTasks /\ UnchangedBatches

-----------------------------------------------------------------------------
(* task_update *)

\* Mutant of UpdateStatus: validStatuses is not consulted.
UpdateStatusAny(a, id, status) ==
  /\ Free(a) /\ id \in Present(tasks)
  /\ Save(id, [tasks[id] EXCEPT !.status = "done"])
  /\ UNCHANGED op /\ UnchangedEdges /\ UnchangedBatches

UpdateStatus(a, id, status) ==
  /\ Free(a) /\ id \in Present(tasks) /\ status \in Statuses \ {"deleted"}
  /\ ValidTransition(tasks[id].status, status)
  /\ Save(id, [tasks[id] EXCEPT !.status = status])
  /\ UNCHANGED op /\ UnchangedEdges /\ UnchangedBatches

\* Mutant of UpdateDelete: the edges of the task are never cleaned.
UpdateDeleteOnly(a, id) ==
  /\ Free(a) /\ id \in Present(tasks)
  /\ ValidTransition(tasks[id].status, "deleted")
  /\ tasks' = [tasks EXCEPT ![id] = NoTask]
  /\ files' = [files EXCEPT ![id] = NoTask]
  /\ UNCHANGED op /\ UnchangedEdges /\ UnchangedBatches

\* Status "deleted": the file goes (a failing os.Remove is not noticed), the
\* cache entry goes, and s.mu is released before the edges are cleaned.
UpdateDelete(a, id) ==
  /\ Free(a) /\ id \in Present(tasks)
  /\ ValidTransition(tasks[id].status, "deleted")
  /\ tasks' = [tasks EXCEPT ![id] = NoTask]
  /\ \/ files' = [files EXCEPT ![id] = NoTask]
     \/ IOFaults /\ UNCHANGED files
  /\ Goto(a, [Idle EXCEPT !.pc = "clean", !.id = id])
  /\ UnchangedEdges /\ UnchangedBatches

\* Mutant of UpdateCleanEdges: only the outgoing edges go.
UpdateCleanOutgoing(a) ==
  /\ op[a].pc = "clean"
  /\ SaveEdges({e \in edges : e[1] # op[a].id})
  /\ Done(a) /\ UnchangedTasks /\ UnchangedBatches

UpdateCleanEdges(a) ==
  /\ op[a].pc = "clean"
  /\ \/ SaveEdges({e \in edges : e[1] # op[a].id /\ e[2] # op[a].id})
     \/ IOFaults /\ UnchangedEdges
  /\ Done(a) /\ UnchangedTasks /\ UnchangedBatches

-----------------------------------------------------------------------------
(* Claims *)

\* Mutant of ClaimRefused: the owner is not looked at again under s.mu.
ClaimRefusedNoOwner(a, id) == id \notin Present(tasks)

ClaimRefused(a, id) == id \in Present(tasks) => tasks[id].owner \notin {NoAgent, a}

\* Mutant of DoClaim: the record is built anew from the arguments.
DoClaimAnew(a, id) ==
  Save(id, [status |-> "in_progress", owner |-> a, batch |-> tasks[id].batch,
            sealed |-> FALSE])

DoClaim(a, id) == Save(id, [tasks[id] EXCEPT !.owner = a, !.status = "in_progress"])

\* claim_task, of the lead and of a teammate.
Claim(a, id) ==
  /\ Free(a) /\ ~ClaimRefused(a, id)
  /\ DoClaim(a, id)
  /\ UNCHANGED op /\ UnchangedEdges /\ UnchangedBatches

\* idlePhase scans the files, not the cache, for a pending unowned task ...
IdleScan(a, id) ==
  /\ a # Lead /\ Free(a)
  /\ id \in Present(files) /\ files[id].status = "pending" /\ files[id].owner = NoAgent
  /\ Goto(a, [Idle EXCEPT !.pc = "claim", !.id = id])
  /\ UnchangedTasks /\ UnchangedEdges /\ UnchangedBatches

\* ... and claims it by id; a refused claim moves on to the next file.
IdleClaim(a) ==
  /\ op[a].pc = "claim"
  /\ \/ (ClaimRefused(a, op[a].id) \/ IOFaults) /\ UnchangedTasks
     \/ ~ClaimRefused(a, op[a].id) /\ DoClaim(a, op[a].id)
  /\ Done(a) /\ UnchangedEdges /\ UnchangedBatches

-----------------------------------------------------------------------------
(* Edges *)

\* Mutant of AddEdge: no search for a path back.
AddEdgeUnchecked(a, from, to) ==
  /\ Free(a) /\ from # to
  /\ {from, to} \subseteq Present(tasks) /\ tasks[from].batch = tasks[to].batch
  /\ SaveEdges(edges \cup {<<from, to>>})
  /\ UNCHANGED op /\ UnchangedTasks /\ UnchangedBatches

AddEdge(a, from, to) ==
  /\ Free(a) /\ from # to
  /\ {from, to} \subseteq Present(tasks) /\ tasks[from].batch = tasks[to].batch
  /\ <<from, to>> \notin edges /\ ~HasPath(edges, to, from)
  /\ SaveEdges(edges \cup {<<from, to>>})
  /\ UNCHANGED op /\ UnchangedTasks /\ UnchangedBatches

RemoveEdge(a, from, to) ==
  /\ Free(a) /\ <<from, to>> \in edges
  /\ SaveEdges(edges \ {<<from, to>>})
  /\ UNCHANGED op /\ UnchangedTasks /\ UnchangedBatches

-----------------------------------------------------------------------------
(* REPL commands, and the process *)

\* /task clear: completed tasks become "deleted" but keep file and edges.  The
\* loop goes up the ids and stops at the first failed save.
ClearCompleted ==
  /\ AtPrompt /\ Completed(tasks) # {}
  /\ \E last \in Ids :
       LET Cleared(T) == [i \in Ids |->
             IF i \in Completed(tasks) /\ i <= last
             THEN [tasks[i] EXCEPT !.status = "deleted"] ELSE T[i]]
       IN /\ last = MaxTasks \/ IOFaults
          /\ tasks' = Cleared(tasks) /\ files' = Cleared(files)
  /\ UNCHANGED op /\ UnchangedEdges /\ UnchangedBatches

\* /task reset: files are removed and both caches dropped; the next call
\* reloads whatever could not be removed.
Reset ==
  /\ AtPrompt
  /\ \E kept \in SUBSET Ids, keptEdges \in BOOLEAN :
       /\ (kept = {} /\ ~keptEdges) \/ IOFaults
       /\ files' = [i \in Ids |->
                      IF i \in Present(tasks) \ kept THEN NoTask ELSE files[i]]
       /\ edgesFile' = IF keptEdges THEN edgesFile ELSE {}
  /\ tasks' = files' /\ edges' = edgesFile'
  /\ UNCHANGED op /\ UnchangedBatches

\* The process dies between two steps and the session is resumed.
Crash ==
  /\ tasks' = files /\ edges' = edgesFile
  /\ op' = [a \in Agents |-> Idle]
  /\ ref' = [a \in Agents |-> NoBatch] /\ pin' = ref'
  /\ UNCHANGED <<files, edgesFile, minted>>

-----------------------------------------------------------------------------
Init ==
  /\ files = [i \in Ids |-> NoTask] /\ tasks = files
  /\ edgesFile = {} /\ edges = {}
  /\ minted = [b \in Batches |-> NoAgent]
  /\ ref = [a \in Agents |-> NoBatch] /\ pin = ref
  /\ op = [a \in Agents |-> Idle]

CreateStep(a) ==
  \/ TaskCreate(a) \/ CreateForBatch(a) \/ CreateReadIDs(a)
  \/ CreateReadEdges(a) \/ CreateLink(a)

BatchStep(a) ==
  \/ SpawnTeammate(a) \/ WorkPhase(a) \/ TaskCreateNewPlan(a) \/ StartNewBatch(a)

UpdateStep(a) ==
  \/ \E id \in Ids, status \in Statuses : UpdateStatus(a, id, status)
  \/ \E id \in Ids : UpdateDelete(a, id)
  \/ UpdateCleanEdges(a)

ClaimStep(a) ==
  \/ \E id \in Ids : Claim(a, id) \/ IdleScan(a, id)
  \/ IdleClaim(a)

EdgeStep(a) == \E from, to \in Ids : AddEdge(a, from, to) \/ RemoveEdge(a, from, to)

SealStep == SealActiveBatch \/ FinishSealActiveBatch

AgentStep(a) == CreateStep(a) \/ BatchStep(a) \/ UpdateStep(a) \/ ClaimStep(a) \/ EdgeStep(a)

Next ==
  \/ \E a \in Agents : AgentStep(a)
  \/ NewRun \/ SealStep \/ ClearCompleted \/ Reset \/ Crash

Spec == Init /\ [][Next]_vars

\* No crash and no /task clear.
PlanNext == (\E a \in Agents : AgentStep(a)) \/ NewRun \/ SealStep \/ Reset
PlanSpec == Init /\ [][PlanNext]_vars
-----------------------------------------------------------------------------
(* Properties.  The first four hold of Spec; the others of PlanSpec with    *)
(* one agent and no failing writes.                                         *)

TypeOK ==
  /\ files \in [Ids -> Task \cup {NoTask}]
  /\ tasks \in [Ids -> Task \cup {NoTask}]
  /\ edges \subseteq Edge /\ edgesFile \subseteq Edge
  /\ minted \in [Batches -> Agents \cup {NoAgent}]
  /\ ref \in [Agents -> Batches \cup {NoBatch}]
  /\ pin \in [Agents -> Batches \cup {NoBatch}]
  /\ op \in [Agents -> Op]

\* What the cache answers is on disk: a crash at any point, or a reload after
\* Reset, loses no task, status, owner or edge that a call has reported, even
\* when writes and removals fail (save writes the file before the cache).
CacheBacked ==
  /\ \A i \in Present(tasks) : files[i] = tasks[i]
  /\ edges = edgesFile

\* A claimed task keeps its owner until the task itself is gone: two teammates
\* that both saw the file unowned, or a claim racing a crash, cannot both own it.
ClaimKept(i) ==
  tasks[i] # NoTask /\ tasks'[i] # NoTask /\ tasks[i].owner # NoAgent
    => tasks'[i].owner = tasks[i].owner
ClaimExclusive == [][\A i \in Ids : ClaimKept(i)]_vars

\* Creating never overwrites: a task that stays on the board keeps its batch,
\* and once sealed stays sealed, whatever ids nextID hands out after deletions.
RecordKept(i) ==
  tasks[i] # NoTask /\ tasks'[i] # NoTask
    => /\ tasks'[i].batch = tasks[i].batch
       /\ tasks[i].sealed => tasks'[i].sealed
CreateNeverOverwrites == [][\A i \in Ids : RecordKept(i)]_vars

Quiet == \A a \in Agents : op[a].pc = "idle"

\* Between operations both ends of an edge are on the board and belong to one
\* batch: CreateForBatch and AddEdge check it, deletion cleans up, and no id is
\* handed out again while an edge of its former task is left.
EdgesWithinBatch ==
  Quiet => \A e \in edges :
             /\ {e[1], e[2]} \subseteq Present(tasks)
             /\ tasks[e[1]].batch = tasks[e[2]].batch

\* The dependency graph is a DAG: no task is reachable from a successor of it.
Acyclic == \A e \in edges : ~HasPath(edges, e[2], e[1])

\* Both: whatever is created, linked, sealed and deleted, the graph stays a plan.
PlanIsDag == EdgesWithinBatch /\ Acyclic

\* A batch never gets stuck: while it has pending tasks and none in progress,
\* one of them is ready.
Stuck(b) ==
  LET of(st) == {i \in Present(tasks) : tasks[i].batch = b /\ tasks[i].status = st}
  IN of("pending") # {} /\ of("in_progress") = {} /\ ReadyTasks(tasks, edges) \cap of("pending") = {}
PlanNeverStuck == Quiet => \A b \in Batches : ~Stuck(b)

\* A sealed batch takes no new task: new_plan and /task new close it for good.  Stated
\* for one agent whose writes do not fail (PlanSpec): a reference resolved earlier is
\* then overtaken only by the agent's own new_plan and by the user's commands.
SealedClosed(b) ==
  \A i \in Ids : tasks[i] = NoTask /\ tasks'[i] # NoTask => tasks'[i].batch # b
SealedBatchClosed == [][\A b \in SealedBatches(tasks) : SealedClosed(b)]_vars
-----------------------------------------------------------------------------
(* Refinement: the board is a registry of claims.  The attic are the files  *)
(* that stayed behind when their tasks were removed.                        *)

ItemOf(t) == IF t = NoTask THEN NoTask
             ELSE [group |-> t.batch, owner |-> t.owner, closed |-> t.sealed]
BoardItems == [i \in Ids |-> ItemOf(tasks[i])]
AtticItems == [i \in Ids |-> IF tasks[i] = NoTask THEN ItemOf(files[i]) ELSE NoTask]

Registry == INSTANCE ClaimRegistry WITH
  Items <- Ids, Workers <- Agents, Groups <- Batches, NoWorker <- NoAgent,
  NoItem <- NoTask, board <- BoardItems, attic <- AtticItems

ASSUME NoItemAssumption == NoTask \notin Registry!Item

\* The task board implements the registry: every operation, half of an operation,
\* failed write and crash is one step of it or none (service.go, all of it).
ImplementsRegistry == Registry!Spec
=============================================================================
