---------------------------- MODULE AgentLoop ----------------------------
(***************************************************************************)
(* One Runner and the turns it executes (internal/agent/runner.go,         *)
(* runner_loop.go, turn_state.go, tool_interceptors.go, plan.go).          *)
(*                                                                         *)
(* A turn alternates model calls and batches of tool calls until the model *)
(* answers in plain text and neither the lesson stage nor the judge wants  *)
(* another round, or until a budget or a cancelled context ends it.  What  *)
(* the model answers, whether a tool succeeds and what the judge thinks    *)
(* are the environment's choices.                                          *)
(*                                                                         *)
(* Abstracted: a tool call is a record of its tool's class and an argument *)
(* (together the key of the repeat guard).  The message list is what the   *)
(* provider protocol tells apart: how many calls of the last assistant     *)
(* message are still unanswered, and whether a user message was put        *)
(* between them.  Reflection, the planning nudge and token caching only    *)
(* choose the wording of user messages added between rounds, and           *)
(* compaction rewrites closed blocks; none of them is state here.          *)
(***************************************************************************)
EXTENDS Naturals, Sequences

CONSTANTS
  Roles,                 \* the roles a runner may have: "lead", "explore"
  Calls,                 \* the tool calls the model may make
  MaxBatch,              \* most tool calls in one assistant message
  MaxRounds,             \* Profile.MaxRounds
  MaxRepeatedToolCalls, MaxExploreDelegations, MaxReadsAfterExplore,
  JudgeMaxRetryInjects,  \* 0 stands for a disabled judge
  LessonThreshold, LessonRoundsLimit,
  TokenCheckInterval,    \* rounds between two checks for compaction
  PromptBudget,          \* SubagentPromptTokenBudget, in units of one estimate
  MaxEstimate            \* largest estimate of one request, in the same units

\* What the interceptors and the planning guard tell apart.  "side_effect" is
\* every call unplannedToolBlock refuses: unknown tools, unclassified effects,
\* file mutation, shell commands that are not read-only, delegation.
\* "repo_walk" is a read-only shell command isRepoWalkBash recognises and
\* "malformed" a call whose arguments are not a JSON object.
Tools == {"TodoWrite", "task_create", "explore", "read_file", "list_dir",
          "repo_walk", "side_effect", "search", "malformed"}

ASSUME RunnerAssumption ==
  /\ Roles \subseteq {"lead", "explore"}
  /\ \A c \in Calls : c = [tool |-> c.tool, arg |-> c.arg] /\ c.tool \in Tools
  /\ {MaxBatch, MaxRounds, MaxRepeatedToolCalls, MaxExploreDelegations,
      MaxReadsAfterExplore, JudgeMaxRetryInjects, LessonThreshold,
      PromptBudget} \subseteq Nat
  /\ {LessonRoundsLimit, TokenCheckInterval, MaxEstimate} \subseteq Nat \ {0}

VARIABLES
  role,        \* Profile.Role, fixed for the life of a runner
  pc,          \* where RunWithTaskBatch is
  outcome,     \* TurnOutcome of the last turn: Completed, StoppedReason, Error
  cancelled,   \* ctx.Err() # nil
  trivial,     \* isTrivialQuery(originalTask)
  rounds, failed,                   \* turn.rounds; turn.failures > 0
  plan, planAtStart,                \* PlanEstablished; its snapshot per batch
  batch,       \* the calls of the current batch not yet handled
  callCount,   \* tools.CallCounts
  readCount,   \* explore.ReadCounts
  exploreOK, delegations, readsAfter,  \* the rest of exploreBudget
  retries,     \* judge.RetryInjects
  lesson,      \* lessonState
  prompt,      \* tokens.PromptUsed
  open,        \* calls of the last assistant message without a tool message
  nudges,      \* pendingNudges is not empty
  split,       \* a user message stands inside an open tool-call block
  \* History variables, read by the properties only.
  ran,         \* how often each call was really executed this turn
  planRound,   \* the round in which the plan was established
  explored,    \* delegations to explore really executed this turn
  readsRun     \* reads executed since explore succeeded

turn == <<rounds, failed, plan, callCount, readCount, exploreOK, delegations,
          readsAfter, retries, lesson, prompt>>
ghost == <<ran, planRound, explored, readsRun>>
vars == <<role, pc, outcome, cancelled, trivial, turn, planAtStart, batch, open,
          nudges, split, ghost>>

Args == {c.arg : c \in Calls}
Reads == {"read_file", "list_dir"}

\* resetTurnState: every counter and flag of a turn starts afresh.
FreshTurn ==
  /\ rounds = 0 /\ failed = FALSE /\ plan = FALSE
  /\ callCount = [c \in Calls |-> 0] /\ readCount = [a \in Args |-> 0]
  /\ exploreOK = FALSE /\ delegations = 0 /\ readsAfter = 0
  /\ retries = 0
  /\ lesson = [written |-> FALSE, left |-> 0]
  /\ prompt = 0

ResetTurnState ==
  /\ rounds' = 0 /\ failed' = FALSE /\ plan' = FALSE
  /\ callCount' = [c \in Calls |-> 0] /\ readCount' = [a \in Args |-> 0]
  /\ exploreOK' = FALSE /\ delegations' = 0 /\ readsAfter' = 0
  /\ retries' = 0
  /\ lesson' = [written |-> FALSE, left |-> 0]
  /\ prompt' = 0

FreshGhost ==
  /\ ran = [c \in Calls |-> 0]
  /\ planRound = 0 /\ explored = 0 /\ readsRun = 0

ResetGhost ==
  /\ ran' = [c \in Calls |-> 0]
  /\ planRound' = 0 /\ explored' = 0 /\ readsRun' = 0

Init ==
  /\ role \in Roles
  /\ pc = "idle" /\ outcome = "none" /\ cancelled = FALSE /\ trivial = TRUE
  /\ FreshTurn /\ FreshGhost
  /\ planAtStart = FALSE /\ batch = <<>> /\ open = 0
  /\ nudges = FALSE /\ split = FALSE

----------------------------------------------------------------------------
(* The loop: RunWithTaskBatch, prepareRound, callModel.                    *)

\* RunWithTaskBatch up to the loop: a reused runner forgets the last turn.
Run ==
  /\ pc = "idle"
  /\ pc' = "top"
  /\ outcome' = "none"
  /\ cancelled' = FALSE
  /\ trivial' \in BOOLEAN
  /\ ResetTurnState /\ ResetGhost
  /\ UNCHANGED <<planAtStart, batch, open, nudges, split>>

\* The user interrupts, or a deadline passes: only the loop top looks.
Cancel ==
  /\ pc # "idle" /\ ~cancelled
  /\ cancelled' = TRUE
  /\ UNCHANGED <<pc, outcome, trivial, turn, planAtStart, batch, open, nudges,
                 split, ghost>>

Return(how) ==
  /\ pc' = "idle"
  /\ outcome' = how

ContextError ==
  /\ pc = "top" /\ cancelled
  /\ Return("error")
  /\ UNCHANGED <<cancelled, trivial, turn, planAtStart, batch, open, nudges,
                 split, ghost>>

\* finalizeWithoutTools: one last call without tools; the round counts.
FinalizeWithoutTools(reason) ==
  /\ rounds' = rounds + 1
  /\ \/ Return(reason)
     \/ Return("error")
  /\ UNCHANGED <<cancelled, trivial, failed, plan, callCount, readCount,
                 exploreOK, delegations, readsAfter, retries, lesson,
                 planAtStart, batch, open, nudges, split, ghost>>

SoftDeadline ==
  /\ pc = "top" /\ ~cancelled
  /\ role = "explore"
  /\ FinalizeWithoutTools("soft_deadline")
  /\ UNCHANGED prompt

OutOfRounds == rounds >= MaxRounds

MaxRoundsReached ==
  /\ pc = "top" /\ ~cancelled
  /\ OutOfRounds
  /\ FinalizeWithoutTools("max_rounds")
  /\ UNCHANGED prompt

\* prepareRound charges an explore runner for the context it compacts.
CompactionCosts ==
  IF role = "explore" /\ rounds > 0 /\ rounds % TokenCheckInterval = 0
    THEN 0 .. MaxEstimate ELSE {0}

PromptExhausted(used, estimate) ==
  role = "explore" /\ used > 0 /\ used + estimate > PromptBudget

PromptBudgetReached ==
  /\ pc = "top" /\ ~cancelled
  /\ ~OutOfRounds
  /\ \E cost \in CompactionCosts, estimate \in 1 .. MaxEstimate :
       /\ PromptExhausted(prompt + cost, estimate)
       /\ prompt' = prompt + cost
  /\ FinalizeWithoutTools("prompt_budget")

\* Mutant of CallModel: the request is not charged to the prompt budget.
CallModelUncharged ==
  /\ pc = "top" /\ ~cancelled
  /\ ~OutOfRounds
  /\ \E estimate \in 1 .. MaxEstimate : ~PromptExhausted(prompt, estimate)
  /\ pc' = "model"
  /\ split' = (split /\ open = 0)
  /\ open' = 0
  /\ UNCHANGED <<outcome, cancelled, trivial, turn, planAtStart, batch, nudges,
                 ghost>>

\* callModel up to the request: ensureToolCallPairing answers what is open,
\* but callModel keeps the list it had when it was only reordered.
CallModel ==
  /\ pc = "top" /\ ~cancelled
  /\ ~OutOfRounds
  /\ \E cost \in CompactionCosts, estimate \in 1 .. MaxEstimate :
       /\ ~PromptExhausted(prompt + cost, estimate)
       /\ prompt' = IF role = "explore" THEN prompt + cost + estimate ELSE prompt
  /\ pc' = "model"
  /\ split' = (split /\ open = 0)
  /\ open' = 0
  /\ UNCHANGED <<outcome, cancelled, trivial, rounds, failed, plan, callCount,
                 readCount, exploreOK, delegations, readsAfter, retries,
                 lesson, planAtStart, batch, nudges, ghost>>

ApiError ==
  /\ pc = "model"
  /\ Return("error")
  /\ UNCHANGED <<cancelled, trivial, turn, planAtStart, batch, open, nudges,
                 split, ghost>>

\* handleTruncation: the calls of a truncated message are answered with
\* errors, a user message follows, and the loop continues in the same round.
Truncated ==
  /\ pc = "model"
  /\ pc' = "top"
  /\ UNCHANGED <<outcome, cancelled, trivial, turn, planAtStart, batch, open,
                 nudges, split, ghost>>

----------------------------------------------------------------------------
(* handleNoToolCalls: lesson stage, then judge, then the end of the turn.  *)

LessonDue ==
  /\ role = "lead"
  /\ rounds >= LessonThreshold
  /\ failed
  /\ ~lesson.written

LessonStage ==
  /\ pc = "model"
  /\ LessonDue
  /\ lesson' = [written |-> TRUE, left |-> LessonRoundsLimit]
  /\ pc' = "top"
  /\ UNCHANGED <<outcome, cancelled, trivial, rounds, failed, plan, callCount,
                 readCount, exploreOK, delegations, readsAfter, retries,
                 prompt, planAtStart, batch, open, nudges, split, ghost>>

JudgeAsked == role = "lead" /\ retries < JudgeMaxRetryInjects

\* Mutant of JudgeRejects: the count starts over when the retries are used up.
JudgeRejectsForever ==
  /\ pc = "model"
  /\ ~LessonDue
  /\ JudgeAsked
  /\ retries' = (retries + 1) % JudgeMaxRetryInjects
  /\ pc' = "top"
  /\ UNCHANGED <<outcome, cancelled, trivial, rounds, failed, plan, callCount,
                 readCount, exploreOK, delegations, readsAfter, lesson,
                 prompt, planAtStart, batch, open, nudges, split, ghost>>

JudgeRejects ==
  /\ pc = "model"
  /\ ~LessonDue
  /\ JudgeAsked
  /\ retries' = retries + 1
  /\ pc' = "top"
  /\ UNCHANGED <<outcome, cancelled, trivial, rounds, failed, plan, callCount,
                 readCount, exploreOK, delegations, readsAfter, lesson,
                 prompt, planAtStart, batch, open, nudges, split, ghost>>

\* The judge approves, fails (which counts as approval) or is not asked.
Complete ==
  /\ pc = "model"
  /\ ~LessonDue
  /\ Return("completed")
  /\ UNCHANGED <<cancelled, trivial, turn, planAtStart, batch, open, nudges,
                 split, ghost>>

----------------------------------------------------------------------------
(* executeToolBatch: one step per call, in the order of the message.       *)

Batches == UNION {[1 .. n -> Calls] : n \in 1 .. MaxBatch}

StartBatch ==
  /\ pc = "model"
  /\ pc' = "batch"
  /\ batch' \in Batches
  /\ open' = Len(batch')
  /\ planAtStart' = plan
  /\ UNCHANGED <<outcome, cancelled, trivial, turn, nudges, split, ghost>>

\* Mutant of EnforcePlanning: the current flag instead of the snapshot.
EnforcePlanningLive == role = "lead" /\ ~plan /\ ~trivial

EnforcePlanning == role = "lead" /\ ~planAtStart /\ ~trivial

PlanBlocks(c) == EnforcePlanning /\ c.tool = "side_effect"

\* readConvergenceInterceptor: the third read of a path by an explore runner.
ReadConverged(c) ==
  c.tool \in Reads /\ role = "explore" /\ readCount[c.arg] + 1 >= 3

\* Mutant of PostExploreBlocks: off by one.
PostExploreBlocksLate(c) ==
  /\ exploreOK /\ role # "explore"
  /\ \/ c.tool \in Reads /\ readsAfter > MaxReadsAfterExplore
     \/ c.tool = "repo_walk"

PostExploreBlocks(c) ==
  /\ exploreOK /\ role # "explore"
  /\ \/ c.tool \in Reads /\ readsAfter >= MaxReadsAfterExplore
     \/ c.tool = "repo_walk"

\* repeatCallInterceptor: the count includes the current call.
RepeatBlocks(c) == callCount[c] + 1 > MaxRepeatedToolCalls

ExploreExhausted(c) ==
  c.tool = "explore" /\ delegations + 1 > MaxExploreDelegations

DeniedByHook(c) == ReadConverged(c) \/ PostExploreBlocks(c)

\* What the Before hooks leave behind: the call is counted before any guard
\* sees it, a read once the planning guard let it pass, a delegation once the
\* repeat guard did.
CountCall(c) == callCount' = [callCount EXCEPT ![c] = @ + 1]

NoteRead(c) ==
  IF c.tool \in Reads
    THEN readCount' = [readCount EXCEPT ![c.arg] = @ + 1]
    ELSE UNCHANGED readCount

ConvergenceNudge(c) ==
  c.tool \in Reads /\ readCount[c.arg] + 1 = (IF role = "explore" THEN 2 ELSE 3)

\* Mutant of DeferNudge: the nudge is appended at once, before the result.
NudgeAtOnce(nudge) ==
  /\ nudges' = nudges
  /\ split' = (split \/ (nudge /\ open > 0))

\* A nudge of a hook is kept in pendingNudges until the block is closed.
DeferNudge(nudge) ==
  /\ nudges' = (nudges \/ nudge)
  /\ split' = split

Answered ==
  /\ batch' = Tail(batch)
  /\ open' = open - 1

Handling(c) == pc = "batch" /\ batch # <<>> /\ c = Head(batch)

MalformedCall(c) ==
  /\ Handling(c)
  /\ c.tool = "malformed"
  /\ failed' = TRUE
  /\ Answered
  /\ UNCHANGED <<pc, outcome, cancelled, trivial, rounds, plan, callCount,
                 readCount, exploreOK, delegations, readsAfter, retries,
                 lesson, prompt, planAtStart, nudges, split, ghost>>

\* beforeDenyEarly by the planning guard: no hook runs, nothing fails.
DenyUnplanned(c) ==
  /\ Handling(c)
  /\ PlanBlocks(c)
  /\ CountCall(c)
  /\ Answered
  /\ UNCHANGED <<pc, outcome, cancelled, trivial, rounds, failed, plan,
                 readCount, exploreOK, delegations, readsAfter, retries,
                 lesson, prompt, planAtStart, nudges, split, ghost>>

\* beforeDenyEarly by a convergence or post-explore hook.
DenyByHook(c) ==
  /\ Handling(c)
  /\ c.tool # "malformed" /\ ~PlanBlocks(c)
  /\ DeniedByHook(c)
  /\ CountCall(c) /\ NoteRead(c) /\ DeferNudge(ConvergenceNudge(c))
  /\ Answered
  /\ UNCHANGED <<pc, outcome, cancelled, trivial, rounds, failed, plan,
                 exploreOK, delegations, readsAfter, retries, lesson, prompt,
                 planAtStart, ghost>>

\* noteLeadRead: counts an answered read, executed or overridden.
NoteLeadRead(c) ==
  readsAfter' = IF c.tool \in Reads /\ exploreOK /\ role # "explore"
                  THEN readsAfter + 1 ELSE readsAfter

\* beforeOverride: a synthetic failure that the After hooks see.
Override(c) ==
  /\ Handling(c)
  /\ c.tool # "malformed" /\ ~PlanBlocks(c) /\ ~DeniedByHook(c)
  /\ \/ RepeatBlocks(c) /\ UNCHANGED delegations
     \/ /\ ~RepeatBlocks(c) /\ ExploreExhausted(c)
        /\ delegations' = delegations + 1
  /\ CountCall(c) /\ NoteRead(c) /\ DeferNudge(ConvergenceNudge(c))
  /\ NoteLeadRead(c)
  /\ failed' = TRUE
  /\ Answered
  /\ UNCHANGED <<pc, outcome, cancelled, trivial, rounds, plan, exploreOK,
                 retries, lesson, prompt, planAtStart, ghost>>

\* turnFlagsInterceptor.After for a tool that returned.  openItems says whether
\* the arguments of a TodoWrite hold an open item.
EstablishPlan ==
  /\ plan' = TRUE
  /\ planRound' = IF plan THEN planRound ELSE rounds

AfterTool(c, ok, openItems) ==
  /\ exploreOK' = (exploreOK \/ (c.tool = "explore" /\ ok))
  /\ IF ok /\ (c.tool = "task_create" \/ (c.tool = "TodoWrite" /\ openItems))
       THEN EstablishPlan
       ELSE UNCHANGED <<plan, planRound>>
  /\ NoteLeadRead(c)
  /\ readsRun' = IF c.tool \in Reads /\ exploreOK THEN readsRun + 1 ELSE readsRun

Execute(c) ==
  /\ Handling(c)
  /\ c.tool # "malformed" /\ ~PlanBlocks(c) /\ ~DeniedByHook(c)
  /\ ~RepeatBlocks(c) /\ ~ExploreExhausted(c)
  /\ CountCall(c) /\ NoteRead(c)
  /\ delegations' = IF c.tool = "explore" THEN delegations + 1 ELSE delegations
  /\ ran' = [ran EXCEPT ![c] = @ + 1]
  /\ explored' = IF c.tool = "explore" THEN explored + 1 ELSE explored
  /\ \E ok \in BOOLEAN :
       /\ failed' = (failed \/ ~ok)
       /\ \E openItems \in BOOLEAN : AfterTool(c, ok, openItems)
       /\ DeferNudge(ConvergenceNudge(c) \/ (c.tool = "explore" /\ ok))
  /\ Answered
  /\ UNCHANGED <<pc, outcome, cancelled, trivial, rounds, retries, lesson,
                 prompt, planAtStart>>

HandleCall(c) ==
  MalformedCall(c) \/ DenyUnplanned(c) \/ DenyByHook(c) \/ Override(c) \/ Execute(c)

\* The end of executeToolBatch (the kept nudges become user messages) and
\* afterTools: the round counts, and the lesson stage has a budget of its own.
AfterTools ==
  /\ pc = "batch" /\ batch = <<>>
  /\ split' = (split \/ (nudges /\ open > 0))
  /\ nudges' = FALSE
  /\ rounds' = rounds + 1
  /\ lesson' = [lesson EXCEPT !.left = IF lesson.written THEN @ - 1 ELSE @]
  /\ IF lesson.written /\ lesson'.left = 0
       THEN Return("lesson_budget")
       ELSE pc' = "top" /\ UNCHANGED outcome
  /\ UNCHANGED <<cancelled, trivial, failed, plan, callCount, readCount,
                 exploreOK, delegations, readsAfter, retries, prompt,
                 planAtStart, batch, open, ghost>>

----------------------------------------------------------------------------
Reply == ApiError \/ Truncated \/ LessonStage \/ JudgeRejects \/ Complete \/ StartBatch

Step ==
  /\ \/ ContextError \/ SoftDeadline \/ MaxRoundsReached \/ PromptBudgetReached
     \/ CallModel
     \/ Reply
     \/ \E c \in Calls : HandleCall(c)
     \/ AfterTools
  /\ UNCHANGED role

Next == Step \/ ((Run \/ Cancel) /\ UNCHANGED role)

Spec == Init /\ [][Next]_vars

\* The goroutine that runs a turn keeps running it: the gateway's calls have
\* timeouts and tools return, so a step that can be taken is taken.
FairSpec == Spec /\ WF_vars(Step)

----------------------------------------------------------------------------
(* Properties.                                                             *)

TypeOK ==
  /\ role \in Roles
  /\ pc \in {"idle", "top", "model", "batch"}
  /\ outcome \in {"none", "completed", "error", "soft_deadline", "max_rounds",
                  "prompt_budget", "lesson_budget"}
  /\ {cancelled, trivial, failed, plan, planAtStart, exploreOK, nudges, split}
       \subseteq BOOLEAN
  /\ rounds \in 0 .. MaxRounds + 1
  /\ callCount \in [Calls -> Nat] /\ readCount \in [Args -> Nat]
  /\ {delegations, readsAfter, prompt, planRound, explored, readsRun} \subseteq Nat
  /\ retries \in 0 .. JudgeMaxRetryInjects
  /\ lesson \in [written : BOOLEAN, left : 0 .. LessonRoundsLimit]
  /\ batch \in Seq(Calls) /\ Len(batch) <= MaxBatch
  /\ open = Len(batch)
  /\ ran \in [Calls -> Nat]

\* executeToolBatch: "A plan created in this batch only authorizes side effects
\* starting with the next model round."  In a non-trivial turn of the lead no
\* side effect is executed before a plan was established in an earlier round
\* of the same turn, whatever the order of the calls in a batch and whatever
\* earlier turns of the reused runner had established.
SideEffectsArePlanned ==
  [][\A c \in Calls :
       c.tool = "side_effect" /\ ran'[c] > ran[c] /\ role = "lead" /\ ~trivial
         => plan /\ planRound < rounds]_vars

\* A request never leaves the process with a user message inside a block of
\* tool results or with a call left unanswered: the nudges of the hooks wait
\* for the end of the block, and every path out of a batch answers every call.
RequestsArePaired == pc = "model" => open = 0 /\ ~split

\* The budgets of a turn hold together, in whatever order calls are denied,
\* overridden and executed: identical calls, explore delegations, and the
\* lead's reads after a successful explore.  (The invariant carries the types.)
BudgetsHold ==
  /\ TypeOK
  /\ \A c \in Calls : ran[c] <= MaxRepeatedToolCalls
  /\ explored <= MaxExploreDelegations
  /\ role = "lead" => readsRun <= MaxReadsAfterExplore

\* Every turn ends, provided the model is not cut off by its output limit for
\* ever: the round cap, the judge's retries and the lesson's single prompt
\* leave no other cycle.
TurnEndsUnlessTruncated ==
  []<>(pc = "idle") \/ []<><<Truncated>>_vars

\* An explore runner's turn ends even if every answer is truncated: each
\* request is charged to its prompt budget before it is sent.
ExploreTurnEnds == []<>(role = "explore" => pc = "idle")

\* Both: what is left of "MaxRounds, the hard safety cap for agent loop" once
\* truncated answers do not count as rounds.
TurnsEnd == TurnEndsUnlessTruncated /\ ExploreTurnEnds

=============================================================================
