------------------------- MODULE AgentLoopProofs -------------------------
(***************************************************************************)
(* What holds of a turn for every role, every set of calls and every       *)
(* budget: side effects wait for a plan of an earlier round, requests      *)
(* carry no open or interrupted block of tool calls, and the budgets of    *)
(* calls, delegations and reads are kept.                                  *)
(***************************************************************************)
EXTENDS AgentLoop, TLAPS

(***************************************************************************)
(* The planning guard.  PlanInv relates the plan flag, its snapshot and    *)
(* the round in which the plan was made: between batches the plan is older *)
(* than the current round; inside a batch it may be of this round, but     *)
(* then the snapshot taken at the start does not show it.                  *)
(***************************************************************************)
PlanTypes ==
  /\ pc \in {"idle", "top", "model", "batch"}
  /\ rounds \in Nat /\ planRound \in Nat
  /\ plan \in BOOLEAN /\ planAtStart \in BOOLEAN
  /\ ran \in [Calls -> Nat]

PlanInv ==
  /\ PlanTypes
  /\ pc \in {"top", "model"} /\ plan => planRound < rounds
  /\ pc = "batch" /\ plan => planRound <= rounds
  /\ pc = "batch" /\ planAtStart => plan /\ planRound < rounds

LEMMA PlanInit == Init => PlanInv
<1> SUFFICES ASSUME Init PROVE PlanInv
  OBVIOUS
<1>1. /\ pc = "idle" /\ rounds = 0 /\ planRound = 0
      /\ plan \in BOOLEAN /\ planAtStart \in BOOLEAN
      /\ ran = [c \in Calls |-> 0]
  BY Zenon DEF Init, FreshTurn, FreshGhost
<1> QED
  BY <1>1 DEF PlanInv, PlanTypes

LEMMA PlanStep == PlanInv /\ [Next]_vars => PlanInv'
<1> SUFFICES ASSUME PlanInv, [Next]_vars PROVE PlanInv'
  OBVIOUS
<1> USE DEF PlanInv, PlanTypes
<1>1. CASE Run
  BY <1>1 DEF Run, ResetTurnState, ResetGhost
<1>2. CASE Cancel
  BY <1>2 DEF Cancel, turn, ghost
<1>3. CASE ContextError
  BY <1>3 DEF ContextError, Return, turn, ghost
<1>4. CASE SoftDeadline \/ MaxRoundsReached \/ PromptBudgetReached
  BY <1>4 DEF SoftDeadline, MaxRoundsReached, PromptBudgetReached,
              FinalizeWithoutTools, Return, ghost
<1>5. CASE CallModel
  BY <1>5 DEF CallModel, ghost
<1>6. CASE Reply
  <2>1. CASE ApiError \/ Complete
    BY <2>1 DEF ApiError, Complete, Return, turn, ghost
  <2>2. CASE Truncated
    BY <2>2 DEF Truncated, turn, ghost
  <2>3. CASE LessonStage \/ JudgeRejects
    BY <2>3 DEF LessonStage, JudgeRejects, ghost
  <2>4. CASE StartBatch
    BY <2>4 DEF StartBatch, turn, ghost
  <2> QED BY <1>6, <2>1, <2>2, <2>3, <2>4 DEF Reply
<1>7. CASE \E c \in Calls : HandleCall(c)
  <2>1. PICK c \in Calls : HandleCall(c)
    BY <1>7
  <2>2. CASE MalformedCall(c) \/ DenyUnplanned(c) \/ DenyByHook(c) \/ Override(c)
    BY <2>2 DEF MalformedCall, DenyUnplanned, DenyByHook, Override, ghost
  <2>3. CASE Execute(c)
    <3>1. PICK ok \in BOOLEAN, openItems \in BOOLEAN : AfterTool(c, ok, openItems)
      BY <2>3 DEF Execute
    <3>2. /\ pc = "batch" /\ pc' = pc /\ rounds' = rounds
          /\ planAtStart' = planAtStart
          /\ ran' = [ran EXCEPT ![c] = @ + 1]
      BY <2>3 DEF Execute, Handling
    <3>3. CASE EstablishPlan
      BY <3>2, <3>3 DEF EstablishPlan
    <3>4. CASE UNCHANGED <<plan, planRound>>
      BY <3>2, <3>4
    <3> QED BY <3>1, <3>3, <3>4 DEF AfterTool
  <2> QED BY <2>1, <2>2, <2>3 DEF HandleCall
<1>8. CASE AfterTools
  BY <1>8 DEF AfterTools, Return, ghost
<1>9. CASE UNCHANGED vars
  BY <1>9 DEF vars, turn, ghost
<1> QED
  BY <1>1, <1>2, <1>3, <1>4, <1>5, <1>6, <1>7, <1>8, <1>9 DEF Next, Step

\* The one action that executes a call does so past the planning guard.
LEMMA OnlyExecuteRuns ==
  ASSUME PlanInv, [Next]_vars, NEW d \in Calls, ran'[d] # ran[d]
  PROVE  \/ Run
         \/ \E c \in Calls : Execute(c)
<1>1. CASE Cancel \/ ContextError \/ CallModel \/ Reply
  BY <1>1 DEF Cancel, ContextError, CallModel, Reply, ApiError, Truncated,
              LessonStage, JudgeRejects, Complete, StartBatch, ghost
<1>2. CASE SoftDeadline \/ MaxRoundsReached \/ PromptBudgetReached
  BY <1>2 DEF SoftDeadline, MaxRoundsReached, PromptBudgetReached,
              FinalizeWithoutTools, ghost
<1>3. ASSUME NEW c \in Calls,
             MalformedCall(c) \/ DenyUnplanned(c) \/ DenyByHook(c) \/ Override(c)
      PROVE  FALSE
  BY <1>3 DEF MalformedCall, DenyUnplanned, DenyByHook, Override, ghost
<1>4. CASE AfterTools \/ UNCHANGED vars
  BY <1>4 DEF AfterTools, vars, ghost
<1> QED
  BY <1>1, <1>2, <1>3, <1>4 DEF Next, Step, HandleCall

\* executeToolBatch and planGate: in a non-trivial turn of the lead a side
\* effect runs only with a plan from an earlier round of the same turn, for
\* every set of calls, batch size and budget.
THEOREM SideEffectsNeedAPlan == Spec => SideEffectsArePlanned
<1>1. PlanInv /\ [Next]_vars =>
        [\A c \in Calls :
           c.tool = "side_effect" /\ ran'[c] > ran[c] /\ role = "lead" /\ ~trivial
             => plan /\ planRound < rounds]_vars
  <2> SUFFICES ASSUME PlanInv, [Next]_vars, NEW d \in Calls,
                      d.tool = "side_effect", ran'[d] > ran[d],
                      role = "lead", ~trivial
               PROVE  plan /\ planRound < rounds
    OBVIOUS
  <2>1. ran[d] \in Nat /\ ran'[d] \in Nat
    BY PlanStep DEF PlanInv, PlanTypes
  <2>2. Run \/ \E c \in Calls : Execute(c)
    BY <2>1, OnlyExecuteRuns
  <2>3. ~Run
    BY <2>1 DEF Run, ResetGhost
  <2>4. PICK c \in Calls : Execute(c)
    BY <2>2, <2>3
  <2>5. c = d
    BY <2>1, <2>4 DEF Execute, PlanInv, PlanTypes
  <2>6. pc = "batch" /\ ~PlanBlocks(d)
    BY <2>4, <2>5 DEF Execute, Handling
  <2>7. planAtStart
    BY <2>6 DEF PlanBlocks, EnforcePlanning
  <2> QED
    BY <2>6, <2>7 DEF PlanInv
<1> QED
  BY <1>1, PlanInit, PlanStep, PTL DEF Spec, SideEffectsArePlanned

(***************************************************************************)
(* The tool-call block.  Calls are answered one for one, so what is open   *)
(* is what is left of the batch, and nothing is left outside a batch;      *)
(* nudges wait, so nothing ever splits the block.                          *)
(***************************************************************************)
PairInv ==
  /\ pc \in {"idle", "top", "model", "batch"}
  /\ batch \in Seq(Calls)
  /\ open = Len(batch)
  /\ pc # "batch" => batch = <<>>
  /\ split = FALSE

LEMMA PairInit == Init => PairInv
<1> SUFFICES ASSUME Init PROVE PairInv
  OBVIOUS
<1>1. pc = "idle" /\ batch = <<>> /\ open = 0 /\ split = FALSE
  BY DEF Init
<1> QED
  BY <1>1 DEF PairInv

LEMMA AnsweredKeepsPairs ==
  ASSUME PairInv, NEW c \in Calls, Handling(c), Answered, pc' = pc, split' = split
  PROVE  PairInv'
<1>1. batch \in Seq(Calls) /\ batch # <<>> /\ pc = "batch"
  BY DEF PairInv, Handling
<1>2. Tail(batch) \in Seq(Calls) /\ Len(Tail(batch)) = Len(batch) - 1
  BY <1>1
<1> QED
  BY <1>1, <1>2 DEF PairInv, Answered

LEMMA PairStep == PairInv /\ [Next]_vars => PairInv'
<1> SUFFICES ASSUME PairInv, [Next]_vars PROVE PairInv'
  OBVIOUS
<1>1. CASE Run \/ Cancel \/ ContextError
  BY <1>1 DEF PairInv, Run, Cancel, ContextError, Return
<1>2. CASE SoftDeadline \/ MaxRoundsReached \/ PromptBudgetReached
  BY <1>2 DEF PairInv, SoftDeadline, MaxRoundsReached, PromptBudgetReached,
              FinalizeWithoutTools, Return
<1>3. CASE CallModel
  BY <1>3 DEF PairInv, CallModel
<1>4. CASE ApiError \/ Truncated \/ LessonStage \/ JudgeRejects \/ Complete
  BY <1>4 DEF PairInv, ApiError, Truncated, LessonStage, JudgeRejects, Complete,
              Return
<1>5. CASE StartBatch
  <2>1. PICK n \in 1 .. MaxBatch : batch' \in [1 .. n -> Calls]
    BY <1>5 DEF StartBatch, Batches
  <2>2. n \in Nat
    BY <2>1
  <2>3. batch' \in Seq(Calls)
    BY <2>1, <2>2
  <2> QED
    BY <1>5, <2>3 DEF PairInv, StartBatch
<1>6. ASSUME NEW c \in Calls, HandleCall(c) PROVE PairInv'
  <2>1. Handling(c) /\ Answered /\ pc' = pc /\ split' = split
    BY <1>6 DEF HandleCall, MalformedCall, DenyUnplanned, DenyByHook, Override,
                Execute, DeferNudge
  <2> QED
    BY <2>1, AnsweredKeepsPairs
<1>7. CASE AfterTools
  <2>1. batch = <<>> /\ batch' = batch /\ open' = open /\ pc' \in {"idle", "top"}
    BY <1>7 DEF AfterTools, Return
  <2>2. ~(open > 0) /\ ~split
    BY <2>1 DEF PairInv
  <2>3. split' = FALSE
    BY <1>7, <2>2, Zenon DEF AfterTools
  <2> QED
    BY <2>1, <2>3 DEF PairInv
<1>8. CASE UNCHANGED vars
  BY <1>8 DEF PairInv, vars
<1> QED
  BY <1>1, <1>2, <1>3, <1>4, <1>5, <1>6, <1>7, <1>8 DEF Next, Step, Reply

\* executeToolBatch, handleTruncation and callModel: no request carries an
\* unanswered call or a user message inside a block of tool results, for
\* every set of calls and every batch size.
THEOREM RequestsPaired == Spec => []RequestsArePaired
<1>1. PairInv => RequestsArePaired
  <2> SUFFICES ASSUME PairInv, pc = "model" PROVE open = 0 /\ ~split
    BY DEF RequestsArePaired
  <2>1. batch = <<>> /\ open = Len(batch) /\ split = FALSE
    BY DEF PairInv
  <2> QED BY <2>1
<1> QED
  BY <1>1, PairInit, PairStep, PTL DEF Spec

(***************************************************************************)
(* The budgets.  What was really executed never exceeds what the guards    *)
(* have counted, and the guards let nothing pass once the count is at its  *)
(* limit; every path of a call (deny, override, execute) only counts up.   *)
(* The round cap and the lesson's rounds are checked at one place each, so *)
(* their bounds depend on where the loop is.                               *)
(***************************************************************************)
LoopTypes ==
  /\ role \in Roles
  /\ pc \in {"idle", "top", "model", "batch"}
  /\ outcome \in {"none", "completed", "error", "soft_deadline", "max_rounds",
                  "prompt_budget", "lesson_budget"}
  /\ cancelled \in BOOLEAN /\ trivial \in BOOLEAN
  /\ failed \in BOOLEAN /\ nudges \in BOOLEAN
  /\ plan \in BOOLEAN /\ planAtStart \in BOOLEAN /\ planRound \in Nat

CountTypes ==
  /\ exploreOK \in BOOLEAN
  /\ callCount \in [Calls -> Nat] /\ readCount \in [Args -> Nat]
  /\ delegations \in Nat /\ readsAfter \in Nat
  /\ ran \in [Calls -> Nat] /\ explored \in Nat /\ readsRun \in Nat

Counted ==
  /\ \A c \in Calls : ran[c] <= callCount[c] /\ ran[c] <= MaxRepeatedToolCalls
  /\ explored <= delegations /\ explored <= MaxExploreDelegations
  /\ role # "explore" => readsRun <= readsAfter /\ readsRun <= MaxReadsAfterExplore

Capped ==
  /\ rounds \in 0 .. MaxRounds + 1
  /\ pc = "top" => rounds <= MaxRounds
  /\ pc \in {"model", "batch"} => rounds < MaxRounds
  /\ retries \in 0 .. JudgeMaxRetryInjects
  /\ lesson \in [written : BOOLEAN, left : 0 .. LessonRoundsLimit]
  /\ lesson.written /\ pc # "idle" => lesson.left > 0
  /\ prompt \in Nat

BatchOK == batch \in Seq(Calls) /\ Len(batch) <= MaxBatch

BudgetInv == LoopTypes /\ CountTypes /\ Counted /\ Capped /\ BatchOK

LEMMA Bounds ==
  /\ MaxBatch \in Nat /\ MaxRounds \in Nat /\ MaxRepeatedToolCalls \in Nat
  /\ MaxExploreDelegations \in Nat /\ MaxReadsAfterExplore \in Nat
  /\ JudgeMaxRetryInjects \in Nat /\ LessonThreshold \in Nat
  /\ LessonRoundsLimit \in Nat /\ LessonRoundsLimit > 0 /\ MaxEstimate \in Nat
  BY RunnerAssumption

LEMMA FreshLesson ==
  [written |-> FALSE, left |-> 0] \in [written : BOOLEAN, left : 0 .. LessonRoundsLimit]
  BY Bounds

LEMMA BudgetInit == Init => BudgetInv
<1> SUFFICES ASSUME Init PROVE BudgetInv
  OBVIOUS
<1>1. LoopTypes
  BY Zenon DEF Init, FreshTurn, FreshGhost, LoopTypes
<1>2. CountTypes /\ Counted
  <2>1. /\ callCount = [c \in Calls |-> 0] /\ readCount = [a \in Args |-> 0]
        /\ ran = [c \in Calls |-> 0] /\ delegations = 0 /\ readsAfter = 0
        /\ explored = 0 /\ readsRun = 0
    BY Zenon DEF Init, FreshTurn, FreshGhost
  <2>2. exploreOK \in BOOLEAN
    BY Zenon DEF Init, FreshTurn
  <2> QED
    BY <2>1, <2>2, Bounds DEF CountTypes, Counted
<1>3. Capped
  <2>1. pc = "idle" /\ rounds = 0 /\ retries = 0 /\ prompt = 0
    BY DEF Init, FreshTurn
  <2>2. lesson \in [written : BOOLEAN, left : 0 .. LessonRoundsLimit]
    BY FreshLesson, Zenon DEF Init, FreshTurn
  <2> QED
    BY <2>1, <2>2, Bounds DEF Capped
<1>4. BatchOK
  BY Bounds DEF Init, BatchOK
<1> QED
  BY <1>1, <1>2, <1>3, <1>4 DEF BudgetInv

LEMMA CompactionCostsNat == CompactionCosts \subseteq Nat
  BY Bounds DEF CompactionCosts

\* Steps that only move the loop: the counters of the guards stay.
LEMMA CountsKept ==
  ASSUME CountTypes, Counted, role' = role,
         UNCHANGED <<exploreOK, callCount, readCount, delegations, readsAfter>>,
         UNCHANGED ghost
  PROVE  CountTypes' /\ Counted'
  BY DEF CountTypes, Counted, ghost

LEMMA FinalizeKeeps ==
  ASSUME BudgetInv, pc = "top", role' = role, NEW reason, prompt' \in Nat,
         reason \in {"soft_deadline", "max_rounds", "prompt_budget"},
         FinalizeWithoutTools(reason)
  PROVE  BudgetInv'
<1>1. LoopTypes'
  BY Zenon DEF BudgetInv, LoopTypes, FinalizeWithoutTools, Return, ghost
<1>2. CountTypes' /\ Counted'
  BY CountsKept DEF BudgetInv, FinalizeWithoutTools
<1>3. Capped'
  BY Bounds DEF BudgetInv, Capped, FinalizeWithoutTools, Return
<1>4. BatchOK'
  BY DEF BudgetInv, BatchOK, FinalizeWithoutTools
<1> QED
  BY <1>1, <1>2, <1>3, <1>4 DEF BudgetInv

\* A guard that lets a call pass has counted it within the limit.
LEMMA HandleCounts ==
  ASSUME BudgetInv, role' = role, NEW c \in Calls, HandleCall(c)
  PROVE  CountTypes' /\ Counted'
<1> USE Bounds DEF BudgetInv, CountTypes, Counted
<1>1. c.arg \in Args
  BY DEF Args
<1>2. CASE MalformedCall(c)
  BY <1>2 DEF MalformedCall, ghost
<1>3. CASE DenyUnplanned(c)
  BY <1>3 DEF DenyUnplanned, CountCall, ghost
<1>4. NoteRead(c) => readCount' \in [Args -> Nat]
  BY <1>1 DEF NoteRead
<1>5. CASE DenyByHook(c)
  BY <1>4, <1>5 DEF DenyByHook, CountCall, ghost
<1>6. CASE Override(c)
  BY <1>4, <1>6 DEF Override, CountCall, NoteLeadRead, ghost
<1>7. CASE Execute(c)
  <2>1. /\ callCount' = [callCount EXCEPT ![c] = @ + 1] /\ callCount[c] + 1 <= MaxRepeatedToolCalls
        /\ ran' = [ran EXCEPT ![c] = @ + 1]
    BY <1>7 DEF Execute, CountCall, RepeatBlocks
  <2>2. /\ explored' = IF c.tool = "explore" THEN explored + 1 ELSE explored
        /\ delegations' = IF c.tool = "explore" THEN delegations + 1 ELSE delegations
        /\ c.tool = "explore" => delegations + 1 <= MaxExploreDelegations
    BY <1>7 DEF Execute, ExploreExhausted
  <2>3. PICK ok \in BOOLEAN, openItems \in BOOLEAN : AfterTool(c, ok, openItems)
    BY <1>7 DEF Execute
  <2>4. /\ exploreOK' \in BOOLEAN
        /\ readsAfter' = IF c.tool \in Reads /\ exploreOK /\ role # "explore"
                           THEN readsAfter + 1 ELSE readsAfter
        /\ readsRun' = IF c.tool \in Reads /\ exploreOK THEN readsRun + 1 ELSE readsRun
    BY <2>3 DEF AfterTool, NoteLeadRead
  <2>5. c.tool \in Reads /\ exploreOK /\ role # "explore" => readsAfter < MaxReadsAfterExplore
    BY <1>7 DEF Execute, DeniedByHook, PostExploreBlocks
  <2>6. readCount' \in [Args -> Nat]
    BY <1>4, <1>7 DEF Execute
  <2> QED
    BY <2>1, <2>2, <2>4, <2>5, <2>6
<1> QED
  BY <1>2, <1>3, <1>5, <1>6, <1>7 DEF HandleCall

LEMMA HandleLoop ==
  ASSUME BudgetInv, role' = role, NEW c \in Calls, HandleCall(c)
  PROVE  LoopTypes' /\ Capped' /\ BatchOK'
<1>1. /\ pc' = pc /\ UNCHANGED <<outcome, cancelled, trivial, rounds, retries, lesson, prompt,
                                 planAtStart>>
      /\ Handling(c) /\ batch' = Tail(batch)
  BY DEF HandleCall, MalformedCall, DenyUnplanned, DenyByHook, Override, Execute, Answered
<1>2. failed' \in BOOLEAN
  BY DEF HandleCall, MalformedCall, DenyUnplanned, DenyByHook, Override, Execute, BudgetInv,
         LoopTypes
<1>3. nudges' \in BOOLEAN
  <2>1. ASSUME NEW b, DeferNudge(b) PROVE nudges' \in BOOLEAN
    BY <2>1 DEF DeferNudge
  <2>2. CASE MalformedCall(c) \/ DenyUnplanned(c)
    BY <2>2 DEF MalformedCall, DenyUnplanned, BudgetInv, LoopTypes
  <2>3. CASE DenyByHook(c) \/ Override(c) \/ Execute(c)
    BY <2>1, <2>3, Zenon DEF DenyByHook, Override, Execute
  <2> QED
    BY <2>2, <2>3 DEF HandleCall
<1>4. plan' \in BOOLEAN /\ planRound' \in Nat
  <2>1. plan \in BOOLEAN /\ planRound \in Nat /\ rounds \in Nat
    BY Bounds DEF BudgetInv, LoopTypes, Capped
  <2>2. CASE MalformedCall(c) \/ DenyUnplanned(c) \/ DenyByHook(c) \/ Override(c)
    BY <2>1, <2>2 DEF MalformedCall, DenyUnplanned, DenyByHook, Override, ghost
  <2>3. CASE Execute(c)
    <3>1. EstablishPlan \/ UNCHANGED <<plan, planRound>>
      BY <2>3, Zenon DEF Execute, AfterTool
    <3> QED
      BY <2>1, <3>1 DEF EstablishPlan
  <2> QED
    BY <2>2, <2>3 DEF HandleCall
<1>5. LoopTypes'
  BY <1>1, <1>2, <1>3, <1>4 DEF BudgetInv, LoopTypes
<1>6. Capped'
  BY <1>1 DEF BudgetInv, Capped
<1>7. BatchOK'
  BY <1>1, Bounds DEF BudgetInv, BatchOK, Handling
<1> QED
  BY <1>5, <1>6, <1>7

LEMMA AfterToolsKeeps ==
  ASSUME BudgetInv, role' = role, AfterTools PROVE BudgetInv'
<1>1. /\ pc = "batch" /\ pc' \in {"top", "idle"} /\ rounds' = rounds + 1 /\ nudges' = FALSE
      /\ outcome' \in {outcome, "lesson_budget"}
      /\ UNCHANGED <<cancelled, trivial, failed, plan, callCount, readCount, exploreOK,
                      delegations, readsAfter, retries, prompt, planAtStart, batch, ghost>>
  BY Zenon DEF AfterTools, Return
<1>2. LoopTypes'
  BY <1>1 DEF BudgetInv, LoopTypes, ghost
<1>3. CountTypes' /\ Counted'
  BY <1>1, CountsKept DEF BudgetInv
<1>4. Capped'
  <2>1. CASE lesson.written
    <3>1. /\ lesson' = [lesson EXCEPT !.left = @ - 1]
          /\ lesson'.left = 0 => pc' = "idle"
      BY <2>1 DEF AfterTools, Return
    <3> QED
      BY <1>1, <2>1, <3>1, Bounds DEF BudgetInv, Capped
  <2>2. CASE ~lesson.written
    <3>1. lesson' = [lesson EXCEPT !.left = lesson.left]
      BY <2>2 DEF AfterTools
    <3> QED
      BY <1>1, <2>2, <3>1, Bounds DEF BudgetInv, Capped
  <2> QED
    BY <2>1, <2>2
<1>5. BatchOK'
  BY <1>1 DEF BudgetInv, BatchOK
<1> QED
  BY <1>2, <1>3, <1>4, <1>5 DEF BudgetInv

LEMMA BudgetStep == BudgetInv /\ [Next]_vars => BudgetInv'
<1> SUFFICES ASSUME BudgetInv, [Next]_vars PROVE BudgetInv'
  OBVIOUS
<1>0. role' = role
  BY DEF Next, Step, vars
<1>1. CASE Run
  <2>1. LoopTypes'
    BY <1>0, <1>1, Zenon DEF BudgetInv, LoopTypes, Run, ResetTurnState, ResetGhost
  <2>2. CountTypes' /\ Counted'
    <3>1. /\ callCount' = [c \in Calls |-> 0] /\ readCount' = [a \in Args |-> 0]
          /\ ran' = [c \in Calls |-> 0] /\ delegations' = 0 /\ readsAfter' = 0
          /\ explored' = 0 /\ readsRun' = 0
      BY <1>1, Zenon DEF Run, ResetTurnState, ResetGhost
    <3>2. exploreOK' \in BOOLEAN
      BY <1>1, Zenon DEF Run, ResetTurnState
    <3> QED
      BY <3>1, <3>2, Bounds DEF CountTypes, Counted
  <2>3. Capped'
    <3>1. /\ rounds' = 0 /\ retries' = 0 /\ prompt' = 0 /\ pc' = "top"
          /\ lesson' = [written |-> FALSE, left |-> 0]
      BY <1>1, Zenon DEF Run, ResetTurnState
    <3>2. lesson' \in [written : BOOLEAN, left : 0 .. LessonRoundsLimit] /\ ~lesson'.written
      BY <3>1, FreshLesson
    <3> QED
      BY <3>1, <3>2, Bounds DEF Capped
  <2>4. BatchOK'
    BY <1>1 DEF Run, BudgetInv, BatchOK
  <2> QED
    BY <2>1, <2>2, <2>3, <2>4 DEF BudgetInv
<1>2. CASE Cancel
  BY <1>0, <1>2, CountsKept DEF Cancel, turn, ghost, BudgetInv, LoopTypes, Capped, BatchOK
<1>3. CASE ContextError \/ ApiError \/ Complete
  BY <1>0, <1>3, CountsKept
     DEF ContextError, ApiError, Complete, Return, turn, ghost, BudgetInv, LoopTypes, Capped,
         BatchOK
<1>4. CASE SoftDeadline \/ MaxRoundsReached
  <2>1. prompt' \in Nat
    BY <1>4 DEF SoftDeadline, MaxRoundsReached, BudgetInv, Capped
  <2> QED
    BY <1>0, <1>4, <2>1, FinalizeKeeps DEF SoftDeadline, MaxRoundsReached
<1>5. CASE PromptBudgetReached
  <2>1. prompt' \in Nat
    BY <1>5, CompactionCostsNat DEF PromptBudgetReached, BudgetInv, Capped
  <2> QED
    BY <1>0, <1>5, <2>1, FinalizeKeeps DEF PromptBudgetReached
<1>6. CASE CallModel
  <2>1. prompt' \in Nat
    BY <1>6, CompactionCostsNat, Bounds DEF CallModel, BudgetInv, Capped
  <2>2. CountTypes' /\ Counted'
    BY <1>0, <1>6, CountsKept DEF CallModel, BudgetInv
  <2>3. Capped'
    BY <1>6, <2>1, Bounds DEF CallModel, OutOfRounds, BudgetInv, Capped
  <2> QED
    BY <1>0, <1>6, <2>2, <2>3 DEF CallModel, ghost, BudgetInv, LoopTypes, BatchOK
<1>7. CASE Truncated
  BY <1>0, <1>7, CountsKept, Bounds
     DEF Truncated, turn, ghost, BudgetInv, LoopTypes, Capped, BatchOK
<1>8. CASE LessonStage
  <2>1. /\ lesson' \in [written : BOOLEAN, left : 0 .. LessonRoundsLimit] /\ lesson'.left > 0
    BY <1>8, Bounds DEF LessonStage
  <2>2. Capped'
    BY <1>8, <2>1, Bounds DEF LessonStage, BudgetInv, Capped
  <2> QED
    BY <1>0, <1>8, <2>2, CountsKept DEF LessonStage, ghost, BudgetInv, LoopTypes, BatchOK
<1>9. CASE JudgeRejects
  <2>1. Capped'
    BY <1>9, Bounds DEF JudgeRejects, JudgeAsked, BudgetInv, Capped
  <2> QED
    BY <1>0, <1>9, <2>1, CountsKept DEF JudgeRejects, ghost, BudgetInv, LoopTypes, BatchOK
<1>10. CASE StartBatch
  <2>1. PICK n \in 1 .. MaxBatch : batch' \in [1 .. n -> Calls]
    BY <1>10 DEF StartBatch, Batches
  <2>2. BatchOK'
    BY <2>1, Bounds DEF BatchOK
  <2> QED
    BY <1>0, <1>10, <2>2, CountsKept DEF StartBatch, turn, ghost, BudgetInv, LoopTypes, Capped
<1>11. ASSUME NEW c \in Calls, HandleCall(c) PROVE BudgetInv'
  BY <1>0, <1>11, HandleCounts, HandleLoop DEF BudgetInv
<1>12. CASE AfterTools
  BY <1>0, <1>12, AfterToolsKeeps
<1>13. CASE UNCHANGED vars
  BY <1>0, <1>13, CountsKept DEF vars, turn, ghost, BudgetInv, LoopTypes, Capped, BatchOK
<1> QED
  BY <1>1, <1>2, <1>3, <1>4, <1>5, <1>6, <1>7, <1>8, <1>9, <1>10, <1>11, <1>12, <1>13
     DEF Next, Step, Reply

\* The interceptors: however calls are denied, overridden and executed, an identical call,
\* a delegation to explore and the lead's reads after it run no more often than their
\* budgets allow, for every set of calls and all budgets.
THEOREM BudgetsHoldHolds == Spec => []BudgetsHold
<1>1. BudgetInv /\ PairInv => BudgetsHold
  <2> SUFFICES ASSUME BudgetInv, PairInv PROVE BudgetsHold
    OBVIOUS
  <2>1. split \in BOOLEAN /\ open = Len(batch)
    BY Zenon DEF PairInv
  <2>2. TypeOK
    BY <2>1 DEF BudgetInv, LoopTypes, CountTypes, Capped, BatchOK, TypeOK
  <2>3. role = "lead" => role # "explore"
    OBVIOUS
  <2> QED
    BY <2>2, <2>3 DEF BudgetsHold, BudgetInv, Counted
<1> QED
  BY <1>1, PairInit, PairStep, BudgetInit, BudgetStep, PTL DEF Spec
==========================================================================
