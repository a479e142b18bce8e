------------------------------ MODULE Approval ------------------------------
(***************************************************************************)
(* The tool executor and the approval of tool calls (internal/tool,        *)
(* internal/hitl, internal/security): a call is prepared against the live  *)
(* catalog, a file mutation is planned, the posture (the approval mode and *)
(* the user's rules) lets it pass, refuses it or has it put to the         *)
(* operator, and a handler then runs in a goroutine of its own, which the  *)
(* call stops waiting for when it is cancelled or times out.               *)
(*                                                                         *)
(* The callers are the lead, whose turns the REPL runs, and teammates,     *)
(* whose calls go on while the REPL reads the next line.  They share one   *)
(* reviewer, one terminal and one working tree, and a slash command may    *)
(* change the posture at any point of a teammate's call.  HITLManager is   *)
(* always enabled: ApplyMode enables it and nothing disables it.           *)
(***************************************************************************)
EXTENDS Integers, FiniteSets

CONSTANTS
  Callers, Lead,  \* agents; the one whose turns the REPL runs
  Calls,          \* tool calls a model may ask for
  Tool,           \* call -> what its definition and arguments say of it
  Menu,           \* caller -> calls it may make
  Caps,           \* caller -> effects its scope does not forbid
  RuleSets,       \* contents of permissions.json: call -> level of the first match
  Modes,          \* modes the operator switches between
  Edits,          \* what a file can hold: a content is a set of edits
  NoFile,         \* "content" of a file that does not exist
  Nobody,         \* holder of a free mutex
  IsTTY, NonTTYFallback,  \* isTerminalTTY and HITL_NON_TTY_FALLBACK
  MaxCalls,       \* bound: calls of one caller
  MaxCommands     \* bound: slash commands

Mutations == {"write", "edit", "delete"}
Severities == {"none", "low", "medium", "high", "danger"}
Levels == {"", "allow", "confirm", "block"}
AllModes == {"interactive", "safe-auto", "auto-approve", "auto-reject", "notify-only"}
\* kind: a file mutation, a shell command or another tool; hunks: what a mutation
\* adds; verdict: of ClassifyCommand; always: delete_file or a critical path;
\* dynamic: registered by an MCP server; url: one that a network policy blocks.
ToolRecord == [kind : Mutations \cup {"shell", "other"}, hunks : SUBSET Edits,
               effects : SUBSET STRING, classified : BOOLEAN, dynamic : BOOLEAN,
               risk : {"auto", "interactive", "danger"}, always : BOOLEAN,
               verdict : {"safe", "caution", "danger", "deny"}, blockedURL : BOOLEAN]

ASSUME ApprovalAssumption ==
  /\ Lead \in Callers /\ Nobody \notin Callers \cup {"repl"} /\ "repl" \notin Callers
  /\ Calls # {} /\ Tool \in [Calls -> ToolRecord]
  /\ Menu \in [Callers -> SUBSET Calls]
  /\ Caps \in [Callers -> SUBSET STRING]
  /\ RuleSets \subseteq [Calls -> Levels]
  /\ Modes \subseteq AllModes
  /\ \A s \in SUBSET Edits : NoFile # s
  /\ IsTTY \in BOOLEAN /\ NonTTYFallback \in {"approve", "reject"}
  /\ MaxCalls \in Nat /\ MaxCommands \in Nat

IsMutation(k) == Tool[k].kind \in Mutations

(***************************************************************************)
(* Policy: what happens to a call, from what is known of it                *)
(***************************************************************************)
\* classifyReview: the review a call needs by its arguments alone.
IntrinsicSeverity(k) ==
  CASE Tool[k].kind = "shell" -> IF Tool[k].verdict = "safe" THEN "low" ELSE "high"
    [] Tool[k].kind # "shell" /\ Tool[k].always -> "high"
    [] OTHER -> "none"

\* definitionReview: by the risk level of its definition.
DefinitionSeverity(k) ==
  CASE ~Tool[k].classified -> "high"
    [] Tool[k].classified /\ Tool[k].risk = "danger" -> "danger"
    [] Tool[k].classified /\ Tool[k].risk = "interactive" -> "high"
    [] OTHER -> "none"

\* resolveReviewRequirement: a rule outranks the command's own class, which
\* outranks the definition; "defined" says whether the catalog still holds it.
Severity(k, level, defined) ==
  CASE level = "confirm" -> "high"
    [] level # "confirm" /\ Tool[k].kind = "shell" -> IntrinsicSeverity(k)
    [] level \notin {"confirm", "allow"} /\ Tool[k].kind # "shell" /\ defined
       /\ DefinitionSeverity(k) # "none" -> DefinitionSeverity(k)
    [] OTHER -> IntrinsicSeverity(k)
NeedsReview(severity) == severity \notin {"none", "low"}

\* hasMaterialFileMutation, for the plan of the call.
Material(k, plan) == IsMutation(k) /\ plan.content # plan.original

\* permissionRejectDecision and decideApprovalDecision.
Decision(k, plan, snap, level, defined) ==
  LET promptsDiff == snap.mode \in {"interactive", "safe-auto"} /\ snap.showDiff
      routed == snap.mode \in {"auto-reject", "notify-only"}
      needed == NeedsReview(Severity(k, level, defined))
  IN CASE level = "block" -> "reject"
       [] level # "block" /\ Material(k, plan) /\ promptsDiff -> "mutation"
       [] level # "block" /\ ~(Material(k, plan) /\ promptsDiff)
          /\ (needed \/ (Material(k, plan) /\ routed)) -> "general"
       [] OTHER -> "allow"

\* The severity decideApprovalDecision puts into the request: a mutation that
\* needed no review of its own is of medium severity.
RequestSeverity(k, level, defined) ==
  LET s == Severity(k, level, defined) IN IF NeedsReview(s) THEN s ELSE "medium"

\* Mutant of RequestOutcome: safe-auto asks for dangerous calls only.
RequestOutcomeHigh(mode, severity) ==
  CASE mode \in {"auto-approve", "notify-only"} -> "approve"
    [] mode = "safe-auto" /\ severity # "danger" -> "approve"
    [] mode = "auto-reject" -> "reject"
    [] OTHER -> "ask"

\* RequestApproval: the mode that holds now, not that of the snapshot.
RequestOutcome(mode, severity) ==
  CASE mode \in {"auto-approve", "notify-only"} -> "approve"
    [] mode = "safe-auto" /\ severity \notin {"high", "danger"} -> "approve"
    [] mode = "auto-reject" -> "reject"
    [] OTHER -> IF IsTTY THEN "ask" ELSE NonTTYFallback

\* planWriteMutation, planEditMutation, planDeleteMutation: the content after
\* the call; a plan that cannot be made is an empty set.
Plans(k, content) ==
  CASE Tool[k].kind = "write" -> {[original |-> content, content |-> Tool[k].hunks]}
    [] Tool[k].kind = "edit" ->
         IF content = NoFile \/ Tool[k].hunks \subseteq content THEN {}
         ELSE {[original |-> content, content |-> content \cup Tool[k].hunks]}
    [] Tool[k].kind = "delete" ->
         IF content = NoFile THEN {} ELSE {[original |-> content, content |-> NoFile]}
    [] OTHER -> {[original |-> content, content |-> content]}

\* parseHunks: what a file that stays gains and loses.  PreviewCreateAndConfirm and
\* PreviewDeleteAndConfirm know no hunks.
Chunks(from, to) ==
  IF from = NoFile \/ to = NoFile THEN {} ELSE (from \ to) \cup (to \ from)

VARIABLES
  mode,        \* HITLManager.mode
  autoAll,     \* ApprovalState.autoApproveAll
  rules,       \* Permissions.rules
  registered,  \* calls whose tool is in the catalog, with its server connected
  repl,        \* where the REPL goroutine is; "preset" inside ApplyMode
  term,        \* holder of terminalMu
  reviewer,    \* holder of terminalApprovalReviewer.mu
  screen,      \* whose question the terminal shows last
  pc, call,    \* each caller's station, and the locals of Execute and DecideTool
  file,        \* the working tree: the content of the file the calls are about
  jobs,        \* handler goroutines
  used,        \* calls made, per caller, and "repl" -> slash commands
  seen         \* history of a call: the modes and the rule levels in force since it
               \* began, whether its tool left the catalog, whether the operator
               \* agreed to it, the hunks refused

vars == <<mode, autoAll, rules, registered, repl, term, reviewer, screen, pc, call, file,
          jobs, used, seen>>
posture == <<mode, autoAll, rules, registered>>

NoPlan == [original |-> NoFile, content |-> NoFile]
Blank == [k |-> CHOOSE k \in Calls : TRUE, plan |-> NoPlan,
          showDiff |-> TRUE, severity |-> "none", question |-> "none",
          left |-> {}, accepted |-> {}, yes |-> FALSE, result |-> "none"]
Unseen == [modes |-> {}, levels |-> {}, unlisted |-> FALSE, agreed |-> FALSE, refused |-> {}]
Working == {"diff", "decide", "queue", "request", "panel", "asked", "network", "invoked"}

Init ==
  /\ mode \in Modes /\ autoAll = (mode = "auto-approve") /\ rules \in RuleSets
  /\ registered = Calls
  /\ repl = "read"
  /\ term = Nobody /\ reviewer = Nobody /\ screen = Nobody
  /\ pc = [c \in Callers |-> "idle"]
  /\ call = [c \in Callers |-> Blank]
  /\ file \in {NoFile, {}}
  /\ jobs = {}
  /\ used = [c \in Callers \cup {"repl"} |-> 0]
  /\ seen = [c \in Callers |-> Unseen]

Goto(c, station) == pc' = [pc EXCEPT ![c] = station]
\* Execute returns, and the agent may go on to its next call.
Finish(c, result) ==
  /\ Goto(c, "idle")
  /\ call' = [call EXCEPT ![c] = [Blank EXCEPT !.result = result]]
  /\ seen' = [seen EXCEPT ![c] = Unseen]

\* History: what a change of the posture adds for the calls under way.
Witness(m, r) ==
  seen' = [c \in Callers |->
    IF pc[c] \in Working
    THEN [seen[c] EXCEPT !.modes = @ \cup {m}, !.levels = @ \cup {r[call[c].k]}]
    ELSE seen[c]]

(***************************************************************************)
(* prepare and authorize                                                   *)
(***************************************************************************)
\* Execute: prepareExecution, the capabilities of the scope and the plan, made
\* from the file as it is now.
Execute(c, k) ==
  /\ pc[c] = "idle" /\ k \in Menu[c] /\ used[c] < MaxCalls
  /\ c = Lead => repl = "turn"
  /\ used' = [used EXCEPT ![c] = @ + 1]
  /\ LET plans == Plans(k, file)
         refused == CASE k \notin registered -> "unavailable"
                      [] k \in registered /\ ~(Tool[k].effects \subseteq Caps[c]) -> "denied"
                      [] OTHER -> IF plans = {} THEN "denied" ELSE "none"
     IN IF refused # "none"
        THEN Finish(c, refused)
        ELSE /\ Goto(c, "diff")
             /\ seen' = [seen EXCEPT ![c] =
                          [Unseen EXCEPT !.modes = {mode}, !.levels = {rules[k]}]]
             /\ \E plan \in plans :
                  call' = [call EXCEPT ![c] = [Blank EXCEPT !.k = k, !.plan = plan]]
  /\ UNCHANGED <<posture, repl, term, reviewer, screen, file, jobs>>

\* policySnapshot, which takes two locks one after the other.
SnapDiff(c) ==
  /\ pc[c] = "diff"
  /\ call' = [call EXCEPT ![c].showDiff = ~autoAll]
  /\ Goto(c, "decide")
  /\ UNCHANGED <<posture, repl, term, reviewer, screen, file, jobs, used, seen>>

\* The rest of policySnapshot, resolvePermissionDecision, decideApprovalDecision
\* with the definition the catalog holds now, and the branch of Apply it takes.
\* (The mode, the rules and the catalog are read one after the other, but one
\* command changes one of them.)
Decide(c) ==
  /\ pc[c] = "decide"
  /\ LET l == call[c]
         snap == [showDiff |-> l.showDiff, mode |-> mode]
         level == rules[l.k]
         defined == l.k \in registered
         decision == Decision(l.k, l.plan, snap, level, defined)
     IN \/ /\ decision = "allow" /\ Goto(c, "network") /\ UNCHANGED <<call, seen>>
        \/ /\ decision = "reject" /\ Finish(c, "rejected")
        \/ /\ decision \in {"mutation", "general"} /\ Goto(c, "queue")
           /\ call' = [call EXCEPT ![c].question = decision,
                                   ![c].severity = RequestSeverity(l.k, level, defined)]
           /\ UNCHANGED seen
  /\ UNCHANGED <<posture, repl, term, reviewer, screen, file, jobs, used>>

(***************************************************************************)
(* The reviewer and its terminal                                           *)
(***************************************************************************)
\* Mutant of TakeReviewer: a diff is reviewed without the lock.
TakeReviewerForPanels(c) ==
  /\ call[c].question = "general" => reviewer = Nobody
  /\ reviewer' = IF call[c].question = "general" THEN c ELSE reviewer

\* terminalApprovalReviewer.mu.
TakeReviewer(c) == reviewer = Nobody /\ reviewer' = c
LeaveReviewer(c) == reviewer' = IF reviewer = c THEN Nobody ELSE reviewer

\* reviewMutation: the diff is printed and its first question asked.
OpenDiff(c) ==
  /\ pc[c] = "queue" /\ call[c].question = "mutation"
  /\ TakeReviewer(c)
  /\ LET chunks == Chunks(call[c].plan.original, call[c].plan.content)
     IN call' = [call EXCEPT ![c].question = IF Cardinality(chunks) > 1 THEN "chunk" ELSE "whole",
                             ![c].left = chunks]
  /\ screen' = c
  /\ Goto(c, "panel")
  /\ UNCHANGED <<posture, repl, term, file, jobs, used, seen>>

\* requestGeneralApproval ...
LockGeneral(c) ==
  /\ pc[c] = "queue" /\ call[c].question = "general"
  /\ TakeReviewer(c)
  /\ Goto(c, "request")
  /\ UNCHANGED <<posture, repl, term, screen, call, file, jobs, used, seen>>

\* ... and RequestApproval under its lock.
Request(c) ==
  /\ pc[c] = "request"
  /\ LET outcome == RequestOutcome(mode, call[c].severity)
     IN \/ /\ outcome = "approve" /\ LeaveReviewer(c)
           /\ Goto(c, "network") /\ UNCHANGED <<call, screen, seen>>
        \/ /\ outcome = "reject" /\ LeaveReviewer(c)
           /\ Finish(c, "rejected") /\ UNCHANGED screen
        \/ /\ outcome = "ask" /\ screen' = c
           /\ Goto(c, "panel") /\ UNCHANGED <<call, reviewer, seen>>
  /\ UNCHANGED <<posture, repl, term, file, jobs, used>>

\* ReadLine: the reader waits its turn at the terminal, behind the REPL's own.
ReadLine(c) ==
  /\ pc[c] = "panel" /\ term = Nobody
  /\ term' = c
  /\ Goto(c, "asked")
  /\ UNCHANGED <<posture, repl, reviewer, screen, call, file, jobs, used, seen>>

\* An empty or unknown answer, or a wish to see the diff again: asked once more.
AskAgain(c) ==
  /\ pc[c] = "asked" /\ call[c].question # "feedback"
  /\ term' = Nobody /\ screen' = c
  /\ Goto(c, "panel")
  /\ UNCHANGED <<posture, repl, reviewer, call, file, jobs, used, seen>>

\* Mutant of Refuse: the reviewer returns early and keeps its lock.
RefuseHolding(c, result) ==
  /\ term' = Nobody /\ UNCHANGED <<reviewer, screen>>
  /\ Finish(c, result)

\* The review ends: with consent the call goes on, otherwise it is over.
Consent(c, content) ==
  /\ term' = Nobody /\ LeaveReviewer(c)
  /\ Goto(c, "network")
  /\ call' = [call EXCEPT ![c] = [@ EXCEPT !.yes = TRUE, !.plan.content = content]]
  /\ UNCHANGED screen
Refuse(c, result) ==
  /\ term' = Nobody /\ LeaveReviewer(c)
  /\ Finish(c, result) /\ UNCHANGED screen
\* Another question of the same review.
NextQuestion(c, l) ==
  /\ term' = Nobody /\ screen' = c
  /\ Goto(c, "panel")
  /\ call' = [call EXCEPT ![c] = l]
  /\ UNCHANGED reviewer

\* What the operator says is said of what the screen shows.
Said(yes, refused) ==
  seen' = [x \in Callers |->
    IF x = screen THEN [seen[x] EXCEPT !.agreed = @ \/ yes, !.refused = @ \cup refused]
    ELSE seen[x]]

\* readInteractiveDecision, previewWholeChange and previewSingleHunk; an error
\* of the reader, Ctrl-C and Ctrl-D refuse.
AnswerOnce(c) ==
  /\ pc[c] = "asked" /\ call[c].question \in {"general", "whole", "feedback", "failed"}
  /\ \/ /\ call[c].question \in {"general", "whole"}
        /\ Consent(c, call[c].plan.content) /\ Said(TRUE, {})
     \/ /\ call[c].question \in {"general", "whole", "failed"}
        /\ Refuse(c, "rejected")
     \/ /\ call[c].question = "general"
        /\ NextQuestion(c, [call[c] EXCEPT !.question = "feedback"]) /\ Said(FALSE, {})
     \/ /\ call[c].question = "feedback"
        /\ \E result \in {"modified", "rejected"} : Refuse(c, result)
     \* confirmApplyAllAfterPartialFailure: "Apply ALL changes instead?"
     \/ /\ call[c].question = "failed"
        /\ Consent(c, call[c].plan.content)
        /\ seen' = [seen EXCEPT ![screen] = [@ EXCEPT !.agreed = TRUE, !.refused = {}]]
  /\ UNCHANGED <<posture, repl, file, jobs, used>>

\* Mutant of Applied: the hunks asked about are applied, the refused ones too.
AppliedAsked(l) == l.plan.content

\* applyAcceptedHunks: an accepted hunk adds what was not there or takes what was.
Applied(l) == (l.plan.original \ l.accepted) \cup (l.accepted \ l.plan.original)

\* previewChunkByChunk: one chunk, or all that are left, accepted or refused.
\* The last answer leaves nothing accepted, everything, or a part to be applied,
\* which may fail.
AnswerChunk(c) ==
  /\ pc[c] = "asked" /\ call[c].question = "chunk"
  /\ LET l == call[c]
         shown == CHOOSE h \in l.left : TRUE
     IN \/ \E here \in {{shown}, l.left}, yes \in BOOLEAN :
             LET after == [l EXCEPT !.left = @ \ here,
                                    !.accepted = IF yes THEN @ \cup here ELSE @]
                 said == Said(yes, IF yes THEN {} ELSE here)
             IN \/ after.left # {} /\ NextQuestion(c, after) /\ said
                \/ after.left = {} /\ after.accepted = {} /\ Refuse(c, "rejected")
                \/ after.left = {} /\ after.accepted # {} /\ Consent(c, Applied(after)) /\ said
                \/ /\ after.left = {} /\ after.accepted # {}
                   /\ Applied(after) # l.plan.content
                   /\ NextQuestion(c, [after EXCEPT !.question = "failed"]) /\ said
        \/ Refuse(c, "rejected")
  /\ UNCHANGED <<posture, repl, file, jobs, used>>

(***************************************************************************)
(* invoke                                                                  *)
(***************************************************************************)
\* checkNetwork, the last gate, and the goroutine that runs the handler.
Invoke(c) ==
  /\ pc[c] = "network"
  /\ IF Tool[call[c].k].blockedURL
     THEN Finish(c, "denied") /\ UNCHANGED jobs
     ELSE /\ Goto(c, "invoked")
          /\ jobs' = jobs \cup
               {[c |-> c, n |-> used[c], k |-> call[c].k, plan |-> call[c].plan,
                 yes |-> call[c].yes, seen |-> seen[c], stage |-> "run", raced |-> FALSE]}
          /\ UNCHANGED <<call, seen>>
  /\ UNCHANGED <<posture, repl, term, reviewer, screen, file, used>>

\* The result goes into resultCh, which nobody reads if the call has returned.
Deliver(j, result) ==
  IF pc[j.c] = "invoked" /\ used[j.c] = j.n
  THEN jobs' = (jobs \ {j}) \cup {[j EXCEPT !.stage = result]}
  ELSE jobs' = jobs \ {j}

\* Mutant of Unchanged: the file is taken as it was planned.
UnchangedUnlooked(j) == TRUE

\* approvedMutationFor: the file is still what the plan was made from.
Unchanged(j) == file = j.plan.original

\* The handler of a file mutation: it looks at the file, ...
Verify(j) ==
  /\ j.stage = "run" /\ IsMutation(j.k)
  /\ IF Unchanged(j)
     THEN jobs' = (jobs \ {j}) \cup {[j EXCEPT !.stage = "write"]}
     ELSE Deliver(j, "failed")
  /\ UNCHANGED <<posture, repl, term, reviewer, screen, pc, call, file, used, seen>>

\* ... and then replaces it (AtomicWrite) or removes it, or fails to.
Write(j) ==
  /\ j.stage = "write"
  /\ \/ /\ ~(j.plan.content = NoFile /\ file = NoFile)
        /\ file' = j.plan.content
        /\ LET raced == {[i EXCEPT !.raced = TRUE] : i \in {i \in jobs \ {j} : i.stage = "write"}}
               rest == {i \in jobs \ {j} : i.stage # "write"}
               waits == pc[j.c] = "invoked" /\ used[j.c] = j.n
           IN jobs' = rest \cup raced \cup
                      (IF waits THEN {[j EXCEPT !.stage = "succeeded"]} ELSE {})
     \/ /\ Deliver(j, "failed") /\ UNCHANGED file
  /\ UNCHANGED <<posture, repl, term, reviewer, screen, pc, call, used, seen>>

\* Any other handler: a shell command the hard policy denies does not run, an
\* MCP tool needs its server.
Run(j) ==
  /\ j.stage = "run" /\ ~IsMutation(j.k)
  /\ \E result \in CASE Tool[j.k].kind = "shell" /\ Tool[j.k].verdict = "deny" -> {"denied"}
                     [] Tool[j.k].dynamic /\ j.k \notin registered -> {"failed"}
                     [] OTHER -> {"succeeded", "failed"} : Deliver(j, result)
  /\ UNCHANGED <<posture, repl, term, reviewer, screen, pc, call, file, used, seen>>

Receive(c) ==
  /\ pc[c] = "invoked"
  /\ \E j \in jobs :
       /\ j.c = c /\ j.n = used[c] /\ j.stage \in {"succeeded", "failed", "denied"}
       /\ jobs' = jobs \ {j}
       /\ Finish(c, j.stage)
  /\ UNCHANGED <<posture, repl, term, reviewer, screen, file, used>>

\* Mutant of Abandon: the deadline of the call does not reach the executor.
AbandonInterrupted(c) ==
  /\ pc[c] = "invoked" /\ c = Lead
  /\ Finish(c, "cancelled")
  /\ jobs' = {j \in jobs : ~(j.c = c /\ j.n = used[c] /\ j.stage \notin {"run", "write"})}
  /\ UNCHANGED <<posture, repl, term, reviewer, screen, file, used>>

\* callCtx is done first, at the deadline or as Ctrl-C interrupts the lead's turn:
\* the handler stays behind.
Abandon(c) ==
  /\ pc[c] = "invoked"
  /\ \E result \in {"timeout"} \cup (IF c = Lead THEN {"cancelled"} ELSE {}) :
       Finish(c, result)
  /\ jobs' = {j \in jobs : ~(j.c = c /\ j.n = used[c] /\ j.stage \notin {"run", "write"})}
  /\ UNCHANGED <<posture, repl, term, reviewer, screen, file, used>>

(***************************************************************************)
(* The REPL                                                                *)
(***************************************************************************)
\* readPrompt takes the terminal ...
Prompt ==
  /\ repl = "read" /\ term = Nobody
  /\ term' = "repl" /\ repl' = "typing"
  /\ UNCHANGED <<posture, reviewer, screen, pc, call, file, jobs, used, seen>>

\* ... and reads a line for the lead.
UserTurn ==
  /\ repl = "typing" /\ used[Lead] < MaxCalls
  /\ term' = Nobody /\ repl' = "turn"
  /\ UNCHANGED <<posture, reviewer, screen, pc, call, file, jobs, used, seen>>

\* promptContinue.
EmptyLine ==
  /\ repl = "typing"
  /\ term' = Nobody /\ repl' = "read"
  /\ UNCHANGED <<posture, reviewer, screen, pc, call, file, jobs, used, seen>>

EndTurn ==
  /\ repl = "turn" /\ pc[Lead] = "idle"
  /\ repl' = "read"
  /\ UNCHANGED <<posture, term, reviewer, screen, pc, call, file, jobs, used, seen>>

Command ==
  /\ repl = "typing" /\ used["repl"] < MaxCommands
  /\ term' = Nobody
  /\ used' = [used EXCEPT !["repl"] = @ + 1]

\* handleApproval and ApplyMode: the manager's mode, then the preset of
\* ApprovalState.
SetMode ==
  /\ Command
  /\ \E m \in Modes \ {mode} : mode' = m /\ Witness(m, rules)
  /\ repl' = "preset"
  /\ UNCHANGED <<autoAll, rules, registered, reviewer, screen, pc, call, file, jobs>>

ApplyPreset ==
  /\ repl = "preset"
  /\ autoAll' = (mode = "auto-approve")
  /\ repl' = "read"
  /\ UNCHANGED <<mode, rules, registered, term, reviewer, screen, pc, call,
                 file, jobs, used, seen>>

\* /permissions reload.
ReloadPermissions ==
  /\ Command
  /\ \E r \in RuleSets \ {rules} : rules' = r /\ Witness(mode, r)
  /\ repl' = "read"
  /\ UNCHANGED <<mode, autoAll, registered, reviewer, screen, pc, call, file, jobs>>

\* /mcp disconnect and /mcp connect: the tools leave the catalog and come back.
ToggleServer ==
  /\ Command
  /\ LET dynamic == {k \in Calls : Tool[k].dynamic}
     IN registered' = IF dynamic \subseteq registered THEN registered \ dynamic
                      ELSE registered \cup dynamic
  /\ seen' = [c \in Callers |-> IF pc[c] \in Working /\ call[c].k \notin registered'
                               THEN [seen[c] EXCEPT !.unlisted = TRUE] ELSE seen[c]]
  /\ repl' = "read"
  /\ UNCHANGED <<mode, autoAll, rules, reviewer, screen, pc, call, file, jobs>>

Pipeline(c) ==
  SnapDiff(c) \/ Decide(c) \/ Request(c) \/ Invoke(c) \/ Receive(c)
Review(c) == OpenDiff(c) \/ LockGeneral(c)
Answer(c) == AnswerOnce(c) \/ AnswerChunk(c)
Handler(j) == Verify(j) \/ Write(j) \/ Run(j)
Operator == UserTurn \/ EmptyLine \/ SetMode \/ ReloadPermissions \/ ToggleServer

Next ==
  \/ \E c \in Callers :
       \/ \E k \in Calls : Execute(c, k)
       \/ Pipeline(c) \/ Review(c) \/ ReadLine(c) \/ AskAgain(c) \/ Answer(c)
       \/ Abandon(c)
  \/ \E j \in jobs : Handler(j)
  \/ Prompt \/ Operator \/ EndTurn \/ ApplyPreset

\* Goroutines run; a mutex that is free again and again is obtained (a starving
\* waiter of a Go mutex is handed it); the deadline of a call comes; the
\* operator enters lines at the prompt and, asked again and again, decides.
Fairness ==
  /\ \A c \in Callers :
       /\ WF_vars(Pipeline(c) \/ Abandon(c))
       /\ SF_vars(Review(c) \/ ReadLine(c))
       /\ SF_vars(Answer(c))
  /\ WF_vars(Prompt \/ Operator \/ EndTurn \/ ApplyPreset)

Spec == Init /\ [][Next]_vars /\ Fairness

(***************************************************************************)
(* Properties                                                              *)
(***************************************************************************)
IsContent(x) == x = NoFile \/ x \subseteq Edits
Results == {"none", "unavailable", "denied", "rejected", "modified", "succeeded", "failed",
            "timeout", "cancelled"}
Finished == {"succeeded", "failed", "denied"}
History == [modes : SUBSET Modes, levels : SUBSET Levels, unlisted : BOOLEAN,
            agreed : BOOLEAN, refused : SUBSET Edits]

\* The types; a result lies in its channel only while its call waits for it.
TypeOK ==
  /\ mode \in Modes /\ autoAll \in BOOLEAN /\ rules \in RuleSets
  /\ registered \subseteq Calls
  /\ repl \in {"read", "typing", "turn", "preset"}
  /\ term \in Callers \cup {"repl", Nobody} /\ reviewer \in Callers \cup {Nobody}
  /\ screen \in Callers \cup {Nobody}
  /\ pc \in [Callers -> Working \cup {"idle"}]
  /\ \A c \in Callers :
       /\ call[c].k \in Calls /\ IsContent(call[c].plan.original)
       /\ IsContent(call[c].plan.content)
       /\ call[c].severity \in Severities /\ call[c].showDiff \in BOOLEAN
       /\ call[c].left \subseteq Edits /\ call[c].accepted \subseteq Edits
       /\ call[c].yes \in BOOLEAN /\ call[c].result \in Results
  /\ IsContent(file)
  /\ \A j \in jobs : j.stage \in Finished => pc[j.c] = "invoked" /\ used[j.c] = j.n
  /\ used \in [Callers \cup {"repl"} -> 0..(MaxCalls + MaxCommands)]
  /\ seen \in [Callers -> History]

\* A handler of a dangerous call (by its command, its path, its definition or
\* a confirm rule) runs only if the operator agreed to that very call, or a mode
\* that lets such calls pass was in force since the call began; and never if a
\* rule blocked the call all the time.  The mode and the rules may change, the
\* snapshot may mix two postures, and the mode is read again after the wait for
\* the reviewer.  The one way around it is a tool that leaves the catalog
\* between prepare and review: its risk is no longer known.
Dangerous(k, level) == Severity(k, level, TRUE) \in {"high", "danger"}
ConsentHolds ==
  \A j \in jobs :
    \E level \in j.seen.levels :
      /\ level # "block"
      /\ \/ ~Dangerous(j.k, level) \/ j.seen.agreed \/ j.seen.unlisted
         \/ j.seen.modes \cap {"auto-approve", "notify-only"} # {}

\* Consent is taken from the terminal for the call whose question the operator
\* saw last: two reviews never mix, nor do a review and the REPL's own prompt.
AnswersMatch == \A c \in Callers : call[c].yes => seen[c].agreed

\* The reviewer's lock and the terminal are held by those that are at work with
\* them, whatever way a review ends.
HoldersAreAsking ==
  /\ TypeOK
  /\ \A c \in Callers :
    /\ reviewer = c => pc[c] \in {"request", "panel", "asked"}
    /\ pc[c] \in {"panel", "asked"} => reviewer = c
    /\ term = c <=> pc[c] = "asked"

\* A handler writes what was reviewed: the planned content, or of a change
\* reviewed chunk by chunk the accepted ones; what is written differs from the
\* file that was reviewed in no refused chunk.
\* And what it overwrites is what its plan, and with it the diff, was made from,
\* however long the operator thought about it: only a write between the handler's
\* own look at the file and its rename is lost ("raced").
WritesAsReviewed ==
  [][file' # file =>
       \E j \in jobs :
         /\ j.stage = "write" /\ file' = j.plan.content
         /\ Chunks(j.plan.original, file') \cap j.seen.refused = {}
         /\ file = j.plan.original \/ j.raced]_vars

\* Every call returns: the reviewer and the terminal come free, whoever waits
\* for them, and a handler that does not end is left behind.
CallsReturn == \A c \in Callers : pc[c] # "idle" ~> pc[c] = "idle"

=============================================================================
