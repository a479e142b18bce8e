-------------------------------- MODULE Team --------------------------------
(***************************************************************************)
(* Teammates: TeammateManager (internal/agent/teammate.go), the message bus*)
(* (internal/team/bus.go), the handlers of the executor                    *)
(* (internal/tool/executor.go), the worktree leases (internal/worktree),   *)
(* the background jobs (internal/background) and the way a session closes  *)
(* them down (internal/application).  A teammate is a goroutine that       *)
(* alternates a work phase (read the inbox, call the model, run its tool   *)
(* calls) and an idle phase (poll the inbox and the task board).  The lead *)
(* and the teammates spawn, message and stop teammates by tool calls, and  *)
(* a tool call runs in a goroutine of its own: its handler, which goes on  *)
(* when the call was given up because of its timeout or a cancellation.    *)
(*                                                                         *)
(* Each critical section (tm.mu, the bus's mu, the lease map's mu, the     *)
(* supervisor's mu) is one step; what a goroutine keeps between them is in *)
(* loop[l] and handler[h].                                                 *)
(***************************************************************************)
EXTENDS Naturals, Sequences, FiniteSets

CONSTANTS
  Names,      \* the teammates' names
  Lead,       \* the lead, as a caller of tools
  Nobody,     \* the caller of a handler that was given up
  Loops,      \* bound: goroutines that can run at a time
  Handlers,   \* bound: tool calls that act on the team at a time
  MaxRounds,  \* TeammateWorkMaxRounds
  MaxPolls,   \* IdleTimeout / PollInterval
  MaxInbox    \* bound: messages waiting in an inbox

ASSUME TeamAssumption ==
  /\ Lead \notin Names \cup Loops /\ Nobody \notin Loops \cup {Lead}
  /\ MaxRounds \in Nat \ {0} /\ MaxPolls \in Nat \ {0} /\ MaxInbox \in Nat

\* A message is its type: nothing but the model reads the rest of it.
Msg == {"message", "shutdown_request"}
Statuses == {"none", "working", "idle", "shutdown"}

(***************************************************************************)
(* Stations of a loop: the top of a round, before reading the "inbox",     *)
(* waiting for the "model", handling its "tools" calls, "asking" whether a *)
(* call may run, "calling", until its handler answers or is given up, and  *)
(* "idle" between two polls.                                               *)
(***************************************************************************)
Stations == {"none", "inbox", "model", "tools", "asking", "calling", "idle"}
Loop == [pc : Stations, name : Names \cup {Lead}, n : 0..(MaxRounds + MaxPolls)]
NoLoop == [pc |-> "none", name |-> Lead, n |-> 0]

(***************************************************************************)
(* A handler that spawns the teammate name, starts a background job, or is *)
(* one of the bus's; "leased" when Spawn has taken the worktree and has    *)
(* not yet started the loop.                                               *)
(***************************************************************************)
Handler == [pc : {"none", "ready", "leased"}, kind : {"spawn", "job", "bus"},
            by : Loops \cup {Lead, Nobody}, name : Names \cup {Lead}]
NoHandler == [pc |-> "none", kind |-> "bus", by |-> Nobody, name |-> Lead]

VARIABLES
  member,    \* config.Members[name].Status, saved to config.json with every change
  loop,      \* the running autonomousLoop goroutines
  handler,   \* the running handlers of tool calls
  inbox,     \* the JSONL inbox files of the teammates
  leases,    \* worktree.Service.leases
  dirs,      \* worktree directories on disk
  branches,  \* branches agent_<name> in the repository
  job,       \* the background job, in Supervisor.jobs until it is drained (bound: one)
  session,   \* "open"; "closing" (canceled), "stopping" (requests posted), "reaping"
             \* (jobs canceled), "removing" (jobs awaited); "closed"
  inherited  \* history: names a crash left listed, and not spawned since

trees == <<leases, dirs, branches>>
vars == <<member, loop, handler, inbox, leases, dirs, branches, job, session, inherited>>

Running(l) == loop[l].pc # "none"
Active(h) == handler[h].pc # "none"
AllEnded == \A l \in Loops : ~Running(l)
Live(n) == \E l \in Loops : Running(l) /\ loop[l].name = n
Spawning(n) == \E h \in Handlers : handler[h].pc = "leased" /\ handler[h].name = n

\* A job knows whether the call that started it had been given up.
Job == [state : {"none", "running", "canceled", "done"}, stray : BOOLEAN]
NoJob == [state |-> "none", stray |-> FALSE]
JobLives == job.state \in {"running", "canceled"}
Members == {n \in Names : member[n] # "none"}
Listed == {n \in Names : member[n] \in {"working", "idle"}}
-----------------------------------------------------------------------------
(* The message bus. *)

\* Send appends one line to the recipient's inbox.
Send(to, m) ==
  /\ Len(inbox[to]) < MaxInbox
  /\ inbox' = [inbox EXCEPT ![to] = Append(@, m)]

\* Broadcast goes to every member, whatever its status, under one lock.
Broadcast ==
  /\ \A n \in Members : Len(inbox[n]) < MaxInbox
  /\ inbox' = [n \in Names |-> IF n \in Members THEN Append(inbox[n], "message")
                                ELSE inbox[n]]

\* ReadInbox returns all messages and truncates the file.
ReadInbox(n) == inbox' = [inbox EXCEPT ![n] = <<>>]

ShutdownWaiting(n) == \E i \in 1..Len(inbox[n]) : inbox[n][i] = "shutdown_request"

-----------------------------------------------------------------------------
(* Tool calls that act on the team: the handler runs in its own goroutine. *)

\* invokeExecution starts the handler, whatever became of the caller's context.
StartHandler(caller, own) ==
  \E h \in Handlers, kind \in {"spawn", "job", "bus"} :
    \E n \in (IF kind = "spawn" THEN Names ELSE {own}) :
      /\ ~Active(h)
      /\ handler' = [handler EXCEPT ![h] = [pc |-> "ready", kind |-> kind,
                                           by |-> caller, name |-> n]]

\* The caller's loop once the call is answered or given up.
CallerGoesOn(h) ==
  IF handler[h].by \in Loops THEN [loop EXCEPT ![handler[h].by].pc = "tools"] ELSE loop

\* The handler returns; nobody reads the answer of one that was given up.
Return(h) == handler' = [handler EXCEPT ![h] = NoHandler] /\ loop' = CallerGoesOn(h)

\* The timeout of the tool, or the end of the caller's context: the call returns
\* and leaves its handler behind.
GiveUp(h) ==
  /\ Active(h) /\ handler[h].by # Nobody
  /\ handler' = [handler EXCEPT ![h].by = Nobody] /\ loop' = CallerGoesOn(h)
  /\ UNCHANGED <<member, inbox, job, session, inherited>> /\ UNCHANGED trees

\* Acquire: the lease of this process, or a new directory and a new branch.
\* git refuses an existing directory and an existing branch; the directory
\* made before the branch was refused is removed again.
Acquire(n) ==
  \/ n \in leases /\ UNCHANGED trees
  \/ /\ n \notin leases /\ n \notin dirs /\ n \notin branches
     /\ leases' = leases \cup {n} /\ dirs' = dirs \cup {n} /\ branches' = branches \cup {n}

\* spawnMu is held from the first to the last step of a Spawn.
MaySpawn(h) ==
  /\ handler[h].pc = "ready" /\ handler[h].kind = "spawn"
  /\ \A other \in Handlers : handler[other].pc # "leased"

\* Spawn is refused for a working member, or by git.
SpawnRefused(h) ==
  /\ MaySpawn(h) /\ Return(h)
  /\ UNCHANGED <<member, inbox, job, session, inherited>> /\ UNCHANGED trees

\* Under tm.mu: the status, the lease and the table.  Nothing asks whether the
\* session is still open, or the caller still there ...
SpawnLease(h) ==
  LET n == handler[h].name IN
  /\ MaySpawn(h) /\ member[n] # "working" /\ Acquire(n)
  /\ member' = [member EXCEPT ![n] = "working"]
  /\ handler' = [handler EXCEPT ![h].pc = "leased"]
  /\ inherited' = inherited \ {n}
  /\ UNCHANGED <<loop, inbox, job, session>>

\* ... and after it: the wait group, and the goroutine (a free l is the bound).
SpawnStart(h) ==
  /\ handler[h].pc = "leased"
  /\ \E l \in Loops :
       /\ ~Running(l)
       /\ loop' = [CallerGoesOn(h) EXCEPT ![l] = [NoLoop EXCEPT !.pc = "inbox",
                                                                !.name = handler[h].name]]
  /\ handler' = [handler EXCEPT ![h] = NoHandler]
  /\ UNCHANGED <<member, inbox, job, session, inherited>> /\ UNCHANGED trees

\* Supervisor.Run files the job and starts it under a timeout of its own (a free
\* slot is the bound).  The supervisor has no closed flag either.
RunJob(h) ==
  /\ handler[h].pc = "ready" /\ handler[h].kind = "job" /\ job.state = "none"
  /\ job' = [state |-> "running", stray |-> handler[h].by = Nobody]
  /\ Return(h)
  /\ UNCHANGED <<member, inbox, session, inherited>> /\ UNCHANGED trees

\* send_message and shutdown of the lead, broadcast, read_inbox of a teammate; the
\* inbox of the lead is not modelled.
RunBus(h) ==
  /\ handler[h].pc = "ready" /\ handler[h].kind = "bus" /\ Return(h)
  /\ \/ \E n \in Names, m \in Msg : Send(n, m)
     \/ Broadcast
     \/ handler[h].name \in Names /\ ReadInbox(handler[h].name)
     \/ UNCHANGED inbox
  /\ UNCHANGED <<member, job, session, inherited>> /\ UNCHANGED trees

HandlerStep(h) ==
  GiveUp(h) \/ SpawnRefused(h) \/ SpawnLease(h) \/ SpawnStart(h) \/ RunJob(h) \/ RunBus(h)

-----------------------------------------------------------------------------
(* The supervisor of background jobs. *)

\* The command ends, by itself, at its timeout or killed; then its goroutine is done.
JobEnds ==
  /\ JobLives /\ job' = [job EXCEPT !.state = "done"]
  /\ UNCHANGED <<member, loop, handler, inbox, session, inherited>> /\ UNCHANGED trees

\* Drain, before a turn of the user: finished jobs are reported and forgotten.
Drain ==
  /\ session = "open" /\ job.state = "done" /\ job' = NoJob
  /\ UNCHANGED <<member, loop, handler, inbox, session, inherited>> /\ UNCHANGED trees

-----------------------------------------------------------------------------
(* What the lead and the user do: tools of the lead, the commands /team. *)

LeadIsCalling == \E h \in Handlers : handler[h].by = Lead

\* The lead makes one call at a time, or the user a /team spawn in its place.  The
\* lead's turn may handle the rest of a reply after SIGTERM canceled the session; the
\* hooks wait for the turn.
LeadCall ==
  /\ session \in {"open", "closing"} /\ ~LeadIsCalling
  /\ StartHandler(Lead, Lead)
  /\ UNCHANGED <<member, loop, inbox, job, session, inherited>> /\ UNCHANGED trees

\* /team message and /team shutdown.
UserSends ==
  /\ session = "open" /\ \E n \in Names, m \in Msg : Send(n, m)
  /\ UNCHANGED <<member, loop, handler, job, session, inherited>> /\ UNCHANGED trees

LeadStep == LeadCall \/ UserSends

-----------------------------------------------------------------------------
(* The loop of a teammate. *)

Goto(l, pc) == loop' = [loop EXCEPT ![l].pc = pc]
SetStatus(n, s) == member' = [member EXCEPT ![n] = s]

\* Mutant of Exit: the goroutine ends without setting the status.
ExitSilently(l) == UNCHANGED member /\ loop' = [loop EXCEPT ![l] = NoLoop]

\* Every way out of autonomousLoop sets the status first.
Exit(l) == SetStatus(loop[l].name, "shutdown") /\ loop' = [loop EXCEPT ![l] = NoLoop]

\* The end of workPhase and the first line of idlePhase.
EnterIdle(l) ==
  /\ SetStatus(loop[l].name, "idle")
  /\ loop' = [loop EXCEPT ![l].pc = "idle", ![l].n = 0]

\* The end of idlePhase and the first line of workPhase.
EnterWork(l) ==
  /\ SetStatus(loop[l].name, "working")
  /\ loop' = [loop EXCEPT ![l].pc = "inbox", ![l].n = 0]

\* The top of a round: a shutdown request ends the loop and the rest of the
\* drained messages with it.
WorkInbox(l) ==
  /\ loop[l].pc = "inbox"
  /\ \/ /\ loop[l].n < MaxRounds
        /\ ReadInbox(loop[l].name)
        /\ IF ShutdownWaiting(loop[l].name) THEN Exit(l)
           ELSE Goto(l, "model") /\ UNCHANGED member
     \/ loop[l].n = MaxRounds /\ EnterIdle(l) /\ UNCHANGED inbox
  /\ UNCHANGED <<handler, job, session, inherited>> /\ UNCHANGED trees

\* Mutant of ModelReply: a model call that does not end with the session, as Spawn's
\* own context would make it.
ModelReplyDetached(l) ==
  /\ loop[l].pc = "model"
  /\ Exit(l) \/ (Goto(l, "tools") /\ UNCHANGED member) \/ EnterIdle(l)
  /\ UNCHANGED <<handler, inbox, job, session, inherited>> /\ UNCHANGED trees

\* gateway.Stream: an error, and always one once the session is canceled,
\* stops the teammate; a reply without tool calls ends the work phase.
ModelReply(l) ==
  /\ loop[l].pc = "model"
  /\ \/ Exit(l)
     \/ session = "open" /\ Goto(l, "tools") /\ UNCHANGED member
     \/ session = "open" /\ EnterIdle(l)
  /\ UNCHANGED <<handler, inbox, job, session, inherited>> /\ UNCHANGED trees

\* send_message of a teammate is handled in the loop itself.
ToolSend(l) ==
  /\ loop[l].pc = "tools" /\ \E n \in Names : Send(n, "message")
  /\ UNCHANGED <<member, loop, handler, job, session, inherited>> /\ UNCHANGED trees

\* executor.Execute up to the approval: the operator is asked, without a context.
\* Which calls a plan is needed for is left open.
ToolAsk(l) ==
  /\ loop[l].pc = "tools" /\ Goto(l, "asking")
  /\ UNCHANGED <<member, handler, inbox, job, session, inherited>> /\ UNCHANGED trees

\* The answer: no (or a call that does not touch the team), or the handler starts.
Answer(l) ==
  /\ loop[l].pc = "asking"
  /\ \/ Goto(l, "tools") /\ UNCHANGED handler
     \/ StartHandler(l, loop[l].name) /\ Goto(l, "calling")
  /\ UNCHANGED <<member, inbox, job, session, inherited>> /\ UNCHANGED trees

\* The last call of the reply: the next round, or idle when it was asked for.
ToolsDone(l) ==
  /\ loop[l].pc = "tools"
  /\ \/ loop' = [loop EXCEPT ![l].pc = "inbox", ![l].n = @ + 1] /\ UNCHANGED member
     \/ EnterIdle(l)
  /\ UNCHANGED <<handler, inbox, job, session, inherited>> /\ UNCHANGED trees

\* Mutant of IdlePoll: the idle time is never over.
IdlePollForever(l) ==
  LET n == loop[l].name IN
  /\ loop[l].pc = "idle"
  /\ \/ /\ inbox[n] # <<>> /\ ReadInbox(n)
        /\ IF ShutdownWaiting(n) THEN Exit(l) ELSE EnterWork(l)
     \/ /\ inbox[n] = <<>> /\ UNCHANGED <<inbox, member>>
        /\ loop' = [loop EXCEPT ![l].n = (@ + 1) % MaxPolls]
  /\ UNCHANGED <<handler, job, session, inherited>> /\ UNCHANGED trees

\* One poll of idlePhase: messages, then a task claimed from the board (see
\* TaskBoard), bring it back to work; the last poll without either ends it.
IdlePoll(l) ==
  LET n == loop[l].name IN
  /\ loop[l].pc = "idle"
  /\ \/ /\ inbox[n] # <<>> /\ ReadInbox(n)
        /\ IF ShutdownWaiting(n) THEN Exit(l) ELSE EnterWork(l)
     \/ /\ inbox[n] = <<>>
        /\ \/ EnterWork(l)
           \/ loop[l].n + 1 < MaxPolls /\ loop' = [loop EXCEPT ![l].n = @ + 1] /\ UNCHANGED member
           \/ loop[l].n + 1 = MaxPolls /\ Exit(l)
        /\ UNCHANGED inbox
  /\ UNCHANGED <<handler, job, session, inherited>> /\ UNCHANGED trees

LoopStep(l) ==
  WorkInbox(l) \/ ModelReply(l) \/ ToolSend(l) \/ ToolAsk(l) \/ ToolsDone(l) \/ IdlePoll(l)

-----------------------------------------------------------------------------
(* The life of the session. *)

\* SIGTERM, or SessionRuntime.Close, cancels the session's context ...
Close ==
  /\ session = "open" /\ session' = "closing"
  /\ UNCHANGED <<member, loop, handler, inbox, job, inherited>> /\ UNCHANGED trees

\* ... and Close runs the hooks one after the other, the last registered first,
\* when the lead's turn is over.  Team hook: ShutdownAll posts to every member.
\* The sends are separate, but go to different inboxes and nothing else happens
\* between them that could tell the order.
ShutdownAll ==
  /\ session = "closing" /\ ~LeadIsCalling /\ session' = "stopping"
  /\ inbox' = [n \in Names |-> IF n \in Members THEN Append(inbox[n], "shutdown_request")
                                ELSE inbox[n]]
  /\ UNCHANGED <<member, loop, handler, job, inherited>> /\ UNCHANGED trees

\* Mutant of StopAll: the background hook does not come after the team hook's Wait.
StopAllEarly ==
  /\ session = "stopping" /\ session' = "reaping"
  /\ job' = [job EXCEPT !.state = IF @ = "running" THEN "canceled" ELSE @]
  /\ UNCHANGED <<member, loop, handler, inbox, inherited>> /\ UNCHANGED trees

\* Wait returns when the last goroutine is done; only then the background hook
\* runs: StopAll cancels the jobs.
StopAll == AllEnded /\ StopAllEarly

\* The supervisor's Wait returns when the last job is done.
JobsAwaited ==
  /\ session = "reaping" /\ ~JobLives /\ session' = "removing"
  /\ UNCHANGED <<member, loop, handler, inbox, job, inherited>> /\ UNCHANGED trees

\* The worktree hook: RemoveAll keeps the branches, and the leases git fails to
\* remove.
RemoveAll ==
  /\ session = "removing" /\ session' = "closed"
  /\ \E kept \in SUBSET leases : leases' = kept /\ dirs' = (dirs \ leases) \cup (dirs \cap kept)
  /\ UNCHANGED <<member, loop, handler, inbox, branches, job, inherited>>

\* Build: a new manager reads config.json; leases, jobs and handlers start empty.
Restart ==
  /\ session' = "open" /\ job' = NoJob /\ leases' = {}
  /\ loop' = [l \in Loops |-> NoLoop] /\ handler' = [h \in Handlers |-> NoHandler]
  /\ UNCHANGED <<member, inbox, dirs, branches>>

\* The session is opened again.  Bounds: nothing of its former life still runs
\* (what does has services of its own), and MaxInbox, which limits how often.
Reopen ==
  /\ session = "closed" /\ AllEnded /\ ~JobLives /\ \A h \in Handlers : ~Active(h)
  /\ \A n \in Names : Len(inbox[n]) < MaxInbox
  /\ Restart /\ UNCHANGED inherited

\* The process dies and the session is opened again.
Crash ==
  /\ \A n \in Names : Len(inbox[n]) <= MaxInbox
  /\ Restart /\ inherited' = Listed

-----------------------------------------------------------------------------
Init ==
  /\ member = [n \in Names |-> "none"] /\ loop = [l \in Loops |-> NoLoop]
  /\ handler = [h \in Handlers |-> NoHandler] /\ inbox = [n \in Names |-> <<>>]
  /\ leases = {} /\ dirs = {} /\ branches = {} /\ job = NoJob /\ session = "open"
  /\ inherited = {}

JobStep == JobEnds \/ Drain
CloseStep == Close \/ ShutdownAll \/ StopAll \/ JobsAwaited \/ RemoveAll \/ Reopen

Next ==
  \/ LeadStep \/ JobStep \/ CloseStep \/ Crash
  \/ \E l \in Loops : LoopStep(l) \/ Answer(l)
  \/ \E h \in Handlers : HandlerStep(h)

Spec == Init /\ [][Next]_vars

(***************************************************************************)
(* Goroutines are scheduled, a model call under the session's context and  *)
(* a tool call under its timeout return, the polls of idlePhase are timed, *)
(* and the tool calls of one reply are finitely many, so that a teammate   *)
(* leaves its tools and the lead its turn.  A job ends at the latest at its*)
(* timeout, which kills it (and what it started, as long as that does not  *)
(* keep its output open).  Nothing is assumed of the answers of the model, *)
(* and nothing here of the operator: an answer to a prompt is not fair.    *)
(***************************************************************************)
Fairness ==
  /\ \A l \in Loops : WF_vars(LoopStep(l)) /\ SF_vars(ToolsDone(l))
  /\ \A h \in Handlers : WF_vars(HandlerStep(h))
  /\ WF_vars(JobEnds) /\ SF_vars(ShutdownAll) /\ WF_vars(StopAll \/ JobsAwaited \/ RemoveAll)
FairSpec == Spec /\ Fairness
-----------------------------------------------------------------------------
TypeOK ==
  /\ member \in [Names -> Statuses] /\ loop \in [Loops -> Loop]
  /\ handler \in [Handlers -> Handler] /\ inbox \in [Names -> Seq(Msg)]
  /\ leases \subseteq Names /\ dirs \subseteq Names /\ branches \subseteq Names
  /\ job \in Job /\ inherited \subseteq Names
  /\ session \in {"open", "closing", "stopping", "reaping", "removing", "closed"}

\* A teammate works in a directory that exists: up to the end of the team hook every
\* loop has its lease and its directory, also one that a teammate or a handler left
\* behind starts while the session is closing; and a loop that such a handler starts
\* after the team hook's Wait, beside or after the removal of the worktrees, comes to
\* no tool call, no idle phase and no task.  (The invariant carries the types.)
WorktreeUnderLoop ==
  /\ TypeOK
  /\ \A l \in Loops :
       \/ session \in {"open", "closing", "stopping"} /\ Running(l)
       \/ loop[l].pc \in {"tools", "asking", "calling", "idle"}
       => loop[l].name \in leases /\ loop[l].name \in dirs

\* "teammates and background work stop before MCP, worktrees, history, and the event
\* log are released" (wire.go:350) for every job whose tool call was waited for, also
\* one that a teammate starts while it is being stopped: what still runs when the
\* worktrees are removed was started by a handler whose call had been given up.
NoJobLeft == session \in {"removing", "closed"} /\ JobLives => job.stray

\* A member listed as working or idle has a running loop, or one about to start:
\* every way out of autonomousLoop sets the status, so Spawn, which refuses a working
\* member, never refuses a name for good.  The exception is what a crash leaves: the
\* names it found listed, until they are spawned; closing a session leaves none.
ListedIsLive == \A n \in Listed : Live(n) \/ Spawning(n) \/ n \in inherited

\* SessionRuntime.Close comes to an end if the operator answers the questions that
\* teammates ask (a prompt does not notice the end of the session): the teammates it
\* waits for all stop, also the ones whose shutdown request another loop or read_inbox
\* drained and the ones spawned after ShutdownAll, and the worktrees are removed.
CloseCompletes ==
  (\A l \in Loops : []<>(loop[l].pc # "asking")) =>
    (session = "closing" ~> session \in {"closed", "open"})   \* open: after a crash

=============================================================================
