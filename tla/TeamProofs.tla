----------------------------- MODULE TeamProofs -----------------------------
(***************************************************************************)
(* Proofs about Team for any names, any number of goroutines, handlers and *)
(* rounds, with crashes and restarts at any point.                         *)
(*                                                                         *)
(* The three invariants are not inductive.  What is missing: a lease has a *)
(* directory; a loop that waits for its call is the caller of one handler  *)
(* at most, and whoever has a handler waits for it; a spawn half-way holds *)
(* the lease; and from "reaping" on the loops that still start have not    *)
(* got past their first model call, so that no call is waited for any more.*)
(* Inv regroups all of it by the part of the state it is about, so that an *)
(* action disturbs few of the parts.                                       *)
(***************************************************************************)
EXTENDS Team, TLAPS

USE TeamAssumption

Early == session \in {"open", "closing", "stopping"}

MembersOK == member \in [Names -> Statuses]

InboxOK == inbox \in [Names -> Seq(Msg)]

TreesOK ==
  /\ leases \subseteq dirs /\ dirs \subseteq Names /\ branches \subseteq Names
  /\ inherited \subseteq Names

\* A station leaves room to count the step that follows it.
Counted(r) ==
  /\ r.pc = "inbox" => r.n <= MaxRounds
  /\ r.pc \in {"model", "tools", "asking", "calling"} => r.n < MaxRounds
  /\ r.pc = "idle" => r.n < MaxPolls

LoopOK(r) == r \in Loop /\ Counted(r) /\ (r.pc # "none" => r.name \in Names)

LoopsOK == loop \in [Loops -> Loop] /\ \A l \in Loops : LoopOK(loop[l])

\* Whoever waits for a handler is "calling", and waits for one.
HandlersOK ==
  /\ handler \in [Handlers -> Handler]
  /\ \A h \in Handlers :
       /\ handler[h].by \in Loops => Active(h) /\ loop[handler[h].by].pc = "calling"
       /\ handler[h].pc = "none" => handler[h].by = Nobody
       /\ Active(h) /\ handler[h].kind = "spawn" => handler[h].name \in Names
       /\ handler[h].pc = "leased" => handler[h].kind = "spawn"
  /\ \A h, i \in Handlers : handler[h].by \in Loops /\ handler[h].by = handler[i].by => h = i

\* Up to the team hook's Wait, who runs or is about to has a lease.
Leased ==
  Early => /\ \A l \in Loops : Running(l) => loop[l].name \in leases
           /\ \A h \in Handlers : handler[h].pc = "leased" => handler[h].name \in leases

\* After it, a loop has just begun, and the lead calls nothing from before it.
Late ==
  /\ ~Early => \A l \in Loops : Running(l) => loop[l].pc \in {"inbox", "model"} /\ loop[l].n = 0
  /\ session \notin {"open", "closing"} => ~LeadIsCalling

JobOK ==
  /\ job \in Job
  /\ session \in {"open", "closing", "stopping", "reaping", "removing", "closed"}
  /\ NoJobLeft

Inv ==
  /\ MembersOK /\ InboxOK /\ TreesOK /\ LoopsOK /\ HandlersOK
  /\ Leased /\ Late /\ JobOK /\ ListedIsLive

LEMMA InvImplies == Inv => WorktreeUnderLoop /\ NoJobLeft /\ ListedIsLive
<1> SUFFICES ASSUME Inv PROVE WorktreeUnderLoop /\ NoJobLeft /\ ListedIsLive
  OBVIOUS
<1>1. TypeOK
  BY DEF Inv, MembersOK, InboxOK, TreesOK, LoopsOK, HandlersOK, JobOK, TypeOK
<1>2. ASSUME NEW l \in Loops,
             \/ session \in {"open", "closing", "stopping"} /\ Running(l)
             \/ loop[l].pc \in {"tools", "asking", "calling", "idle"}
      PROVE  loop[l].name \in leases /\ loop[l].name \in dirs
  BY <1>2 DEF Inv, Leased, Late, Early, TreesOK, Running
<1> QED
  BY <1>1, <1>2 DEF WorktreeUnderLoop, Inv, JobOK

-----------------------------------------------------------------------------
(* The parts an action leaves alone. *)

LEMMA MembersStay == ASSUME MembersOK, UNCHANGED member PROVE MembersOK'
  BY DEF MembersOK

LEMMA InboxStays == ASSUME InboxOK, UNCHANGED inbox PROVE InboxOK'
  BY DEF InboxOK

LEMMA TreesStay == ASSUME TreesOK, UNCHANGED <<trees, inherited>> PROVE TreesOK'
  BY DEF TreesOK, trees

LEMMA LoopsStay == ASSUME LoopsOK, UNCHANGED loop PROVE LoopsOK'
  BY DEF LoopsOK

LEMMA HandlersStay == ASSUME HandlersOK, UNCHANGED <<loop, handler>> PROVE HandlersOK'
  BY DEF HandlersOK, Active

LEMMA JobStays == ASSUME JobOK, UNCHANGED <<job, session>> PROVE JobOK'
  BY DEF JobOK, NoJobLeft, JobLives

LEMMA ListedStays ==
  ASSUME ListedIsLive, UNCHANGED <<member, loop, handler, inherited>> PROVE ListedIsLive'
  BY DEF ListedIsLive, Listed, Live, Running, Spawning

LEMMA LeasedStays ==
  ASSUME Leased, UNCHANGED <<loop, handler, leases>>, Early' => Early PROVE Leased'
  BY DEF Leased, Running

-----------------------------------------------------------------------------
(* The parts an action is made of. *)

LEMMA SetStatusKeeps ==
  ASSUME MembersOK, NEW n, NEW s \in Statuses, SetStatus(n, s) PROVE MembersOK'
  BY DEF MembersOK, SetStatus

LEMMA SendKeeps ==
  ASSUME InboxOK, NEW to \in Names, NEW m \in Msg, Send(to, m) PROVE InboxOK'
  BY DEF InboxOK, Send

\* One more message in the inbox of every member: Broadcast and ShutdownAll.
LEMMA PostToMembers ==
  ASSUME InboxOK, NEW m \in Msg,
         inbox' = [n \in Names |-> IF n \in Members THEN Append(inbox[n], m) ELSE inbox[n]]
  PROVE  InboxOK'
  BY DEF InboxOK

LEMMA ReadInboxKeeps == ASSUME InboxOK, NEW n, ReadInbox(n) PROVE InboxOK'
<1>1. <<>> \in Seq(Msg)
  OBVIOUS
<1> QED
  BY <1>1 DEF InboxOK, ReadInbox

LEMMA AcquireKeeps ==
  ASSUME TreesOK, NEW n \in Names, Acquire(n)
  PROVE  /\ leases' \subseteq dirs' /\ dirs' \subseteq Names /\ branches' \subseteq Names
         /\ leases \subseteq leases' /\ n \in leases'
  BY DEF TreesOK, Acquire, trees

\* Entering a station with the counter at zero.
LEMMA Restarted ==
  ASSUME NEW r \in Loop, NEW pc \in Stations
  PROVE  LET q == [r EXCEPT !.pc = pc, !.n = 0]
         IN  q \in Loop /\ q.pc = pc /\ q.name = r.name /\ q.n = 0
<1> DEFINE counts == 0..(MaxRounds + MaxPolls)
<1>1. 0 \in counts
  OBVIOUS
<1>2. Loop = [pc : Stations, name : Names \cup {Lead}, n : counts]
  BY DEF Loop
<1> HIDE DEF counts
<1> QED
  BY <1>1, <1>2

\* The loop of a teammate n that is spawned.
LEMMA NewLoop ==
  ASSUME NEW n \in Names
  PROVE  LET q == [NoLoop EXCEPT !.pc = "inbox", !.name = n]
         IN  q \in Loop /\ q.pc = "inbox" /\ q.name = n /\ q.n = 0
<1> DEFINE counts == 0..(MaxRounds + MaxPolls)
<1>1. 0 \in counts
  OBVIOUS
<1>2. Loop = [pc : Stations, name : Names \cup {Lead}, n : counts]
  BY DEF Loop
<1> HIDE DEF counts
<1> QED
  BY <1>1, <1>2 DEF NoLoop, Stations

LEMMA NoLoopOK == NoLoop \in Loop /\ LoopOK(NoLoop) /\ NoLoop.pc = "none"
  BY DEF LoopOK, NoLoop, Loop, Stations, Counted

LEMMA NoHandlerOK ==
  NoHandler \in Handler /\ NoHandler.pc = "none" /\ NoHandler.by = Nobody
  BY DEF NoHandler, Handler

\* A loop is as it was, or the caller of h back at its tools.
LEMMA GoesOn ==
  ASSUME LoopsOK, HandlersOK, NEW h \in Handlers
  PROVE  /\ CallerGoesOn(h) \in [Loops -> Loop]
         /\ \A l \in Loops :
              /\ LoopOK(CallerGoesOn(h)[l])
              /\ CallerGoesOn(h)[l].name = loop[l].name
              /\ CallerGoesOn(h)[l].pc # "none" <=> Running(l)
              /\ l # handler[h].by => CallerGoesOn(h)[l] = loop[l]
              /\ l = handler[h].by => loop[l].pc = "calling"
<1>1. CASE handler[h].by \notin Loops
  BY <1>1 DEF CallerGoesOn, LoopsOK, Running
<1>2. CASE handler[h].by \in Loops
  <2> DEFINE k == handler[h].by  r == [loop[k] EXCEPT !.pc = "tools"]
  <2>1. loop[k].pc = "calling" /\ LoopOK(loop[k]) /\ loop[k] \in Loop
    BY <1>2 DEF HandlersOK, LoopsOK
  <2>2. r \in Loop /\ r.pc = "tools" /\ r.name = loop[k].name /\ r.n = loop[k].n
    BY <2>1 DEF Loop, Stations
  <2>3. LoopOK(r)
    BY <2>1, <2>2 DEF LoopOK, Counted
  <2>4. CallerGoesOn(h) = [loop EXCEPT ![k] = r]
    BY <1>2 DEF CallerGoesOn
  <2> HIDE DEF r
  <2> QED
    BY <1>2, <2>1, <2>2, <2>3, <2>4 DEF LoopsOK, Running
<1> QED
  BY <1>1, <1>2

\* One loop moves that does not wait for a handler, before or after.
LEMMA MoveKeeps ==
  ASSUME LoopsOK, HandlersOK, NEW l \in Loops, loop[l].pc # "calling", NEW r, LoopOK(r),
         UNCHANGED handler, loop' = [loop EXCEPT ![l] = r]
  PROVE  LoopsOK' /\ HandlersOK'
<1>1. r \in Loop /\ loop' \in [Loops -> Loop] /\ \A k \in Loops : k # l => loop'[k] = loop[k]
  BY DEF LoopOK, LoopsOK
<1>2. LoopsOK'
  BY <1>1 DEF LoopsOK
<1>3. HandlersOK'
  BY <1>1 DEF HandlersOK, Active
<1> QED
  BY <1>2, <1>3

\* The rest of the invariant when a running loop moves on to r, in the session.
LEMMA RunnerKeeps ==
  ASSUME Leased, Late, LoopsOK, NEW l \in Loops, Running(l), NEW r,
         loop' = [loop EXCEPT ![l] = r], r.pc = "none" \/ r.name = loop[l].name,
         ~Early => r.pc \in {"none", "inbox", "model"} /\ r.n = 0,
         UNCHANGED <<handler, leases, session>>
  PROVE  Leased' /\ Late'
<1>1. loop'[l] = r /\ \A k \in Loops : k # l => loop'[k] = loop[k]
  BY DEF LoopsOK
<1> QED
  BY <1>1 DEF Leased, Late, Early, Running, LeadIsCalling

\* The table, when it goes on: it is listed, and runs.
LEMMA ListedGoesOn ==
  ASSUME ListedIsLive, LoopsOK, MembersOK, NEW l \in Loops, Running(l), NEW r,
         loop' = [loop EXCEPT ![l] = r], r.name = loop[l].name, r.pc # "none",
         \/ UNCHANGED member
         \/ SetStatus(loop[l].name, "idle") \/ SetStatus(loop[l].name, "working"),
         UNCHANGED <<handler, inherited>>
  PROVE  ListedIsLive'
<1>1. loop'[l] = r /\ \A k \in Loops : k # l => loop'[k] = loop[k]
  BY DEF LoopsOK
<1>2. \A n \in Names : Live(n) => Live(n)'
  BY <1>1 DEF Live, Running
<1>3. Live(loop[l].name)'
  BY <1>1 DEF Live, Running
<1>4. \A n \in Names : n # loop[l].name => member'[n] = member[n]
  BY DEF SetStatus, MembersOK
<1>5. ASSUME NEW n \in Listed' PROVE Live(n)' \/ Spawning(n)' \/ n \in inherited'
  <2>1. CASE n = loop[l].name
    BY <1>3, <2>1
  <2>2. CASE n # loop[l].name
    BY <1>2, <1>4, <2>2 DEF ListedIsLive, Listed, Spawning
  <2> QED
    BY <2>1, <2>2
<1> QED
  BY <1>5 DEF ListedIsLive

\* ... and when it ends, it is not listed.
LEMMA ListedEnds ==
  ASSUME ListedIsLive, LoopsOK, MembersOK, NEW l \in Loops, Exit(l),
         UNCHANGED <<handler, inherited>>
  PROVE  ListedIsLive'
<1>1. /\ member' = [member EXCEPT ![loop[l].name] = "shutdown"]
      /\ loop' = [loop EXCEPT ![l] = NoLoop]
  BY DEF Exit, SetStatus
<1>2. \A k \in Loops : k # l => loop'[k] = loop[k]
  BY <1>1 DEF LoopsOK
<1>3. ASSUME NEW n \in Listed' PROVE Live(n)' \/ Spawning(n)' \/ n \in inherited'
  <2>1. n # loop[l].name /\ n \in Listed
    BY <1>1 DEF Listed, MembersOK
  <2> QED
    BY <1>2, <2>1 DEF ListedIsLive, Live, Running, Spawning
<1> QED
  BY <1>3 DEF ListedIsLive

\* Every way out of a loop keeps what Inv says of loops, handlers and the table.
LEMMA ExitKeeps ==
  ASSUME Inv, NEW l \in Loops, Running(l), loop[l].pc # "calling", Exit(l),
         UNCHANGED <<handler, leases, session, inherited>>
  PROVE  MembersOK' /\ LoopsOK' /\ HandlersOK' /\ Leased' /\ Late' /\ ListedIsLive'
<1>1. SetStatus(loop[l].name, "shutdown") /\ loop' = [loop EXCEPT ![l] = NoLoop]
  BY DEF Exit
<1>2. MembersOK'
  BY <1>1, SetStatusKeeps DEF Inv, Statuses
<1>3. LoopsOK' /\ HandlersOK'
  BY <1>1, MoveKeeps, NoLoopOK DEF Inv
<1>4. Leased' /\ Late'
  BY <1>1, RunnerKeeps, NoLoopOK DEF Inv, NoLoop
<1>5. ListedIsLive'
  BY ListedEnds DEF Inv
<1> QED
  BY <1>2, <1>3, <1>4, <1>5

\* Every step with which it goes on at r does, too.
LEMMA StepKeeps ==
  ASSUME Inv, NEW l \in Loops, Running(l), loop[l].pc # "calling",
         NEW r, LoopOK(r), r.pc # "none", r.name = loop[l].name,
         ~Early => r.pc \in {"inbox", "model"} /\ r.n = 0,
         loop' = [loop EXCEPT ![l] = r],
         \/ UNCHANGED member
         \/ SetStatus(loop[l].name, "idle") \/ SetStatus(loop[l].name, "working"),
         UNCHANGED <<handler, leases, session, inherited>>
  PROVE  MembersOK' /\ LoopsOK' /\ HandlersOK' /\ Leased' /\ Late' /\ ListedIsLive'
<1>1. MembersOK'
  BY SetStatusKeeps, MembersStay DEF Inv, Statuses
<1>2. LoopsOK' /\ HandlersOK'
  BY MoveKeeps DEF Inv
<1>3. Leased' /\ Late'
  BY RunnerKeeps DEF Inv
<1>4. ListedIsLive'
  BY ListedGoesOn DEF Inv
<1> QED
  BY <1>1, <1>2, <1>3, <1>4

\* From "reaping" on, whoever moves a loop beyond the model is too early.
LEMMA BusyIsEarly ==
  ASSUME Inv, NEW l \in Loops, loop[l].pc \in {"tools", "asking", "calling", "idle"}
  PROVE  Early /\ Running(l)
  BY DEF Inv, Late, Running

\* Then no call is waited for.
LEMMA LateIsStray ==
  ASSUME Inv, ~Early, NEW h \in Handlers PROVE handler[h].by = Nobody
<1>1. handler[h].by \in Loops \cup {Lead, Nobody}
  BY DEF Inv, HandlersOK, Handler
<1>2. handler[h].by \notin Loops
  BY BusyIsEarly DEF Inv, HandlersOK
<1>3. handler[h].by # Lead
  BY DEF Inv, Late, LeadIsCalling, Early
<1> QED
  BY <1>1, <1>2, <1>3
-----------------------------------------------------------------------------
(* The steps of a loop. *)

LEMMA WorkInboxKeeps == ASSUME Inv, NEW l \in Loops, WorkInbox(l) PROVE Inv'
<1> DEFINE r == loop[l]
<1>1. /\ r.pc = "inbox" /\ UNCHANGED <<handler, job, session, inherited>> /\ UNCHANGED trees
      /\ Running(l) /\ r \in Loop /\ r.name \in Names /\ r.n \in Nat
  BY DEF WorkInbox, Inv, LoopsOK, LoopOK, Loop, Running
<1>2. TreesOK' /\ JobOK'
  BY <1>1, TreesStay, JobStays DEF Inv
<1>3. UNCHANGED leases
  BY <1>1 DEF trees
<1>4. CASE r.n < MaxRounds /\ ReadInbox(r.name) /\ Exit(l)
  <2>1. InboxOK'
    BY <1>4, ReadInboxKeeps DEF Inv
  <2> QED
    BY <1>1, <1>2, <1>3, <1>4, <2>1, ExitKeeps DEF Inv
<1>5. CASE r.n < MaxRounds /\ ReadInbox(r.name) /\ Goto(l, "model") /\ UNCHANGED member
  <2> DEFINE q == [r EXCEPT !.pc = "model"]
  <2>1. q \in Loop /\ q.pc = "model" /\ q.name = r.name /\ q.n = r.n
    BY <1>1 DEF Loop, Stations
  <2>2. LoopOK(q) /\ (~Early => q.pc \in {"inbox", "model"} /\ q.n = 0)
    BY <1>1, <1>5, <2>1 DEF LoopOK, Counted, Inv, Late
  <2>3. loop' = [loop EXCEPT ![l] = q]
    BY <1>5 DEF Goto
  <2>4. InboxOK'
    BY <1>5, ReadInboxKeeps DEF Inv
  <2> HIDE DEF q
  <2> QED
    BY <1>1, <1>2, <1>3, <1>5, <2>1, <2>2, <2>3, <2>4, StepKeeps DEF Inv
<1>6. CASE r.n = MaxRounds /\ EnterIdle(l) /\ UNCHANGED inbox
  <2> DEFINE q == [r EXCEPT !.pc = "idle", !.n = 0]
  <2>1. q \in Loop /\ q.pc = "idle" /\ q.name = r.name /\ q.n = 0
    BY <1>1, Restarted DEF Stations
  <2>2. LoopOK(q) /\ Early
    BY <1>1, <1>6, <2>1 DEF LoopOK, Counted, Inv, Late
  <2>3. loop' = [loop EXCEPT ![l] = q] /\ SetStatus(r.name, "idle")
    BY <1>6 DEF EnterIdle
  <2>4. InboxOK'
    BY <1>6, InboxStays DEF Inv
  <2> HIDE DEF q
  <2> QED
    BY <1>1, <1>2, <1>3, <2>1, <2>2, <2>3, <2>4, StepKeeps DEF Inv
<1> QED
  BY <1>4, <1>5, <1>6 DEF WorkInbox

\* What the loop makes of itself when it goes to another station without counting.
LEMMA GotoKeeps ==
  ASSUME Inv, NEW l \in Loops, Running(l), loop[l].pc # "calling", NEW pc \in Stations,
         Counted([loop[l] EXCEPT !.pc = pc]), pc # "none",
         ~Early => pc \in {"inbox", "model"}, Goto(l, pc),
         UNCHANGED <<member, handler, leases, session, inherited>>
  PROVE  MembersOK' /\ LoopsOK' /\ HandlersOK' /\ Leased' /\ Late' /\ ListedIsLive'
<1> DEFINE q == [loop[l] EXCEPT !.pc = pc]
<1>1. loop[l] \in Loop /\ loop[l].name \in Names
  BY DEF Inv, LoopsOK, LoopOK, Running
<1>2. q \in Loop /\ q.pc = pc /\ q.name = loop[l].name /\ q.n = loop[l].n
  BY <1>1 DEF Loop
<1>3. LoopOK(q) /\ (~Early => q.pc \in {"inbox", "model"} /\ q.n = 0)
  BY <1>1, <1>2 DEF LoopOK, Inv, Late
<1>4. loop' = [loop EXCEPT ![l] = q]
  BY DEF Goto
<1> HIDE DEF q
<1> QED
  BY <1>2, <1>3, <1>4, StepKeeps

\* ... and when it begins to idle or to work.
LEMMA EnterKeeps ==
  ASSUME Inv, NEW l \in Loops, Running(l), loop[l].pc # "calling", Early,
         EnterIdle(l) \/ EnterWork(l), UNCHANGED <<handler, leases, session, inherited>>
  PROVE  MembersOK' /\ LoopsOK' /\ HandlersOK' /\ Leased' /\ Late' /\ ListedIsLive'
<1>1. PICK pc \in {"idle", "inbox"} : loop' = [loop EXCEPT ![l].pc = pc, ![l].n = 0]
  BY DEF EnterIdle, EnterWork
<1> DEFINE q == [loop[l] EXCEPT !.pc = pc, !.n = 0]
<1>2. loop[l] \in Loop /\ loop[l].name \in Names
  BY DEF Inv, LoopsOK, LoopOK, Running
<1>3. q \in Loop /\ q.pc = pc /\ q.name = loop[l].name /\ q.n = 0
  <2>1. pc \in Stations
    BY <1>1 DEF Stations
  <2> QED
    BY <1>2, <2>1, Restarted
<1>4. LoopOK(q)
  BY <1>2, <1>3 DEF LoopOK, Counted
<1>5. loop' = [loop EXCEPT ![l] = q]
  BY <1>1
<1>6. SetStatus(loop[l].name, "idle") \/ SetStatus(loop[l].name, "working")
  BY DEF EnterIdle, EnterWork
<1> HIDE DEF q
<1> QED
  BY <1>3, <1>4, <1>5, <1>6, StepKeeps

LEMMA ModelReplyKeeps == ASSUME Inv, NEW l \in Loops, ModelReply(l) PROVE Inv'
<1>1. /\ loop[l].pc = "model" /\ UNCHANGED <<handler, inbox, job, session, inherited>>
      /\ UNCHANGED trees /\ Running(l)
  BY DEF ModelReply, Running
<1>2. TreesOK' /\ JobOK' /\ InboxOK' /\ UNCHANGED leases
  BY <1>1, TreesStay, JobStays, InboxStays DEF Inv, trees
<1>3. CASE Exit(l)
  BY <1>1, <1>2, <1>3, ExitKeeps DEF Inv
<1>4. CASE session = "open" /\ Goto(l, "tools") /\ UNCHANGED member
  <2>1. Early /\ "tools" \in Stations
    BY <1>4 DEF Early, Stations
  <2>2. Counted([loop[l] EXCEPT !.pc = "tools"])
    BY <1>1 DEF Inv, LoopsOK, LoopOK, Counted, Loop
  <2> QED
    BY <1>1, <1>2, <1>4, <2>1, <2>2, GotoKeeps DEF Inv
<1>5. CASE session = "open" /\ EnterIdle(l)
  BY <1>1, <1>2, <1>5, EnterKeeps DEF Inv, Early
<1> QED
  BY <1>3, <1>4, <1>5 DEF ModelReply

LEMMA ToolSendKeeps == ASSUME Inv, NEW l \in Loops, ToolSend(l) PROVE Inv'
<1>1. /\ UNCHANGED <<member, loop, handler, job, session, inherited>> /\ UNCHANGED trees
      /\ \E n \in Names : Send(n, "message")
  BY DEF ToolSend
<1>2. InboxOK'
  BY <1>1, SendKeeps DEF Inv, Msg
<1>3. Leased' /\ Late'
  BY <1>1 DEF Inv, Leased, Late, Early, Running, LeadIsCalling, trees
<1> QED
  BY <1>1, <1>2, <1>3, MembersStay, TreesStay, LoopsStay, HandlersStay, JobStays, ListedStays
  DEF Inv

LEMMA ToolAskKeeps == ASSUME Inv, NEW l \in Loops, ToolAsk(l) PROVE Inv'
<1>1. /\ UNCHANGED <<member, handler, inbox, job, session, inherited>> /\ UNCHANGED trees
      /\ loop[l].pc = "tools" /\ Goto(l, "asking") /\ Early /\ Running(l)
  BY BusyIsEarly DEF ToolAsk
<1>2. TreesOK' /\ JobOK' /\ InboxOK' /\ UNCHANGED leases
  BY <1>1, TreesStay, JobStays, InboxStays DEF Inv, trees
<1>3. Counted([loop[l] EXCEPT !.pc = "asking"]) /\ "asking" \in Stations
  BY <1>1 DEF Inv, LoopsOK, LoopOK, Counted, Loop, Stations
<1> QED
  BY <1>1, <1>2, <1>3, GotoKeeps DEF Inv

LEMMA ToolsDoneKeeps == ASSUME Inv, NEW l \in Loops, ToolsDone(l) PROVE Inv'
<1>1. /\ UNCHANGED <<handler, inbox, job, session, inherited>> /\ UNCHANGED trees
      /\ loop[l].pc = "tools" /\ Early /\ Running(l) /\ loop[l] \in Loop /\ loop[l].n \in Nat
      /\ loop[l].n < MaxRounds /\ loop[l].name \in Names
  BY BusyIsEarly DEF ToolsDone, Inv, LoopsOK, LoopOK, Loop, Counted
<1>2. TreesOK' /\ JobOK' /\ InboxOK' /\ UNCHANGED leases
  BY <1>1, TreesStay, JobStays, InboxStays DEF Inv, trees
<1>3. CASE loop' = [loop EXCEPT ![l].pc = "inbox", ![l].n = @ + 1] /\ UNCHANGED member
  <2> DEFINE q == [loop[l] EXCEPT !.pc = "inbox", !.n = @ + 1]
  <2>1. q \in Loop /\ q.pc = "inbox" /\ q.name = loop[l].name /\ q.n = loop[l].n + 1
    <3>1. loop[l].n + 1 \in 0..(MaxRounds + MaxPolls)
      BY <1>1
    <3> QED
      BY <1>1, <3>1 DEF Loop, Stations
  <2>2. LoopOK(q)
    BY <1>1, <2>1 DEF LoopOK, Counted
  <2>3. loop' = [loop EXCEPT ![l] = q]
    BY <1>3
  <2> HIDE DEF q
  <2> QED
    BY <1>1, <1>2, <1>3, <2>1, <2>2, <2>3, StepKeeps DEF Inv
<1>4. CASE EnterIdle(l)
  BY <1>1, <1>2, <1>4, EnterKeeps DEF Inv
<1> QED
  BY <1>3, <1>4 DEF ToolsDone

LEMMA IdlePollKeeps == ASSUME Inv, NEW l \in Loops, IdlePoll(l) PROVE Inv'
<1>1. /\ UNCHANGED <<handler, job, session, inherited>> /\ UNCHANGED trees
      /\ loop[l].pc = "idle" /\ Early /\ Running(l) /\ loop[l] \in Loop /\ loop[l].n \in Nat
      /\ loop[l].name \in Names
  BY BusyIsEarly DEF IdlePoll, Inv, LoopsOK, LoopOK, Loop
<1>2. TreesOK' /\ JobOK' /\ UNCHANGED leases
  BY <1>1, TreesStay, JobStays DEF Inv, trees
<1>3. InboxOK'
  BY ReadInboxKeeps, InboxStays DEF Inv, IdlePoll
<1>4. CASE Exit(l)
  BY <1>1, <1>2, <1>3, <1>4, ExitKeeps DEF Inv
<1>5. CASE EnterWork(l)
  BY <1>1, <1>2, <1>3, <1>5, EnterKeeps DEF Inv
<1>6. CASE /\ loop[l].n + 1 < MaxPolls /\ UNCHANGED member
           /\ loop' = [loop EXCEPT ![l].n = @ + 1]
  <2> DEFINE q == [loop[l] EXCEPT !.n = @ + 1]
  <2>1. q \in Loop /\ q.pc = "idle" /\ q.name = loop[l].name /\ q.n = loop[l].n + 1
    <3>1. loop[l].n + 1 \in 0..(MaxRounds + MaxPolls)
      BY <1>1, <1>6
    <3> QED
      BY <1>1, <3>1 DEF Loop, Stations
  <2>2. LoopOK(q)
    BY <1>1, <1>6, <2>1 DEF LoopOK, Counted
  <2>3. loop' = [loop EXCEPT ![l] = q]
    BY <1>6
  <2> HIDE DEF q
  <2> QED
    BY <1>1, <1>2, <1>3, <1>6, <2>1, <2>2, <2>3, StepKeeps DEF Inv
<1> QED
  BY <1>4, <1>5, <1>6 DEF IdlePoll

LEMMA LoopStepKeeps == ASSUME Inv, NEW l \in Loops, LoopStep(l) PROVE Inv'
  BY WorkInboxKeeps, ModelReplyKeeps, ToolSendKeeps, ToolAskKeeps, ToolsDoneKeeps, IdlePollKeeps
  DEF LoopStep
-----------------------------------------------------------------------------
(* The steps of tool calls. *)

\* A new handler: its caller calls, and has none yet.
LEMMA StartKeeps ==
  ASSUME Inv, NEW caller \in Loops \cup {Lead}, NEW own \in Names \cup {Lead},
         StartHandler(caller, own), LoopsOK', \A h \in Handlers : handler[h].by # caller,
         \A l \in Loops : /\ Running(l)' <=> Running(l)
                          /\ loop[l].pc = "calling" => loop'[l].pc = "calling"
                          /\ loop'[l].name = loop[l].name,
         caller \in Loops => loop'[caller].pc = "calling",
         UNCHANGED <<member, leases, session, inherited>>
  PROVE  /\ HandlersOK' /\ Leased' /\ ListedIsLive'
         /\ LeadIsCalling' => LeadIsCalling \/ caller = Lead
<1>1. PICK h \in Handlers, kind \in {"spawn", "job", "bus"} :
        \E n \in (IF kind = "spawn" THEN Names ELSE {own}) :
          /\ ~Active(h)
          /\ handler' = [handler EXCEPT ![h] = [pc |-> "ready", kind |-> kind,
                                              by |-> caller, name |-> n]]
  BY Zenon DEF StartHandler
<1>2. PICK n \in (IF kind = "spawn" THEN Names ELSE {own}) :
          /\ ~Active(h)
          /\ handler' = [handler EXCEPT ![h] = [pc |-> "ready", kind |-> kind,
                                              by |-> caller, name |-> n]]
  BY <1>1
<1> DEFINE new == [pc |-> "ready", kind |-> kind, by |-> caller, name |-> n]
<1>3. /\ new \in Handler /\ new.pc = "ready" /\ new.by = caller
      /\ new.kind = "spawn" => new.name \in Names
  BY <1>2 DEF Handler
<1>4. handler' = [handler EXCEPT ![h] = new] /\ handler[h].pc = "none"
  BY <1>2 DEF Active
<1> HIDE DEF new
<1>5. /\ handler' \in [Handlers -> Handler] /\ handler'[h] = new
      /\ \A i \in Handlers : i # h => handler'[i] = handler[i]
  BY <1>3, <1>4 DEF Inv, HandlersOK
<1>6. HandlersOK'
  BY <1>3, <1>4, <1>5 DEF Inv, HandlersOK, Active
<1>7. Leased'
  BY <1>3, <1>5 DEF Inv, Leased, Early
<1>8. ListedIsLive'
  <2>1. \A m \in Names : (Live(m) => Live(m)') /\ (Spawning(m) => Spawning(m)')
    BY <1>4, <1>5 DEF Live, Spawning
  <2> QED
    BY <2>1 DEF Inv, ListedIsLive, Listed
<1>9. LeadIsCalling' => LeadIsCalling \/ caller = Lead
  BY <1>3, <1>5 DEF LeadIsCalling
<1> QED
  BY <1>6, <1>7, <1>8, <1>9

LEMMA AnswerKeeps == ASSUME Inv, NEW l \in Loops, Answer(l) PROVE Inv'
<1>1. /\ UNCHANGED <<member, inbox, job, session, inherited>> /\ UNCHANGED trees
      /\ loop[l].pc = "asking" /\ Early /\ Running(l) /\ loop[l] \in Loop
      /\ loop[l].n < MaxRounds /\ loop[l].name \in Names
  BY BusyIsEarly DEF Answer, Inv, LoopsOK, LoopOK, Loop, Counted
<1>2. TreesOK' /\ JobOK' /\ InboxOK' /\ MembersOK' /\ UNCHANGED leases
  BY <1>1, TreesStay, JobStays, InboxStays, MembersStay DEF Inv, trees
<1>3. CASE Goto(l, "tools") /\ UNCHANGED handler
  <2>1. Counted([loop[l] EXCEPT !.pc = "tools"]) /\ "tools" \in Stations
    BY <1>1 DEF Counted, Loop, Stations
  <2> QED
    BY <1>1, <1>2, <1>3, <2>1, GotoKeeps DEF Inv
<1>4. CASE StartHandler(l, loop[l].name) /\ Goto(l, "calling")
  <2> DEFINE q == [loop[l] EXCEPT !.pc = "calling"]
  <2>1. q \in Loop /\ q.pc = "calling" /\ q.name = loop[l].name /\ q.n = loop[l].n
    BY <1>1 DEF Loop, Stations
  <2>2. LoopOK(q) /\ q \in Loop
    BY <1>1, <2>1 DEF LoopOK, Counted
  <2>3. loop' = [loop EXCEPT ![l] = q]
    BY <1>4 DEF Goto
  <2> HIDE DEF q
  <2>4. /\ loop' \in [Loops -> Loop] /\ loop'[l] = q
        /\ \A k \in Loops : k # l => loop'[k] = loop[k]
    BY <2>2, <2>3 DEF Inv, LoopsOK
  <2>5. LoopsOK'
    BY <2>2, <2>4 DEF Inv, LoopsOK
  <2>6. \A h \in Handlers : handler[h].by # l
    BY <1>1 DEF Inv, HandlersOK
  <2>7. /\ \A k \in Loops : /\ Running(k)' <=> Running(k)
                            /\ loop[k].pc = "calling" => loop'[k].pc = "calling"
                            /\ loop'[k].name = loop[k].name
        /\ loop'[l].pc = "calling" /\ l # Lead /\ l \in Loops \cup {Lead}
        /\ loop[l].name \in Names \cup {Lead}
    BY <1>1, <2>1, <2>4 DEF Running
  <2>8. /\ HandlersOK' /\ Leased' /\ ListedIsLive' /\ (LeadIsCalling' => LeadIsCalling)
    BY <1>1, <1>2, <1>4, <2>5, <2>6, <2>7, StartKeeps
  <2>9. Late'
    BY <1>1, <2>8 DEF Inv, Late, Early
  <2> QED
    BY <1>2, <2>5, <2>8, <2>9 DEF Inv
<1> QED
  BY <1>1, <1>3, <1>4 DEF Answer

LEMMA LeadCallKeeps == ASSUME Inv, LeadCall PROVE Inv'
<1>1. /\ session \in {"open", "closing"} /\ ~LeadIsCalling /\ StartHandler(Lead, Lead)
      /\ UNCHANGED <<member, loop, inbox, job, session, inherited>> /\ UNCHANGED trees
  BY DEF LeadCall
<1>2. TreesOK' /\ JobOK' /\ InboxOK' /\ MembersOK' /\ LoopsOK' /\ UNCHANGED leases
  BY <1>1, TreesStay, JobStays, InboxStays, MembersStay, LoopsStay DEF Inv, trees
<1>3. HandlersOK' /\ Leased' /\ ListedIsLive'
  <2>1. /\ \A h \in Handlers : handler[h].by # Lead
        /\ Lead \in Loops \cup {Lead} /\ Lead \in Names \cup {Lead} /\ Lead \notin Loops
        /\ \A k \in Loops : /\ Running(k)' <=> Running(k)
                            /\ loop[k].pc = "calling" => loop'[k].pc = "calling"
                            /\ loop'[k].name = loop[k].name
    BY <1>1 DEF LeadIsCalling, Running
  <2> QED
    BY <1>1, <1>2, <2>1, StartKeeps
<1>4. Late'
  BY <1>1 DEF Inv, Late, Early
<1> QED
  BY <1>2, <1>3, <1>4 DEF Inv

\* Handler h is answered, given up or moves on to r; its caller goes on unless it waits.
LEMMA HandlerMoves ==
  ASSUME Inv, NEW h \in Handlers, Active(h), NEW r \in Handler,
         handler' = [handler EXCEPT ![h] = r], r.by = Nobody, loop' = CallerGoesOn(h),
         r.pc = "none" \/ (r.pc = handler[h].pc /\ r.kind = handler[h].kind
                           /\ r.name = handler[h].name),
         handler[h].pc = "leased" => r.pc = "leased",
         UNCHANGED <<member, leases, session, inherited>>
  PROVE  LoopsOK' /\ HandlersOK' /\ Leased' /\ Late' /\ ListedIsLive'
<1>1. /\ handler'[h] = r /\ handler' \in [Handlers -> Handler]
      /\ \A i \in Handlers : i # h => handler'[i] = handler[i]
  BY DEF Inv, HandlersOK
<1>2. /\ loop' \in [Loops -> Loop]
      /\ \A l \in Loops : /\ LoopOK(loop'[l]) /\ loop'[l].name = loop[l].name
                          /\ Running(l)' <=> Running(l)
                          /\ l # handler[h].by => loop'[l] = loop[l]
                          /\ l = handler[h].by => loop[l].pc = "calling"
  BY GoesOn DEF Inv, Running
<1>3. LoopsOK'
  BY <1>2 DEF LoopsOK
<1>4. HandlersOK'
  <2>1. ASSUME NEW i \in Handlers, handler'[i].by \in Loops
        PROVE  i # h /\ handler'[i] = handler[i] /\ Active(i) /\ handler[i].by # handler[h].by
               /\ loop'[handler[i].by].pc = "calling"
    <3>1. i # h /\ handler'[i] = handler[i]
      BY <1>1, <2>1
    <3>2. handler[i].by # handler[h].by
      BY <2>1, <3>1 DEF Inv, HandlersOK
    <3> QED
      BY <1>2, <2>1, <3>1, <3>2 DEF Inv, HandlersOK
  <2>2. ASSUME NEW i \in Handlers
        PROVE  /\ handler'[i].pc = "none" => handler'[i].by = Nobody
               /\ handler'[i].pc # "none" /\ handler'[i].kind = "spawn"
                    => handler'[i].name \in Names
               /\ handler'[i].pc = "leased" => handler'[i].kind = "spawn"
    BY <1>1 DEF Inv, HandlersOK, Active
  <2> QED
    BY <1>1, <2>1, <2>2 DEF Inv, HandlersOK, Active
<1>5. Leased'
  BY <1>1, <1>2 DEF Inv, Leased, Early, Running
<1>6. Late'
  <2>1. ~Early => loop' = loop
    <3>1. ~Early => \A l \in Loops : loop[l].pc # "calling"
      BY BusyIsEarly
    <3> QED
      BY <1>2, <3>1 DEF Inv, LoopsOK
  <2> QED
    BY <1>1, <2>1 DEF Inv, Late, Early, LeadIsCalling, Running
<1>7. ListedIsLive'
  <2>1. \A n \in Names : (Live(n) => Live(n)') /\ (Spawning(n) => Spawning(n)')
    BY <1>1, <1>2 DEF Live, Spawning
  <2> QED
    BY <2>1 DEF Inv, ListedIsLive, Listed
<1> QED
  BY <1>3, <1>4, <1>5, <1>6, <1>7

LEMMA ReturnKeeps ==
  ASSUME Inv, NEW h \in Handlers, handler[h].pc = "ready", Return(h),
         UNCHANGED <<member, leases, session, inherited>>
  PROVE  LoopsOK' /\ HandlersOK' /\ Leased' /\ Late' /\ ListedIsLive'
  BY HandlerMoves, NoHandlerOK DEF Return, Active

LEMMA GiveUpKeeps == ASSUME Inv, NEW h \in Handlers, GiveUp(h) PROVE Inv'
<1> DEFINE r == [handler[h] EXCEPT !.by = Nobody]
<1>1. /\ Active(h) /\ loop' = CallerGoesOn(h) /\ handler' = [handler EXCEPT ![h] = r]
      /\ UNCHANGED <<member, inbox, job, session, inherited>> /\ UNCHANGED trees
  BY DEF GiveUp
<1>2. TreesOK' /\ JobOK' /\ InboxOK' /\ MembersOK' /\ UNCHANGED leases
  BY <1>1, TreesStay, JobStays, InboxStays, MembersStay DEF Inv, trees
<1>3. /\ r \in Handler /\ r.by = Nobody /\ r.pc = handler[h].pc /\ r.kind = handler[h].kind
      /\ r.name = handler[h].name
  BY DEF Inv, HandlersOK, Handler
<1> HIDE DEF r
<1>4. LoopsOK' /\ HandlersOK' /\ Leased' /\ Late' /\ ListedIsLive'
  BY <1>1, <1>2, <1>3, HandlerMoves
<1> QED
  BY <1>2, <1>4 DEF Inv

LEMMA SpawnRefusedKeeps == ASSUME Inv, NEW h \in Handlers, SpawnRefused(h) PROVE Inv'
<1>1. /\ handler[h].pc = "ready" /\ Return(h)
      /\ UNCHANGED <<member, inbox, job, session, inherited>> /\ UNCHANGED trees
  BY DEF SpawnRefused, MaySpawn
<1>2. TreesOK' /\ JobOK' /\ InboxOK' /\ MembersOK' /\ UNCHANGED leases
  BY <1>1, TreesStay, JobStays, InboxStays, MembersStay DEF Inv, trees
<1> QED
  BY <1>1, <1>2, ReturnKeeps DEF Inv

LEMMA SpawnLeaseKeeps == ASSUME Inv, NEW h \in Handlers, SpawnLease(h) PROVE Inv'
<1> PICK n : n = handler[h].name
  OBVIOUS
<1> DEFINE r == [handler[h] EXCEPT !.pc = "leased"]
<1>1. /\ handler[h].pc = "ready" /\ handler[h].kind = "spawn" /\ Acquire(n)
      /\ member' = [member EXCEPT ![n] = "working"] /\ handler' = [handler EXCEPT ![h] = r]
      /\ inherited' = inherited \ {n} /\ UNCHANGED <<loop, inbox, job, session>>
  BY DEF SpawnLease, MaySpawn
<1>2. n \in Names /\ handler[h] \in Handler
  BY <1>1 DEF Inv, HandlersOK, Active
<1>3. /\ r \in Handler /\ r.pc = "leased" /\ r.by = handler[h].by /\ r.kind = "spawn"
      /\ r.name = n
  BY <1>1, <1>2 DEF Handler
<1> HIDE DEF r
<1>4. /\ handler' \in [Handlers -> Handler] /\ handler'[h] = r
      /\ \A i \in Handlers : i # h => handler'[i] = handler[i]
  BY <1>1, <1>3 DEF Inv, HandlersOK
<1>5. TreesOK' /\ leases \subseteq leases' /\ n \in leases'
  BY <1>1, <1>2, AcquireKeeps DEF Inv, TreesOK
<1>6. MembersOK'
  BY <1>1 DEF Inv, MembersOK, Statuses
<1>7. InboxOK' /\ LoopsOK' /\ JobOK'
  BY <1>1, InboxStays, LoopsStay, JobStays DEF Inv
<1>8. HandlersOK'
  BY <1>1, <1>2, <1>3, <1>4 DEF Inv, HandlersOK, Active
<1>9. Leased' /\ Late'
  <2>1. Leased'
    BY <1>1, <1>3, <1>4, <1>5 DEF Inv, Leased, Early, Running
  <2>2. LeadIsCalling' => LeadIsCalling
    BY <1>3, <1>4 DEF LeadIsCalling
  <2> QED
    BY <1>1, <2>1, <2>2 DEF Inv, Late, Early, Running
<1>10. ListedIsLive'
  <2>1. Spawning(n)'
    BY <1>3, <1>4 DEF Spawning
  <2>2. ASSUME NEW m \in Names, m # n, m \in Listed'
        PROVE  Live(m)' \/ Spawning(m)' \/ m \in inherited'
    <3>1. m \in Listed
      BY <1>1, <2>2 DEF Listed, Inv, MembersOK
    <3>2. (Live(m) => Live(m)') /\ (Spawning(m) => Spawning(m)')
      BY <1>1, <1>4, <2>2 DEF Live, Running, Spawning
    <3> QED
      BY <1>1, <2>2, <3>1, <3>2 DEF Inv, ListedIsLive
  <2>3. Listed' \subseteq Names
    BY DEF Listed
  <2>4. ASSUME NEW m \in Listed' PROVE Live(m)' \/ Spawning(m)' \/ m \in inherited'
    BY <2>1, <2>2, <2>3, <2>4
  <2> QED
    BY <2>4 DEF ListedIsLive
<1> QED
  BY <1>5, <1>6, <1>7, <1>8, <1>9, <1>10 DEF Inv

\* The new loop begins where nothing ran: with the lease, or too late for anything.
LEMMA SpawnStartKeeps == ASSUME Inv, NEW h \in Handlers, SpawnStart(h) PROVE Inv'
<1> PICK n : n = handler[h].name
  OBVIOUS
<1> DEFINE new == [NoLoop EXCEPT !.pc = "inbox", !.name = n]
<1>1. /\ handler[h].pc = "leased" /\ handler' = [handler EXCEPT ![h] = NoHandler]
      /\ UNCHANGED <<member, inbox, job, session, inherited>> /\ UNCHANGED trees
  BY DEF SpawnStart
<1>2. PICK l \in Loops : ~Running(l) /\ loop' = [CallerGoesOn(h) EXCEPT ![l] = new]
  BY DEF SpawnStart
<1>3. TreesOK' /\ JobOK' /\ InboxOK' /\ MembersOK' /\ UNCHANGED leases
  BY <1>1, TreesStay, JobStays, InboxStays, MembersStay DEF Inv, trees
<1>4. n \in Names
  BY <1>1 DEF Inv, HandlersOK, Active
<1>5. new \in Loop /\ new.pc = "inbox" /\ new.name = n /\ new.n = 0
  BY <1>4, NewLoop
<1>6. LoopOK(new)
  BY <1>4, <1>5 DEF LoopOK, Counted
<1> HIDE DEF new
<1> DEFINE g == CallerGoesOn(h)
<1>7. /\ g \in [Loops -> Loop]
      /\ \A k \in Loops : /\ LoopOK(g[k]) /\ g[k].name = loop[k].name
                          /\ (g[k].pc # "none" <=> Running(k))
                          /\ k # handler[h].by => g[k] = loop[k]
                          /\ k = handler[h].by => loop[k].pc = "calling"
  BY GoesOn DEF Inv
<1>8. l # handler[h].by
  BY <1>2, <1>7 DEF Running
<1> HIDE DEF g
<1>9. /\ loop' \in [Loops -> Loop] /\ loop'[l] = new
      /\ \A k \in Loops : k # l => loop'[k] = g[k]
  BY <1>2, <1>5, <1>7 DEF g
<1>10. /\ handler' \in [Handlers -> Handler] /\ handler'[h] = NoHandler
       /\ \A i \in Handlers : i # h => handler'[i] = handler[i]
  BY <1>1, NoHandlerOK DEF Inv, HandlersOK
<1>11. LoopsOK'
  BY <1>6, <1>7, <1>9 DEF LoopsOK
<1>12. HandlersOK'
  <2>1. ASSUME NEW i \in Handlers, handler'[i].by \in Loops
        PROVE  i # h /\ handler'[i] = handler[i] /\ Active(i)
               /\ loop'[handler[i].by].pc = "calling"
    <3>1. i # h /\ handler'[i] = handler[i]
      BY <1>10, <2>1, NoHandlerOK
    <3>2. handler[i].by # handler[h].by /\ Active(i) /\ loop[handler[i].by].pc = "calling"
      BY <2>1, <3>1 DEF Inv, HandlersOK
    <3>3. handler[i].by # l
      BY <1>2, <3>2 DEF Running
    <3> QED
      BY <1>7, <1>9, <2>1, <3>1, <3>2, <3>3
  <2>2. ASSUME NEW i \in Handlers
        PROVE  /\ handler'[i].pc = "none" => handler'[i].by = Nobody
               /\ handler'[i].pc # "none" /\ handler'[i].kind = "spawn"
                    => handler'[i].name \in Names
               /\ handler'[i].pc = "leased" => handler'[i].kind = "spawn"
    BY <1>10, NoHandlerOK DEF Inv, HandlersOK, Active
  <2> QED
    BY <1>10, <2>1, <2>2 DEF Inv, HandlersOK, Active
<1>13. Leased'
  <2>1. Early => n \in leases
    BY <1>1 DEF Inv, Leased
  <2>2. \A k \in Loops : k # l /\ Running(k)' => Running(k) /\ loop'[k].name = loop[k].name
    BY <1>7, <1>9 DEF Running
  <2> QED
    BY <1>1, <1>3, <1>5, <1>9, <1>10, <2>1, <2>2, NoHandlerOK DEF Inv, Leased, Early
<1>14. Late'
  <2>1. ~Early => \A k \in Loops : g[k] = loop[k]
    BY <1>7, BusyIsEarly
  <2>2. LeadIsCalling' => LeadIsCalling
    BY <1>10, NoHandlerOK DEF LeadIsCalling
  <2> QED
    BY <1>1, <1>5, <1>9, <2>1, <2>2 DEF Inv, Late, Early, Running
<1>15. ListedIsLive'
  <2>1. Live(n)'
    <3>1. loop'[l].pc # "none" /\ loop'[l].name = n
      BY <1>5, <1>9
    <3> QED
      BY <3>1 DEF Live, Running
  <2>2. \A m \in Names : Live(m) => Live(m)'
    BY <1>2, <1>7, <1>9 DEF Live, Running
  <2>3. \A m \in Names : m # n /\ Spawning(m) => Spawning(m)'
    BY <1>10 DEF Spawning
  <2>4. Listed' = Listed
    BY <1>1 DEF Listed
  <2>5. Listed \subseteq Names
    BY DEF Listed
  <2>6. ASSUME NEW m \in Listed PROVE Live(m)' \/ Spawning(m)' \/ m \in inherited'
    BY <1>1, <2>1, <2>2, <2>3, <2>5, <2>6 DEF Inv, ListedIsLive
  <2> QED
    BY <2>4, <2>6 DEF ListedIsLive
<1> QED
  BY <1>3, <1>11, <1>12, <1>13, <1>14, <1>15 DEF Inv

\* A job that is started when nobody waits for it has been started by a stray handler.
LEMMA RunJobKeeps == ASSUME Inv, NEW h \in Handlers, RunJob(h) PROVE Inv'
<1>1. /\ handler[h].pc = "ready" /\ Return(h)
      /\ job' = [state |-> "running", stray |-> handler[h].by = Nobody]
      /\ UNCHANGED <<member, inbox, session, inherited>> /\ UNCHANGED trees
  BY DEF RunJob
<1>2. TreesOK' /\ InboxOK' /\ MembersOK' /\ UNCHANGED leases
  BY <1>1, TreesStay, InboxStays, MembersStay DEF Inv, trees
<1>3. job' \in Job /\ job'.stray = (handler[h].by = Nobody)
  <2>1. \A d \in BOOLEAN : LET j == [state |-> "running", stray |-> d]
                           IN j \in Job /\ j.stray = d
    BY DEF Job
  <2>2. (handler[h].by = Nobody) \in BOOLEAN
    OBVIOUS
  <2> QED
    BY <1>1, <2>1, <2>2, Zenon
<1>4. JobOK'
  <2>1. session \in {"removing", "closed"} => handler[h].by = Nobody
    BY LateIsStray DEF Early
  <2> QED
    BY <1>1, <1>3, <2>1 DEF Inv, JobOK, NoJobLeft
<1> QED
  BY <1>1, <1>2, <1>4, ReturnKeeps DEF Inv

LEMMA RunBusKeeps == ASSUME Inv, NEW h \in Handlers, RunBus(h) PROVE Inv'
<1>1. /\ handler[h].pc = "ready" /\ Return(h)
      /\ UNCHANGED <<member, job, session, inherited>> /\ UNCHANGED trees
  BY DEF RunBus
<1>2. TreesOK' /\ JobOK' /\ MembersOK' /\ UNCHANGED leases
  BY <1>1, TreesStay, JobStays, MembersStay DEF Inv, trees
<1>3. InboxOK'
  <2>1. CASE \E n \in Names, m \in Msg : Send(n, m)
    BY <2>1, SendKeeps DEF Inv
  <2>2. CASE Broadcast
    BY <2>2, PostToMembers DEF Inv, Broadcast, Msg
  <2>3. CASE ReadInbox(handler[h].name)
    BY <2>3, ReadInboxKeeps DEF Inv
  <2>4. CASE UNCHANGED inbox
    BY <2>4, InboxStays DEF Inv
  <2> QED
    BY <2>1, <2>2, <2>3, <2>4 DEF RunBus
<1> QED
  BY <1>1, <1>2, <1>3, ReturnKeeps DEF Inv

LEMMA HandlerStepKeeps == ASSUME Inv, NEW h \in Handlers, HandlerStep(h) PROVE Inv'
  BY GiveUpKeeps, SpawnRefusedKeeps, SpawnLeaseKeeps, SpawnStartKeeps, RunJobKeeps, RunBusKeeps
  DEF HandlerStep
-----------------------------------------------------------------------------
(* The jobs, the user, the session. *)

\* Nothing moves but inboxes, jobs and the stage of the session.
LEMMA StageKeeps ==
  ASSUME Inv, UNCHANGED <<member, loop, handler, inherited>>, UNCHANGED trees,
         InboxOK', JobOK', Early' => Early, Early /\ ~Early' => AllEnded,
         session' \notin {"open", "closing"} =>
           session \notin {"open", "closing"} \/ ~LeadIsCalling
  PROVE  Inv'
<1>1. MembersOK' /\ TreesOK' /\ LoopsOK' /\ HandlersOK' /\ ListedIsLive'
  BY MembersStay, TreesStay, LoopsStay, HandlersStay, ListedStays DEF Inv
<1>2. Leased'
  BY LeasedStays DEF Inv, trees
<1>3. Late'
  BY DEF Inv, Late, Early, AllEnded, Running, LeadIsCalling
<1> QED
  BY <1>1, <1>2, <1>3 DEF Inv

LEMMA NoJobOK == NoJob \in Job /\ NoJob.state = "none"
<1>1. \A d \in BOOLEAN : LET j == [state |-> "none", stray |-> d]
                         IN j \in Job /\ j.state = "none"
  BY DEF Job
<1>2. FALSE \in BOOLEAN
  OBVIOUS
<1> QED
  BY <1>1, <1>2, Zenon DEF NoJob

LEMMA JobEndsKeeps == ASSUME Inv, JobEnds PROVE Inv'
<1>1. /\ job' = [job EXCEPT !.state = "done"]
      /\ UNCHANGED <<member, loop, handler, inbox, session, inherited>> /\ UNCHANGED trees
  BY DEF JobEnds
<1>2. job' \in Job /\ job'.state = "done"
  BY <1>1 DEF Inv, JobOK, Job
<1>3. JobOK'
  BY <1>1, <1>2 DEF Inv, JobOK, NoJobLeft, JobLives
<1> QED
  BY <1>1, <1>3, StageKeeps, InboxStays DEF Inv, Early

LEMMA DrainKeeps == ASSUME Inv, Drain PROVE Inv'
<1>1. /\ job' = NoJob
      /\ UNCHANGED <<member, loop, handler, inbox, session, inherited>> /\ UNCHANGED trees
  BY DEF Drain
<1>2. JobOK'
  BY <1>1, NoJobOK DEF Inv, JobOK, NoJobLeft, JobLives
<1> QED
  BY <1>1, <1>2, StageKeeps, InboxStays DEF Inv, Early

LEMMA UserSendsKeeps == ASSUME Inv, UserSends PROVE Inv'
<1>1. /\ UNCHANGED <<member, loop, handler, job, session, inherited>> /\ UNCHANGED trees
      /\ \E n \in Names, m \in Msg : Send(n, m)
  BY DEF UserSends
<1>2. InboxOK'
  BY <1>1, SendKeeps DEF Inv
<1> QED
  BY <1>1, <1>2, StageKeeps, JobStays DEF Inv, Early

LEMMA CloseKeeps == ASSUME Inv, Close PROVE Inv'
<1>1. /\ session = "open" /\ session' = "closing"
      /\ UNCHANGED <<member, loop, handler, inbox, job, inherited>> /\ UNCHANGED trees
  BY DEF Close
<1>2. JobOK'
  BY <1>1 DEF Inv, JobOK, NoJobLeft
<1> QED
  BY <1>1, <1>2, StageKeeps, InboxStays DEF Inv, Early

LEMMA ShutdownAllKeeps == ASSUME Inv, ShutdownAll PROVE Inv'
<1>1. /\ session = "closing" /\ session' = "stopping" /\ ~LeadIsCalling
      /\ UNCHANGED <<member, loop, handler, job, inherited>> /\ UNCHANGED trees
  BY DEF ShutdownAll
<1>2. JobOK'
  BY <1>1 DEF Inv, JobOK, NoJobLeft
<1>3. InboxOK'
  BY PostToMembers DEF Inv, ShutdownAll, Msg
<1> QED
  BY <1>1, <1>2, <1>3, StageKeeps DEF Inv, Early

LEMMA StopAllKeeps == ASSUME Inv, StopAll PROVE Inv'
<1>1. /\ AllEnded /\ session = "stopping" /\ session' = "reaping"
      /\ job' = [job EXCEPT !.state = IF @ = "running" THEN "canceled" ELSE @]
      /\ UNCHANGED <<member, loop, handler, inbox, inherited>> /\ UNCHANGED trees
  BY DEF StopAll, StopAllEarly
<1>2. job' \in Job
  BY <1>1 DEF Inv, JobOK, Job
<1>3. JobOK'
  BY <1>1, <1>2 DEF JobOK, NoJobLeft
<1> QED
  BY <1>1, <1>3, StageKeeps, InboxStays DEF Inv, Early

LEMMA JobsAwaitedKeeps == ASSUME Inv, JobsAwaited PROVE Inv'
<1>1. /\ session = "reaping" /\ ~JobLives /\ session' = "removing"
      /\ UNCHANGED <<member, loop, handler, inbox, job, inherited>> /\ UNCHANGED trees
  BY DEF JobsAwaited
<1>2. JobOK'
  BY <1>1 DEF Inv, JobOK, NoJobLeft, JobLives
<1> QED
  BY <1>1, <1>2, StageKeeps, InboxStays DEF Inv, Early

LEMMA RemoveAllKeeps == ASSUME Inv, RemoveAll PROVE Inv'
<1>1. /\ session = "removing" /\ session' = "closed"
      /\ UNCHANGED <<member, loop, handler, inbox, branches, job, inherited>>
  BY DEF RemoveAll
<1>2. TreesOK'
  BY <1>1 DEF Inv, TreesOK, RemoveAll
<1>3. JobOK'
  BY <1>1 DEF Inv, JobOK, NoJobLeft, JobLives
<1>4. Leased' /\ Late'
  BY <1>1 DEF Inv, Leased, Late, Early, Running, LeadIsCalling
<1> QED
  BY <1>1, <1>2, <1>3, <1>4, MembersStay, InboxStays, LoopsStay, HandlersStay, ListedStays DEF Inv

\* A new process runs nothing yet; what it finds listed is accounted for.
LEMMA RestartKeeps ==
  ASSUME Inv, Restart, inherited' \subseteq Names, Listed \subseteq inherited'
  PROVE  Inv'
<1>1. /\ session' = "open" /\ job' = NoJob /\ leases' = {}
      /\ loop' = [l \in Loops |-> NoLoop] /\ handler' = [h \in Handlers |-> NoHandler]
      /\ UNCHANGED <<member, inbox, dirs, branches>>
  BY DEF Restart
<1>2. TreesOK' /\ MembersOK' /\ InboxOK'
  BY <1>1, MembersStay, InboxStays DEF Inv, TreesOK
<1>3. LoopsOK' /\ HandlersOK'
  BY <1>1, NoLoopOK, NoHandlerOK DEF LoopsOK, HandlersOK, Active
<1>4. JobOK'
  BY <1>1, NoJobOK DEF JobOK, NoJobLeft
<1>5. Leased' /\ Late'
  BY <1>1, NoLoopOK, NoHandlerOK DEF Leased, Late, Early, Running
<1>6. ListedIsLive'
  BY <1>1 DEF ListedIsLive, Listed
<1> QED
  BY <1>2, <1>3, <1>4, <1>5, <1>6 DEF Inv

LEMMA ReopenKeeps == ASSUME Inv, Reopen PROVE Inv'
<1>1. /\ AllEnded /\ \A h \in Handlers : ~Active(h)
      /\ Restart /\ UNCHANGED inherited
  BY DEF Reopen
<1>2. Listed \subseteq inherited
  BY <1>1 DEF Inv, ListedIsLive, Listed, Live, AllEnded, Spawning, Active
<1> QED
  BY <1>1, <1>2, RestartKeeps DEF Inv, TreesOK

LEMMA CrashKeeps == ASSUME Inv, Crash PROVE Inv'
  BY RestartKeeps DEF Crash, Listed

-----------------------------------------------------------------------------
LEMMA InitInv == Init => Inv
<1> SUFFICES ASSUME Init PROVE Inv
  OBVIOUS
<1>1. /\ member = [n \in Names |-> "none"] /\ loop = [l \in Loops |-> NoLoop]
      /\ handler = [h \in Handlers |-> NoHandler] /\ inbox = [n \in Names |-> <<>>]
      /\ leases = {} /\ dirs = {} /\ branches = {} /\ job = NoJob /\ session = "open"
      /\ inherited = {}
  BY DEF Init
<1>2. <<>> \in Seq(Msg)
  OBVIOUS
<1>3. MembersOK /\ InboxOK /\ TreesOK
  BY <1>1, <1>2 DEF MembersOK, Statuses, InboxOK, TreesOK
<1>4. LoopsOK /\ HandlersOK
  BY <1>1, NoLoopOK, NoHandlerOK DEF LoopsOK, HandlersOK, Active
<1>5. JobOK
  BY <1>1, NoJobOK DEF JobOK, NoJobLeft
<1>6. Leased /\ Late
  BY <1>1, NoLoopOK, NoHandlerOK DEF Leased, Late, Early, Running
<1>7. ListedIsLive
  BY <1>1 DEF ListedIsLive, Listed
<1> QED
  BY <1>3, <1>4, <1>5, <1>6, <1>7 DEF Inv

LEMMA StutterKeeps == ASSUME Inv, UNCHANGED vars PROVE Inv'
<1>1. UNCHANGED <<member, loop, handler, inherited>> /\ UNCHANGED trees
      /\ UNCHANGED <<inbox, job, session>>
  BY DEF vars, trees
<1> QED
  BY <1>1, StageKeeps, InboxStays, JobStays DEF Inv, Early

LEMMA NextKeeps == Inv /\ [Next]_vars => Inv'
<1> SUFFICES ASSUME Inv, [Next]_vars PROVE Inv'
  OBVIOUS
<1>1. CASE LeadStep
  BY <1>1, LeadCallKeeps, UserSendsKeeps DEF LeadStep
<1>2. CASE JobStep
  BY <1>2, JobEndsKeeps, DrainKeeps DEF JobStep
<1>3. CASE CloseStep
  BY <1>3, CloseKeeps, ShutdownAllKeeps, StopAllKeeps, JobsAwaitedKeeps, RemoveAllKeeps,
     ReopenKeeps DEF CloseStep
<1>4. CASE Crash
  BY <1>4, CrashKeeps
<1>5. CASE \E l \in Loops : LoopStep(l) \/ Answer(l)
  BY <1>5, LoopStepKeeps, AnswerKeeps
<1>6. CASE \E h \in Handlers : HandlerStep(h)
  BY <1>6, HandlerStepKeeps
<1>7. CASE UNCHANGED vars
  BY <1>7, StutterKeeps
<1> QED
  BY <1>1, <1>2, <1>3, <1>4, <1>5, <1>6, <1>7 DEF Next

THEOREM InvHolds == Spec => []Inv
  BY InitInv, NextKeeps, PTL DEF Spec

\* Teammates work in directories that exist, whatever handlers were left behind: a
\* loop started after the team hook's Wait does not get past its first model call.
THEOREM WorktreeUnderLoopHolds == Spec => []WorktreeUnderLoop
  BY InvHolds, InvImplies, PTL

\* Of the jobs of a session, only those of handlers nobody waited for outlive the
\* background hook.
THEOREM NoJobLeftHolds == Spec => []NoJobLeft
  BY InvHolds, InvImplies, PTL

\* Who is listed as working or idle runs, is about to, or was left so by a crash.
THEOREM ListedIsLiveHolds == Spec => []ListedIsLive
  BY InvHolds, InvImplies, PTL
=============================================================================
