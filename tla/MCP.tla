-------------------------------- MODULE MCP --------------------------------
(***************************************************************************)
(* External tool servers (internal/mcp): the manager that starts, lists    *)
(* and stops them at the commands of the user, the client that talks to    *)
(* one server over its standard input and output, and the calls the model  *)
(* makes of the tools the servers offer.                                   *)
(*                                                                         *)
(* Three kinds of goroutines share a client: the command loop, the handler *)
(* of each tool call and the client's health loop.  A client serves them   *)
(* one at a time under its mutex, held over the whole exchange with the    *)
(* server.  Commands run one after the other; each place where one waits   *)
(* for a mutex or for the server is a step.                                *)
(***************************************************************************)
EXTENDS Integers, Sequences

CONSTANTS
  Servers,     \* names of configured servers
  NoServer,
  Callers,     \* handlers of tool calls
  MaxClients,  \* bound: servers started in the session
  MaxFails,    \* defaultMaxFails
  MaxUnasked,  \* bound: lines a server writes that nobody asked for
  Hangs        \* kinds of request a server may leave unanswered for ever

Kinds == {"initialize", "list", "call", "ping"}
Clients == 1..MaxClients

ASSUME MCPAssumption ==
  /\ MaxClients \in Nat /\ MaxFails \in Nat \ {0} /\ MaxUnasked \in Nat
  /\ NoServer \notin Servers /\ Hangs \subseteq Kinds
  /\ Callers \cap {"free", "repl", "health", "nobody"} = {}

VARIABLES
  mgr,      \* Manager: its mutex; the client of each server, 0 for none; pendingServers,
            \* failures, connecting, closed
  tools,    \* servers whose tools are in the tool catalog
  client,   \* Client: the server's name, running, the mutex and its holder,
            \* consecFails, breakerState, the health loop
  proc,     \* the server process of each client
  wire,     \* its pipes: requests it has not read, lines nobody has read; how many
            \* lines it wrote unasked
  repl,     \* the command being run: which, where it is, its server and client, the
            \* clients it still has to visit
  session,  \* context of the session: "live" or "canceled"
  call      \* handlers: where each is, the server, the client found, its context

vars == <<mgr, tools, client, proc, wire, repl, session, call>>

NewClient == [server |-> NoServer, running |-> FALSE, lock |-> "free", fails |-> 0,
              breaker |-> "closed", loop |-> "none", canceled |-> FALSE]
NoPipe == [requests |-> <<>>, answers |-> <<>>, unasked |-> 0]
Prompt == [op |-> "none", pc |-> "idle", server |-> NoServer, k |-> 0, todo |-> {}]
NoCall == [pc |-> "idle", server |-> NoServer, k |-> 0, ctx |-> "live"]

\* LoadAndStart only stages the configured servers for approval.
Init ==
  /\ \E staged \in SUBSET Servers :
       mgr = [mu |-> "free", client |-> [s \in Servers |-> 0], pending |-> staged,
              failed |-> {}, connecting |-> {}, closed |-> FALSE]
  /\ tools = {}
  /\ client = [k \in Clients |-> NewClient]
  /\ proc = [k \in Clients |-> "none"]
  /\ wire = [k \in Clients |-> NoPipe]
  /\ repl = Prompt
  /\ session = "live"
  /\ call = [c \in Callers |-> NoCall]

(***************************************************************************)
(* The client: circuit breaker, exchange with the server, stopping         *)
(***************************************************************************)
\* recordFailure.  consecFails is only compared with maxFails: it saturates there.
Failure(cl) ==
  LET n == IF cl.fails < MaxFails THEN cl.fails + 1 ELSE MaxFails
  IN [cl EXCEPT !.fails = n, !.breaker = IF n >= MaxFails THEN "open" ELSE @]

\* recordSuccess
Success(cl) ==
  [cl EXCEPT !.fails = 0, !.breaker = IF @ = "half-open" THEN "closed" ELSE @]

\* checkBreaker: whether a call may pass, and the breaker after the look.
MayPass(cl, cooled) == cl.breaker = "open" => cooled
Checked(cl, cooled) ==
  [cl EXCEPT !.breaker = IF @ = "open" /\ cooled THEN "half-open" ELSE @]

Unlocked(cl) == [cl EXCEPT !.lock = "free"]

\* The first half of sendRequestSync.  What is written to a dead process is lost.
Requested(w, who, kind) ==
  [w EXCEPT !.requests = Append(@, [by |-> who, kind |-> kind])]
Asking(k, who, kind) ==
  IF proc[k] = "live" THEN [wire EXCEPT ![k] = Requested(@, who, kind)] ELSE wire

\* The second half: the next line, whatever it answers, or the end of the pipe.  Good:
\* a result in the form the request expects.
Readable(k) == wire[k].answers # <<>> \/ proc[k] # "live"
Good(k) == wire[k].answers # <<>> /\ Head(wire[k].answers).ok
Rest(w) == [w EXCEPT !.answers = IF @ = <<>> THEN @ ELSE Tail(@)]
Taken(k) == [wire EXCEPT ![k] = Rest(@)]

\* Mutant of Stopping: the process is left to finish what it was asked.
StoppingKindly(k, after) ==
  /\ client' = [client EXCEPT ![k] = [after EXCEPT !.canceled = TRUE, !.lock = "free"]]
  /\ UNCHANGED <<proc, wire>>

\* stopProcessLocked by the holder of the mutex, who then lets it go: the health
\* loop is cancelled, the process killed and reaped, the pipes are closed.  A stopped
\* client is never started again: nobody looks at its breaker any more.
Stopping(k, after) ==
  /\ client' = [client EXCEPT
       ![k] = [NewClient EXCEPT !.server = after.server, !.loop = after.loop,
                                !.canceled = TRUE]]
  /\ proc' = [proc EXCEPT ![k] = IF @ = "none" THEN "none" ELSE "reaped"]
  /\ wire' = [wire EXCEPT ![k] = NoPipe]

(***************************************************************************)
(* The server: it answers one request after the other, with a result or    *)
(* with an error, may write a line of its own and may end at any time.     *)
(***************************************************************************)
Answered(w, ok) ==
  [w EXCEPT !.requests = Tail(@),
            !.answers = Append(@, [to |-> Head(w.requests).by, ok |-> ok])]
Volunteered(w, ok) ==
  [w EXCEPT !.answers = Append(@, [to |-> "nobody", ok |-> ok]), !.unasked = @ + 1]

Answer(k) ==
  /\ proc[k] = "live" /\ wire[k].requests # <<>>
  /\ \E ok \in BOOLEAN :
       wire' = [wire EXCEPT ![k] = Answered(@, ok)]
  /\ UNCHANGED <<mgr, tools, client, proc, repl, session, call>>

\* A line nobody asked for: a notification, or the reply to notifications/initialized,
\* which Initialized sends as a request with the id 0.
Volunteer(k) ==
  /\ proc[k] = "live" /\ wire[k].unasked < MaxUnasked
  /\ \E ok \in BOOLEAN : wire' = [wire EXCEPT ![k] = Volunteered(@, ok)]
  /\ UNCHANGED <<mgr, tools, client, proc, repl, session, call>>

\* It crashes; a cancelled session kills it as well (exec.CommandContext).
Die(k) ==
  /\ proc[k] = "live"
  /\ proc' = [proc EXCEPT ![k] = "dead"]
  /\ wire' = [wire EXCEPT ![k] = [@ EXCEPT !.requests = <<>>]]
  /\ UNCHANGED <<mgr, tools, client, repl, session, call>>

(***************************************************************************)
(* Approve and Connect                                                     *)
(***************************************************************************)
Fresh == {k \in Clients : client[k].server = NoServer}

\* The checks and the reservation of startServer.  A command these refuse changes
\* nothing: a closed manager, a server that is active or being connected.
StartServer(s, op) ==
  /\ repl.pc = "idle" /\ op \in {"approve", "connect"}
  /\ op = "approve" => s \in mgr.pending
  /\ ~mgr.closed /\ mgr.client[s] = 0 /\ s \notin mgr.connecting
  /\ Fresh # {}
  /\ LET k == CHOOSE j \in Fresh : \A i \in Fresh : j <= i
     IN /\ repl' = [Prompt EXCEPT !.op = op, !.pc = "spawn", !.server = s, !.k = k]
        /\ client' = [client EXCEPT ![k] = [NewClient EXCEPT !.server = s]]
  /\ mgr' = [mgr EXCEPT !.connecting = @ \cup {s}]
  /\ UNCHANGED <<tools, proc, wire, session, call>>

\* Start: the process runs and is sent "initialize" under the client's mutex.
Spawn ==
  /\ repl.pc = "spawn" /\ session = "live"
  /\ repl' = [repl EXCEPT !.pc = "initialize"]
  /\ client' = [client EXCEPT ![repl.k] = [@ EXCEPT !.running = TRUE, !.lock = "repl"]]
  /\ proc' = [proc EXCEPT ![repl.k] = "live"]
  /\ wire' = [wire EXCEPT ![repl.k] = Requested(@, "repl", "initialize")]
  /\ UNCHANGED <<mgr, tools, session, call>>

\* Initialized: the handshake is done, which the server is told (Volunteer has what it
\* may reply), and DiscoverTools asks for the tools; nobody else knows the client yet,
\* so it finds the mutex free.
Initialized ==
  /\ repl.pc = "initialize" /\ Readable(repl.k) /\ Good(repl.k) /\ session = "live"
  /\ repl' = [repl EXCEPT !.pc = "list"]
  /\ wire' = [wire EXCEPT ![repl.k] =
       IF proc[repl.k] = "live" THEN Requested(Rest(@), "repl", "list") ELSE Rest(@)]
  /\ UNCHANGED <<mgr, tools, client, proc, session, call>>

Discovered ==
  /\ repl.pc = "list" /\ Readable(repl.k) /\ Good(repl.k) /\ session = "live"
  /\ repl' = [repl EXCEPT !.pc = "register"]
  /\ wire' = Taken(repl.k)
  /\ client' = [client EXCEPT ![repl.k] = Unlocked(Success(@))]
  /\ UNCHANGED <<mgr, tools, proc, session, call>>

\* Mutant of StartFails: the cleanup call of client.Stop is missing.
StartFailsLeaking ==
  /\ \/ repl.pc = "spawn"
     \/ repl.pc \in {"initialize", "list"}
        /\ \/ Readable(repl.k) /\ ~Good(repl.k)
           \/ session = "canceled"
     \/ repl.pc = "register" /\ (session = "canceled" \/ mgr.closed)
  /\ client' = [client EXCEPT ![repl.k] = Unlocked(@)]
  /\ mgr' = [mgr EXCEPT !.connecting = @ \ {repl.server},
                        !.failed = IF mgr.closed THEN @ ELSE @ \cup {repl.server}]
  /\ repl' = Prompt
  /\ UNCHANGED <<tools, proc, wire, session, call>>

\* The process cannot be started, an exchange fails or the session is cancelled
\* meanwhile (the exchange is aborted or its result is dropped): the client is
\* stopped, and the server's name is free again and marked as failed.
StartFails ==
  /\ \/ repl.pc = "spawn"
     \/ repl.pc \in {"initialize", "list"}
        /\ \/ Readable(repl.k) /\ ~Good(repl.k)
           \/ session = "canceled"
     \/ repl.pc = "register" /\ (session = "canceled" \/ mgr.closed)
  /\ Stopping(repl.k, client[repl.k])
  /\ mgr' = [mgr EXCEPT !.connecting = @ \ {repl.server},
                        !.failed = IF mgr.closed THEN @ ELSE @ \cup {repl.server}]
  /\ repl' = Prompt
  /\ UNCHANGED <<tools, session, call>>

\* Mutant of Register: the manager's mutex is not held while the tools become visible.
RegisterUnlocked ==
  /\ repl.pc = "register" /\ session = "live" /\ ~mgr.closed /\ mgr.mu = "free"
  /\ tools' = tools \cup {repl.server}
  /\ repl' = [repl EXCEPT !.pc = "publish"]
  /\ UNCHANGED <<mgr, client, proc, wire, session, call>>

\* RegisterMCPTools, under the manager's mutex: the tools can be called from now on.
Register ==
  /\ repl.pc = "register" /\ session = "live" /\ ~mgr.closed /\ mgr.mu = "free"
  /\ mgr' = [mgr EXCEPT !.mu = "repl"]
  /\ tools' = tools \cup {repl.server}
  /\ repl' = [repl EXCEPT !.pc = "publish"]
  /\ UNCHANGED <<client, proc, wire, session, call>>

Publish ==
  /\ repl.pc = "publish"
  /\ mgr' = [mgr EXCEPT !.mu = "free", !.client = [@ EXCEPT ![repl.server] = repl.k],
                        !.failed = @ \ {repl.server}]
  /\ repl' = [repl EXCEPT !.pc = "health"]
  /\ UNCHANGED <<tools, client, proc, wire, session, call>>

\* startHealthLoop, then the deferred end of startServer and of Approve.
StartHealthLoop ==
  /\ repl.pc = "health" /\ client[repl.k].lock = "free"
  /\ LET at == IF client[repl.k].running THEN "waiting" ELSE client[repl.k].loop
     IN client' = [client EXCEPT ![repl.k] = [@ EXCEPT !.loop = at]]
  /\ mgr' = [mgr EXCEPT !.connecting = @ \ {repl.server},
               !.pending = IF repl.op = "approve" THEN @ \ {repl.server} ELSE @]
  /\ repl' = Prompt
  /\ UNCHANGED <<tools, proc, wire, session, call>>

(***************************************************************************)
(* Disconnect, Status, Shutdown                                            *)
(***************************************************************************)
\* Disconnect removes the client from the manager, then the tools from the
\* catalog, then stops the client.
Disconnect(s) ==
  /\ repl.pc = "idle" /\ mgr.client[s] # 0
  /\ mgr' = [mgr EXCEPT !.client = [@ EXCEPT ![s] = 0], !.failed = @ \ {s}]
  /\ repl' = [Prompt EXCEPT !.op = "disconnect", !.pc = "unregister", !.server = s,
                            !.k = mgr.client[s]]
  /\ UNCHANGED <<tools, client, proc, wire, session, call>>

Unregister ==
  /\ repl.pc = "unregister"
  /\ tools' = tools \ {repl.server}
  /\ repl' = [repl EXCEPT !.pc = "stop"]
  /\ UNCHANGED <<mgr, client, proc, wire, session, call>>

\* Mutant of Stop: it waits for the health loop to end before it cancels it.
StopAfterLoop ==
  /\ repl.pc = "stop" /\ client[repl.k].lock = "free"
  /\ client[repl.k].loop \in {"none", "gone"}
  /\ Stopping(repl.k, client[repl.k])
  /\ repl' = IF repl.op = "shutdown"
             THEN [Prompt EXCEPT !.op = "shutdown", !.pc = "sweep", !.todo = repl.todo]
             ELSE Prompt
  /\ UNCHANGED <<mgr, tools, session, call>>

\* Stop waits for the client's mutex.
Stop ==
  /\ repl.pc = "stop" /\ client[repl.k].lock = "free"
  /\ Stopping(repl.k, client[repl.k])
  /\ repl' = IF repl.op = "shutdown"
             THEN [Prompt EXCEPT !.op = "shutdown", !.pc = "sweep", !.todo = repl.todo]
             ELSE Prompt
  /\ UNCHANGED <<mgr, tools, session, call>>

Active == {mgr.client[s] : s \in Servers} \ {0}

\* Status asks every active client for its Health, which takes the mutex.
Status ==
  /\ repl.pc = "idle" /\ Active # {}
  /\ repl' = [Prompt EXCEPT !.op = "status", !.pc = "visit", !.todo = Active]
  /\ UNCHANGED <<mgr, tools, client, proc, wire, session, call>>

Health(k) ==
  /\ repl.pc = "visit" /\ k \in repl.todo /\ client[k].lock = "free"
  /\ repl' = IF repl.todo = {k} THEN Prompt ELSE [repl EXCEPT !.todo = @ \ {k}]
  /\ UNCHANGED <<mgr, tools, client, proc, wire, session, call>>

\* SIGTERM, noticed when the command that is running has ended.
Terminate ==
  /\ session = "live"
  /\ session' = "canceled"
  /\ UNCHANGED <<mgr, tools, client, proc, wire, repl, call>>

\* The command loop ends: its context is cancelled, the closing hooks run.
Shutdown ==
  /\ repl.pc = "idle" /\ ~mgr.closed
  /\ session' = "canceled"
  /\ mgr' = [mgr EXCEPT !.closed = TRUE, !.client = [s \in Servers |-> 0]]
  /\ repl' = [Prompt EXCEPT !.op = "shutdown", !.pc = "sweep", !.todo = Active]
  /\ UNCHANGED <<tools, client, proc, wire, call>>

Sweep(k) ==
  /\ repl.pc = "sweep" /\ k \in repl.todo
  /\ repl' = [repl EXCEPT !.pc = "unregister", !.k = k, !.server = client[k].server,
                          !.todo = @ \ {k}]
  /\ UNCHANGED <<mgr, tools, client, proc, wire, session, call>>

Swept ==
  /\ repl.pc = "sweep" /\ repl.todo = {}
  /\ repl' = [Prompt EXCEPT !.pc = "ended"]
  /\ UNCHANGED <<mgr, tools, client, proc, wire, session, call>>

(***************************************************************************)
(* A tool call                                                             *)
(***************************************************************************)
\* The executor found the tool in the catalog and runs its handler.
Call(c, s) ==
  /\ call[c].pc = "idle" /\ s \in tools
  /\ call' = [call EXCEPT ![c] = [NoCall EXCEPT !.pc = "lookup", !.server = s]]
  /\ UNCHANGED <<mgr, tools, client, proc, wire, repl, session>>

\* The tool's deadline passes, the turn is interrupted or the session ends.
Expire(c) ==
  /\ call[c].pc # "idle" /\ call[c].ctx = "live"
  /\ call' = [call EXCEPT ![c] = [@ EXCEPT !.ctx = "expired"]]
  /\ UNCHANGED <<mgr, tools, client, proc, wire, repl, session>>

\* Manager.CallTool, up to the client's mutex.
Lookup(c) ==
  /\ call[c].pc = "lookup" /\ mgr.mu = "free"
  /\ call' = [call EXCEPT ![c] =
       IF mgr.client[@.server] = 0 \/ @.ctx = "expired" THEN NoCall
       ELSE [@ EXCEPT !.pc = "wait", !.k = mgr.client[call[c].server]]]
  /\ UNCHANGED <<mgr, tools, client, proc, wire, repl, session>>

\* Client.CallTool with the mutex: a stopped client and an open breaker refuse the
\* call; a context that ended while it waited counts as a failure of the server.
Refused(c) ==
  LET cl == client[call[c].k]
  IN /\ call[c].pc = "wait" /\ cl.lock = "free"
     /\ \/ /\ ~cl.running \/ ~MayPass(cl, FALSE)
           /\ UNCHANGED client
        \/ /\ cl.running /\ call[c].ctx = "expired"
           /\ \E cooled \in BOOLEAN :
                /\ MayPass(cl, cooled)
                /\ client' = [client EXCEPT ![call[c].k] = Failure(Checked(cl, cooled))]
     /\ call' = [call EXCEPT ![c] = NoCall]
     /\ UNCHANGED <<mgr, tools, proc, wire, repl, session>>

Ask(c) ==
  LET k == call[c].k
      cl == client[k]
  IN /\ call[c].pc = "wait" /\ cl.lock = "free" /\ cl.running /\ call[c].ctx = "live"
     /\ client' = [client EXCEPT ![k] = [Checked(cl, TRUE) EXCEPT !.lock = c]]
     /\ wire' = Asking(k, c, "call")
     /\ call' = [call EXCEPT ![c] = [@ EXCEPT !.pc = "asked"]]
     /\ UNCHANGED <<mgr, tools, proc, repl, session>>

\* The exchange ends; a context that ended meanwhile makes it a failure.
Receive(c) ==
  LET k == call[c].k
  IN /\ call[c].pc = "asked" /\ Readable(k)
     /\ client' = [client EXCEPT ![k] =
          Unlocked(IF Good(k) /\ call[c].ctx = "live" THEN Success(@) ELSE Failure(@))]
     /\ wire' = Taken(k)
     /\ call' = [call EXCEPT ![c] = NoCall]
     /\ UNCHANGED <<mgr, tools, proc, repl, session>>

\* Mutant of Interrupted: the handler waits for the server's answer all the same.
InterruptedNever(c) == FALSE /\ UNCHANGED vars

\* abortRPC: the server is killed so that nobody is left reading its answers.
Interrupted(c) ==
  LET k == call[c].k
  IN /\ call[c].pc = "asked" /\ call[c].ctx = "expired"
     /\ Stopping(k, Failure(client[k]))
     /\ call' = [call EXCEPT ![c] = NoCall]
     /\ UNCHANGED <<mgr, tools, repl, session>>

(***************************************************************************)
(* The health loop of a client                                             *)
(***************************************************************************)
LoopDone(k) == client[k].canceled \/ session = "canceled"

\* The ticker fires and the loop gets the mutex.
Ping(k) ==
  /\ client[k].loop = "waiting" /\ client[k].lock = "free"
  /\ \/ /\ ~client[k].running
        /\ client' = [client EXCEPT ![k] = [@ EXCEPT !.loop = "gone"]] /\ UNCHANGED wire
     \/ /\ client[k].running /\ LoopDone(k)
        /\ client' = [client EXCEPT ![k] = Failure(@)] /\ UNCHANGED wire
     \/ /\ client[k].running /\ ~LoopDone(k)
        /\ client' = [client EXCEPT ![k] = [@ EXCEPT !.loop = "ping", !.lock = "health"]]
        /\ wire' = Asking(k, "health", "ping")
  /\ UNCHANGED <<mgr, tools, proc, repl, session, call>>

Pong(k) ==
  /\ client[k].loop = "ping" /\ Readable(k)
  /\ client' = [client EXCEPT ![k] =
       [Unlocked(IF Good(k) /\ ~LoopDone(k) THEN Success(@) ELSE Failure(@))
          EXCEPT !.loop = "waiting"]]
  /\ wire' = Taken(k)
  /\ UNCHANGED <<mgr, tools, proc, repl, session, call>>

\* Only the session's context can end an exchange of the loop: the loop's own is
\* cancelled by a holder of the mutex.
PingAborted(k) ==
  /\ client[k].loop = "ping" /\ LoopDone(k)
  /\ Stopping(k, [Failure(client[k]) EXCEPT !.loop = "waiting"])
  /\ UNCHANGED <<mgr, tools, repl, session, call>>

LoopEnds(k) ==
  /\ client[k].loop = "waiting" /\ LoopDone(k)
  /\ client' = [client EXCEPT ![k] = [@ EXCEPT !.loop = "gone"]]
  /\ UNCHANGED <<mgr, tools, proc, wire, repl, session, call>>

(***************************************************************************)
(* Specification                                                           *)
(***************************************************************************)
Command ==
  \/ \E s \in Servers : Disconnect(s) \/ \E op \in {"approve", "connect"} : StartServer(s, op)
  \/ Status \/ Shutdown
CommandStep ==
  \/ Spawn \/ Initialized \/ Discovered \/ StartFails \/ Register \/ Publish
  \/ Unregister \/ Swept \/ \E k \in Clients : Sweep(k)
CommandWaiting == StartHealthLoop \/ Stop \/ \E k \in Clients : Health(k)
CallStep(c) == Lookup(c) \/ Receive(c) \/ Interrupted(c)
CallWaiting(c) == Refused(c) \/ Ask(c)
LoopStep(k) == Pong(k) \/ PingAborted(k)

Next ==
  \/ Command \/ CommandStep \/ CommandWaiting \/ Terminate
  \/ \E c \in Callers :
       CallStep(c) \/ CallWaiting(c) \/ Expire(c) \/ \E s \in Servers : Call(c, s)
  \/ \E k \in Clients : Ping(k) \/ LoopStep(k) \/ LoopEnds(k)
  \/ \E k \in Clients : Answer(k) \/ Volunteer(k) \/ Die(k)
\* The program may stay at the prompt or have ended.
Finished == repl.pc = "ended" /\ UNCHANGED vars

Spec == Init /\ [][Next \/ Finished]_vars

\* A running goroutine goes on, and Go's mutex lets every waiter in eventually;
\* every handler has a deadline; a server answers unless it hangs.  Nothing obliges
\* the user to give a command or the ticker to fire.
Fairness ==
  /\ WF_vars(CommandStep) /\ SF_vars(CommandWaiting)
  /\ \A c \in Callers :
       WF_vars(CallStep(c)) /\ SF_vars(CallWaiting(c)) /\ WF_vars(Expire(c))
  /\ \A k \in Clients :
       /\ WF_vars(LoopStep(k)) /\ WF_vars(LoopEnds(k))
       /\ WF_vars(Answer(k) /\ Head(wire[k].requests).kind \notin Hangs)

FairSpec == Spec /\ Fairness

(***************************************************************************)
(* Properties                                                              *)
(***************************************************************************)
Actors == Callers \cup {"repl", "health"}

\* Shape of the state; a call past the lookup has a client.
TypeOK ==
  /\ mgr \in [mu : {"free", "repl"}, client : [Servers -> 0..MaxClients],
              pending : SUBSET Servers, failed : SUBSET Servers,
              connecting : SUBSET Servers, closed : BOOLEAN]
  /\ tools \subseteq Servers
  /\ client \in [Clients -> [server : Servers \cup {NoServer}, running : BOOLEAN,
                             lock : Actors \cup {"free"}, fails : 0..MaxFails,
                             breaker : {"closed", "open", "half-open"},
                             loop : {"none", "waiting", "ping", "gone"},
                             canceled : BOOLEAN]]
  /\ proc \in [Clients -> {"none", "live", "dead", "reaped"}]
  /\ \A k \in Clients :
       /\ wire[k].requests \in Seq([by : Actors, kind : Kinds])
       /\ wire[k].answers \in Seq([to : Actors \cup {"nobody"}, ok : BOOLEAN])
       /\ wire[k].unasked \in Nat
  /\ repl \in [op : {"none", "approve", "connect", "disconnect", "status", "shutdown"},
               pc : {"idle", "spawn", "initialize", "list", "register", "publish", "health",
                     "unregister", "stop", "visit", "sweep", "ended"},
               server : Servers \cup {NoServer}, k : 0..MaxClients, todo : SUBSET Clients]
  /\ session \in {"live", "canceled"}
  /\ call \in [Callers -> [pc : {"idle", "lookup", "wait", "asked"},
                           server : Servers \cup {NoServer}, k : 0..MaxClients,
                           ctx : {"live", "expired"}]]
  /\ \A c \in Callers : call[c].pc \in {"wait", "asked"} => call[c].k \in Clients

\* A tool the model can see belongs to a server a call can find: outside the
\* manager's mutex, the catalog holds a server's tools exactly while the manager
\* holds its client, but for the moment in which a disconnect or the shutdown is
\* taking it away (manager.go:180, "a handler that becomes visible concurrently will
\* block in CallTool until the client map contains the matching server").
PublishedTogether ==
  /\ TypeOK
  /\ mgr.mu = "free" =>
    \A s \in Servers :
      /\ mgr.client[s] # 0 => s \in tools
      /\ s \in tools /\ mgr.client[s] = 0 =>
           /\ repl.op \in {"disconnect", "shutdown"}
           /\ \/ repl.pc = "unregister" /\ repl.server = s
              \/ \E k \in repl.todo : client[k].server = s

\* While a server has written nothing unasked, the line a client reads next answers
\* the request of the goroutine that holds the client, whatever was cancelled before
\* (client.go:411, "so no reader remains behind to consume a future response"); and the
\* requests and answers under way are never more than that one and the lines written
\* unasked, each of which hands everyone after it the answer of somebody before
\* (client.go:435 takes the next line whatever its id).
OwnAnswer ==
  \A k \in Clients :
    /\ Len(wire[k].requests) + Len(wire[k].answers) <=
         (IF client[k].lock = "free" THEN 0 ELSE 1) + wire[k].unasked
    /\ wire[k].unasked = 0 =>
         /\ wire[k].requests # <<>> => Head(wire[k].requests).by = client[k].lock
         /\ wire[k].answers # <<>> => Head(wire[k].answers).to = client[k].lock

\* A server process that has not been reaped belongs to an active client or to the
\* one the command in progress is starting or stopping: no failed or cancelled start
\* and no shutdown leaves a process behind, and a server has at most one.
NoOrphans ==
  \A k \in Clients :
    proc[k] \in {"live", "dead"} =>
      \/ mgr.client[client[k].server] = k
      \/ repl.pc # "idle" /\ repl.k = k
      \/ k \in repl.todo

\* The exchanges without a deadline: the pings of the health loop, the handshake and
\* the discovery of a server.
PingsEnd == \A k \in Clients : []<>(client[k].loop # "ping")
StartsEnd == []<>(repl.pc \notin {"initialize", "list"})

CallsReturn == \A c \in Callers : call[c].pc # "idle" ~> call[c].pc = "idle"
CommandsReturn == repl.op # "none" ~> repl.op = "none"

\* A server may keep silent on anything: every tool call returns, at its deadline at the
\* latest, unless a ping stays unanswered for ever, and every command ends unless a ping
\* or the server that is being started does.
AllReturn ==
  /\ PingsEnd => CallsReturn
  /\ PingsEnd /\ StartsEnd => CommandsReturn

=============================================================================
