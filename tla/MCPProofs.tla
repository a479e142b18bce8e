------------------------------ MODULE MCPProofs ------------------------------
(***************************************************************************)
(* Proofs about MCP for any servers, any number of tool calls and of       *)
(* server processes, and any limit of the circuit breaker.                 *)
(*                                                                         *)
(* Two things carry the argument.  The mutex of a client: at any time it   *)
(* has one holder, and the holder's request or its answer is all that is   *)
(* in the pipes beside what the server wrote unasked; what breaks off an   *)
(* exchange therefore has to close the pipes.  And the command that        *)
(* runs: between two of its steps it alone knows the client it starts or   *)
(* stops, and the manager holds nothing else for that server.              *)
(***************************************************************************)
EXTENDS MCP, TLAPS, WellFoundedInduction

USE MCPAssumption

MgrType == [mu : {"free", "repl"}, client : [Servers -> 0..MaxClients],
            pending : SUBSET Servers, failed : SUBSET Servers,
            connecting : SUBSET Servers, closed : BOOLEAN]
ClientType == [server : Servers \cup {NoServer}, running : BOOLEAN,
               lock : Actors \cup {"free"}, fails : 0..MaxFails,
               breaker : {"closed", "open", "half-open"},
               loop : {"none", "waiting", "ping", "gone"}, canceled : BOOLEAN]
ProcType == {"none", "live", "dead", "reaped"}
ReplType == [op : {"none", "approve", "connect", "disconnect", "status", "shutdown"},
             pc : {"idle", "spawn", "initialize", "list", "register", "publish", "health",
                   "unregister", "stop", "visit", "sweep", "ended"},
             server : Servers \cup {NoServer}, k : 0..MaxClients, todo : SUBSET Clients]
CallType == [pc : {"idle", "lookup", "wait", "asked"}, server : Servers \cup {NoServer},
             k : 0..MaxClients, ctx : {"live", "expired"}]

\* What may be in the pipes of a client whose mutex who holds: a request or an answer of
\* the holder and as many lines as the server wrote unasked.
Requests == Seq([by : Actors, kind : Kinds])
Lines == Seq([to : Actors \cup {"nobody"}, ok : BOOLEAN])
Pipes == [requests : Requests, answers : Lines, unasked : Nat]
Due(who) == IF who = "free" THEN 0 ELSE 1
Bounded(who, w) == Len(w.requests) + Len(w.answers) <= Due(who) + w.unasked
InTurn(who, w) ==
  w.unasked = 0 => /\ w.requests # <<>> => Head(w.requests).by = who
                   /\ w.answers # <<>> => Head(w.answers).to = who
Exchange(who) == {w \in Pipes : Bounded(who, w) /\ InTurn(who, w)}

(***************************************************************************)
(* One client cl with its process p and its pipes w.                       *)
(***************************************************************************)
ClientOK(cl, p, w) ==
  /\ cl.server = NoServer => cl.lock = "free" /\ cl.loop = "none" /\ p = "none"
  /\ cl.lock = "health" <=> cl.loop = "ping"
  /\ w \in Exchange(cl.lock)
  /\ p # "live" => w.requests = <<>>

TypesOK ==
  /\ mgr \in MgrType /\ tools \subseteq Servers /\ repl \in ReplType
  /\ session \in {"live", "canceled"}
  /\ client \in [Clients -> ClientType] /\ proc \in [Clients -> ProcType]
  /\ wire \in [Clients -> Pipes]
  /\ call \in [Callers -> CallType]

Unpublished == {"spawn", "initialize", "list", "register", "publish"}
Starting == Unpublished \cup {"health"}
Ending == {"unregister", "stop"}

\* The command that runs: the client r.k it starts or stops is not the manager's,
\* but for the last step of a start.
CommandOK(r, m) ==
  /\ r.pc \in Starting \cup Ending <=> r.k # 0
  /\ r.pc \in Starting \cup Ending => r.server \in Servers
  /\ r.pc \in Unpublished \cup Ending => m.client[r.server] = 0
  /\ r.pc = "health" => m.client[r.server] = r.k
  /\ r.pc = "publish" <=> m.mu = "repl"
  /\ r.pc \in Starting => r.op \in {"approve", "connect"}
  /\ r.pc \in Ending => r.op \in {"disconnect", "shutdown"}
  /\ r.pc = "visit" => r.op = "status"
  /\ r.pc = "sweep" => r.op = "shutdown"
  /\ r.pc \in {"idle", "ended"} => r.op = "none"
  /\ r.op \notin {"status", "shutdown"} => r.todo = {}
  /\ r.op = "shutdown" => \A s \in Servers : m.client[s] = 0

\* The catalog against the manager.
CatalogOK(r, m, t) ==
  /\ r.pc = "publish" => r.server \in t
  /\ \A s \in Servers :
       /\ m.client[s] # 0 => s \in t
       /\ s \in t /\ m.client[s] = 0 =>
            \/ r.pc \in {"publish", "unregister"} /\ r.server = s
            \/ r.op = "shutdown" /\ \E k \in r.todo : client[k].server = s

\* The clients the manager and the command know, by the server's name.
NamesOK ==
  /\ \A s \in Servers : mgr.client[s] # 0 => client[mgr.client[s]].server = s
  /\ repl.k # 0 => client[repl.k].server = repl.server
  /\ \A k \in repl.todo : /\ client[k].server \in Servers
                          /\ repl.op = "status" => mgr.client[client[k].server] = k

\* The client k: who holds its mutex, and who knows it.
LinksOK(k) ==
  /\ client[k].lock = "repl" <=> repl.pc \in {"initialize", "list"} /\ repl.k = k
  /\ \A c \in Callers :
       /\ client[k].lock = c <=> call[c].pc = "asked" /\ call[c].k = k
       /\ call[c].pc \in {"wait", "asked"} /\ call[c].k = k =>
            client[k].server # NoServer /\ ~(repl.pc \in Unpublished /\ repl.k = k)
  /\ repl.pc \in Unpublished /\ repl.k = k => client[k].loop = "none"
  /\ proc[k] \in {"live", "dead"} =>
       mgr.client[client[k].server] = k \/ repl.k = k \/ k \in repl.todo

CallsOK ==
  \A c \in Callers : /\ call[c].pc # "idle" => call[c].server \in Servers
                     /\ call[c].pc \in {"wait", "asked"} => call[c].k \in Clients

Inv ==
  /\ TypesOK /\ CommandOK(repl, mgr) /\ CatalogOK(repl, mgr, tools) /\ NamesOK /\ CallsOK
  /\ \A k \in Clients : ClientOK(client[k], proc[k], wire[k]) /\ LinksOK(k)

-----------------------------------------------------------------------------
(* The pipes. *)

LEMMA Pipe ==
  ASSUME NEW w \in Pipes
  PROVE  w.requests \in Requests /\ w.answers \in Lines /\ w.unasked \in Nat
  BY DEF Pipes

\* The lengths as numbers.
Counts(who, w, a, b, u, d) ==
  /\ a = Len(w.requests) /\ b = Len(w.answers) /\ u = w.unasked /\ d = Due(who)
  /\ a = 0 <=> w.requests = <<>>
  /\ b = 0 <=> w.answers = <<>>
  /\ who = "free" => d = 0
  /\ who # "free" => d = 1

LEMMA CountsExist ==
  ASSUME NEW who, NEW w \in Pipes
  PROVE  \E a, b, u, d \in Nat : Counts(who, w, a, b, u, d)
<1>1. w.requests \in Requests /\ w.answers \in Lines /\ w.unasked \in Nat
  BY Pipe
<1>2. PICK a : a = Len(w.requests)
  OBVIOUS
<1>3. PICK b : b = Len(w.answers)
  OBVIOUS
<1>4. a \in Nat /\ (a = 0 <=> w.requests = <<>>)
  BY <1>1, <1>2 DEF Requests
<1>5. b \in Nat /\ (b = 0 <=> w.answers = <<>>)
  BY <1>1, <1>3 DEF Lines
<1>6. Due(who) \in Nat /\ (who = "free" => Due(who) = 0) /\ (who # "free" => Due(who) = 1)
  BY DEF Due
<1> QED
  BY <1>1, <1>2, <1>3, <1>4, <1>5, <1>6 DEF Counts

LEMMA CountsBound ==
  ASSUME NEW who, NEW w, NEW a, NEW b, NEW u, NEW d, Counts(who, w, a, b, u, d)
  PROVE  Bounded(who, w) <=> a + b <= d + u
  BY Zenon DEF Counts, Bounded

LEMMA NoPipeFacts ==
  NoPipe.requests = <<>> /\ \A who : NoPipe \in Exchange(who)
<1>1. /\ NoPipe \in Pipes /\ NoPipe.requests = <<>> /\ NoPipe.answers = <<>>
      /\ NoPipe.unasked = 0
  BY DEF NoPipe, Pipes, Requests, Lines
<1>2. ASSUME NEW who PROVE NoPipe \in Exchange(who)
  <2>1. PICK a \in Nat, b \in Nat, u \in Nat, d \in Nat : Counts(who, NoPipe, a, b, u, d)
    BY <1>1, CountsExist
  <2>2. a = 0 /\ b = 0 /\ u = 0
    BY <1>1, <2>1, Zenon DEF Counts
  <2>3. a + b <= d + u
    BY <2>2
  <2>4. Bounded(who, NoPipe)
    BY <2>1, <2>3, CountsBound
  <2>5. InTurn(who, NoPipe)
    BY <1>1, Zenon DEF InTurn
  <2> QED
    BY <1>1, <2>4, <2>5, Zenon DEF Exchange
<1> QED
  BY <1>1, <1>2

LEMMA ExchangeFacts ==
  ASSUME NEW who, NEW w \in Exchange(who)
  PROVE  /\ w \in Pipes /\ w.requests \in Requests /\ w.answers \in Lines
         /\ w.unasked \in Nat /\ Bounded(who, w) /\ InTurn(who, w)
<1>1. w \in Pipes /\ Bounded(who, w) /\ InTurn(who, w)
  BY DEF Exchange
<1> QED
  BY <1>1, Pipe

LEMMA ExchangeMade ==
  ASSUME NEW who, NEW w \in Pipes, Bounded(who, w), InTurn(who, w)
  PROVE  w \in Exchange(who)
  BY DEF Exchange

\* Nothing is under way while the mutex is free and nothing was written unasked.
LEMMA Quiet ==
  ASSUME NEW w \in Exchange("free"), w.unasked = 0
  PROVE  w.requests = <<>> /\ w.answers = <<>>
<1>1. w \in Pipes /\ Bounded("free", w)
  BY ExchangeFacts
<1>2. PICK a \in Nat, b \in Nat, u \in Nat, d \in Nat : Counts("free", w, a, b, u, d)
  BY <1>1, CountsExist
<1>3. d = 0 /\ u = 0
  BY <1>2 DEF Counts
<1>4. a + b <= d + u
  BY <1>1, <1>2, CountsBound
<1>5. a = 0 /\ b = 0
  BY <1>3, <1>4
<1> QED
  BY <1>2, <1>5 DEF Counts

\* Whoever takes the mutex finds the pipes in order.
LEMMA TakenOver ==
  ASSUME NEW who, NEW w \in Exchange("free") PROVE w \in Exchange(who)
<1>1. w \in Pipes /\ Bounded("free", w)
  BY ExchangeFacts
<1>2. InTurn(who, w)
  BY Quiet DEF InTurn
<1>3. PICK a \in Nat, b \in Nat, u \in Nat, d \in Nat : Counts("free", w, a, b, u, d)
  BY <1>1, CountsExist
<1>4. PICK a1 \in Nat, b1 \in Nat, u1 \in Nat, d1 \in Nat : Counts(who, w, a1, b1, u1, d1)
  BY <1>1, CountsExist
<1>5. a = a1 /\ b = b1 /\ u = u1 /\ d = 0
  BY <1>3, <1>4 DEF Counts
<1>6. a + b <= d + u
  BY <1>1, <1>3, CountsBound
<1>7. a1 + b1 <= d1 + u1
  BY <1>5, <1>6
<1>8. Bounded(who, w)
  BY <1>4, <1>7, CountsBound
<1> QED
  BY <1>1, <1>2, <1>8, ExchangeMade

\* A step of the pipes that keeps the balance of lines.
LEMMA Balanced ==
  ASSUME NEW who, NEW w \in Pipes, Bounded(who, w), NEW to, NEW n \in Pipes,
         NEW i \in Int, NEW j \in Int, NEW e \in Int,
         Len(n.requests) = Len(w.requests) + i, Len(n.answers) = Len(w.answers) + j,
         n.unasked = w.unasked + e,
         i + j + Due(who) <= e + Due(to)
  PROVE  Bounded(to, n)
<1>1. PICK a \in Nat, b \in Nat, u \in Nat, d \in Nat : Counts(who, w, a, b, u, d)
  BY CountsExist
<1>2. PICK a1 \in Nat, b1 \in Nat, u1 \in Nat, d1 \in Nat : Counts(to, n, a1, b1, u1, d1)
  BY CountsExist
<1>3. a1 = a + i /\ b1 = b + j /\ u1 = u + e
  BY <1>1, <1>2, Zenon DEF Counts
<1>4. i + j + d <= e + d1
  BY <1>1, <1>2, Zenon DEF Counts
<1>5. a + b <= d + u
  BY <1>1, CountsBound
<1>6. a1 + b1 <= d1 + u1
  BY <1>3, <1>4, <1>5
<1> QED
  BY <1>2, <1>6, CountsBound

LEMMA DueIs == Due("free") = 0 /\ \A who \in Actors : Due(who) = 1
  BY DEF Due, Actors

LEMMA RequestedOK ==
  ASSUME NEW who \in Actors, NEW kind \in Kinds, NEW w \in Exchange("free")
  PROVE  Requested(w, who, kind) \in Exchange(who)
<1>1. PICK r \in [by : Actors, kind : Kinds] : r = [by |-> who, kind |-> kind]
  OBVIOUS
<1>2. PICK q : q = Append(w.requests, r)
  OBVIOUS
<1>3. Requested(w, who, kind) = [w EXCEPT !.requests = q]
  BY <1>1, <1>2, Zenon DEF Requested
<1>4. w \in Pipes /\ w.requests \in Requests /\ w.unasked \in Nat /\ Bounded("free", w)
      /\ w.answers \in Lines
  BY ExchangeFacts
<1>5. q \in Requests /\ Len(q) = Len(w.requests) + 1 /\ (w.requests = <<>> => Head(q) = r)
  BY <1>2, <1>4 DEF Requests
<1>6. r.by = who
  BY <1>1
<1> DEFINE n == [w EXCEPT !.requests = q]
<1>7. n \in Pipes /\ n.requests = q /\ n.answers = w.answers /\ n.unasked = w.unasked
  BY <1>4, <1>5 DEF Pipes
<1> HIDE DEF n
<1>8. Len(n.answers) = Len(w.answers) + 0 /\ n.unasked = w.unasked + 0
  BY <1>4, <1>7 DEF Lines
<1>9. 1 + 0 + Due("free") <= 0 + Due(who)
  BY DueIs
<1>10. Bounded(who, n)
  <2>1. Len(n.requests) = Len(w.requests) + 1 /\ 0 \in Int /\ 1 \in Int
    BY <1>5, <1>7
  <2> QED
    BY <1>4, <1>7, <1>8, <1>9, <2>1, Balanced, Zenon
<1>11. InTurn(who, n)
  BY <1>5, <1>6, <1>7, Quiet DEF InTurn
<1>12. n \in Exchange(who)
  BY <1>7, <1>10, <1>11, ExchangeMade
<1> QED
  BY <1>3, <1>12 DEF n

\* Whoever waited for a line leaves the pipes in order, with the line or with the end.
LEMMA RestOK ==
  ASSUME NEW who \in Actors \cup {"free"}, NEW w \in Exchange(who),
         w.answers # <<>> \/ w.requests = <<>>
  PROVE  Rest(w) \in Exchange("free") /\ Rest(w).requests = w.requests
<1>1. /\ w \in Pipes /\ w.requests \in Requests /\ w.unasked \in Nat /\ Bounded(who, w)
      /\ w.answers \in Lines /\ InTurn(who, w)
  BY ExchangeFacts
<1>2. PICK q : q = IF w.answers = <<>> THEN w.answers ELSE Tail(w.answers)
  OBVIOUS
<1> DEFINE n == [w EXCEPT !.answers = q]
<1>3. Rest(w) = n
  BY <1>2, Zenon DEF Rest
<1>4. q \in Lines
  BY <1>1, <1>2 DEF Lines
<1>5. n \in Pipes /\ n.requests = w.requests /\ n.answers = q /\ n.unasked = w.unasked
  BY <1>1, <1>4 DEF Pipes
<1> HIDE DEF n
<1>6. PICK a \in Nat, b \in Nat, u \in Nat, d \in Nat : Counts(who, w, a, b, u, d)
  BY <1>1, CountsExist
<1>7. PICK a1 \in Nat, b1 \in Nat, u1 \in Nat, d1 \in Nat : Counts("free", n, a1, b1, u1, d1)
  BY <1>5, CountsExist
<1>8. a1 = a /\ u1 = u /\ d1 = 0
  BY <1>5, <1>6, <1>7 DEF Counts
<1>9. a + b <= d + u /\ d <= 1
  <2>1. a + b <= d + u
    BY <1>1, <1>6, CountsBound
  <2>2. d = 0 \/ d = 1
    BY <1>6 DEF Counts
  <2> QED
    BY <2>1, <2>2
<1>10. a1 + b1 <= d1 + u1
  <2>1. CASE w.answers = <<>>
    <3>1. q = <<>> /\ w.requests = <<>>
      BY <1>2, <2>1
    <3>2. a1 = 0 /\ b1 = 0
      BY <1>5, <1>7, <3>1 DEF Counts
    <3> QED
      BY <3>2
  <2>2. CASE w.answers # <<>>
    <3>1. Len(q) = Len(w.answers) - 1
      BY <1>1, <1>2, <2>2 DEF Lines
    <3>2. b1 = b - 1
      BY <1>5, <1>6, <1>7, <3>1, Zenon DEF Counts
    <3> QED
      BY <1>8, <1>9, <3>2
  <2> QED
    BY <2>1, <2>2
<1>11. Bounded("free", n)
  BY <1>7, <1>10, CountsBound
<1>12. ASSUME n.unasked = 0 PROVE n.requests = <<>> /\ n.answers = <<>>
  <2>1. u1 = 0
    BY <1>7, <1>12 DEF Counts
  <2>2. a1 = 0 /\ b1 = 0
    BY <1>8, <1>10, <2>1
  <2> QED
    BY <1>7, <2>2 DEF Counts
<1>13. InTurn("free", n)
  BY <1>12 DEF InTurn
<1> QED
  BY <1>3, <1>5, <1>11, <1>13, ExchangeMade

LEMMA AnsweredOK ==
  ASSUME NEW who, NEW w \in Exchange(who), w.requests # <<>>, NEW ok \in BOOLEAN
  PROVE  Answered(w, ok) \in Exchange(who)
<1>1. /\ w \in Pipes /\ w.requests \in Requests /\ w.unasked \in Nat /\ Bounded(who, w)
      /\ w.answers \in Lines /\ InTurn(who, w)
  BY ExchangeFacts
<1>2. Head(w.requests) \in [by : Actors, kind : Kinds]
  <2>1. w.requests \in Seq([by : Actors, kind : Kinds])
    BY <1>1 DEF Requests
  <2>2. \A S : \A x \in Seq(S) : x # <<>> => Head(x) \in S
    OBVIOUS
  <2> QED
    BY <2>1, <2>2, Zenon
<1>3. PICK x \in Actors : x = Head(w.requests).by
  BY <1>2
<1>4. PICK r \in [to : Actors \cup {"nobody"}, ok : BOOLEAN] : r = [to |-> x, ok |-> ok]
  OBVIOUS
<1>5. PICK q : q = Tail(w.requests)
  OBVIOUS
<1>6. PICK l : l = Append(w.answers, r)
  OBVIOUS
<1> DEFINE n == [w EXCEPT !.requests = q, !.answers = l]
<1>7. Answered(w, ok) = n
  BY <1>3, <1>4, <1>5, <1>6, Zenon DEF Answered
<1>8. q \in Requests /\ Len(q) = Len(w.requests) + (-1)
  BY <1>1, <1>5 DEF Requests
<1>9. l \in Lines /\ Len(l) = Len(w.answers) + 1 /\ (w.answers = <<>> => Head(l) = r)
  BY <1>1, <1>6 DEF Lines
<1>10. r.to = x
  BY <1>4
<1>11. n \in Pipes /\ n.requests = q /\ n.answers = l /\ n.unasked = w.unasked
  BY <1>1, <1>8, <1>9 DEF Pipes
<1> HIDE DEF n
<1>12. n.unasked = w.unasked + 0 /\ (-1) + 1 + Due(who) <= 0 + Due(who)
  BY <1>1, <1>11 DEF Due
<1>13. Bounded(who, n)
  <2>1. /\ Len(n.requests) = Len(w.requests) + (-1) /\ Len(n.answers) = Len(w.answers) + 1
        /\ 0 \in Int /\ 1 \in Int /\ -1 \in Int
    BY <1>8, <1>9, <1>11
  <2> QED
    BY <1>1, <1>11, <1>12, <2>1, Balanced, Zenon
<1>14. ASSUME n.unasked = 0
       PROVE  /\ n.requests # <<>> => Head(n.requests).by = who
              /\ n.answers # <<>> => Head(n.answers).to = who
  <2>1. PICK a \in Nat, b \in Nat, u \in Nat, d \in Nat : Counts(who, w, a, b, u, d)
    BY <1>1, CountsExist
  <2>2. a + b <= d + u /\ (d = 0 \/ d = 1) /\ u = 0 /\ a # 0
    BY <1>1, <1>11, <1>14, <2>1, CountsBound DEF Counts
  <2>3. a = 1 /\ b = 0
    BY <2>2
  <2>4. w.answers = <<>> /\ Len(w.requests) = 1 /\ x = who
    BY <1>1, <1>3, <1>11, <1>14, <2>1, <2>3 DEF Counts, InTurn
  <2>5. q = <<>>
    BY <1>1, <1>5, <2>4 DEF Requests
  <2> QED
    BY <1>9, <1>10, <1>11, <2>4, <2>5
<1>15. InTurn(who, n)
  BY <1>14 DEF InTurn
<1> QED
  BY <1>7, <1>11, <1>13, <1>15, ExchangeMade

LEMMA VolunteeredOK ==
  ASSUME NEW who, NEW w \in Exchange(who), NEW ok \in BOOLEAN
  PROVE  /\ Volunteered(w, ok) \in Exchange(who)
         /\ Volunteered(w, ok).requests = w.requests
<1>1. PICK r \in [to : Actors \cup {"nobody"}, ok : BOOLEAN] :
        r = [to |-> "nobody", ok |-> ok]
  OBVIOUS
<1>2. PICK l : l = Append(w.answers, r)
  OBVIOUS
<1> DEFINE n == [w EXCEPT !.answers = l, !.unasked = w.unasked + 1]
<1>3. Volunteered(w, ok) = n
  BY <1>1, <1>2, Zenon DEF Volunteered
<1>4. /\ w \in Pipes /\ w.requests \in Requests /\ w.unasked \in Nat /\ Bounded(who, w)
      /\ w.answers \in Lines
  BY ExchangeFacts
<1>5. l \in Lines /\ Len(l) = Len(w.answers) + 1
  BY <1>2, <1>4 DEF Lines
<1>6. w.unasked + 1 \in Nat
  BY <1>4
<1>7. /\ n \in Pipes /\ n.requests = w.requests /\ n.answers = l
      /\ n.unasked = w.unasked + 1
  BY <1>4, <1>5, <1>6 DEF Pipes
<1> HIDE DEF n
<1>8. n.unasked # 0 /\ Len(n.requests) = Len(w.requests) + 0
  BY <1>4, <1>7 DEF Requests
<1>9. 0 + 1 + Due(who) <= 1 + Due(who)
  BY DEF Due
<1>10. Bounded(who, n)
  <2>1. Len(n.answers) = Len(w.answers) + 1 /\ 0 \in Int /\ 1 \in Int
    BY <1>5, <1>7
  <2> QED
    BY <1>4, <1>7, <1>8, <1>9, <2>1, Balanced, Zenon
<1>11. InTurn(who, n)
  BY <1>8 DEF InTurn
<1> QED
  BY <1>3, <1>7, <1>10, <1>11, ExchangeMade

LEMMA ClearedOK ==
  ASSUME NEW who, NEW w \in Exchange(who)
  PROVE  LET n == [w EXCEPT !.requests = <<>>]
         IN n \in Exchange(who) /\ n.requests = <<>>
<1> DEFINE n == [w EXCEPT !.requests = <<>>]
<1>1. /\ w \in Pipes /\ w.requests \in Requests /\ w.unasked \in Nat /\ Bounded(who, w)
      /\ w.answers \in Lines /\ InTurn(who, w)
  BY ExchangeFacts
<1>2. <<>> \in Requests
  BY DEF Requests
<1>3. /\ n \in Pipes /\ n.requests = <<>> /\ n.answers = w.answers
      /\ n.unasked = w.unasked
  BY <1>1, <1>2 DEF Pipes
<1> HIDE DEF n
<1>4. PICK a \in Nat, b \in Nat, u \in Nat, d \in Nat : Counts(who, w, a, b, u, d)
  BY <1>1, CountsExist
<1>5. PICK a1 \in Nat, b1 \in Nat, u1 \in Nat, d1 \in Nat : Counts(who, n, a1, b1, u1, d1)
  BY <1>3, CountsExist
<1>6. a1 = 0 /\ b1 = b /\ u1 = u /\ d1 = d
  BY <1>3, <1>4, <1>5 DEF Counts
<1>7. a + b <= d + u
  BY <1>1, <1>4, CountsBound
<1>8. a1 + b1 <= d1 + u1
  BY <1>6, <1>7
<1>9. Bounded(who, n)
  BY <1>5, <1>8, CountsBound
<1>10. InTurn(who, n)
  BY <1>1, <1>3 DEF InTurn
<1>11. n \in Exchange(who)
  BY <1>3, <1>9, <1>10, ExchangeMade
<1> QED
  BY <1>3, <1>11 DEF n

-----------------------------------------------------------------------------
(* The records the actions build. *)

Stopped(cl, can) ==
  [NewClient EXCEPT !.server = cl.server, !.loop = cl.loop, !.canceled = can]
Held(cl, who) == [cl EXCEPT !.lock = who]
InLoop(cl, at) == [cl EXCEPT !.loop = at]
Pinging(cl) == [cl EXCEPT !.loop = "ping", !.lock = "health"]
Running(cl, run) == [cl EXCEPT !.running = run, !.lock = "repl"]
For(s) == [NewClient EXCEPT !.server = s]
Shape(a, b) == a.server = b.server /\ a.lock = b.lock /\ a.loop = b.loop

LEMMA FailureType ==
  ASSUME NEW cl \in ClientType
  PROVE  Failure(cl) \in ClientType /\ Shape(Failure(cl), cl)
<1> DEFINE n == IF cl.fails < MaxFails THEN cl.fails + 1 ELSE MaxFails
           b == IF n >= MaxFails THEN "open" ELSE cl.breaker
<1>1. n \in 0..MaxFails /\ b \in {"closed", "open", "half-open"}
  BY DEF ClientType
<1>2. Failure(cl) = [cl EXCEPT !.fails = n, !.breaker = b]
  BY DEF Failure
<1> HIDE DEF n, b
<1> QED
  BY <1>1, <1>2 DEF ClientType, Shape

LEMMA SuccessType ==
  ASSUME NEW cl \in ClientType
  PROVE  Success(cl) \in ClientType /\ Shape(Success(cl), cl)
<1> DEFINE b == IF cl.breaker = "half-open" THEN "closed" ELSE cl.breaker
<1>1. b \in {"closed", "open", "half-open"} /\ 0 \in 0..MaxFails
  BY DEF ClientType
<1>2. Success(cl) = [cl EXCEPT !.fails = 0, !.breaker = b]
  BY DEF Success
<1> HIDE DEF b
<1> QED
  BY <1>1, <1>2 DEF ClientType, Shape

LEMMA CheckedType ==
  ASSUME NEW cl \in ClientType, NEW cooled
  PROVE  Checked(cl, cooled) \in ClientType /\ Shape(Checked(cl, cooled), cl)
<1> DEFINE b == IF cl.breaker = "open" /\ cooled THEN "half-open" ELSE cl.breaker
<1>1. b \in {"closed", "open", "half-open"}
  BY DEF ClientType
<1>2. Checked(cl, cooled) = [cl EXCEPT !.breaker = b]
  BY DEF Checked
<1> HIDE DEF b
<1> QED
  BY <1>1, <1>2 DEF ClientType, Shape

LEMMA HeldType ==
  ASSUME NEW cl \in ClientType, NEW who \in Actors \cup {"free"}
  PROVE  LET n == Held(cl, who)
         IN n \in ClientType /\ n.server = cl.server /\ n.lock = who /\ n.loop = cl.loop
  BY DEF ClientType, Held

LEMMA InLoopType ==
  ASSUME NEW cl \in ClientType, NEW at \in {"none", "waiting", "ping", "gone"}
  PROVE  LET n == InLoop(cl, at)
         IN n \in ClientType /\ n.server = cl.server /\ n.lock = cl.lock /\ n.loop = at
  BY DEF ClientType, InLoop

LEMMA PingingType ==
  ASSUME NEW cl \in ClientType
  PROVE  LET n == Pinging(cl)
         IN n \in ClientType /\ n.server = cl.server /\ n.lock = "health" /\ n.loop = "ping"
  BY DEF ClientType, Pinging, Actors

LEMMA RunningType ==
  ASSUME NEW cl \in ClientType, NEW run \in BOOLEAN
  PROVE  LET n == Running(cl, run)
         IN n \in ClientType /\ n.server = cl.server /\ n.lock = "repl" /\ n.loop = cl.loop
  BY DEF ClientType, Running, Actors

LEMMA StoppedType ==
  ASSUME NEW cl \in ClientType, NEW can \in BOOLEAN
  PROVE  LET n == Stopped(cl, can)
         IN n \in ClientType /\ n.server = cl.server /\ n.lock = "free" /\ n.loop = cl.loop
<1>1. NewClient \in ClientType /\ NewClient.lock = "free"
  BY DEF NewClient, ClientType
<1> QED
  BY <1>1 DEF ClientType, Stopped

LEMMA ForType ==
  ASSUME NEW s \in Servers
  PROVE  LET n == For(s)
         IN n \in ClientType /\ n.server = s /\ n.lock = "free" /\ n.loop = "none"
<1>1. NewClient \in ClientType /\ NewClient.lock = "free" /\ NewClient.loop = "none"
  BY DEF NewClient, ClientType
<1> QED
  BY <1>1 DEF For, ClientType

-----------------------------------------------------------------------------
(* The step of one client: of its server, of the call or the health loop   *)
(* that holds it.                                                          *)

Moves(k, cl, p, w) ==
  /\ client' = [client EXCEPT ![k] = cl] /\ proc' = [proc EXCEPT ![k] = p]
  /\ wire' = [wire EXCEPT ![k] = w]
Holds(c, k) == call[c].pc = "asked" /\ call[c].k = k
Knows(c, k) == call[c].pc \in {"wait", "asked"} /\ call[c].k = k

\* The calls follow: those that hold the client k are as its new locals cl say.
Follow(k, cl) ==
  /\ call' \in [Callers -> CallType]
  /\ \A c \in Callers : /\ call'[c].pc # "idle" => call'[c].server \in Servers
                        /\ cl.lock = c <=> Holds(c, k)'
                        /\ \A j \in Clients \ {k} : Holds(c, j)' <=> Holds(c, j)
                        /\ \A j \in 0..MaxClients : Knows(c, j)' => Knows(c, j)

LEMMA ClientFacts ==
  ASSUME Inv, NEW k \in Clients
  PROVE  /\ client[k] \in ClientType /\ proc[k] \in ProcType
         /\ client[k].server \in Servers \cup {NoServer}
         /\ client[k].lock \in Actors \cup {"free"}
         /\ wire[k] \in Exchange(client[k].lock)
         /\ ClientOK(client[k], proc[k], wire[k]) /\ LinksOK(k)
<1>1. client[k] \in ClientType /\ proc[k] \in ProcType
  BY DEF Inv, TypesOK
<1>2. ClientOK(client[k], proc[k], wire[k]) /\ LinksOK(k)
  BY DEF Inv
<1> QED
  BY <1>1, <1>2 DEF ClientType, ClientOK

LEMMA MovesTypes ==
  ASSUME TypesOK, NEW k \in Clients, NEW cl \in ClientType, NEW p \in ProcType, NEW w,
         Moves(k, cl, p, w), ClientOK(cl, p, w)
  PROVE  /\ client' \in [Clients -> ClientType] /\ proc' \in [Clients -> ProcType]
         /\ wire' \in [Clients -> Pipes]
         /\ client'[k] = cl /\ proc'[k] = p /\ wire'[k] = w
         /\ \A j \in Clients \ {k} :
              client'[j] = client[j] /\ proc'[j] = proc[j] /\ wire'[j] = wire[j]
<1>1. w \in Pipes
  BY ExchangeFacts DEF ClientOK
<1> QED
  BY <1>1 DEF TypesOK, Moves

LEMMA WorkStep ==
  ASSUME Inv, NEW k \in Clients, NEW cl \in ClientType, NEW p \in ProcType, NEW w,
         Moves(k, cl, p, w), ClientOK(cl, p, w), UNCHANGED <<mgr, tools, repl, session>>,
         cl.server = client[k].server, p \in {"live", "dead"} => proc[k] \in {"live", "dead"},
         cl.lock = "repl" <=> client[k].lock = "repl",
         cl.loop = client[k].loop \/ client[k].loop # "none",
         Follow(k, cl)
  PROVE  Inv'
<1>1. /\ client' \in [Clients -> ClientType] /\ proc' \in [Clients -> ProcType]
      /\ wire' \in [Clients -> Pipes]
      /\ client'[k] = cl /\ proc'[k] = p /\ wire'[k] = w
      /\ \A j \in Clients \ {k} :
           client'[j] = client[j] /\ proc'[j] = proc[j] /\ wire'[j] = wire[j]
  BY MovesTypes DEF Inv
<1>2. TypesOK'
  BY <1>1 DEF Inv, TypesOK, Follow
<1>3. \A j \in Clients : client'[j].server = client[j].server
  BY <1>1
<1>4. CommandOK(repl, mgr)'
  BY DEF Inv, CommandOK
<1>5. repl.todo \subseteq Clients /\ repl.k \in 0..MaxClients
      /\ mgr.client \in [Servers -> 0..MaxClients]
  BY DEF Inv, TypesOK, ReplType, MgrType
<1>6. CatalogOK(repl, mgr, tools)'
  BY <1>3, <1>5 DEF Inv, CatalogOK
<1>7. NamesOK'
  BY <1>3, <1>5 DEF Inv, NamesOK, Clients
<1>8. CallsOK'
  <2>1. \A c \in Callers : call[c] \in CallType /\ call'[c] \in CallType
    BY DEF Inv, TypesOK, Follow
  <2> QED
    BY <2>1 DEF Inv, CallsOK, CallType, Knows, Follow
<1>9. ASSUME NEW j \in Clients
      PROVE  ClientOK(client'[j], proc'[j], wire'[j]) /\ LinksOK(j)'
  <2>1. ClientOK(client[j], proc[j], wire[j]) /\ LinksOK(j)
    BY DEF Inv
  <2>2. j \in 0..MaxClients
    BY DEF Clients
  <2>3. CASE j = k
    <3>1. client'[j] = cl /\ proc'[j] = p /\ wire'[j] = w
      BY <1>1, <2>3
    <3>2. LinksOK(j)'
      BY <2>1, <2>2, <2>3, <3>1 DEF LinksOK, Holds, Knows, Follow
    <3> QED
      BY <3>1, <3>2
  <2>4. CASE j # k
    <3>1. client'[j] = client[j] /\ proc'[j] = proc[j] /\ wire'[j] = wire[j]
      BY <1>1, <2>4
    <3>2. LinksOK(j)'
      BY <2>1, <2>2, <2>4, <3>1 DEF LinksOK, Holds, Knows, Follow
    <3> QED
      BY <2>1, <3>1, <3>2
  <2> QED
    BY <2>3, <2>4
<1> QED
  BY <1>2, <1>4, <1>6, <1>7, <1>8, <1>9 DEF Inv

LEMMA Unmoved ==
  ASSUME Inv, NEW k \in Clients
  PROVE  /\ client = [client EXCEPT ![k] = client[k]]
         /\ proc = [proc EXCEPT ![k] = proc[k]]
         /\ wire = [wire EXCEPT ![k] = wire[k]]
  BY DEF Inv, TypesOK

\* ... while the calls stay where they are.
LEMMA QuietStep ==
  ASSUME Inv, NEW k \in Clients, NEW cl \in ClientType, NEW p \in ProcType, NEW w,
         Moves(k, cl, p, w), ClientOK(cl, p, w), UNCHANGED <<mgr, tools, repl, session, call>>,
         cl.server = client[k].server, p \in {"live", "dead"} => proc[k] \in {"live", "dead"},
         cl.lock \notin Callers \cup {"repl"}, client[k].lock \notin Callers \cup {"repl"},
         cl.loop = client[k].loop \/ client[k].loop # "none"
  PROVE  Inv'
<1>1. LinksOK(k)
  BY ClientFacts
<1>2. Follow(k, cl)
  BY <1>1 DEF LinksOK, Holds, Knows, Follow, Inv, TypesOK, CallsOK
<1> QED
  BY <1>2, WorkStep

\* ... of the pipes and the process alone.
LEMMA ServerStep ==
  ASSUME Inv, NEW k \in Clients, NEW p \in ProcType, NEW w,
         Moves(k, client[k], p, w), ClientOK(client[k], p, w),
         UNCHANGED <<mgr, tools, repl, session, call>>,
         p \in {"live", "dead"} => proc[k] \in {"live", "dead"}
  PROVE  Inv'
<1>1. LinksOK(k) /\ client[k] \in ClientType
  BY ClientFacts
<1>2. Follow(k, client[k])
  BY <1>1 DEF LinksOK, Holds, Knows, Follow, Inv, TypesOK, CallsOK
<1> QED
  BY <1>1, <1>2, WorkStep

LEMMA AnswerKeeps ==
  ASSUME Inv, NEW k \in Clients, Answer(k) PROVE Inv'
<1>1. ClientOK(client[k], proc[k], wire[k]) /\ proc[k] = "live" /\ wire[k].requests # <<>>
  BY ClientFacts DEF Answer
<1>2. PICK ok \in BOOLEAN : wire' = [wire EXCEPT ![k] = Answered(@, ok)]
  BY Zenon DEF Answer
<1>3. PICK w : w = Answered(wire[k], ok)
  OBVIOUS
<1>4. w \in Exchange(client[k].lock)
  BY <1>1, <1>3, AnsweredOK DEF ClientOK
<1>5. ClientOK(client[k], proc[k], w)
  BY <1>1, <1>4 DEF ClientOK
<1>6. wire' = [wire EXCEPT ![k] = w]
  BY <1>2, <1>3, Zenon
<1>7. Moves(k, client[k], proc[k], w)
  BY <1>6, Unmoved DEF Moves, Answer
<1>8. proc[k] \in ProcType /\ UNCHANGED <<mgr, tools, repl, session, call>>
  BY ClientFacts DEF Answer
<1> QED
  BY <1>5, <1>7, <1>8, ServerStep

LEMMA VolunteerKeeps ==
  ASSUME Inv, NEW k \in Clients, Volunteer(k) PROVE Inv'
<1>1. ClientOK(client[k], proc[k], wire[k])
  BY ClientFacts
<1>2. PICK ok \in BOOLEAN : wire' = [wire EXCEPT ![k] = Volunteered(@, ok)]
  BY Zenon DEF Volunteer
<1>3. PICK w : w = Volunteered(wire[k], ok)
  OBVIOUS
<1>4. w \in Exchange(client[k].lock) /\ w.requests = wire[k].requests
  BY <1>1, <1>3, VolunteeredOK DEF ClientOK
<1>5. ClientOK(client[k], proc[k], w)
  BY <1>1, <1>4 DEF ClientOK
<1>6. wire' = [wire EXCEPT ![k] = w]
  BY <1>2, <1>3, Zenon
<1>7. Moves(k, client[k], proc[k], w)
  BY <1>6, Unmoved DEF Moves, Volunteer
<1>8. proc[k] \in ProcType /\ UNCHANGED <<mgr, tools, repl, session, call>>
  BY ClientFacts DEF Volunteer
<1> QED
  BY <1>5, <1>7, <1>8, ServerStep

LEMMA DieKeeps ==
  ASSUME Inv, NEW k \in Clients, Die(k) PROVE Inv'
<1>1. ClientOK(client[k], proc[k], wire[k]) /\ LinksOK(k) /\ client[k] \in ClientType
      /\ proc[k] = "live"
  BY ClientFacts DEF Die
<1> DEFINE w == [wire[k] EXCEPT !.requests = <<>>]
<1>2. w \in Exchange(client[k].lock) /\ w.requests = <<>>
  BY <1>1, ClearedOK DEF ClientOK
<1>3. wire' = [wire EXCEPT ![k] = w] /\ proc' = [proc EXCEPT ![k] = "dead"]
  BY Zenon DEF Die
<1> HIDE DEF w
<1>4. ClientOK(client[k], "dead", w)
  BY <1>1, <1>2 DEF ClientOK
<1>5. Moves(k, client[k], "dead", w)
  BY <1>3, Unmoved DEF Moves, Die
<1>6. "dead" \in ProcType /\ UNCHANGED <<mgr, tools, client, repl, session, call>>
  BY DEF Die, ProcType
<1> QED
  BY <1>1, <1>4, <1>5, <1>6, ServerStep

-----------------------------------------------------------------------------
(* The health loop. *)

LEMMA StoppingIs ==
  ASSUME Inv, NEW k \in Clients, NEW after \in ClientType, Stopping(k, after)
  PROVE  \E cl \in ClientType, p \in ProcType :
           /\ Moves(k, cl, p, NoPipe) /\ p \notin {"live", "dead"}
           /\ proc[k] = "none" => p = "none"
           /\ cl.server = after.server /\ cl.lock = "free" /\ cl.loop = after.loop
<1>1. PICK can \in BOOLEAN : can = TRUE
  BY Zenon
<1> DEFINE cl == Stopped(after, can)
           p == IF proc[k] = "none" THEN "none" ELSE "reaped"
<1>3. client' = [client EXCEPT ![k] = cl]
  BY <1>1, Zenon DEF Stopping, Stopped
<1>4. proc' = [proc EXCEPT ![k] = p] /\ wire' = [wire EXCEPT ![k] = NoPipe]
  BY Zenon DEF Stopping
<1>5. /\ cl \in ClientType /\ cl.server = after.server /\ cl.lock = "free"
      /\ cl.loop = after.loop
  BY StoppedType
<1>6. p \in ProcType /\ p \notin {"live", "dead"} /\ (proc[k] = "none" => p = "none")
  BY DEF ProcType
<1> HIDE DEF cl, p
<1> QED
  BY <1>3, <1>4, <1>5, <1>6 DEF Moves

\* A client that is stopped is in order, whatever was under way.
LEMMA StoppedOK ==
  ASSUME NEW cl \in ClientType, NEW p, cl.lock = "free", cl.loop # "ping",
         cl.server = NoServer => cl.loop = "none" /\ p = "none"
  PROVE  ClientOK(cl, p, NoPipe)
  BY NoPipeFacts DEF ClientOK

\* So is one whose mutex is let go with the pipes in order.
LEMMA FreedOK ==
  ASSUME NEW cl \in ClientType, NEW p, NEW w \in Exchange("free"), cl.lock = "free",
         cl.loop # "ping", cl.server # NoServer, p # "live" => w.requests = <<>>
  PROVE  ClientOK(cl, p, w)
  BY DEF ClientOK

\* A mutex that the health loop holds or that is free is held by nobody else.
LEMMA NobodyElse ==
  /\ "free" \notin Callers \cup {"repl"} /\ "health" \notin Callers \cup {"repl"}
  OBVIOUS

\* Whoever waited for a line has taken it from the pipes.
LEMMA ReceivedOK ==
  ASSUME Inv, NEW k \in Clients, Readable(k)
  PROVE  \E w \in Exchange("free") : /\ Taken(k) = [wire EXCEPT ![k] = w] /\ w = Rest(wire[k])
                                     /\ proc[k] # "live" => w.requests = <<>>
<1>1. ClientOK(client[k], proc[k], wire[k]) /\ client[k].lock \in Actors \cup {"free"}
  BY ClientFacts
<1>2. PICK w : w = Rest(wire[k])
  OBVIOUS
<1>3. w \in Exchange("free") /\ w.requests = wire[k].requests
  <2>1. wire[k].answers # <<>> \/ wire[k].requests = <<>>
    BY <1>1 DEF ClientOK, Readable
  <2> QED
    BY <1>1, <1>2, <2>1, RestOK DEF ClientOK
<1>4. Taken(k) = [wire EXCEPT ![k] = w]
  BY <1>2, Zenon DEF Taken
<1> QED
  BY <1>1, <1>2, <1>3, <1>4 DEF ClientOK

\* Whoever takes the mutex to ask leaves its request, or nothing with a dead process.
LEMMA AskedOK ==
  ASSUME Inv, NEW k \in Clients, client[k].lock = "free", NEW who \in Actors,
         NEW kind \in Kinds
  PROVE  \E w \in Exchange(who) : /\ Asking(k, who, kind) = [wire EXCEPT ![k] = w]
                                  /\ proc[k] # "live" => w.requests = <<>>
<1>1. wire[k] \in Exchange("free") /\ (proc[k] # "live" => wire[k].requests = <<>>)
  BY ClientFacts DEF ClientOK
<1>2. PICK w : w = IF proc[k] = "live" THEN Requested(wire[k], who, kind) ELSE wire[k]
  OBVIOUS
<1>3. w \in Exchange(who)
  BY <1>1, <1>2, RequestedOK, TakenOver
<1>4. Asking(k, who, kind) = [wire EXCEPT ![k] = w]
  BY <1>2, Unmoved DEF Asking
<1> QED
  BY <1>1, <1>2, <1>3, <1>4

LEMMA PingKeeps ==
  ASSUME Inv, NEW k \in Clients, Ping(k) PROVE Inv'
<1>1. /\ ClientOK(client[k], proc[k], wire[k]) /\ client[k] \in ClientType
      /\ proc[k] \in ProcType /\ client[k].loop = "waiting" /\ client[k].lock = "free"
      /\ client[k].server # NoServer
  BY ClientFacts DEF Ping, ClientOK
<1>2. UNCHANGED <<mgr, tools, proc, repl, session, call>>
  BY DEF Ping
<1>3. CASE client' = [client EXCEPT ![k] = [@ EXCEPT !.loop = "gone"]] /\ UNCHANGED wire
  <2> DEFINE cl == InLoop(client[k], "gone")
  <2>1. /\ cl \in ClientType /\ cl.server = client[k].server /\ cl.lock = "free"
        /\ cl.loop = "gone"
    BY <1>1, InLoopType
  <2>2. client' = [client EXCEPT ![k] = cl]
    BY <1>3, Zenon DEF InLoop
  <2> HIDE DEF cl
  <2>3. Moves(k, cl, proc[k], wire[k])
    BY <1>2, <1>3, <2>2, Unmoved DEF Moves
  <2>4. ClientOK(cl, proc[k], wire[k])
    BY <1>1, <2>1 DEF ClientOK
  <2> QED
    BY <1>1, <1>2, <2>1, <2>3, <2>4, NobodyElse, QuietStep
<1>4. CASE client' = [client EXCEPT ![k] = Failure(@)] /\ UNCHANGED wire
  <2> DEFINE cl == Failure(client[k])
  <2>1. cl \in ClientType /\ Shape(cl, client[k])
    BY <1>1, FailureType
  <2>2. client' = [client EXCEPT ![k] = cl]
    BY <1>4
  <2> HIDE DEF cl
  <2>3. Moves(k, cl, proc[k], wire[k])
    BY <1>2, <1>4, <2>2, Unmoved DEF Moves
  <2>4. ClientOK(cl, proc[k], wire[k])
    BY <1>1, <2>1 DEF ClientOK, Shape
  <2>5. cl.lock = "free" /\ cl.loop = client[k].loop /\ cl.server = client[k].server
    BY <1>1, <2>1 DEF Shape
  <2> QED
    BY <1>1, <1>2, <2>1, <2>3, <2>4, <2>5, NobodyElse, QuietStep
<1>5. CASE /\ client' = [client EXCEPT ![k] = [@ EXCEPT !.loop = "ping", !.lock = "health"]]
           /\ wire' = Asking(k, "health", "ping")
  <2> DEFINE cl == Pinging(client[k])
  <2>1. /\ cl \in ClientType /\ cl.server = client[k].server /\ cl.lock = "health"
        /\ cl.loop = "ping"
    BY <1>1, PingingType
  <2>2. client' = [client EXCEPT ![k] = cl]
    BY <1>5, Zenon DEF Pinging
  <2>3. PICK w \in Exchange("health") : /\ wire' = [wire EXCEPT ![k] = w]
                                        /\ proc[k] # "live" => w.requests = <<>>
    BY <1>1, <1>5, AskedOK DEF Actors, Kinds
  <2> HIDE DEF cl
  <2>5. Moves(k, cl, proc[k], w)
    BY <1>2, <2>2, <2>3, Unmoved DEF Moves
  <2>6. ClientOK(cl, proc[k], w)
    BY <1>1, <2>1, <2>3 DEF ClientOK
  <2> QED
    BY <1>1, <1>2, <2>1, <2>5, <2>6, NobodyElse, QuietStep
<1> QED
  BY <1>3, <1>4, <1>5 DEF Ping

LEMMA PongKeeps ==
  ASSUME Inv, NEW k \in Clients, Pong(k) PROVE Inv'
<1>1. /\ ClientOK(client[k], proc[k], wire[k]) /\ client[k] \in ClientType
      /\ proc[k] \in ProcType /\ client[k].loop = "ping" /\ client[k].lock = "health"
      /\ client[k].server # NoServer
  BY ClientFacts DEF Pong, ClientOK
<1>2. UNCHANGED <<mgr, tools, proc, repl, session, call>>
  BY DEF Pong
<1> DEFINE done == IF Good(k) /\ ~LoopDone(k) THEN Success(client[k]) ELSE Failure(client[k])
           cl == InLoop(Held(done, "free"), "waiting")
<1>3. done \in ClientType /\ Shape(done, client[k])
  BY <1>1, FailureType, SuccessType
<1>4. client' = [client EXCEPT ![k] = cl]
  BY Zenon DEF Pong, Unlocked, Held, InLoop
<1> HIDE DEF done
<1>5. Held(done, "free") \in ClientType /\ Held(done, "free").server = client[k].server
      /\ Held(done, "free").lock = "free"
  BY <1>3, HeldType DEF Shape
<1>6. cl \in ClientType /\ cl.server = client[k].server /\ cl.lock = "free"
      /\ cl.loop = "waiting"
  BY <1>5, InLoopType
<1> HIDE DEF cl
<1>7. PICK w \in Exchange("free") : /\ wire' = [wire EXCEPT ![k] = w]
                                    /\ proc[k] # "live" => w.requests = <<>>
  BY ReceivedOK DEF Pong
<1>8. Moves(k, cl, proc[k], w)
  BY <1>2, <1>4, <1>7, Unmoved DEF Moves
<1>9. ClientOK(cl, proc[k], w)
  BY <1>1, <1>6, <1>7, FreedOK
<1> QED
  BY <1>1, <1>2, <1>6, <1>8, <1>9, NobodyElse, QuietStep

LEMMA PingAbortedKeeps ==
  ASSUME Inv, NEW k \in Clients, PingAborted(k) PROVE Inv'
<1>1. /\ ClientOK(client[k], proc[k], wire[k]) /\ client[k] \in ClientType
      /\ client[k].loop = "ping" /\ client[k].lock = "health" /\ client[k].server # NoServer
  BY ClientFacts DEF PingAborted, ClientOK
<1> DEFINE after == InLoop(Failure(client[k]), "waiting")
<1>2. Stopping(k, after) /\ UNCHANGED <<mgr, tools, repl, session, call>>
  BY Zenon DEF PingAborted, InLoop
<1>3. after \in ClientType /\ after.server = client[k].server /\ after.loop = "waiting"
  BY <1>1, FailureType, InLoopType DEF Shape
<1> HIDE DEF after
<1>4. PICK cl \in ClientType, p \in ProcType :
           /\ Moves(k, cl, p, NoPipe) /\ p \notin {"live", "dead"}
           /\ cl.server = after.server /\ cl.lock = "free" /\ cl.loop = after.loop
  BY <1>2, <1>3, StoppingIs
<1>5. ClientOK(cl, p, NoPipe)
  BY <1>1, <1>3, <1>4, StoppedOK
<1> QED
  BY <1>1, <1>2, <1>3, <1>4, <1>5, NobodyElse, QuietStep

LEMMA LoopEndsKeeps ==
  ASSUME Inv, NEW k \in Clients, LoopEnds(k) PROVE Inv'
<1>1. /\ ClientOK(client[k], proc[k], wire[k]) /\ client[k] \in ClientType
      /\ proc[k] \in ProcType /\ client[k].loop = "waiting" /\ LinksOK(k)
  BY ClientFacts DEF LoopEnds
<1> DEFINE cl == InLoop(client[k], "gone")
<1>2. /\ cl \in ClientType /\ cl.server = client[k].server /\ cl.lock = client[k].lock
      /\ cl.loop = "gone"
  BY <1>1, InLoopType
<1>3. client' = [client EXCEPT ![k] = cl]
  BY Zenon DEF LoopEnds, InLoop
<1> HIDE DEF cl
<1>4. Moves(k, cl, proc[k], wire[k]) /\ UNCHANGED <<mgr, tools, repl, session, call>>
  BY <1>3, Unmoved DEF Moves, LoopEnds
<1>5. ClientOK(cl, proc[k], wire[k])
  BY <1>1, <1>2 DEF ClientOK
<1>6. Follow(k, cl)
  BY <1>1, <1>2, <1>4 DEF LinksOK, Holds, Knows, Follow, Inv, TypesOK, CallsOK
<1> QED
  BY <1>1, <1>2, <1>4, <1>5, <1>6, WorkStep

-----------------------------------------------------------------------------
(* The calls. *)

CallAt(l, pc) == [l EXCEPT !.pc = pc]
CallFor(s) == [NoCall EXCEPT !.pc = "lookup", !.server = s]
CallOf(l, k) == [l EXCEPT !.pc = "wait", !.k = k]
CallIn(l, ctx) == [l EXCEPT !.ctx = ctx]

LEMMA NoCallType == NoCall \in CallType /\ NoCall.pc = "idle"
  BY DEF NoCall, CallType

LEMMA CallRecords ==
  /\ \A s \in Servers : /\ CallFor(s) \in CallType /\ CallFor(s).pc = "lookup"
                            /\ CallFor(s).server = s
  /\ \A l \in CallType : /\ CallAt(l, "asked") \in CallType /\ CallAt(l, "asked").pc = "asked"
                         /\ CallAt(l, "asked").k = l.k /\ CallAt(l, "asked").server = l.server
  /\ \A l \in CallType, k \in 0..MaxClients :
       /\ CallOf(l, k) \in CallType /\ CallOf(l, k).pc = "wait" /\ CallOf(l, k).k = k
       /\ CallOf(l, k).server = l.server
  /\ \A l \in CallType : /\ CallIn(l, "expired") \in CallType
                         /\ CallIn(l, "expired").pc = l.pc /\ CallIn(l, "expired").k = l.k
                         /\ CallIn(l, "expired").server = l.server
<1>1. NoCall \in CallType
  BY NoCallType
<1>2. \A s \in Servers : /\ CallFor(s) \in CallType /\ CallFor(s).pc = "lookup"
                            /\ CallFor(s).server = s
  BY <1>1 DEF CallFor, CallType
<1>3. \A l \in CallType : /\ CallAt(l, "asked") \in CallType /\ CallAt(l, "asked").pc = "asked"
                         /\ CallAt(l, "asked").k = l.k /\ CallAt(l, "asked").server = l.server
  BY DEF CallAt, CallType
<1>4. \A l \in CallType, k \in 0..MaxClients :
        /\ CallOf(l, k) \in CallType /\ CallOf(l, k).pc = "wait" /\ CallOf(l, k).k = k
       /\ CallOf(l, k).server = l.server
  BY DEF CallOf, CallType
<1>5. \A l \in CallType : /\ CallIn(l, "expired") \in CallType
                         /\ CallIn(l, "expired").pc = l.pc /\ CallIn(l, "expired").k = l.k
                         /\ CallIn(l, "expired").server = l.server
  BY DEF CallIn, CallType
<1> QED
  BY <1>2, <1>3, <1>4, <1>5

LEMMA CallFacts ==
  ASSUME Inv, NEW c \in Callers
  PROVE  /\ call[c] \in CallType /\ call[c].k \in 0..MaxClients
         /\ call[c].pc # "idle" => call[c].server \in Servers
         /\ call[c].pc \in {"wait", "asked"} => call[c].k \in Clients
  BY DEF Inv, TypesOK, CallsOK, CallType

\* A call that goes on alone.
LEMMA CallStepKeeps ==
  ASSUME Inv, NEW c \in Callers, NEW l \in CallType, call' = [call EXCEPT ![c] = l],
         UNCHANGED <<mgr, tools, client, proc, wire, repl, session>>,
         l.pc = "asked" <=> call[c].pc = "asked", l.pc # "idle" => l.server \in Servers,
         l.pc \in {"wait", "asked"} =>
           \/ call[c].pc \in {"wait", "asked"} /\ l.k = call[c].k
           \/ /\ call[c].pc # "asked" /\ l.k \in Clients /\ client[l.k].server # NoServer
              /\ ~(repl.pc \in Unpublished /\ repl.k = l.k)
  PROVE  Inv'
<1>1. call' \in [Callers -> CallType] /\ call'[c] = l
      /\ \A d \in Callers \ {c} : call'[d] = call[d]
  BY DEF Inv, TypesOK
<1>2. TypesOK' /\ CommandOK(repl, mgr)' /\ CatalogOK(repl, mgr, tools)' /\ NamesOK'
  BY <1>1 DEF Inv, TypesOK, CommandOK, CatalogOK, NamesOK
<1>3. CallsOK'
  BY <1>1 DEF Inv, CallsOK
<1>4. ASSUME NEW k \in Clients
      PROVE  ClientOK(client[k], proc[k], wire[k]) /\ LinksOK(k)'
  <2>1. ClientOK(client[k], proc[k], wire[k]) /\ LinksOK(k)
    BY DEF Inv
  <2>2. LinksOK(k)'
    BY <1>1, <2>1 DEF LinksOK
  <2> QED
    BY <2>1, <2>2
<1> QED
  BY <1>2, <1>3, <1>4 DEF Inv

LEMMA CallKeeps ==
  ASSUME Inv, NEW c \in Callers, NEW s \in Servers, Call(c, s) PROVE Inv'
<1>1. call' = [call EXCEPT ![c] = CallFor(s)] /\ call[c].pc = "idle"
      /\ UNCHANGED <<mgr, tools, client, proc, wire, repl, session>>
  BY Zenon DEF Call, CallFor
<1>2. CallFor(s) \in CallType /\ CallFor(s).pc = "lookup" /\ CallFor(s).server = s
  BY CallRecords
<1> QED
  BY <1>1, <1>2, CallStepKeeps

LEMMA ExpireKeeps ==
  ASSUME Inv, NEW c \in Callers, Expire(c) PROVE Inv'
<1> DEFINE l == CallIn(call[c], "expired")
<1>1. call' = [call EXCEPT ![c] = l]
      /\ UNCHANGED <<mgr, tools, client, proc, wire, repl, session>>
  BY Zenon DEF Expire, CallIn
<1>2. l \in CallType /\ l.pc = call[c].pc /\ l.k = call[c].k /\ l.server = call[c].server
      /\ (l.pc # "idle" => l.server \in Servers)
  BY CallFacts, CallRecords
<1> HIDE DEF l
<1> QED
  BY <1>1, <1>2, CallStepKeeps

LEMMA LookupKeeps ==
  ASSUME Inv, NEW c \in Callers, Lookup(c) PROVE Inv'
<1> DEFINE k == mgr.client[call[c].server]
           l == CallOf(call[c], k)
<1>1. /\ call[c].pc = "lookup" /\ mgr.mu = "free"
      /\ UNCHANGED <<mgr, tools, client, proc, wire, repl, session>>
  BY DEF Lookup
<1>2. CASE call' = [call EXCEPT ![c] = NoCall]
  BY <1>1, <1>2, NoCallType, CallStepKeeps
<1>3. CASE k # 0 /\ call' = [call EXCEPT ![c] = l]
  <2>1. call[c].server \in Servers
    BY <1>1, CallFacts
  <2>2. k \in Clients /\ client[k].server = call[c].server
    BY <1>3, <2>1 DEF Inv, NamesOK, TypesOK, MgrType, Clients
  <2>3. l \in CallType /\ l.pc = "wait" /\ l.k = k /\ l.server = call[c].server
    <3>1. k \in 0..MaxClients
      BY <2>2 DEF Clients
    <3> QED
      BY <3>1, CallFacts, CallRecords
  <2>4. ~(repl.pc \in Unpublished /\ repl.k = k)
    BY <1>3, <2>1, <2>2 DEF Inv, CommandOK, NamesOK, Starting
  <2> HIDE DEF l, k
  <2> QED
    BY <1>1, <1>3, <2>1, <2>2, <2>3, <2>4, CallStepKeeps
<1> QED
  BY <1>2, <1>3, Zenon DEF Lookup, CallOf

LEMMA CallEnds ==
  ASSUME Inv, NEW c \in Callers, NEW k \in Clients, NEW cl, Knows(c, k), cl.lock = "free",
         client[k].lock \in {"free", c}, call' = [call EXCEPT ![c] = NoCall]
  PROVE  Follow(k, cl)
<1>1. call' \in [Callers -> CallType] /\ call'[c].pc = "idle"
      /\ \A d \in Callers \ {c} : call'[d] = call[d]
  BY NoCallType DEF Inv, TypesOK
<1>2. LinksOK(k)
  BY ClientFacts
<1> QED
  BY <1>1, <1>2 DEF LinksOK, Holds, Knows, Follow, Inv, CallsOK

LEMMA CallAsks ==
  ASSUME Inv, NEW c \in Callers, NEW k \in Clients, NEW cl, call[c].pc = "wait",
         call[c].k = k, client[k].lock = "free", cl.lock = c,
         call' = [call EXCEPT ![c] = CallAt(call[c], "asked")]
  PROVE  Follow(k, cl)
<1>1. /\ CallAt(call[c], "asked") \in CallType /\ CallAt(call[c], "asked").pc = "asked"
      /\ CallAt(call[c], "asked").k = k
      /\ CallAt(call[c], "asked").server = call[c].server
  BY CallFacts, CallRecords
<1>2. call' \in [Callers -> CallType] /\ call'[c] = CallAt(call[c], "asked")
      /\ \A d \in Callers \ {c} : call'[d] = call[d]
  BY <1>1 DEF Inv, TypesOK
<1>3. LinksOK(k)
  BY ClientFacts
<1> QED
  BY <1>1, <1>2, <1>3 DEF LinksOK, Holds, Knows, Follow, Inv, CallsOK

\* A call ends, and leaves its client free.
LEMMA CallEndKeeps ==
  ASSUME Inv, NEW c \in Callers, NEW k \in Clients, Knows(c, k), NEW cl \in ClientType,
         NEW p \in ProcType, p \in {"live", "dead"} => proc[k] \in {"live", "dead"},
         NEW w \in Exchange("free"), p # "live" => w.requests = <<>>,
         Moves(k, cl, p, w), client[k].lock \in {"free", c},
         cl.lock = "free", cl.server = client[k].server, cl.loop = client[k].loop,
         call' = [call EXCEPT ![c] = NoCall], UNCHANGED <<mgr, tools, repl, session>>
  PROVE  Inv'
<1>1. /\ ClientOK(client[k], proc[k], wire[k]) /\ client[k].server # NoServer
  BY ClientFacts DEF LinksOK, Knows
<1>2. cl.loop # "ping"
  BY <1>1 DEF ClientOK
<1>3. ClientOK(cl, p, w)
  BY <1>1, <1>2, FreedOK
<1>4. Follow(k, cl)
  BY CallEnds
<1> QED
  BY <1>3, <1>4, WorkStep

LEMMA RefusedKeeps ==
  ASSUME Inv, NEW c \in Callers, Refused(c) PROVE Inv'
<1> DEFINE k == call[c].k
<1>1. /\ k \in Clients /\ Knows(c, k) /\ client[k].lock = "free"
      /\ call' = [call EXCEPT ![c] = NoCall]
      /\ UNCHANGED <<mgr, tools, proc, wire, repl, session>>
  BY CallFacts DEF Refused, Knows
<1> HIDE DEF k
<1>2. /\ client[k] \in ClientType /\ proc[k] \in ProcType /\ wire[k] \in Exchange("free")
      /\ proc[k] # "live" => wire[k].requests = <<>>
  BY <1>1, ClientFacts DEF ClientOK
<1>3. CASE UNCHANGED client
  <2>1. Moves(k, client[k], proc[k], wire[k])
    BY <1>1, <1>2, <1>3, Unmoved DEF Moves
  <2> QED
    BY <1>1, <1>2, <2>1, CallEndKeeps
<1>4. CASE \E cooled \in BOOLEAN :
             client' = [client EXCEPT ![k] = Failure(Checked(client[k], cooled))]
  <2>1. PICK cooled : client' = [client EXCEPT ![k] = Failure(Checked(client[k], cooled))]
    BY <1>4
  <2> DEFINE cl == Failure(Checked(client[k], cooled))
  <2>2. Checked(client[k], cooled) \in ClientType /\ Shape(Checked(client[k], cooled), client[k])
    BY <1>2, CheckedType
  <2>3. cl \in ClientType /\ Shape(cl, Checked(client[k], cooled))
    BY <2>2, FailureType
  <2> HIDE DEF cl
  <2>4. cl.lock = "free" /\ cl.server = client[k].server /\ cl.loop = client[k].loop
    BY <1>1, <2>2, <2>3 DEF Shape
  <2>5. Moves(k, cl, proc[k], wire[k])
    BY <1>1, <2>1, Unmoved DEF Moves, cl
  <2> QED
    BY <1>1, <1>2, <2>3, <2>4, <2>5, CallEndKeeps
<1> QED
  BY <1>3, <1>4 DEF Refused, k

LEMMA ReceiveKeeps ==
  ASSUME Inv, NEW c \in Callers, Receive(c) PROVE Inv'
<1> DEFINE k == call[c].k
           done == IF Good(k) /\ call[c].ctx = "live" THEN Success(client[k])
                   ELSE Failure(client[k])
           cl == Held(done, "free")
<1>1. /\ k \in Clients /\ Knows(c, k) /\ Holds(c, k) /\ Readable(k)
      /\ call' = [call EXCEPT ![c] = NoCall]
      /\ wire' = Taken(k) /\ UNCHANGED <<mgr, tools, proc, repl, session>>
  BY CallFacts DEF Receive, Knows, Holds
<1>2. client' = [client EXCEPT ![k] = cl]
  BY Zenon DEF Receive, Unlocked, Held
<1> HIDE DEF k
<1>3. /\ client[k] \in ClientType /\ proc[k] \in ProcType /\ client[k].lock = c
  BY <1>1, ClientFacts DEF LinksOK, Holds
<1>4. done \in ClientType /\ Shape(done, client[k])
  BY <1>3, FailureType, SuccessType
<1> HIDE DEF done
<1>5. cl \in ClientType /\ cl.server = done.server /\ cl.lock = "free" /\ cl.loop = done.loop
  BY <1>4, HeldType
<1> HIDE DEF cl
<1>6. cl.server = client[k].server /\ cl.loop = client[k].loop
  BY <1>4, <1>5 DEF Shape
<1>7. PICK w \in Exchange("free") : /\ wire' = [wire EXCEPT ![k] = w]
                                    /\ proc[k] # "live" => w.requests = <<>>
  BY <1>1, ReceivedOK
<1>8. Moves(k, cl, proc[k], w)
  BY <1>1, <1>2, <1>7, Unmoved DEF Moves
<1> QED
  BY <1>1, <1>3, <1>5, <1>6, <1>7, <1>8, CallEndKeeps

LEMMA InterruptedKeeps ==
  ASSUME Inv, NEW c \in Callers, Interrupted(c) PROVE Inv'
<1> DEFINE k == call[c].k
<1>1. /\ k \in Clients /\ Knows(c, k) /\ Holds(c, k) /\ Stopping(k, Failure(client[k]))
      /\ call' = [call EXCEPT ![c] = NoCall]
      /\ UNCHANGED <<mgr, tools, repl, session>>
  BY CallFacts DEF Interrupted, Knows, Holds
<1> HIDE DEF k
<1>2. /\ client[k] \in ClientType /\ client[k].lock = c
  BY <1>1, ClientFacts DEF LinksOK, Holds
<1>3. Failure(client[k]) \in ClientType /\ Shape(Failure(client[k]), client[k])
  BY <1>2, FailureType
<1>4. PICK cl \in ClientType, p \in ProcType :
           /\ Moves(k, cl, p, NoPipe) /\ p \notin {"live", "dead"}
           /\ cl.server = client[k].server /\ cl.lock = "free" /\ cl.loop = client[k].loop
  BY <1>1, <1>3, StoppingIs DEF Shape
<1> QED
  BY <1>1, <1>2, <1>4, NoPipeFacts, CallEndKeeps

LEMMA AskKeeps ==
  ASSUME Inv, NEW c \in Callers, Ask(c) PROVE Inv'
<1> DEFINE k == call[c].k
           cl == Held(Checked(client[k], TRUE), c)
<1>1. /\ k \in Clients /\ call[c].pc = "wait" /\ client[k].lock = "free"
      /\ wire' = Asking(k, c, "call") /\ UNCHANGED <<mgr, tools, proc, repl, session>>
  BY CallFacts DEF Ask
<1>2. /\ client' = [client EXCEPT ![k] = cl]
      /\ call' = [call EXCEPT ![c] = CallAt(call[c], "asked")]
  BY Zenon DEF Ask, Held, CallAt
<1>3. call[c].k = k
  OBVIOUS
<1> HIDE DEF k
<1>4. /\ client[k] \in ClientType /\ proc[k] \in ProcType
      /\ client[k].loop # "ping" /\ client[k].server # NoServer
  BY <1>1, <1>3, ClientFacts DEF ClientOK, LinksOK
<1>5. Checked(client[k], TRUE) \in ClientType /\ Shape(Checked(client[k], TRUE), client[k])
  BY <1>4, CheckedType, Zenon
<1>6. c \in Actors \cup {"free"} /\ c \notin {"free", "repl", "health"}
  BY DEF Actors
<1>7. /\ cl \in ClientType /\ cl.server = Checked(client[k], TRUE).server /\ cl.lock = c
      /\ cl.loop = Checked(client[k], TRUE).loop
  BY <1>5, <1>6, HeldType, Zenon
<1>8. cl.server = client[k].server /\ cl.loop = client[k].loop
  BY <1>5, <1>7, Zenon DEF Shape
<1> HIDE DEF cl
<1>9. c \in Actors
  BY DEF Actors
<1>10. PICK w \in Exchange(c) : /\ wire' = [wire EXCEPT ![k] = w]
                                /\ proc[k] # "live" => w.requests = <<>>
  BY <1>1, <1>9, AskedOK DEF Kinds
<1>11. ClientOK(cl, proc[k], w)
  BY <1>4, <1>6, <1>7, <1>8, <1>10 DEF ClientOK
<1>12. Moves(k, cl, proc[k], w)
  BY <1>1, <1>2, <1>10, Unmoved DEF Moves
<1>13. Follow(k, cl)
  BY <1>1, <1>2, <1>3, <1>7, CallAsks
<1> QED
  BY <1>1, <1>4, <1>6, <1>7, <1>8, <1>11, <1>12, <1>13, WorkStep

-----------------------------------------------------------------------------
(* The commands. *)

ReplAt(r, pc) == [r EXCEPT !.pc = pc]
Visited(r, todo) == [r EXCEPT !.todo = todo]
Serving(op, pc, s, k) == [Prompt EXCEPT !.op = op, !.pc = pc, !.server = s, !.k = k]
Visiting(op, pc, todo) == [Prompt EXCEPT !.op = op, !.pc = pc, !.todo = todo]
Sweeping(r, k, s, todo) ==
  [r EXCEPT !.pc = "unregister", !.k = k, !.server = s, !.todo = todo]
Ops == {"none", "approve", "connect", "disconnect", "status", "shutdown"}
Stations == {"idle", "spawn", "initialize", "list", "register", "publish", "health",
             "unregister", "stop", "visit", "sweep", "ended"}

LEMMA PromptType ==
  /\ Prompt \in ReplType /\ Prompt.op = "none" /\ Prompt.pc = "idle" /\ Prompt.k = 0
  /\ Prompt.todo = {} /\ Prompt.server = NoServer
  BY DEF Prompt, ReplType

LEMMA ReplAtType ==
  ASSUME NEW r \in ReplType, NEW pc \in Stations
  PROVE  LET n == ReplAt(r, pc)
         IN /\ n \in ReplType /\ n.pc = pc /\ n.op = r.op /\ n.server = r.server
            /\ n.k = r.k /\ n.todo = r.todo
  BY DEF ReplAt, ReplType, Stations

LEMMA VisitedType ==
  ASSUME NEW r \in ReplType, NEW todo \in SUBSET Clients
  PROVE  LET n == Visited(r, todo)
         IN /\ n \in ReplType /\ n.pc = r.pc /\ n.op = r.op /\ n.server = r.server
            /\ n.k = r.k /\ n.todo = todo
  BY DEF Visited, ReplType

LEMMA ServingType ==
  ASSUME NEW op \in Ops, NEW pc \in Stations, NEW s \in Servers, NEW k \in 0..MaxClients
  PROVE  LET n == Serving(op, pc, s, k)
         IN /\ n \in ReplType /\ n.pc = pc /\ n.op = op /\ n.server = s /\ n.k = k
            /\ n.todo = {}
  BY PromptType DEF Serving, ReplType, Ops, Stations

LEMMA VisitingType ==
  ASSUME NEW op \in Ops, NEW pc \in Stations, NEW todo \in SUBSET Clients
  PROVE  LET n == Visiting(op, pc, todo)
         IN n \in ReplType /\ n.pc = pc /\ n.op = op /\ n.k = 0 /\ n.todo = todo
  BY PromptType DEF Visiting, ReplType, Ops, Stations

LEMMA SweepingType ==
  ASSUME NEW r \in ReplType, NEW k \in 0..MaxClients, NEW s \in Servers,
         NEW todo \in SUBSET Clients
  PROVE  LET n == Sweeping(r, k, s, todo)
         IN /\ n \in ReplType /\ n.pc = "unregister" /\ n.op = r.op /\ n.server = s
            /\ n.k = k /\ n.todo = todo
  BY DEF Sweeping, ReplType

\* What the manager's records keep.
WithMu(m, mu) == [m EXCEPT !.mu = mu]
WithNames(m, connecting, failed, pending) ==
  [m EXCEPT !.connecting = connecting, !.failed = failed, !.pending = pending]
WithMap(m, mu, f, failed) == [m EXCEPT !.mu = mu, !.client = f, !.failed = failed]

LEMMA CommandFacts ==
  ASSUME Inv
  PROVE  /\ repl \in ReplType /\ mgr \in MgrType /\ tools \subseteq Servers
         /\ repl.k \in 0..MaxClients /\ repl.todo \subseteq Clients /\ repl.op \in Ops
         /\ repl.k # 0 => repl.k \in Clients
         /\ mgr.client \in [Servers -> 0..MaxClients]
         /\ \A s \in Servers : mgr.client[s] # 0 => mgr.client[s] \in Clients
         /\ CommandOK(repl, mgr) /\ CatalogOK(repl, mgr, tools) /\ NamesOK
<1>1. repl \in ReplType /\ mgr \in MgrType /\ tools \subseteq Servers
  BY DEF Inv, TypesOK
<1>2. /\ repl.k \in 0..MaxClients /\ repl.todo \subseteq Clients /\ repl.op \in Ops
      /\ mgr.client \in [Servers -> 0..MaxClients]
  BY <1>1 DEF ReplType, MgrType, Ops
<1> QED
  BY <1>1, <1>2 DEF Inv, Clients

\* A step of the command that touches no client.
Exchanging(r) == r.pc \in {"initialize", "list"}
LEMMA ManagerStep ==
  ASSUME Inv, UNCHANGED <<client, proc, wire, call>>,
         mgr' \in MgrType, tools' \subseteq Servers, repl' \in ReplType,
         session' \in {"live", "canceled"},
         CommandOK(repl', mgr'), CatalogOK(repl', mgr', tools'), NamesOK',
         ~Exchanging(repl), ~Exchanging(repl'),
         repl'.pc \in Unpublished => repl.pc \in Unpublished /\ repl'.k = repl.k,
         \A k \in Clients : proc[k] \in {"live", "dead"} =>
           mgr'.client[client[k].server] = k \/ repl'.k = k \/ k \in repl'.todo
  PROVE  Inv'
<1>1. TypesOK'
  BY DEF Inv, TypesOK
<1>2. CommandOK(repl, mgr)' /\ CatalogOK(repl, mgr, tools)' /\ CallsOK'
  BY DEF Inv, CommandOK, CatalogOK, CallsOK
<1>3. ASSUME NEW k \in Clients
      PROVE  ClientOK(client[k], proc[k], wire[k])' /\ LinksOK(k)'
  <2>1. ClientOK(client[k], proc[k], wire[k]) /\ LinksOK(k)
    BY ClientFacts
  <2>2. LinksOK(k)'
    BY <2>1 DEF LinksOK, Exchanging
  <2> QED
    BY <2>1, <2>2
<1> QED
  BY <1>1, <1>2, <1>3 DEF Inv

LEMMA RegisterKeeps ==
  ASSUME Inv, Register PROVE Inv'
<1>1. /\ repl.pc = "register" /\ tools' = tools \cup {repl.server}
      /\ UNCHANGED <<client, proc, wire, session, call>>
  BY DEF Register
<1>2. mgr' = WithMu(mgr, "repl") /\ repl' = ReplAt(repl, "publish")
  BY DEF Register, WithMu, ReplAt
<1>3. /\ mgr' \in MgrType /\ mgr'.mu = "repl" /\ mgr'.client = mgr.client
  BY <1>2, CommandFacts DEF WithMu, MgrType
<1>4. /\ repl' \in ReplType /\ repl'.pc = "publish" /\ repl'.op = repl.op
      /\ repl'.server = repl.server /\ repl'.k = repl.k /\ repl'.todo = repl.todo
  BY <1>2, CommandFacts, ReplAtType DEF Stations
<1>5. /\ repl.k # 0 /\ repl.server \in Servers /\ mgr.client[repl.server] = 0
      /\ repl.op \in {"approve", "connect"}
  BY <1>1, CommandFacts DEF CommandOK, Unpublished, Starting
<1>6. CommandOK(repl', mgr')
  BY <1>1, <1>3, <1>4, CommandFacts DEF CommandOK, Unpublished, Starting, Ending
<1>7. CatalogOK(repl', mgr', tools') /\ tools' \subseteq Servers
  BY <1>1, <1>3, <1>4, <1>5, CommandFacts DEF CatalogOK
<1>8. NamesOK'
  BY <1>1, <1>3, <1>4, CommandFacts DEF NamesOK
<1>9. \A k \in Clients : proc[k] \in {"live", "dead"} =>
           mgr'.client[client[k].server] = k \/ repl'.k = k \/ k \in repl'.todo
  BY <1>3, <1>4, ClientFacts DEF LinksOK
<1> QED
  BY <1>1, <1>3, <1>4, <1>6, <1>7, <1>8, <1>9, ManagerStep
     DEF Exchanging, Unpublished, Inv, TypesOK

LEMMA PublishKeeps ==
  ASSUME Inv, Publish PROVE Inv'
<1> DEFINE f == [mgr.client EXCEPT ![repl.server] = repl.k]
           left == mgr.failed \ {repl.server}
<1>1. repl.pc = "publish" /\ UNCHANGED <<tools, client, proc, wire, session, call>>
  BY DEF Publish
<1>2. mgr' = WithMap(mgr, "free", f, left) /\ repl' = ReplAt(repl, "health")
  BY DEF Publish, WithMap, ReplAt
<1>3. /\ repl.k # 0 /\ repl.server \in Servers /\ mgr.client[repl.server] = 0
      /\ repl.op \in {"approve", "connect"} /\ repl.server \in tools /\ repl.todo = {}
      /\ client[repl.k].server = repl.server
  BY <1>1, CommandFacts DEF CommandOK, CatalogOK, NamesOK, Unpublished, Starting
<1>4. /\ f \in [Servers -> 0..MaxClients] /\ f[repl.server] = repl.k
      /\ \A s \in Servers \ {repl.server} : f[s] = mgr.client[s]
  BY <1>3, CommandFacts
<1>5. left \in SUBSET Servers
  BY CommandFacts DEF MgrType
<1> HIDE DEF f, left
<1>6. mgr' \in MgrType /\ mgr'.mu = "free" /\ mgr'.client = f
  BY <1>2, <1>4, <1>5, CommandFacts DEF WithMap, MgrType
<1>7. /\ repl' \in ReplType /\ repl'.pc = "health" /\ repl'.op = repl.op
      /\ repl'.server = repl.server /\ repl'.k = repl.k /\ repl'.todo = repl.todo
  BY <1>2, CommandFacts, ReplAtType DEF Stations
<1>8. CommandOK(repl', mgr')
  BY <1>1, <1>3, <1>4, <1>6, <1>7, CommandFacts DEF CommandOK, Unpublished, Starting, Ending
<1>9. CatalogOK(repl', mgr', tools')
  BY <1>1, <1>3, <1>4, <1>6, <1>7, CommandFacts DEF CatalogOK
<1>10. NamesOK'
  BY <1>1, <1>3, <1>4, <1>6, <1>7, CommandFacts DEF NamesOK
<1>11. ASSUME NEW k \in Clients, proc[k] \in {"live", "dead"}
       PROVE  mgr'.client[client[k].server] = k \/ repl'.k = k \/ k \in repl'.todo
  <2>1. /\ client[k].server \in Servers
        /\ mgr.client[client[k].server] = k \/ repl.k = k \/ k \in repl.todo
    BY <1>11, ClientFacts DEF LinksOK, ClientOK
  <2> QED
    BY <1>3, <1>4, <1>6, <1>7, <2>1 DEF Clients
<1> QED
  BY <1>1, <1>6, <1>7, <1>8, <1>9, <1>10, <1>11, ManagerStep, CommandFacts
     DEF Exchanging, Unpublished, Inv, TypesOK

LEMMA DisconnectKeeps ==
  ASSUME Inv, NEW s \in Servers, Disconnect(s) PROVE Inv'
<1> DEFINE f == [mgr.client EXCEPT ![s] = 0]
           left == mgr.failed \ {s}
           k0 == mgr.client[s]
<1>1. /\ repl.pc = "idle" /\ k0 # 0
      /\ UNCHANGED <<tools, client, proc, wire, session, call>>
  BY DEF Disconnect
<1>2. /\ mgr' = WithMap(mgr, mgr.mu, f, left)
      /\ repl' = Serving("disconnect", "unregister", s, k0)
  <2>1. repl' = Serving("disconnect", "unregister", s, k0)
    BY DEF Disconnect, Serving
  <2>2. mgr' = [mgr EXCEPT !.client = f, !.failed = left]
    BY DEF Disconnect
  <2> HIDE DEF f, left
  <2>3. mgr' = WithMap(mgr, mgr.mu, f, left)
    BY <2>2, CommandFacts DEF WithMap, MgrType
  <2> QED
    BY <2>1, <2>3
<1>3. /\ repl.k = 0 /\ repl.op = "none" /\ repl.todo = {} /\ mgr.mu = "free"
      /\ k0 \in Clients /\ client[k0].server = s
  BY <1>1, CommandFacts DEF CommandOK, NamesOK, MgrType, Starting, Ending, Unpublished
<1>4. /\ f \in [Servers -> 0..MaxClients] /\ f[s] = 0
      /\ \A x \in Servers \ {s} : f[x] = mgr.client[x]
  BY <1>3, CommandFacts
<1>5. left \in SUBSET Servers
  BY CommandFacts DEF MgrType
<1> HIDE DEF f, left
<1>6. mgr' \in MgrType /\ mgr'.mu = mgr.mu /\ mgr'.client = f
  BY <1>2, <1>4, <1>5, CommandFacts DEF WithMap, MgrType
<1>7. /\ repl' \in ReplType /\ repl'.pc = "unregister" /\ repl'.op = "disconnect"
      /\ repl'.server = s /\ repl'.k = k0 /\ repl'.todo = {}
  <2>1. k0 \in 0..MaxClients
    BY CommandFacts
  <2> HIDE DEF k0
  <2> QED
    BY <1>2, <2>1, ServingType DEF Ops, Stations
<1>8. k0 = mgr.client[s]
  OBVIOUS
<1> HIDE DEF k0
<1>9. CommandOK(repl', mgr')
  BY <1>1, <1>3, <1>4, <1>6, <1>7 DEF CommandOK, Unpublished, Starting, Ending
<1>10. CatalogOK(repl', mgr', tools')
  BY <1>1, <1>3, <1>4, <1>6, <1>7, CommandFacts DEF CatalogOK
<1>11. NamesOK'
  BY <1>1, <1>3, <1>4, <1>6, <1>7, CommandFacts DEF NamesOK
<1>12. ASSUME NEW k \in Clients, proc[k] \in {"live", "dead"}
       PROVE  mgr'.client[client[k].server] = k \/ repl'.k = k \/ k \in repl'.todo
  <2>1. /\ client[k].server \in Servers
        /\ mgr.client[client[k].server] = k \/ repl.k = k \/ k \in repl.todo
    BY <1>12, ClientFacts DEF LinksOK, ClientOK
  <2> QED
    BY <1>3, <1>4, <1>6, <1>7, <1>8, <2>1 DEF Clients
<1> QED
  BY <1>1, <1>6, <1>7, <1>9, <1>10, <1>11, <1>12, ManagerStep, CommandFacts
     DEF Exchanging, Unpublished, Inv, TypesOK

LEMMA UnregisterKeeps ==
  ASSUME Inv, Unregister PROVE Inv'
<1>1. /\ repl.pc = "unregister" /\ tools' = tools \ {repl.server}
      /\ UNCHANGED <<mgr, client, proc, wire, session, call>>
  BY DEF Unregister
<1>2. repl' = ReplAt(repl, "stop")
  BY DEF Unregister, ReplAt
<1>3. /\ repl' \in ReplType /\ repl'.pc = "stop" /\ repl'.op = repl.op
      /\ repl'.server = repl.server /\ repl'.k = repl.k /\ repl'.todo = repl.todo
  BY <1>2, CommandFacts, ReplAtType DEF Stations
<1>4. mgr.client[repl.server] = 0
  BY <1>1, CommandFacts DEF CommandOK, Ending
<1>5. CommandOK(repl', mgr')
  BY <1>1, <1>3, CommandFacts DEF CommandOK, Unpublished, Starting, Ending
<1>6. CatalogOK(repl', mgr', tools') /\ tools' \subseteq Servers
  BY <1>1, <1>3, <1>4, CommandFacts DEF CatalogOK
<1>7. NamesOK'
  BY <1>1, <1>3, CommandFacts DEF NamesOK
<1>8. \A k \in Clients : proc[k] \in {"live", "dead"} =>
           mgr'.client[client[k].server] = k \/ repl'.k = k \/ k \in repl'.todo
  BY <1>1, <1>3, ClientFacts DEF LinksOK
<1> QED
  BY <1>1, <1>3, <1>5, <1>6, <1>7, <1>8, ManagerStep, CommandFacts
     DEF Exchanging, Unpublished, Inv, TypesOK

LEMMA ActiveFacts ==
  ASSUME Inv
  PROVE  /\ Active \subseteq Clients
         /\ \A k \in Active : client[k].server \in Servers /\ mgr.client[client[k].server] = k
         /\ \A s \in Servers : mgr.client[s] # 0 =>
              mgr.client[s] \in Active /\ client[mgr.client[s]].server = s
  BY CommandFacts DEF Active, NamesOK

LEMMA StatusKeeps ==
  ASSUME Inv, Status PROVE Inv'
<1>1. repl.pc = "idle" /\ UNCHANGED <<mgr, tools, client, proc, wire, session, call>>
  BY DEF Status
<1>2. repl' = Visiting("status", "visit", Active)
  BY DEF Status, Visiting
<1>3. /\ repl' \in ReplType /\ repl'.pc = "visit" /\ repl'.op = "status" /\ repl'.k = 0
      /\ repl'.todo = Active
  BY <1>2, ActiveFacts, VisitingType DEF Ops, Stations
<1>4. repl.k = 0 /\ repl.op = "none" /\ repl.todo = {} /\ mgr.mu = "free"
  BY <1>1, CommandFacts DEF CommandOK, MgrType, Starting, Ending, Unpublished
<1>5. CommandOK(repl', mgr')
  BY <1>1, <1>3, <1>4 DEF CommandOK, Unpublished, Starting, Ending
<1>6. CatalogOK(repl', mgr', tools')
  BY <1>1, <1>3, <1>4, CommandFacts DEF CatalogOK
<1>7. NamesOK'
  BY <1>1, <1>3, CommandFacts, ActiveFacts DEF NamesOK
<1>8. \A k \in Clients : proc[k] \in {"live", "dead"} =>
           mgr'.client[client[k].server] = k \/ repl'.k = k \/ k \in repl'.todo
  BY <1>1, <1>3, <1>4, ClientFacts DEF LinksOK, Clients
<1> QED
  BY <1>1, <1>3, <1>5, <1>6, <1>7, <1>8, ManagerStep, CommandFacts
     DEF Exchanging, Unpublished, Inv, TypesOK

LEMMA HealthKeeps ==
  ASSUME Inv, NEW k \in Clients, Health(k) PROVE Inv'
<1>1. /\ repl.pc = "visit" /\ k \in repl.todo
      /\ UNCHANGED <<mgr, tools, client, proc, wire, session, call>>
  BY DEF Health
<1>2. repl.k = 0 /\ repl.op = "status" /\ mgr.mu = "free"
  BY <1>1, CommandFacts DEF CommandOK, MgrType, Starting, Ending, Unpublished
<1>3. /\ repl' \in ReplType /\ repl'.k = 0 /\ repl'.todo = repl.todo \ {k}
      /\ \/ repl'.pc = "idle" /\ repl'.op = "none" /\ repl'.todo = {}
         \/ repl'.pc = "visit" /\ repl'.op = "status"
  <2>1. CASE repl.todo = {k}
    BY <2>1, PromptType DEF Health
  <2>2. CASE repl.todo # {k}
    <3>1. repl' = Visited(repl, repl.todo \ {k})
      BY <2>2 DEF Health, Visited
    <3> QED
      BY <1>1, <1>2, <3>1, CommandFacts, VisitedType
  <2> QED
    BY <2>1, <2>2
<1>4. CommandOK(repl', mgr')
  BY <1>1, <1>2, <1>3 DEF CommandOK, Unpublished, Starting, Ending
<1>5. CatalogOK(repl', mgr', tools')
  BY <1>1, <1>2, <1>3, CommandFacts DEF CatalogOK
<1>6. NamesOK'
  BY <1>1, <1>2, <1>3, CommandFacts DEF NamesOK
<1>7. \A j \in Clients : proc[j] \in {"live", "dead"} =>
           mgr'.client[client[j].server] = j \/ repl'.k = j \/ j \in repl'.todo
  BY <1>1, <1>2, ClientFacts, CommandFacts DEF LinksOK, NamesOK, Clients
<1> QED
  BY <1>1, <1>3, <1>4, <1>5, <1>6, <1>7, ManagerStep, CommandFacts
     DEF Exchanging, Unpublished, Inv, TypesOK

LEMMA ShutdownKeeps ==
  ASSUME Inv, Shutdown PROVE Inv'
<1> DEFINE f == [s \in Servers |-> 0]
<1>1. /\ repl.pc = "idle" /\ session' = "canceled"
      /\ UNCHANGED <<tools, client, proc, wire, call>>
  BY DEF Shutdown
<1>2. PICK y \in BOOLEAN : y = TRUE
  BY Zenon
<1>3. mgr' = [mgr EXCEPT !.closed = y, !.client = f]
  BY <1>2, Zenon DEF Shutdown
<1>4. f \in [Servers -> 0..MaxClients] /\ \A s \in Servers : f[s] = 0
  OBVIOUS
<1> HIDE DEF f
<1>5. mgr' \in MgrType /\ mgr'.mu = mgr.mu /\ mgr'.client = f
  BY <1>3, <1>4, CommandFacts DEF MgrType
<1>6. repl' = Visiting("shutdown", "sweep", Active)
  BY DEF Shutdown, Visiting
<1>7. /\ repl' \in ReplType /\ repl'.pc = "sweep" /\ repl'.op = "shutdown" /\ repl'.k = 0
      /\ repl'.todo = Active
  BY <1>6, ActiveFacts, VisitingType DEF Ops, Stations
<1>8. repl.k = 0 /\ repl.op = "none" /\ repl.todo = {} /\ mgr.mu = "free"
  BY <1>1, CommandFacts DEF CommandOK, MgrType, Starting, Ending, Unpublished
<1>9. CommandOK(repl', mgr')
  BY <1>4, <1>5, <1>7, <1>8 DEF CommandOK, Unpublished, Starting, Ending
<1>10. CatalogOK(repl', mgr', tools')
  BY <1>1, <1>4, <1>5, <1>7, <1>8, CommandFacts, ActiveFacts DEF CatalogOK
<1>11. NamesOK'
  BY <1>1, <1>4, <1>5, <1>7, ActiveFacts DEF NamesOK
<1>12. ASSUME NEW k \in Clients, proc[k] \in {"live", "dead"}
       PROVE  mgr'.client[client[k].server] = k \/ repl'.k = k \/ k \in repl'.todo
  <2>1. /\ client[k].server \in Servers
        /\ mgr.client[client[k].server] = k \/ repl.k = k \/ k \in repl.todo
    BY <1>12, ClientFacts DEF LinksOK, ClientOK
  <2>2. mgr.client[client[k].server] = k /\ k # 0
    BY <1>8, <2>1 DEF Clients
  <2> QED
    BY <1>7, <2>1, <2>2, ActiveFacts
<1> QED
  BY <1>1, <1>5, <1>7, <1>8, <1>9, <1>10, <1>11, <1>12, ManagerStep, CommandFacts
     DEF Exchanging, Unpublished

LEMMA SweepKeeps ==
  ASSUME Inv, NEW k \in Clients, Sweep(k) PROVE Inv'
<1> DEFINE s == client[k].server
           left == repl.todo \ {k}
<1>1. /\ repl.pc = "sweep" /\ k \in repl.todo
      /\ UNCHANGED <<mgr, tools, client, proc, wire, session, call>>
  BY DEF Sweep
<1>2. /\ repl.k = 0 /\ repl.op = "shutdown" /\ mgr.mu = "free"
      /\ \A x \in Servers : mgr.client[x] = 0
  BY <1>1, CommandFacts DEF CommandOK, MgrType, Starting, Ending, Unpublished
<1>3. s \in Servers /\ left \in SUBSET Clients /\ k \in 0..MaxClients
  BY <1>1, CommandFacts DEF NamesOK, Clients
<1>4. repl' = Sweeping(repl, k, s, left)
  BY Zenon DEF Sweep, Sweeping
<1>5. s = client[k].server /\ left = repl.todo \ {k}
  OBVIOUS
<1> HIDE DEF s, left
<1>6. /\ repl' \in ReplType /\ repl'.pc = "unregister" /\ repl'.op = repl.op
      /\ repl'.server = s /\ repl'.k = k /\ repl'.todo = left
  BY <1>3, <1>4, CommandFacts, SweepingType
<1>7. CommandOK(repl', mgr')
  BY <1>1, <1>2, <1>3, <1>6 DEF CommandOK, Unpublished, Starting, Ending, Clients
<1>8. CatalogOK(repl', mgr', tools')
  BY <1>1, <1>2, <1>3, <1>5, <1>6, CommandFacts DEF CatalogOK
<1>9. NamesOK'
  BY <1>1, <1>2, <1>3, <1>5, <1>6, CommandFacts DEF NamesOK
<1>10. \A j \in Clients : proc[j] \in {"live", "dead"} =>
           mgr'.client[client[j].server] = j \/ repl'.k = j \/ j \in repl'.todo
  BY <1>1, <1>2, <1>5, <1>6, ClientFacts DEF LinksOK, Clients
<1> QED
  BY <1>1, <1>6, <1>7, <1>8, <1>9, <1>10, ManagerStep, CommandFacts
     DEF Exchanging, Unpublished, Inv, TypesOK

LEMMA SweptKeeps ==
  ASSUME Inv, Swept PROVE Inv'
<1>1. /\ repl.pc = "sweep" /\ repl.todo = {}
      /\ UNCHANGED <<mgr, tools, client, proc, wire, session, call>>
  BY DEF Swept
<1>2. repl' = ReplAt(Prompt, "ended")
  BY DEF Swept, ReplAt
<1>3. /\ repl' \in ReplType /\ repl'.pc = "ended" /\ repl'.op = "none" /\ repl'.k = 0
      /\ repl'.todo = {}
  BY <1>2, PromptType, ReplAtType DEF Stations
<1>4. repl.k = 0 /\ mgr.mu = "free" /\ \A s \in Servers : mgr.client[s] = 0
  BY <1>1, CommandFacts DEF CommandOK, MgrType, Starting, Ending, Unpublished
<1>5. CommandOK(repl', mgr')
  BY <1>1, <1>3, <1>4 DEF CommandOK, Unpublished, Starting, Ending
<1>6. CatalogOK(repl', mgr', tools')
  BY <1>1, <1>3, <1>4, CommandFacts DEF CatalogOK
<1>7. NamesOK'
  BY <1>1, <1>3, <1>4 DEF NamesOK
<1>8. \A k \in Clients : proc[k] \in {"live", "dead"} =>
           mgr'.client[client[k].server] = k \/ repl'.k = k \/ k \in repl'.todo
  BY <1>1, <1>3, <1>4, ClientFacts DEF LinksOK
<1> QED
  BY <1>1, <1>3, <1>5, <1>6, <1>7, <1>8, ManagerStep, CommandFacts
     DEF Exchanging, Unpublished, Inv, TypesOK

LEMMA TerminateKeeps ==
  ASSUME Inv, Terminate PROVE Inv'
  BY DEF Terminate, Inv, TypesOK, CommandOK, CatalogOK, NamesOK, CallsOK, ClientOK, LinksOK

-----------------------------------------------------------------------------
(* The steps of a command at its client. *)

LEMMA CommandStepKeeps ==
  ASSUME Inv, NEW k \in Clients, NEW cl \in ClientType, NEW p \in ProcType, NEW w,
         Moves(k, cl, p, w), ClientOK(cl, p, w), UNCHANGED <<tools, call, session>>,
         mgr' \in MgrType, repl' \in ReplType, mgr'.client = mgr.client,
         CommandOK(repl', mgr'), CatalogOK(repl, mgr, tools)', NamesOK',
         client[k].lock \in {"free", "repl"}, cl.lock \in {"free", "repl"},
         cl.lock = "repl" <=> Exchanging(repl'),
         client[k].server # NoServer => cl.server # NoServer,
         Exchanging(repl) => repl.k = k, repl'.k \in {0, k},
         repl'.pc \in Unpublished =>
           cl.loop = "none" /\ \A c \in Callers : ~Knows(c, k),
         \A j \in Clients \ {k} : j \in repl.todo => j \in repl'.todo \/ repl.op = "status",
         repl.k \in {0, k},
         p \in {"live", "dead"} => mgr.client[cl.server] = k \/ repl'.k = k
  PROVE  Inv'
<1>1. /\ client' \in [Clients -> ClientType] /\ proc' \in [Clients -> ProcType]
      /\ wire' \in [Clients -> Pipes]
      /\ client'[k] = cl /\ proc'[k] = p /\ wire'[k] = w
      /\ \A j \in Clients \ {k} :
           client'[j] = client[j] /\ proc'[j] = proc[j] /\ wire'[j] = wire[j]
  BY MovesTypes DEF Inv
<1>2. TypesOK' /\ CallsOK'
  BY <1>1 DEF Inv, TypesOK, CallsOK
<1>3. CommandOK(repl, mgr)'
  BY DEF CommandOK
<1>4. ASSUME NEW j \in Clients
      PROVE  ClientOK(client[j], proc[j], wire[j])' /\ LinksOK(j)'
  <2>1. ClientOK(client[j], proc[j], wire[j]) /\ LinksOK(j)
    BY ClientFacts
  <2>2. j # 0
    BY DEF Clients
  <2>3. CASE j = k
    <3>1. client'[j] = cl /\ proc'[j] = p /\ wire'[j] = w
      BY <1>1, <2>3
    <3>2. Exchanging(repl') => repl'.k = k
      BY CommandFacts DEF CommandOK, Exchanging, Starting, Unpublished
    <3>3. \A c \in Callers : ~Holds(c, k) /\ cl.lock # c
      BY <2>1, <2>3 DEF LinksOK, Holds
    <3>4. LinksOK(j)'
      BY <2>1, <2>3, <3>1, <3>2, <3>3 DEF LinksOK, Holds, Knows, Exchanging
    <3> QED
      BY <3>1, <3>4
  <2>4. CASE j # k
    <3>1. client'[j] = client[j] /\ proc'[j] = proc[j] /\ wire'[j] = wire[j]
      BY <1>1, <2>4
    <3>2. repl'.k # j /\ repl.k # j
      BY <2>2, <2>4
    <3>3. j \in repl.todo /\ repl.op = "status" => mgr.client[client[j].server] = j
      BY CommandFacts DEF NamesOK
    <3>4. LinksOK(j)'
      BY <2>1, <2>4, <3>1, <3>2, <3>3 DEF LinksOK, Exchanging
    <3> QED
      BY <2>1, <3>1, <3>4
  <2> QED
    BY <2>3, <2>4
<1> QED
  BY <1>2, <1>3, <1>4 DEF Inv

\* Before the client is published nobody but the command knows it.
LEMMA Alone ==
  ASSUME Inv, repl.pc \in Unpublished
  PROVE  LET k == repl.k
         IN /\ k \in Clients /\ client[k].server = repl.server /\ repl.server \in Servers
            /\ client[k].lock = IF Exchanging(repl) THEN "repl" ELSE "free"
            /\ client[k].loop = "none" /\ \A c \in Callers : ~Knows(c, k)
            /\ repl.op \in {"approve", "connect"} /\ repl.todo = {}
            /\ mgr.client[repl.server] = 0
<1>1. /\ repl.k \in Clients /\ client[repl.k].server = repl.server /\ repl.server \in Servers
      /\ repl.op \in {"approve", "connect"} /\ repl.todo = {} /\ mgr.client[repl.server] = 0
  BY CommandFacts DEF CommandOK, NamesOK, Starting
<1>2. client[repl.k].loop = "none" /\ \A c \in Callers : ~Knows(c, repl.k)
  BY <1>1, ClientFacts DEF LinksOK, Knows
<1>3. client[repl.k].lock = IF Exchanging(repl) THEN "repl" ELSE "free"
  <2>1. /\ client[repl.k].lock \in Actors \cup {"free"} /\ client[repl.k].lock # "health"
        /\ client[repl.k].lock = "repl" <=> Exchanging(repl)
        /\ \A c \in Callers : client[repl.k].lock # c
    BY <1>1, <1>2, ClientFacts DEF ClientOK, LinksOK, Knows, Exchanging
  <2> QED
    BY <2>1 DEF Actors
<1> QED
  BY <1>1, <1>2, <1>3

LEMMA SpawnKeeps ==
  ASSUME Inv, Spawn PROVE Inv'
<1>1. PICK run \in BOOLEAN : run = TRUE
  BY Zenon
<1> DEFINE k == repl.k
           cl == Running(client[k], run)
<1>2. repl.pc = "spawn" /\ UNCHANGED <<mgr, tools, session, call>>
  BY DEF Spawn
<1>3. /\ k \in Clients /\ client[k].server = repl.server /\ repl.server \in Servers
      /\ client[k].lock = "free" /\ client[k].loop = "none"
      /\ \A c \in Callers : ~Knows(c, k)
      /\ repl.op \in {"approve", "connect"} /\ repl.todo = {} /\ mgr.client[repl.server] = 0
  BY <1>2, Alone DEF Unpublished, Exchanging
<1>4. client[k] \in ClientType /\ wire[k] \in Exchange("free")
  BY <1>3, ClientFacts DEF ClientOK
<1>5. /\ client' = [client EXCEPT ![k] = cl] /\ proc' = [proc EXCEPT ![k] = "live"]
      /\ wire' = [wire EXCEPT ![k] = Requested(@, "repl", "initialize")]
      /\ repl' = ReplAt(repl, "initialize")
  BY <1>1, Zenon DEF Spawn, Running, ReplAt
<1>6. k = repl.k
  OBVIOUS
<1> HIDE DEF k
<1>7. PICK w : w = Requested(wire[k], "repl", "initialize")
  OBVIOUS
<1>8. w \in Exchange("repl") /\ wire' = [wire EXCEPT ![k] = w]
  <2>1. w \in Exchange("repl")
    BY <1>4, <1>7, RequestedOK DEF Kinds, Actors
  <2> QED
    BY <1>5, <1>7, <2>1, Zenon
<1>9. /\ cl \in ClientType /\ cl.server = client[k].server /\ cl.lock = "repl"
      /\ cl.loop = client[k].loop
  BY <1>4, RunningType
<1> HIDE DEF cl
<1>10. ClientOK(cl, "live", w)
  BY <1>3, <1>8, <1>9 DEF ClientOK
<1>11. Moves(k, cl, "live", w) /\ "live" \in ProcType
  BY <1>5, <1>8 DEF Moves, ProcType
<1>12. /\ repl' \in ReplType /\ repl'.pc = "initialize" /\ repl'.op = repl.op
       /\ repl'.server = repl.server /\ repl'.k = k /\ repl'.todo = repl.todo
  BY <1>5, <1>6, CommandFacts, ReplAtType DEF Stations
<1>13. CommandOK(repl', mgr')
  BY <1>2, <1>3, <1>6, <1>12, CommandFacts DEF CommandOK, Unpublished, Starting, Ending
<1>14. CatalogOK(repl, mgr, tools)'
  BY <1>2, <1>3, <1>12, CommandFacts DEF CatalogOK
<1>15. NamesOK'
  <2>1. \A j \in Clients : client'[j].server = client[j].server
    BY <1>3, <1>5, <1>9 DEF Inv, TypesOK
  <2> QED
    BY <1>2, <1>3, <1>6, <1>12, <2>1, CommandFacts DEF NamesOK
<1>16. mgr' \in MgrType /\ mgr'.client = mgr.client
  BY <1>2, CommandFacts
<1>17. Exchanging(repl') /\ ~Exchanging(repl)
  BY <1>2, <1>12 DEF Exchanging
<1> QED
  BY <1>2, <1>3, <1>6, <1>9, <1>10, <1>11, <1>12, <1>13, <1>14, <1>15, <1>16, <1>17,
     CommandStepKeeps

LEMMA InitializedKeeps ==
  ASSUME Inv, Initialized PROVE Inv'
<1> DEFINE k == repl.k
<1>1. repl.pc = "initialize" /\ Readable(k) /\ UNCHANGED <<mgr, tools, client, proc, session, call>>
  BY DEF Initialized
<1>2. /\ k \in Clients /\ client[k].server = repl.server /\ repl.server \in Servers
      /\ client[k].lock = "repl" /\ client[k].loop = "none"
      /\ \A c \in Callers : ~Knows(c, k)
      /\ repl.op \in {"approve", "connect"} /\ repl.todo = {} /\ mgr.client[repl.server] = 0
  BY <1>1, Alone DEF Unpublished, Exchanging
<1>3. /\ client[k] \in ClientType /\ proc[k] \in ProcType
      /\ wire[k] \in Exchange("repl") /\ (proc[k] # "live" => wire[k].requests = <<>>)
  BY <1>2, ClientFacts DEF ClientOK
<1>4. wire' = [wire EXCEPT ![k] =
        IF proc[k] = "live" THEN Requested(Rest(@), "repl", "list") ELSE Rest(@)]
      /\ repl' = ReplAt(repl, "list")
  BY Zenon DEF Initialized, ReplAt
<1>5. PICK r : r = Rest(wire[k])
  OBVIOUS
<1>6. r \in Exchange("free") /\ (proc[k] # "live" => r.requests = <<>>)
  BY <1>1, <1>2, <1>5, ReceivedOK
<1>7. PICK w : w = IF proc[k] = "live" THEN Requested(r, "repl", "list") ELSE r
  OBVIOUS
<1>8. k = repl.k
  OBVIOUS
<1> HIDE DEF k
<1>16. w \in Exchange("repl") /\ (proc[k] # "live" => w.requests = <<>>)
  BY <1>6, <1>7, RequestedOK, TakenOver DEF Actors, Kinds
<1>17. wire' = [wire EXCEPT ![k] = w]
  BY <1>4, <1>5, <1>7, Zenon
<1>9. ClientOK(client[k], proc[k], w)
  BY <1>2, <1>3, <1>16 DEF ClientOK
<1>10. Moves(k, client[k], proc[k], w)
  BY <1>1, <1>2, <1>17, Unmoved DEF Moves
<1>11. /\ repl' \in ReplType /\ repl'.pc = "list" /\ repl'.op = repl.op
       /\ repl'.server = repl.server /\ repl'.k = k /\ repl'.todo = repl.todo
  BY <1>4, <1>8, CommandFacts, ReplAtType DEF Stations
<1>12. CommandOK(repl', mgr')
  BY <1>1, <1>2, <1>8, <1>11, CommandFacts DEF CommandOK, Unpublished, Starting, Ending
<1>13. CatalogOK(repl, mgr, tools)' /\ NamesOK'
  BY <1>1, <1>2, <1>8, <1>11, CommandFacts DEF CatalogOK, NamesOK
<1>14. mgr' \in MgrType /\ mgr'.client = mgr.client
  BY <1>1, CommandFacts
<1>15. Exchanging(repl') /\ Exchanging(repl)
  BY <1>1, <1>11 DEF Exchanging
<1> QED
  BY <1>1, <1>2, <1>3, <1>8, <1>9, <1>10, <1>11, <1>12, <1>13, <1>14, <1>15, CommandStepKeeps

LEMMA DiscoveredKeeps ==
  ASSUME Inv, Discovered PROVE Inv'
<1> DEFINE k == repl.k
           cl == Held(Success(client[k]), "free")
<1>1. /\ repl.pc = "list" /\ Readable(k) /\ wire' = Taken(k)
      /\ UNCHANGED <<mgr, tools, proc, session, call>>
  BY DEF Discovered
<1>2. /\ k \in Clients /\ client[k].server = repl.server /\ repl.server \in Servers
      /\ client[k].lock = "repl" /\ client[k].loop = "none"
      /\ \A c \in Callers : ~Knows(c, k)
      /\ repl.op \in {"approve", "connect"} /\ repl.todo = {} /\ mgr.client[repl.server] = 0
  BY <1>1, Alone DEF Unpublished, Exchanging
<1>3. client[k] \in ClientType /\ proc[k] \in ProcType
  BY <1>2, ClientFacts
<1>4. client' = [client EXCEPT ![k] = cl] /\ repl' = ReplAt(repl, "register")
  BY Zenon DEF Discovered, ReplAt, Unlocked, Held
<1>5. k = repl.k
  OBVIOUS
<1> HIDE DEF k
<1>6. PICK w \in Exchange("free") : /\ wire' = [wire EXCEPT ![k] = w]
                                    /\ proc[k] # "live" => w.requests = <<>>
  BY <1>1, <1>2, ReceivedOK
<1>7. Success(client[k]) \in ClientType /\ Shape(Success(client[k]), client[k])
  BY <1>3, SuccessType
<1>8. /\ cl \in ClientType /\ cl.server = client[k].server /\ cl.lock = "free"
      /\ cl.loop = "none"
  BY <1>2, <1>7, HeldType DEF Shape
<1> HIDE DEF cl
<1>9. ClientOK(cl, proc[k], w)
  BY <1>2, <1>6, <1>8, FreedOK
<1>10. Moves(k, cl, proc[k], w)
  BY <1>1, <1>2, <1>4, <1>6, Unmoved DEF Moves
<1>11. /\ repl' \in ReplType /\ repl'.pc = "register" /\ repl'.op = repl.op
       /\ repl'.server = repl.server /\ repl'.k = k /\ repl'.todo = repl.todo
  BY <1>4, <1>5, CommandFacts, ReplAtType DEF Stations
<1>12. CommandOK(repl', mgr')
  BY <1>1, <1>2, <1>5, <1>11, CommandFacts DEF CommandOK, Unpublished, Starting, Ending
<1>13. CatalogOK(repl, mgr, tools)'
  BY <1>1, <1>2, <1>11, CommandFacts DEF CatalogOK
<1>14. NamesOK'
  <2>1. \A j \in Clients : client'[j].server = client[j].server
    BY <1>2, <1>4, <1>8 DEF Inv, TypesOK
  <2> QED
    BY <1>1, <1>2, <1>5, <1>11, <2>1, CommandFacts DEF NamesOK
<1>15. mgr' \in MgrType /\ mgr'.client = mgr.client
  BY <1>1, CommandFacts
<1>16. ~Exchanging(repl') /\ repl'.k = k /\ repl.k = k
  BY <1>5, <1>11 DEF Exchanging
<1> QED
  BY <1>1, <1>2, <1>3, <1>8, <1>9, <1>10, <1>11, <1>12, <1>13, <1>14, <1>15, <1>16,
     CommandStepKeeps

\* The names a command sets and clears in the manager are not those of its clients.
LEMMA WithNamesType ==
  ASSUME NEW m \in MgrType, NEW connecting \in SUBSET Servers, NEW failed \in SUBSET Servers,
         NEW pending \in SUBSET Servers
  PROVE  LET n == WithNames(m, connecting, failed, pending)
         IN n \in MgrType /\ n.mu = m.mu /\ n.client = m.client
  BY DEF WithNames, MgrType

LEMMA StartFailsKeeps ==
  ASSUME Inv, StartFails PROVE Inv'
<1> DEFINE k == repl.k
           connecting == mgr.connecting \ {repl.server}
           failed == IF mgr.closed THEN mgr.failed ELSE mgr.failed \cup {repl.server}
<1>1. /\ repl.pc \in {"spawn", "initialize", "list", "register"} /\ repl.pc \in Unpublished
      /\ repl' = Prompt /\ UNCHANGED <<tools, session, call>>
      /\ Stopping(k, client[k])
  BY DEF StartFails, Unpublished
<1>2. /\ k \in Clients /\ client[k].server = repl.server /\ repl.server \in Servers
      /\ client[k].lock \in {"free", "repl"} /\ client[k].loop = "none"
      /\ repl.op \in {"approve", "connect"} /\ repl.todo = {} /\ mgr.client[repl.server] = 0
  BY <1>1, Alone
<1>3. mgr' \in MgrType /\ mgr'.mu = mgr.mu /\ mgr'.client = mgr.client
  <2>1. mgr' = [mgr EXCEPT !.connecting = connecting, !.failed = failed]
    BY DEF StartFails
  <2>2. connecting \in SUBSET Servers /\ failed \in SUBSET Servers
    BY <1>2, CommandFacts DEF MgrType
  <2> HIDE DEF connecting, failed
  <2> QED
    BY <2>1, <2>2, CommandFacts DEF MgrType
<1>4. k = repl.k /\ client[k] \in ClientType
  BY <1>2, ClientFacts
<1> HIDE DEF k, connecting, failed
<1>5. PICK cl \in ClientType, p \in ProcType :
           /\ Moves(k, cl, p, NoPipe) /\ p \notin {"live", "dead"}
           /\ cl.server = repl.server /\ cl.lock = "free" /\ cl.loop = "none"
  BY <1>1, <1>2, <1>4, StoppingIs
<1>6. ClientOK(cl, p, NoPipe)
  BY <1>2, <1>5, StoppedOK
<1>7. /\ repl' \in ReplType /\ repl'.pc = "idle" /\ repl'.op = "none" /\ repl'.k = 0
      /\ repl'.todo = {}
  BY <1>1, PromptType
<1>8. CommandOK(repl', mgr')
  BY <1>1, <1>3, <1>7, CommandFacts DEF CommandOK, Unpublished, Starting, Ending
<1>9. CatalogOK(repl, mgr, tools)'
  BY <1>1, <1>2, <1>3, <1>7, CommandFacts DEF CatalogOK
<1>10. NamesOK'
  <2>1. \A j \in Clients : client'[j].server = client[j].server
    BY <1>2, <1>5 DEF Moves, Inv, TypesOK
  <2> QED
    BY <1>3, <1>7, <2>1, CommandFacts DEF NamesOK
<1>11. /\ ~Exchanging(repl') /\ repl'.pc \notin Unpublished
  BY <1>7 DEF Exchanging, Unpublished
<1> QED
  BY <1>1, <1>2, <1>3, <1>4, <1>5, <1>6, <1>7, <1>8, <1>9, <1>10, <1>11, CommandStepKeeps

LEMMA StartHealthLoopKeeps ==
  ASSUME Inv, StartHealthLoop PROVE Inv'
<1> DEFINE k == repl.k
           at == IF client[k].running THEN "waiting" ELSE client[k].loop
           cl == InLoop(client[k], at)
           connecting == mgr.connecting \ {repl.server}
           pending == IF repl.op = "approve" THEN mgr.pending \ {repl.server} ELSE mgr.pending
<1>1. /\ repl.pc = "health" /\ client[k].lock = "free" /\ repl' = Prompt
      /\ UNCHANGED <<tools, proc, wire, session, call>>
  BY DEF StartHealthLoop
<1>2. client' = [client EXCEPT ![k] = cl]
  BY Zenon DEF StartHealthLoop, InLoop
<1>3. /\ k \in Clients /\ client[k].server = repl.server /\ repl.server \in Servers
      /\ repl.op \in {"approve", "connect"} /\ repl.todo = {} /\ mgr.client[repl.server] = k
  BY <1>1, CommandFacts DEF CommandOK, NamesOK, Starting
<1>4. mgr' \in MgrType /\ mgr'.mu = mgr.mu /\ mgr'.client = mgr.client
  <2>1. mgr' = [mgr EXCEPT !.connecting = connecting, !.pending = pending]
    BY DEF StartHealthLoop
  <2>2. connecting \in SUBSET Servers /\ pending \in SUBSET Servers
    BY <1>3, CommandFacts DEF MgrType
  <2> HIDE DEF connecting, pending
  <2> QED
    BY <2>1, <2>2, CommandFacts DEF MgrType
<1>5. /\ client[k] \in ClientType /\ proc[k] \in ProcType /\ client[k].loop # "ping"
      /\ wire[k] \in Exchange("free") /\ (proc[k] # "live" => wire[k].requests = <<>>)
  BY <1>1, <1>3, ClientFacts DEF ClientOK
<1>6. at \in {"none", "waiting", "gone"}
  BY <1>5 DEF ClientType
<1>7. k = repl.k
  OBVIOUS
<1> HIDE DEF k, at, connecting, pending
<1>8. /\ cl \in ClientType /\ cl.server = client[k].server /\ cl.lock = client[k].lock
      /\ cl.loop = at
  BY <1>5, <1>6, InLoopType
<1> HIDE DEF cl
<1>9. ClientOK(cl, proc[k], wire[k])
  BY <1>1, <1>3, <1>5, <1>6, <1>8, FreedOK
<1>10. Moves(k, cl, proc[k], wire[k])
  BY <1>1, <1>2, <1>3, Unmoved DEF Moves
<1>11. /\ repl' \in ReplType /\ repl'.pc = "idle" /\ repl'.op = "none" /\ repl'.k = 0
      /\ repl'.todo = {}
  BY <1>1, PromptType
<1>12. CommandOK(repl', mgr')
  BY <1>1, <1>4, <1>11, CommandFacts DEF CommandOK, Unpublished, Starting, Ending
<1>13. CatalogOK(repl, mgr, tools)'
  BY <1>1, <1>3, <1>4, <1>11, CommandFacts DEF CatalogOK
<1>14. NamesOK'
  <2>1. \A j \in Clients : client'[j].server = client[j].server
    BY <1>2, <1>3, <1>8 DEF Inv, TypesOK
  <2> QED
    BY <1>4, <1>11, <2>1, CommandFacts DEF NamesOK
<1>15. /\ ~Exchanging(repl') /\ repl'.pc \notin Unpublished
  BY <1>11 DEF Exchanging, Unpublished
<1> QED
  BY <1>1, <1>3, <1>4, <1>5, <1>7, <1>8, <1>9, <1>10, <1>11, <1>12, <1>13, <1>14, <1>15,
     CommandStepKeeps

LEMMA StopKeeps ==
  ASSUME Inv, Stop PROVE Inv'
<1> DEFINE k == repl.k
<1>1. /\ repl.pc = "stop" /\ client[k].lock = "free" /\ Stopping(k, client[k])
      /\ UNCHANGED <<mgr, tools, session, call>>
  BY DEF Stop
<1>2. /\ k \in Clients /\ client[k].server = repl.server /\ repl.server \in Servers
      /\ repl.op \in {"disconnect", "shutdown"} /\ mgr.client[repl.server] = 0
      /\ repl.op = "disconnect" => repl.todo = {}
  BY <1>1, CommandFacts DEF CommandOK, NamesOK, Ending
<1>3. client[k] \in ClientType /\ client[k].loop # "ping"
  BY <1>1, <1>2, ClientFacts DEF ClientOK
<1>4. k = repl.k
  OBVIOUS
<1> HIDE DEF k
<1>5. PICK cl \in ClientType, p \in ProcType :
           /\ Moves(k, cl, p, NoPipe) /\ p \notin {"live", "dead"}
           /\ cl.server = repl.server /\ cl.lock = "free" /\ cl.loop = client[k].loop
  BY <1>1, <1>2, <1>3, StoppingIs
<1>6. ClientOK(cl, p, NoPipe)
  BY <1>2, <1>3, <1>5, StoppedOK
<1>7. /\ repl' \in ReplType /\ repl'.k = 0 /\ repl'.todo = repl.todo
      /\ \/ repl.op = "disconnect" /\ repl'.pc = "idle" /\ repl'.op = "none"
         \/ repl.op = "shutdown" /\ repl'.pc = "sweep" /\ repl'.op = "shutdown"
  <2>1. CASE repl.op = "shutdown"
    <3>1. repl' = Visiting("shutdown", "sweep", repl.todo)
      BY <2>1 DEF Stop, Visiting
    <3> QED
      BY <2>1, <3>1, CommandFacts, VisitingType DEF Ops, Stations
  <2>2. CASE repl.op = "disconnect"
    <3>1. repl' = Prompt
      BY <2>2 DEF Stop
    <3> QED
      BY <1>2, <2>2, <3>1, PromptType
  <2> QED
    BY <1>2, <2>1, <2>2
<1>8. CommandOK(repl', mgr')
  BY <1>1, <1>2, <1>7, CommandFacts DEF CommandOK, Unpublished, Starting, Ending
<1>9. \A j \in Clients : client'[j].server = client[j].server
  BY <1>2, <1>5 DEF Moves, Inv, TypesOK
<1>10. CatalogOK(repl, mgr, tools)'
  BY <1>1, <1>2, <1>7, <1>9, CommandFacts DEF CatalogOK
<1>11. NamesOK'
  BY <1>1, <1>7, <1>9, CommandFacts DEF NamesOK
<1>12. mgr' \in MgrType /\ mgr'.client = mgr.client
  BY <1>1, CommandFacts
<1>13. /\ ~Exchanging(repl) /\ ~Exchanging(repl') /\ repl'.pc \notin Unpublished
  BY <1>1, <1>7 DEF Exchanging, Unpublished
<1> QED
  BY <1>1, <1>2, <1>4, <1>5, <1>6, <1>7, <1>8, <1>10, <1>11, <1>12, <1>13, CommandStepKeeps

\* A set of natural numbers that is not empty has a least element.
LEMMA LeastNat ==
  ASSUME NEW S \in SUBSET Nat, S # {}
  PROVE  \E n \in S : \A j \in S : n <= j
<1> DEFINE R == OpToRel(<, Nat)
<1>1. \A p, q \in Nat : p < q => <<p, q>> \in R
  BY DEF OpToRel
<1>2. \E x \in S : \A y \in S : <<y, x>> \notin R
  <2> HIDE DEF R
  <2> QED
    BY NatLessThanWellFounded, WFMin DEF R
<1> HIDE DEF R
<1>3. PICK n \in S : \A j \in S : <<j, n>> \notin R
  BY <1>2
<1>4. \A j \in S : j \in Nat /\ n \in Nat /\ ~(j < n)
  BY <1>1, <1>3
<1> QED
  BY <1>3, <1>4

LEMMA StartServerKeeps ==
  ASSUME Inv, NEW s \in Servers, NEW op \in {"approve", "connect"}, StartServer(s, op)
  PROVE  Inv'
<1> DEFINE k == CHOOSE j \in Fresh : \A i \in Fresh : j <= i
           cl == For(s)
           connecting == mgr.connecting \cup {s}
<1>1. /\ repl.pc = "idle" /\ mgr.client[s] = 0 /\ Fresh # {}
      /\ UNCHANGED <<tools, proc, wire, session, call>>
      /\ repl' = Serving(op, "spawn", s, k) /\ client' = [client EXCEPT ![k] = cl]
  BY Zenon DEF StartServer, Serving, For
<1>2. k \in Fresh
  <2>1. Fresh \in SUBSET Nat
    BY DEF Fresh, Clients
  <2>2. \E j \in Fresh : \A i \in Fresh : j <= i
    BY <1>1, <2>1, LeastNat
  <2> QED
    BY <2>2
<1> HIDE DEF k
<1>3. k \in Clients /\ k \in 0..MaxClients /\ k # 0 /\ client[k].server = NoServer
  BY <1>2 DEF Fresh, Clients
<1>4. /\ client[k].lock = "free" /\ proc[k] = "none"
      /\ wire[k] \in Exchange("free") /\ wire[k].requests = <<>>
      /\ \A c \in Callers : ~Knows(c, k)
  BY <1>3, ClientFacts DEF ClientOK, LinksOK, Knows
<1>5. /\ repl.k = 0 /\ repl.op = "none" /\ repl.todo = {} /\ mgr.mu = "free"
  BY <1>1, CommandFacts DEF CommandOK, MgrType, Starting, Ending, Unpublished
<1>6. mgr' \in MgrType /\ mgr'.mu = mgr.mu /\ mgr'.client = mgr.client
  <2>1. mgr' = [mgr EXCEPT !.connecting = connecting]
    BY DEF StartServer
  <2>2. connecting \in SUBSET Servers
    BY CommandFacts DEF MgrType
  <2> HIDE DEF connecting
  <2> QED
    BY <2>1, <2>2, CommandFacts DEF MgrType
<1>7. cl \in ClientType /\ cl.server = s /\ cl.lock = "free" /\ cl.loop = "none"
  BY ForType
<1> HIDE DEF cl, connecting
<1>8. ClientOK(cl, "none", wire[k]) /\ "none" \in ProcType
  BY <1>4, <1>7 DEF ProcType, ClientOK
<1>9. Moves(k, cl, "none", wire[k])
  BY <1>1, <1>3, <1>4, Unmoved DEF Moves
<1>10. /\ repl' \in ReplType /\ repl'.pc = "spawn" /\ repl'.op = op /\ repl'.server = s
       /\ repl'.k = k /\ repl'.todo = {}
  BY <1>1, <1>3, ServingType DEF Ops, Stations
<1>11. CommandOK(repl', mgr')
  BY <1>1, <1>3, <1>5, <1>6, <1>10 DEF CommandOK, Unpublished, Starting, Ending
<1>12. CatalogOK(repl, mgr, tools)'
  BY <1>1, <1>5, <1>6, <1>10, CommandFacts DEF CatalogOK
<1>13. NamesOK'
  <2>1. /\ client'[k].server = s
        /\ \A j \in Clients \ {k} : client'[j].server = client[j].server
    BY <1>1, <1>3, <1>7 DEF Inv, TypesOK
  <2>2. \A x \in Servers : mgr.client[x] # 0 => client'[mgr.client[x]].server = x
    BY <1>3, <2>1, CommandFacts DEF NamesOK
  <2> QED
    BY <1>6, <1>10, <2>1, <2>2 DEF NamesOK
<1>14. ~Exchanging(repl) /\ ~Exchanging(repl')
  BY <1>1, <1>10 DEF Exchanging
<1> QED
  BY <1>1, <1>3, <1>4, <1>5, <1>6, <1>7, <1>8, <1>9, <1>10, <1>11, <1>12, <1>13, <1>14,
     CommandStepKeeps

-----------------------------------------------------------------------------
(* The invariant. *)

LEMMA InitOK == Init => Inv
<1> SUFFICES ASSUME Init PROVE Inv
  OBVIOUS
<1>1. PICK staged \in SUBSET Servers :
        mgr = [mu |-> "free", client |-> [s \in Servers |-> 0], pending |-> staged,
               failed |-> {}, connecting |-> {}, closed |-> FALSE]
  BY DEF Init
<1>2. mgr \in MgrType /\ mgr.mu = "free" /\ \A s \in Servers : mgr.client[s] = 0
  BY <1>1 DEF MgrType
<1>3. NewClient \in ClientType /\ NewClient.server = NoServer /\ NewClient.lock = "free"
      /\ NewClient.loop = "none"
  BY DEF NewClient, ClientType
<1>4. NoPipe \in Pipes
  BY NoPipeFacts DEF Exchange
<1>5. TypesOK
  BY <1>2, <1>3, <1>4, PromptType, NoCallType DEF Init, TypesOK, ProcType
<1>6. CommandOK(repl, mgr) /\ CatalogOK(repl, mgr, tools) /\ NamesOK
  BY <1>2, PromptType
     DEF Init, CommandOK, CatalogOK, NamesOK, Unpublished, Starting, Ending
<1>7. CallsOK
  BY NoCallType DEF Init, CallsOK
<1>8. ASSUME NEW k \in Clients
      PROVE  ClientOK(client[k], proc[k], wire[k]) /\ LinksOK(k)
  <2>1. client[k] = NewClient /\ proc[k] = "none" /\ wire[k] = NoPipe
    BY DEF Init
  <2>2. ClientOK(client[k], proc[k], wire[k])
    BY <1>3, <2>1, StoppedOK
  <2>3. LinksOK(k)
    BY <1>3, <2>1, PromptType, NoCallType DEF Init, LinksOK, Unpublished
  <2> QED
    BY <2>2, <2>3
<1> QED
  BY <1>5, <1>6, <1>7, <1>8 DEF Inv

LEMMA NextKeeps == Inv /\ [Next \/ Finished]_vars => Inv'
<1> SUFFICES ASSUME Inv, [Next \/ Finished]_vars PROVE Inv'
  OBVIOUS
<1>1. CASE UNCHANGED vars
  BY <1>1 DEF vars, Inv, TypesOK, CommandOK, CatalogOK, NamesOK, CallsOK, ClientOK, LinksOK
<1>2. CASE Command
  BY <1>2, DisconnectKeeps, StartServerKeeps, StatusKeeps, ShutdownKeeps DEF Command
<1>3. CASE CommandStep
  BY <1>3, SpawnKeeps, InitializedKeeps, DiscoveredKeeps, StartFailsKeeps, RegisterKeeps,
     PublishKeeps, UnregisterKeeps, SweptKeeps, SweepKeeps DEF CommandStep
<1>4. CASE CommandWaiting
  BY <1>4, StartHealthLoopKeeps, StopKeeps, HealthKeeps DEF CommandWaiting
<1>5. CASE Terminate
  BY <1>5, TerminateKeeps
<1>6. ASSUME NEW c \in Callers, CallStep(c) \/ CallWaiting(c) \/ Expire(c) PROVE Inv'
  BY <1>6, LookupKeeps, ReceiveKeeps, InterruptedKeeps, RefusedKeeps, AskKeeps, ExpireKeeps
     DEF CallStep, CallWaiting
<1>7. ASSUME NEW c \in Callers, NEW s \in Servers, Call(c, s) PROVE Inv'
  BY <1>7, CallKeeps
<1>8. ASSUME NEW k \in Clients, Ping(k) \/ LoopStep(k) \/ LoopEnds(k) PROVE Inv'
  BY <1>8, PingKeeps, PongKeeps, PingAbortedKeeps, LoopEndsKeeps DEF LoopStep
<1>10. ASSUME NEW k \in Clients, Answer(k) \/ Volunteer(k) \/ Die(k) PROVE Inv'
  BY <1>10, AnswerKeeps, VolunteerKeeps, DieKeeps
<1>9. Finished => UNCHANGED vars
  BY DEF Finished
<1> QED
  BY <1>1, <1>2, <1>3, <1>4, <1>5, <1>6, <1>7, <1>8, <1>9, <1>10, Zenon DEF Next

\* The invariant that carries the others, over the steps of commands, calls, health loops
\* and servers.
THEOREM InvHolds == Spec => []Inv
  BY InitOK, NextKeeps, PTL DEF Spec

-----------------------------------------------------------------------------
(* What it says of the properties. *)

LEMMA InvTypes == Inv => TypeOK
<1> SUFFICES ASSUME Inv PROVE TypeOK
  OBVIOUS
<1>1. ASSUME NEW k \in Clients
      PROVE  /\ wire[k].requests \in Seq([by : Actors, kind : Kinds])
             /\ wire[k].answers \in Seq([to : Actors \cup {"nobody"}, ok : BOOLEAN])
             /\ wire[k].unasked \in Nat
  <2>1. wire[k] \in Exchange(client[k].lock)
    BY ClientFacts
  <2> QED
    BY <2>1, ExchangeFacts DEF Requests, Lines
<1>2. TypesOK /\ CallsOK
  BY DEF Inv
<1> QED
  BY <1>1, <1>2 DEF TypeOK, TypesOK, CallsOK, MgrType, ClientType, ProcType, ReplType, CallType

\* A tool the model can see belongs to a server a call can find, whatever command runs: the
\* tools appear and the client is entered under one hold of the manager's mutex.
THEOREM PublishedTogetherHolds == Spec => []PublishedTogether
<1>1. Inv => PublishedTogether
  <2> SUFFICES ASSUME Inv PROVE PublishedTogether
    OBVIOUS
  <2>1. TypeOK
    BY InvTypes
  <2>2. ASSUME mgr.mu = "free", NEW s \in Servers, s \in tools, mgr.client[s] = 0
        PROVE  /\ repl.op \in {"disconnect", "shutdown"}
               /\ \/ repl.pc = "unregister" /\ repl.server = s
                  \/ \E k \in repl.todo : client[k].server = s
    BY <2>2, CommandFacts DEF CommandOK, CatalogOK, Ending
  <2>3. \A s \in Servers : mgr.client[s] # 0 => s \in tools
    BY CommandFacts DEF CatalogOK
  <2> QED
    BY <2>1, <2>2, <2>3 DEF PublishedTogether
<1> QED
  BY <1>1, InvHolds, PTL

\* Unless a server writes what it was not asked for, whoever holds a client reads the answer
\* to its own request and to no cancelled one; and the answers are never behind by more than
\* the lines written unasked: whoever breaks off an exchange closes the pipes.
THEOREM OwnAnswerHolds == Spec => []OwnAnswer
<1>1. Inv => OwnAnswer
  BY ClientFacts, ExchangeFacts DEF OwnAnswer, Bounded, InTurn, Due
<1> QED
  BY <1>1, InvHolds, PTL

\* No server process is left without an owner: the manager holds its client, or the command
\* that runs is about to publish or to stop it.
THEOREM NoOrphansHolds == Spec => []NoOrphans
<1>1. Inv => NoOrphans
  <2> SUFFICES ASSUME Inv, NEW k \in Clients, proc[k] \in {"live", "dead"}
               PROVE  \/ mgr.client[client[k].server] = k
                      \/ repl.pc # "idle" /\ repl.k = k
                      \/ k \in repl.todo
    BY DEF NoOrphans
  <2>1. mgr.client[client[k].server] = k \/ repl.k = k \/ k \in repl.todo
    BY ClientFacts DEF LinksOK
  <2>2. repl.k = k => repl.pc # "idle"
    BY CommandFacts DEF CommandOK, Clients, Starting, Unpublished, Ending
  <2> QED
    BY <2>1, <2>2
<1> QED
  BY <1>1, InvHolds, PTL
=============================================================================
