---------------------------- MODULE Conversation ----------------------------
(***************************************************************************)
(* The conversation of the lead in its three forms: the message list in    *)
(* memory that a turn extends and compacts (internal/agent/compression.go, *)
(* the list operations of runner.go), the append-only history file         *)
(* (internal/history/history.go) and the list a new process rebuilds from  *)
(* it.  internal/repl/turn.go ties them together with an index into the    *)
(* list, the boundary between what is on file and what is not.             *)
(*                                                                         *)
(* A message is its kind and, if it is ever persisted, its identity: user  *)
(* and assistant messages are numbered in the order they are said, a tool  *)
(* result has its assistant's number and its place in the batch.  A        *)
(* summary is the set of messages it tells of.  Contents are left out: the *)
(* in-place rewriting of old tool results by MicroCompact changes nothing  *)
(* here, and ensureToolCallPairing finds every call answered (part of      *)
(* ContextPaired).  When compaction is due is the environment's choice.    *)
(***************************************************************************)
EXTENDS Naturals, Sequences, FiniteSetsExt

CONSTANTS
  KeepRecent,  \* KeepRecentMessages
  MaxCalls,    \* most tool calls of one assistant message
  MaxSaid,     \* bound: user and assistant messages ever made
  MaxCheckpoints, \* bound: compactions that write a checkpoint
  Extras,      \* kinds of messages that are added and never persisted
  IOFaults     \* whether appending to and syncing the file may fail

ASSUME ConversationAssumption ==
  /\ KeepRecent \in Nat \ {0} /\ MaxCalls \in Nat /\ MaxSaid \in Nat /\ MaxCheckpoints \in Nat
  /\ Extras \subseteq {"inbox", "session", "recall", "nudge"}
  /\ IOFaults \in BOOLEAN

VARIABLES
  msgs,     \* the message list of the REPL and, during a turn, of the runner
  log,      \* the lines of history.jsonl
  written,  \* Store.written
  pc,       \* where runUserTurn is
  before,   \* its boundary: messages before it count as persisted
  saved,    \* userHistorySaved
  queue,    \* messages[before:] still to be appended to the file
  said      \* how many numbers are given out

vars == <<msgs, log, written, pc, before, saved, queue, said>>

Note(kind) == [kind |-> kind]
Said(kind, id, n) == [kind |-> kind, id |-> id, n |-> n]
Summary(of) == [kind |-> "summary", of |-> of]
Checkpoint(of, to) == [kind |-> "checkpoint", of |-> of, to |-> to]

System == Note("system")
Ack == Note("ack")

IsUser(m) == m.kind \in {"user", "summary", "nudge", "session", "recall"}
IsAssistant(m) == m.kind \in {"assistant", "ack"}
HasCalls(m) == m.kind = "assistant" /\ m.n > 0
IsSaid(m) == m.kind \in {"user", "assistant", "tool"}
IsPersisted(m) == m.kind \in {"assistant", "tool"}
IsEphemeralNudge(m) == m.kind \in {"nudge", "session"}
IsInjectedTurnContext(m) == m.kind \in {"session", "recall"}

\* The elements of s at the positions in S, by the rank of these.
Rank(S, i) == Cardinality({j \in S : j <= i})
Place(S, k) == CHOOSE i \in S : Rank(S, i) = k
Kept(s, S) == [k \in 1..Cardinality(S) |-> s[Place(S, k)]]

\* The messages a list tells of, verbatim or in a summary.
Verbatim(ms) == {ms[i] : i \in {j \in DOMAIN ms : IsSaid(ms[j])}}
Told(ms) == Verbatim(ms) \cup UNION {ms[i].of : i \in {j \in DOMAIN ms : ms[j].kind = "summary"}}

-----------------------------------------------------------------------------
(* Compaction.  Go indexes from 0: a split s cuts before ms[s + 1].         *)

\* Mutant of IsSafeSplit: the message after the cut is not looked at.
IsSafeSplitCallsOnly(ms, s) == s > 0 /\ s < Len(ms) /\ ~HasCalls(ms[s])

IsSafeSplit(ms, s) ==
  /\ s > 0 /\ s < Len(ms)
  /\ ms[s + 1].kind # "tool"
  /\ ~HasCalls(ms[s])

\* findCompactionSplit: the latest safe cut that keeps KeepRecent messages,
\* rather one before a user message if that costs at most KeepRecent more.
FindCompactionSplit(ms) ==
  LET desired == Len(ms) - KeepRecent
      safe == {s \in 1..Len(ms) : IsSafeSplit(ms, s)}
      enough == {s \in safe : s <= desired}
      users == {s \in enough : IsUser(ms[s + 1]) /\ s + KeepRecent >= desired}
  IN CASE Len(ms) <= KeepRecent \/ safe = {} -> 0
       [] users # {} -> Max(users)
       [] users = {} /\ enough # {} -> Max(enough)
       [] OTHER -> Min(safe)

MonusOf(a, b) == IF a > b THEN a - b ELSE 0

\* compactedHistoryCoverage: entries on file minus the messages of the tail
\* that are taken to be on file.
CompactedHistoryCoverage(count, split, end) ==
  LET tail == MonusOf(IF end < count THEN end ELSE count, split)
  IN MonusOf(written, tail)

\* Mutant of RemapPersistedBoundary: the whole tail is taken to be unsaved.
RemapToTail(b, split) == 3

RemapPersistedBoundary(b, split) == 3 + MonusOf(b, split)

Checkpoints == Cardinality({i \in DOMAIN log : log[i].kind = "checkpoint"})

\* AutoCompact of list, whose first end messages count as persisted; bounds
\* says whether the caller passed its boundary along.  The checkpoint is on
\* file before the list is replaced, and stays there if syncing it fails.
AutoCompact(list, end, bounds) ==
  LET split == FindCompactionSplit(list)
      of == Told(SubSeq(list, 1, split))
      covered == CompactedHistoryCoverage(Len(list), split, end)
  IN \/ msgs' = list /\ UNCHANGED <<log, written, before>>
     \/ /\ split > 0 /\ covered > 0 /\ Checkpoints < MaxCheckpoints
        /\ log' = Append(log, Checkpoint(of, covered))
        /\ written' = written + 1
        /\ \/ /\ msgs' = <<System, Summary(of), Ack>> \o SubSeq(list, split + 1, Len(list))
              /\ before' = IF bounds THEN RemapPersistedBoundary(before, split) ELSE before
           \/ IOFaults /\ msgs' = list /\ UNCHANGED before

-----------------------------------------------------------------------------
(* A turn of the user. *)

\* dropConsumedNudges: nudges before the last assistant message go.
DropConsumedNudges(ms) ==
  LET assistants == {i \in DOMAIN ms : IsAssistant(ms[i])}
      last == IF assistants = {} THEN 0 ELSE Max(assistants)
  IN Kept(ms, {i \in DOMAIN ms : ~(i < last /\ IsEphemeralNudge(ms[i]))})

StripInjectedTurnContext(ms) == Kept(ms, {i \in DOMAIN ms : ~IsInjectedTurnContext(ms[i])})

Maybe(kind) == {<<>>} \cup (IF kind \in Extras THEN {<<Note(kind)>>} ELSE {})

\* runUserTurn up to Run, and injectTurnContext.  The user's line is written
\* and synced, not written, or written and not synced.
StartTurn ==
  /\ pc = "idle" /\ said < MaxSaid
  /\ \E fate \in IF IOFaults THEN {"saved", "lost", "unsynced"} ELSE {"saved"},
        inbox \in Maybe("inbox"), session \in Maybe("session"), recall \in Maybe("recall") :
       LET line == Said("user", said + 1, 0)
           list == msgs \o inbox \o <<line>>
       IN /\ log' = IF fate = "lost" THEN log ELSE Append(log, line)
          /\ written' = IF fate = "lost" THEN written ELSE written + 1
          /\ saved' = (fate = "saved")
          /\ before' = IF fate = "saved" THEN Len(list) ELSE Len(list) - 1
          /\ msgs' = list \o session \o recall
  /\ said' = said + 1
  /\ pc' = "top"
  /\ UNCHANGED queue

\* prepareRound: consumed nudges go, then compaction if it is due.
PrepareRound ==
  /\ pc = "top" /\ pc' = "model"
  /\ AutoCompact(DropConsumedNudges(msgs), before, TRUE)
  /\ UNCHANGED <<saved, queue, said>>

\* The planning gate, reflection, or the limit message of the last round.
Nudge ==
  /\ pc = "model" /\ "nudge" \in Extras
  /\ msgs[Len(msgs)] # Note("nudge")
  /\ msgs' = msgs \o <<Note("nudge")>>
  /\ UNCHANGED <<log, written, pc, before, saved, queue, said>>

\* callModel and what follows it: all calls are answered, nudges come after
\* them, and the turn goes on, ends, or compacts because the model asked to.
CallModel ==
  /\ pc = "model" /\ said < MaxSaid
  /\ \E n \in 0..MaxCalls, nudge \in Maybe("nudge") :
       LET reply == Said("assistant", said + 1, n)
           results == [k \in 1..n |-> Said("tool", said + 1, k)]
       IN /\ msgs' = msgs \o (<<reply>> \o results) \o nudge
          /\ pc' \in IF n > 0 THEN {"top", "compress", "end"}
                     ELSE IF nudge # <<>> THEN {"top"} ELSE {"end"}
  /\ said' = said + 1
  /\ UNCHANGED <<log, written, before, saved, queue>>

\* The compress tool: AutoCompact once the batch is done.
CompressTool ==
  /\ pc = "compress" /\ pc' \in {"top", "end"}
  /\ AutoCompact(msgs, before, TRUE)
  /\ UNCHANGED <<saved, queue, said>>

\* A canceled context or an error of the gateway.
TurnFails ==
  /\ pc \in {"top", "model"} /\ pc' = "end"
  /\ UNCHANGED <<msgs, log, written, before, saved, queue, said>>

\* The rest of runUserTurn: messages[before:], clamped to the list ...
EndTurn ==
  /\ pc = "end"
  /\ msgs' = StripInjectedTurnContext(msgs)
  /\ queue' = IF saved THEN Kept(msgs', {i \in (before + 1)..Len(msgs') : IsPersisted(msgs'[i])})
              ELSE <<>>
  /\ pc' = IF queue' = <<>> THEN "idle" ELSE "save"
  /\ before' = 0 /\ saved' = TRUE
  /\ UNCHANGED <<log, written, said>>

\* ... is appended entry by entry, up to the first error.
PersistAgentHistory ==
  /\ pc = "save"
  /\ \/ /\ log' = Append(log, Head(queue)) /\ written' = written + 1
        /\ queue' = Tail(queue)
     \/ IOFaults /\ queue' = <<>> /\ UNCHANGED <<log, written>>
  /\ pc' = IF queue' = <<>> THEN "idle" ELSE "save"
  /\ UNCHANGED <<msgs, before, saved, said>>

\* /compact at the prompt: no boundary, the whole list counts as persisted.
ManualCompact ==
  /\ pc = "idle"
  /\ AutoCompact(msgs, Len(msgs), FALSE)
  /\ UNCHANGED <<pc, saved, queue, said>>

-----------------------------------------------------------------------------
(* A new process. *)

ValidRuntimeCheckpoint(i) ==
  log[i].kind = "checkpoint" /\ log[i].to >= 1 /\ log[i].to <= i - 1

\* The tool results that follow position i directly.
Run(ms, i) == {j \in (i + 1)..Len(ms) : \A k \in (i + 1)..j : ms[k].kind = "tool"}

\* trimDanglingToolCalls: results before any call, assistants whose calls are
\* not all answered with what answers they have, and users nobody answered.
DropOrphans(ms) ==
  Kept(ms, {i \in DOMAIN ms : ms[i].kind = "tool" => \E j \in 1..(i - 1) : HasCalls(ms[j])})

Unanswered(ms, i) ==
  HasCalls(ms[i]) /\ Cardinality({j \in Run(ms, i) : ms[j].id = ms[i].id}) < ms[i].n

DropIncomplete(ms) ==
  LET broken == {i \in DOMAIN ms : Unanswered(ms, i)}
  IN Kept(ms, DOMAIN ms \ (broken \cup UNION {Run(ms, i) : i \in broken}))

DropTrailingUsers(ms) ==
  SubSeq(ms, 1, Max({0} \cup {i \in DOMAIN ms : ~IsUser(ms[i])}))

TrimDanglingToolCalls(ms) == DropTrailingUsers(DropIncomplete(DropOrphans(ms)))

\* LoadRuntime: from the newest valid checkpoint, what it does not cover.
ValidCheckpoints == {i \in DOMAIN log : ValidRuntimeCheckpoint(i)}
Newest == log[Max(ValidCheckpoints)]

Covered == IF ValidCheckpoints = {} THEN 0 ELSE Newest.to

Uncovered == Kept(log, {i \in (Covered + 1)..Len(log) : IsSaid(log[i])})

LoadRuntime ==
  TrimDanglingToolCalls(
    (IF ValidCheckpoints = {} THEN <<System>> ELSE <<System, Summary(Newest.of), Ack>>)
      \o Uncovered)

\* The process ends at any point, and the session is opened again.
Restart ==
  /\ msgs' = LoadRuntime
  /\ written' = Len(log)
  /\ pc' = "idle" /\ before' = 0 /\ saved' = TRUE /\ queue' = <<>>
  /\ UNCHANGED <<log, said>>

-----------------------------------------------------------------------------
Init ==
  /\ msgs = <<System>> /\ log = <<>> /\ written = 0
  /\ pc = "idle" /\ before = 0 /\ saved = TRUE /\ queue = <<>> /\ said = 0

TurnStep ==
  \/ StartTurn \/ PrepareRound \/ Nudge \/ CallModel \/ CompressTool
  \/ TurnFails \/ EndTurn \/ PersistAgentHistory

Next == TurnStep \/ ManualCompact \/ Restart

Spec == Init /\ [][Next]_vars

-----------------------------------------------------------------------------
(* Properties. *)

Message ==
  {Note(k) : k \in {"system", "ack", "inbox", "session", "recall", "nudge"}}
    \cup [kind : {"user", "assistant", "tool"}, id : 1..MaxSaid, n : 0..MaxCalls]
IsMessage(m) == m \in Message \/ (m.kind = "summary" /\ m.of \subseteq Message)
IsEntry(e) ==
  IF e.kind = "checkpoint" THEN e.of \subseteq Message ELSE e \in Message /\ IsSaid(e)

TypeOK ==
  /\ \A i \in DOMAIN msgs : IsMessage(msgs[i])
  /\ \A i \in DOMAIN log : IsEntry(log[i])
  /\ written = Len(log)
  /\ pc \in {"idle", "top", "model", "compress", "end", "save"}
  /\ before \in Nat /\ saved \in BOOLEAN /\ said \in 0..MaxSaid
  /\ \A i \in DOMAIN queue : queue[i] \in Message

Earlier(e, f) ==
  \/ e.id < f.id
  \/ /\ e.id = f.id /\ f.kind = "tool"
     /\ e.kind = "assistant" \/ (e.kind = "tool" /\ e.n < f.n)

\* The file holds a message at most once and in the order it was said, however
\* often the list was compacted, trimmed and rebuilt while the boundary of a
\* turn pointed into it.
LogInOrder ==
  /\ TypeOK
  /\ \A i, j \in DOMAIN log : i < j /\ IsSaid(log[i]) /\ IsSaid(log[j]) => Earlier(log[i], log[j])

\* Every result on file has its assistant message on file.
LogWhole ==
  \A i \in DOMAIN log : log[i].kind = "tool" =>
    \E j \in 1..(i - 1) : log[j].kind = "assistant" /\ log[j].id = log[i].id

Answered(ms) ==
  \A i \in DOMAIN ms : HasCalls(ms[i]) => \A k \in 1..ms[i].n :
    i + k <= Len(ms) /\ ms[i + k] = Said("tool", ms[i].id, k)

NoOrphans(ms) ==
  \A i \in DOMAIN ms : ms[i].kind = "tool" =>
    /\ i > ms[i].n
    /\ ms[i - ms[i].n].kind = "assistant" /\ ms[i - ms[i].n].id = ms[i].id

\* Providers refuse a request whose tool calls and results do not match.  A
\* call is always followed by its results, and a result always follows its
\* call as long as every result on file has its assistant on file: neither
\* compaction nor a restart after a crash in the middle of saving a turn, nor
\* a checkpoint that covers half a block, cuts a block in two.
ContextPaired ==
  /\ Answered(msgs)
  /\ LogWhole => NoOrphans(msgs)

\* AutoCompact: "persisted tail messages remain recoverable verbatim even though
\* the checkpoint is appended after them".  What the list keeps and is on file
\* is not covered by the newest checkpoint.
TailRecoverable ==
  ValidCheckpoints # {} => Verbatim(msgs) \cap Verbatim(log) \subseteq Verbatim(Uncovered)

=============================================================================
