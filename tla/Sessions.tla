------------------------------ MODULE Sessions ------------------------------
(***************************************************************************)
(* Sessions on disk (internal/session, internal/application): every        *)
(* session has a directory with its metadata and its history; an index     *)
(* lists the sessions and names the active one.  The main goroutine opens, *)
(* runs and leaves sessions; each opening starts a backfill goroutine that *)
(* distills the sessions left behind into long-term memory.                *)
(*                                                                         *)
(* A file is replaced in one step (store.AtomicWritePrivate); an update of *)
(* two files is several steps, under the repository's mutex where the code *)
(* takes it.  The process may end between any two steps.                   *)
(***************************************************************************)
EXTENDS Integers, FiniteSets

CONSTANTS
  Ids,       \* session identifiers
  NoId,
  NoState,   \* no metadata file, no entry in the index
  Main,      \* the main goroutine
  Workers,   \* bound: backfill goroutines at the same time
  Window,    \* how much of a history is distilled: its last Window entries
  PerTurn,   \* entries a turn adds to the history
  MaxTalk,   \* bound: entries of a history
  MaxTitle   \* bound: renamings of a session

ASSUME SessionsAssumption ==
  /\ NoId \notin Ids /\ Workers # {} /\ Main \notin Workers
  /\ Window \in Nat \ {0} /\ PerTurn \in Nat \ {0} /\ MaxTalk \in Nat /\ MaxTitle \in Nat

VARIABLES
  meta,     \* meta.json of each session: title (a version number), status, saved
  index,    \* sessions.json: whether it exists, active_id, the entry of each session
  history,  \* number of entries in the history file of each session
  kept,     \* long-term memory: the entries of each session it was distilled from
  app,      \* main goroutine: where it is, its session, the index openSession loaded,
            \* requiresActivation
  worker,   \* backfill goroutines: where each is, the sessions left to do, the one in
            \* hand, the entries it read of it, whether their insights were lost on the way
  update,   \* of each goroutine, the update of the repository it is in: how far it is,
            \* the operation, the session, the metadata it loaded
  torn      \* history: sessions with an update that stopped between the two files

disk == <<meta, index, history, kept>>
vars == <<meta, index, history, kept, app, worker, update, torn>>

State == [title : 0..MaxTitle, status : {"active", "archived"}, saved : BOOLEAN]
ASSUME NoStateAssumption == NoState \notin State

NewState == [title |-> 0, status |-> "active", saved |-> FALSE]
NoIndex == [exists |-> FALSE, active |-> NoId, entries |-> [s \in Ids |-> NoState]]
Off == [pc |-> "off", id |-> NoId, idx |-> NoIndex, activate |-> FALSE]
Idle == [pc |-> "idle", todo |-> {}, id |-> NoId, seen |-> 0, lost |-> FALSE]
Ready(todo) == [Idle EXCEPT !.pc = "next", !.todo = todo]
NoUpdate == [phase |-> "none", op |-> "none", id |-> NoId, st |-> NoState]

Actors == Workers \cup {Main}

Init ==
  /\ meta = [s \in Ids |-> NoState]
  /\ index = NoIndex
  /\ history = [s \in Ids |-> 0]
  /\ kept = [s \in Ids |-> {}]
  /\ app = Off
  /\ worker = [w \in Workers |-> Idle]
  /\ update = [a \in Actors |-> NoUpdate]
  /\ torn = {}

(***************************************************************************)
(* The repository                                                          *)
(***************************************************************************)
\* Repository.mu is held by the goroutine in the middle of an update.
MutexFree == \A a \in Actors : update[a] = NoUpdate

\* loadIndexLocked: sessions on disk that the index misses are added to it; without
\* an index file there is nothing to add them to.
Loaded ==
  IF ~index.exists THEN NoIndex
  ELSE [index EXCEPT !.entries =
          [s \in Ids |-> IF index.entries[s] # NoState THEN index.entries[s] ELSE meta[s]]]
Written(idx) == [idx EXCEPT !.exists = TRUE]

\* Mutant of Begin: the mutex is not taken.
BeginUnlocked(a, op, id) ==
  /\ update[a] = NoUpdate
  /\ update' = [update EXCEPT
       ![a] = [phase |-> "loaded", op |-> op, id |-> id, st |-> meta[id]]]

\* RenameSession, ArchiveSession and MarkMemorySaved take the mutex, load the
\* metadata ...
Begin(a, op, id) ==
  /\ MutexFree
  /\ update' = [update EXCEPT
       ![a] = [phase |-> "loaded", op |-> op, id |-> id, st |-> meta[id]]]

\* ... save it with one field changed ...
SaveMeta(a) ==
  LET u == update[a]
      st == CASE u.op = "rename"  -> [u.st EXCEPT !.title = @ + 1]
              [] u.op = "archive" -> [u.st EXCEPT !.status = "archived"]
              [] u.op = "mark"    -> [u.st EXCEPT !.saved = TRUE]
  IN /\ u.phase = "loaded"
     /\ meta' = [meta EXCEPT ![u.id] = st]
     /\ update' = [update EXCEPT ![a].phase = "saved", ![a].st = st]
     /\ UNCHANGED <<index, history, kept, app, worker, torn>>

\* Mutant of Reindexed: the entry is changed in memory and never saved.
ReindexedUnsaved(u) == index

\* ... and change the same field in the session's entry of the index; an archived
\* session is no longer the active one.
Reindexed(u) ==
  LET idx == Loaded
      entry == CASE u.op = "rename"  -> [idx.entries[u.id] EXCEPT !.title = u.st.title]
                 [] u.op = "archive" -> [idx.entries[u.id] EXCEPT !.status = "archived"]
                 [] u.op = "mark"    -> [idx.entries[u.id] EXCEPT !.saved = TRUE]
      active == IF u.op = "archive" /\ idx.active = u.id THEN NoId ELSE idx.active
  IN IF idx.entries[u.id] # NoState
     THEN Written([idx EXCEPT !.entries[u.id] = entry, !.active = active])
     ELSE IF u.op = "archive" THEN Written([idx EXCEPT !.active = active]) ELSE index

\* The goroutine goes on: after /session archive the main goroutine builds a new
\* session, a backfill goroutine takes the next one.
GoesOn(a, done) ==
  /\ app' = IF a = Main /\ update[a].op = "archive" /\ done
            THEN [app EXCEPT !.pc = "archived"] ELSE app
  /\ worker' = IF a \in Workers
               THEN [worker EXCEPT ![a] = Ready(worker[a].todo)] ELSE worker
  /\ update' = [update EXCEPT ![a] = NoUpdate]

SaveIndex(a) ==
  /\ update[a].phase = "saved"
  /\ index' = Reindexed(update[a])
  /\ GoesOn(a, TRUE)
  /\ UNCHANGED <<meta, history, kept, torn>>

\* A write fails and the error is reported; the metadata is not rolled back.
UpdateFails(a) ==
  /\ update[a] # NoUpdate
  /\ torn' = IF update[a].phase = "saved" THEN torn \cup {update[a].id} ELSE torn
  /\ GoesOn(a, FALSE)
  /\ UNCHANGED disk

(***************************************************************************)
(* Opening a session: Application.Build                                    *)
(***************************************************************************)
AtPrompt == app.pc = "prompt" /\ update[Main] = NoUpdate
Opened(id, idx) ==
  [pc |-> "activate", id |-> id, idx |-> NoIndex, activate |-> idx.active # id]

\* openSession for a new session: --new-session, no active session, /session new,
\* after /session archive.  NewSessionID is fresh.
OpenNew ==
  /\ app.pc \in {"off", "archived"} \/ AtPrompt
  /\ MutexFree
  /\ \E id \in {s \in Ids : meta[s] = NoState} :
       app' = [Off EXCEPT !.pc = "create", !.id = id, !.idx = Loaded]
  /\ UNCHANGED <<disk, worker, update, torn>>

\* openSession for the active session of the index, --session or /session switch.
OpenExisting(id) ==
  /\ app.pc = "off" \/ AtPrompt
  /\ MutexFree /\ meta[id] # NoState
  /\ app' = Opened(id, Loaded)
  /\ UNCHANGED <<disk, worker, update, torn>>

CreateSession ==
  /\ app.pc = "create"
  /\ meta' = [meta EXCEPT ![app.id] = NewState]
  /\ app' = [app EXCEPT !.pc = "list"]
  /\ UNCHANGED <<index, history, kept, worker, update, torn>>

\* SaveIndex of the index loaded before: what changed in between is overwritten.
ListSession ==
  /\ app.pc = "list" /\ MutexFree
  /\ LET idx == [app.idx EXCEPT !.entries[app.id] = NewState]
     IN /\ index' = Written(idx)
        /\ app' = Opened(app.id, idx)
  /\ UNCHANGED <<meta, history, kept, worker, update, torn>>

\* Mutant of Activate: only a session without history is made the active one.
ActivateNew ==
  /\ app.pc = "activate" /\ MutexFree
  /\ app.activate => Loaded.entries[app.id] # NoState
  /\ index' = IF app.activate /\ history[app.id] = 0
              THEN Written([Loaded EXCEPT !.active = app.id]) ELSE index
  /\ app' = [app EXCEPT !.pc = "backfill", !.activate = FALSE]
  /\ UNCHANGED <<meta, history, kept, worker, update, torn>>

\* The services are built, then SwitchActive if the loaded index named another
\* session: the session must be in the index or be added to it.
Activate ==
  /\ app.pc = "activate" /\ MutexFree
  /\ app.activate => Loaded.entries[app.id] # NoState
  /\ index' = IF app.activate THEN Written([Loaded EXCEPT !.active = app.id]) ELSE index
  /\ app' = [app EXCEPT !.pc = "backfill", !.activate = FALSE]
  /\ UNCHANGED <<meta, history, kept, worker, update, torn>>

\* StartMemoryBackfill: a goroutine gets the sessions that are neither saved nor
\* archived nor this one.
StartBackfill ==
  /\ app.pc = "backfill" /\ MutexFree
  /\ LET todo == {s \in Ids \ {app.id} :
                    /\ Loaded.entries[s] # NoState /\ meta[s] # NoState
                    /\ meta[s].status # "archived" /\ ~meta[s].saved}
     IN \/ todo = {} /\ UNCHANGED worker
        \/ /\ todo # {}
           /\ \E w \in Workers :
                /\ worker[w].pc = "idle"
                /\ worker' = [worker EXCEPT ![w] = Ready(todo)]
  /\ app' = [app EXCEPT !.pc = "prompt"]
  /\ UNCHANGED <<disk, update, torn>>

(***************************************************************************)
(* Running a session                                                       *)
(***************************************************************************)
Talk ==
  /\ AtPrompt /\ history[app.id] + PerTurn <= MaxTalk
  /\ history' = [history EXCEPT ![app.id] = @ + PerTurn]
  /\ UNCHANGED <<meta, index, kept, app, worker, update, torn>>

\* /session rename and /session archive
Command(op) ==
  /\ AtPrompt /\ op \in {"rename", "archive"}
  /\ op = "rename" => meta[app.id].title < MaxTitle
  /\ Begin(Main, op, app.id)
  /\ UNCHANGED <<disk, app, worker, torn>>

\* The process ends at any point: /exit, a failed build, a crash.
Stop ==
  /\ app.pc # "off"
  /\ app' = Off
  /\ worker' = [w \in Workers |-> Idle]
  /\ torn' = torn \cup {update[a].id : a \in {b \in Actors : update[b].phase = "saved"}}
  /\ update' = [a \in Actors |-> NoUpdate]
  /\ UNCHANGED disk

(***************************************************************************)
(* The backfill goroutine: saveSessionToMemory for one session after the   *)
(* other                                                                   *)
(***************************************************************************)
Passes(w, step) == worker' = [worker EXCEPT ![w].pc = step]
Skips(w) == worker' = [worker EXCEPT ![w] = Ready(worker[w].todo)]

\* activeSessionID: no session when the index cannot be read.
ActiveOrNone == {Loaded.active, NoId}

\* formatHistoryForMemory: of a long history the last part (of each entry its first few
\* hundred characters).
Recent(n) == {k \in 1..n : k + Window > n}

\* It ends when all sessions are done or its time is over.
Take(w) ==
  /\ worker[w].pc = "next"
  /\ \/ worker' = [worker EXCEPT ![w] = Idle]
     \/ \E s \in worker[w].todo :
          worker' = [worker EXCEPT ![w].pc = "check", ![w].id = s, ![w].todo = @ \ {s}]
  /\ UNCHANGED <<disk, app, update, torn>>

Check(w) ==
  /\ worker[w].pc = "check" /\ MutexFree
  /\ \E active \in ActiveOrNone :
       IF active = worker[w].id THEN Skips(w) ELSE Passes(w, "load")
  /\ UNCHANGED <<disk, app, update, torn>>

\* LoadSessionMeta takes no mutex.  Whatever cannot be read ends the work on the session.
LoadMeta(w) ==
  /\ worker[w].pc = "load"
  /\ LET st == meta[worker[w].id]
     IN \/ ~st.saved /\ st.status # "archived" /\ Passes(w, "read")
        \/ Skips(w)
  /\ UNCHANGED <<disk, app, update, torn>>

ReadHistory(w) ==
  /\ worker[w].pc = "read"
  /\ \/ worker' = [worker EXCEPT ![w].pc = "recheck", ![w].seen = history[worker[w].id]]
     \/ Skips(w)
  /\ UNCHANGED <<disk, app, update, torn>>

\* Without history there is nothing to save and the session is marked.
Recheck(w) ==
  /\ worker[w].pc = "recheck" /\ MutexFree
  /\ \E active \in ActiveOrNone :
       IF active = worker[w].id THEN Skips(w)
       ELSE Passes(w, IF worker[w].seen = 0 THEN "mark" ELSE "summarize")
  /\ UNCHANGED <<disk, app, update, torn>>

\* The model's answer, or an error; the session may have become active meanwhile.
Summarize(w) ==
  /\ worker[w].pc = "summarize" /\ MutexFree
  /\ \/ \E active \in ActiveOrNone \ {worker[w].id} : Passes(w, "write")
     \/ Skips(w)
  /\ UNCHANGED <<disk, app, update, torn>>

\* Mutant of WriteMemory: the insights are lost between the model and the store.
WriteMemoryNothing(w) ==
  /\ worker[w].pc = "write"
  /\ Passes(w, "mark")
  /\ UNCHANGED <<disk, app, update, torn>>

\* The insights, if there are any, are in the memory file.  A memory that reports an
\* error is not counted, one that says Saved without having written (Store.Write looks at
\* no error of the write itself) is: the session is marked all the same.
WriteMemory(w) ==
  /\ worker[w].pc = "write"
  /\ \/ /\ kept' = [kept EXCEPT ![worker[w].id] = @ \cup Recent(worker[w].seen)]
        /\ Passes(w, "mark")
     \/ /\ worker' = [worker EXCEPT ![w].pc = "mark", ![w].lost = TRUE]
        /\ UNCHANGED kept
  /\ UNCHANGED <<meta, index, history, app, update, torn>>

\* MarkMemorySaved, which leaves a session alone that is marked already.
Mark(w) ==
  /\ worker[w].pc = "mark"
  /\ IF meta[worker[w].id].saved
     THEN MutexFree /\ Skips(w) /\ UNCHANGED update
     ELSE Begin(w, "mark", worker[w].id) /\ Passes(w, "marking")
  /\ UNCHANGED <<disk, app, torn>>

(***************************************************************************)
(* Specification                                                           *)
(***************************************************************************)
Open == OpenNew \/ CreateSession \/ ListSession \/ Activate \/ StartBackfill
Backfill(w) ==
  \/ Take(w) \/ Check(w) \/ LoadMeta(w) \/ ReadHistory(w) \/ Recheck(w)
  \/ Summarize(w) \/ WriteMemory(w) \/ Mark(w)

Next ==
  \/ Open \/ Talk \/ Stop
  \/ \E id \in Ids : OpenExisting(id)
  \/ \E op \in {"rename", "archive"} : Command(op)
  \/ \E a \in Actors : SaveMeta(a) \/ SaveIndex(a) \/ UpdateFails(a)
  \/ \E w \in Workers : Backfill(w)

Spec == Init /\ [][Next]_vars

(***************************************************************************)
(* Properties                                                              *)
(***************************************************************************)
IndexType == [exists : BOOLEAN, active : Ids \cup {NoId},
              entries : [Ids -> State \cup {NoState}]]

\* Shape of the state; a goroutine has a session in hand exactly while it works on it.
TypeOK ==
  /\ meta \in [Ids -> State \cup {NoState}]
  /\ index \in IndexType
  /\ history \in [Ids -> 0..MaxTalk] /\ kept \in [Ids -> SUBSET (1..MaxTalk)]
  /\ app \in [pc : {"off", "create", "list", "activate", "backfill", "prompt", "archived"},
              id : Ids \cup {NoId}, idx : IndexType, activate : BOOLEAN]
  /\ worker \in [Workers -> [pc : {"idle", "next", "check", "load", "read", "recheck",
                                   "summarize", "write", "mark", "marking"},
                             todo : SUBSET Ids, id : Ids \cup {NoId}, seen : 0..MaxTalk,
                             lost : BOOLEAN]]
  /\ update \in [Actors -> [phase : {"none", "loaded", "saved"},
                            op : {"none", "rename", "archive", "mark"},
                            id : Ids \cup {NoId}, st : State \cup {NoState}]]
  /\ torn \subseteq Ids
  /\ \A w \in Workers :
       /\ worker[w].pc \in {"idle", "next"} <=> worker[w].id = NoId
       /\ worker[w].pc = "marking" <=> update[w] # NoUpdate

\* What a restart finds: while a session runs, the index names it as the active one,
\* so that a crash at any moment is followed by the same session, and whatever the
\* index names or lists has its metadata on disk (application.go:463 and 524,
\* repository.go:190: three files written one after the other).
RunningIsActive ==
  /\ TypeOK
  /\ app.pc = "prompt" => index.active = app.id
  /\ index.active # NoId => index.entries[index.active] # NoState
  /\ \A s \in Ids : index.entries[s] # NoState => meta[s] # NoState

\* The index and the metadata agree about titles and archiving whenever no update is
\* under way, except for sessions one of whose updates was cut short: the stale index
\* that openSession saves never carries one of these back (repository.go:306, "Meta
\* and index are updated under one lock to keep the dual write atomic").
IndexAgrees ==
  MutexFree =>
    \A s \in Ids \ torn :
      index.entries[s] # NoState =>
        /\ index.entries[s].title = meta[s].title
        /\ index.entries[s].status = meta[s].status

\* No update of the metadata is lost under another one: titles advance, archived
\* sessions stay archived, saved sessions stay saved (repository.go:372, "concurrent
\* backfill cannot drop a title/status change or vice versa").
NoLostUpdate ==
  [][\A s \in Ids : meta[s] # NoState =>
       /\ meta'[s] # NoState /\ meta'[s].title >= meta[s].title
       /\ meta[s].status = "archived" => meta'[s].status = "archived"
       /\ meta[s].saved => meta'[s].saved]_vars

\* A session is marked as saved only after a goroutine with that session in hand has put
\* what the last entries it read are worth into memory, or has lost it to the memory store:
\* a crash between the two repeats the work and never skips it.  (Entries before the last
\* Window, and those added after the goroutine's reading, are not promised anything.)
MarkedIsKept ==
  [][\A s \in Ids :
       meta[s] # NoState /\ ~meta[s].saved /\ meta'[s].saved =>
         \E w \in Workers :
           worker[w].id = s /\ (Recent(worker[w].seen) \subseteq kept[s] \/ worker[w].lost)]_vars

=============================================================================
