---------------------------- MODULE StorageProofs ----------------------------
(***************************************************************************)
(* Proofs about what outlives the process: Sessions, for any number of     *)
(* sessions, backfill goroutines, entries and renamings, with failing      *)
(* writes and a process that ends anywhere, and the long-term Memory they  *)
(* are distilled into, for any texts, days and files of any length, with       *)
(* writes that fail unseen or end in the middle of a line.  The two share  *)
(* no state.                                                               *)
(*                                                                         *)
(* The argument for Sessions has two legs.  The repository's mutex: of all *)
(* goroutines one at most is in an update, and what it has loaded is still *)
(* on disk.  And what crosses the mutex is harmless: the index that        *)
(* openSession loaded and saves later may miss a mark, but while it is     *)
(* held nobody changes a title, a status or the active session.            *)
(*                                                                         *)
(* The argument for Memory begins at Known, below.                         *)
(***************************************************************************)
EXTENDS Sessions, Memory, TLAPS, FiniteSetTheorems, SequenceTheorems

(***************************************************************************)
(* Sessions                                                                *)
(***************************************************************************)
USE SessionsAssumption, NoStateAssumption

AppType == [pc : {"off", "create", "list", "activate", "backfill", "prompt", "archived"},
            id : Ids \cup {NoId}, idx : IndexType, activate : BOOLEAN]
WorkerType == [pc : {"idle", "next", "check", "load", "read", "recheck", "summarize",
                     "write", "mark", "marking"},
               todo : SUBSET Ids, id : Ids \cup {NoId}, seen : 0..MaxTalk, lost : BOOLEAN]
UpdateType == [phase : {"none", "loaded", "saved"},
               op : {"none", "rename", "archive", "mark"},
               id : Ids \cup {NoId}, st : State \cup {NoState}]

\* An index that lists what is on disk, m, the active session included.
Sound(idx, m) ==
  /\ idx \in IndexType
  /\ idx.active # NoId => idx.entries[idx.active] # NoState
  /\ \A s \in Ids : idx.entries[s] # NoState => m[s] # NoState

\* Its entries tell the title and the status there, except for sessions in T.
SameTitle(idx, m, s) == idx.entries[s] # NoState => idx.entries[s].title = m[s].title
SameStatus(idx, m, s) == idx.entries[s] # NoState => idx.entries[s].status = m[s].status
Agree(idx, m, T) == \A s \in Ids \ T : SameTitle(idx, m, s) /\ SameStatus(idx, m, s)

DiskOK ==
  /\ meta \in [Ids -> State \cup {NoState}]
  /\ history \in [Ids -> 0..MaxTalk] /\ kept \in [Ids -> SUBSET (1..MaxTalk)]
  /\ torn \subseteq Ids

IndexOK == Sound(index, meta) /\ (index.exists \/ index = NoIndex)

\* The main goroutine between loading the index and saving it; then its session is
\* on disk; and once it need not be activated any more, it is the active one.
AppOK ==
  /\ app \in AppType
  /\ app.pc \in {"create", "list"} =>
       app.id \in Ids /\ Sound(app.idx, meta) /\ Agree(app.idx, meta, torn)
  /\ app.pc = "create" => meta[app.id] = NoState
  /\ app.pc = "list" =>
       meta[app.id] # NoState /\ meta[app.id].title = 0 /\ meta[app.id].status = "active"
  /\ app.pc \in {"activate", "backfill", "prompt"} =>
       app.id \in Ids /\ meta[app.id] # NoState
  /\ app.pc \in {"backfill", "prompt"} \/ (app.pc = "activate" /\ ~app.activate) =>
       index.active = app.id

WorkerOK(r, m, k) ==
  /\ r \in WorkerType
  /\ r.pc \in {"idle", "next"} <=> r.id = NoId
  /\ \A s \in r.todo \cup ({r.id} \ {NoId}) : m[s] # NoState
  /\ r.pc \in {"mark", "marking"} => Recent(r.seen) \subseteq k[r.id] \/ r.lost

WorkersOK ==
  /\ worker \in [Workers -> WorkerType]
  /\ \A w \in Workers : WorkerOK(worker[w], meta, kept)

\* An update in progress has loaded what is on disk.
UpdateOK(a) ==
  update[a] # NoUpdate =>
    /\ update[a].phase \in {"loaded", "saved"}
    /\ update[a].id \in Ids /\ update[a].st \in State /\ meta[update[a].id] = update[a].st
    /\ a = Main => /\ app.pc = "prompt" /\ update[a].id = app.id
                   /\ update[a].op \in {"rename", "archive"}
    /\ a # Main => update[a].op = "mark" /\ update[a].id = worker[a].id
    /\ update[a].op = "rename" /\ update[a].phase = "loaded" => update[a].st.title < MaxTitle
    /\ update[a].op = "archive" /\ update[a].phase = "saved" => update[a].st.status = "archived"

UpdatesOK ==
  /\ update \in [Actors -> UpdateType]
  /\ \A a, b \in Actors : update[a] # NoUpdate /\ update[b] # NoUpdate => a = b
  /\ \A a \in Actors : UpdateOK(a)
  /\ \A w \in Workers : worker[w].pc = "marking" <=> update[w] # NoUpdate

\* In the middle of an update the index still has the old value of one field.
Saving(s, op) ==
  update[Main].phase = "saved" /\ update[Main].op = op /\ update[Main].id = s
AgreeOK ==
  \A s \in Ids \ torn :
    /\ ~Saving(s, "rename") => SameTitle(index, meta, s)
    /\ ~Saving(s, "archive") => SameStatus(index, meta, s)

Inv == DiskOK /\ IndexOK /\ AppOK /\ WorkersOK /\ UpdatesOK /\ AgreeOK

LEMMA InvImplies == Inv => RunningIsActive /\ IndexAgrees
<1> SUFFICES ASSUME Inv PROVE RunningIsActive /\ IndexAgrees
  OBVIOUS
<1>1. TypeOK
  BY DEF Inv, DiskOK, IndexOK, Sound, AppOK, AppType, WorkersOK, WorkerOK, WorkerType,
         UpdatesOK, UpdateType, TypeOK
<1>2. RunningIsActive
  BY <1>1 DEF Inv, IndexOK, Sound, AppOK, RunningIsActive
<1>3. IndexAgrees
  <2> SUFFICES ASSUME MutexFree, NEW s \in Ids \ torn, index.entries[s] # NoState
               PROVE  /\ index.entries[s].title = meta[s].title
                      /\ index.entries[s].status = meta[s].status
    BY DEF IndexAgrees
  <2>1. update[Main].phase = "none"
    BY DEF MutexFree, NoUpdate, Actors
  <2>2. ~Saving(s, "rename") /\ ~Saving(s, "archive")
    BY <2>1 DEF Saving
  <2> QED
    BY <2>2 DEF Inv, AgreeOK, SameTitle, SameStatus
<1> QED
  BY <1>2, <1>3

-----------------------------------------------------------------------------
(* Records. *)

LEMMA NoIndexType == NoIndex \in IndexType /\ NoIndex.active = NoId
                     /\ \A s \in Ids : NoIndex.entries[s] = NoState
<1>1. \A d \in BOOLEAN :
        LET r == [exists |-> d, active |-> NoId, entries |-> [s \in Ids |-> NoState]]
        IN r \in IndexType /\ r.active = NoId /\ \A s \in Ids : r.entries[s] = NoState
  BY DEF IndexType
<1>2. FALSE \in BOOLEAN
  OBVIOUS
<1> QED
  BY <1>1, <1>2, Zenon DEF NoIndex

LEMMA WrittenIndex ==
  ASSUME NEW idx \in IndexType
  PROVE  /\ Written(idx) \in IndexType /\ Written(idx).exists
         /\ Written(idx).active = idx.active /\ Written(idx).entries = idx.entries
<1> DEFINE R(d) == [idx EXCEPT !.exists = d]
<1>1. \A d \in BOOLEAN : R(d) \in IndexType /\ R(d).exists = d
                         /\ R(d).active = idx.active /\ R(d).entries = idx.entries
  BY DEF IndexType
<1>2. Written(idx) = R(TRUE) /\ TRUE \in BOOLEAN
  BY Zenon DEF Written
<1> HIDE DEF R
<1> QED
  BY <1>1, <1>2, Zenon

LEMMA NewStateFields ==
  NewState \in State /\ NewState.title = 0 /\ NewState.status = "active" /\ ~NewState.saved
<1>1. \A d \in BOOLEAN :
        LET r == [title |-> 0, status |-> "active", saved |-> d]
        IN r \in State /\ r.title = 0 /\ r.status = "active" /\ r.saved = d
  BY DEF State
<1>2. FALSE \in BOOLEAN
  OBVIOUS
<1> QED
  BY <1>1, <1>2, Zenon DEF NewState

IdleWith(d) == [pc |-> "idle", todo |-> {}, id |-> NoId, seen |-> 0, lost |-> d]
LEMMA IdleOK == ASSUME NEW m, NEW k PROVE WorkerOK(Idle, m, k) /\ Idle.pc = "idle"
<1>1. \A d \in BOOLEAN : WorkerOK(IdleWith(d), m, k) /\ IdleWith(d).pc = "idle"
  BY 0 \in 0..MaxTalk DEF WorkerOK, IdleWith, WorkerType
<1>2. FALSE \in BOOLEAN /\ Idle = IdleWith(FALSE)
  BY Zenon DEF Idle, IdleWith
<1> QED
  BY <1>1, <1>2, Zenon

LEMMA ReadyOK ==
  ASSUME NEW m, NEW k, NEW todo \in SUBSET Ids, \A s \in todo : m[s] # NoState
  PROVE  WorkerOK(Ready(todo), m, k) /\ Ready(todo).pc = "next"
<1> DEFINE R(d) == [IdleWith(d) EXCEPT !.pc = "next", !.todo = todo]
<1>1. \A d \in BOOLEAN : WorkerOK(R(d), m, k) /\ R(d).pc = "next"
  BY 0 \in 0..MaxTalk DEF WorkerOK, IdleWith, WorkerType
<1>2. FALSE \in BOOLEAN /\ Ready(todo) = R(FALSE)
  BY Zenon DEF Idle, IdleWith, Ready
<1> HIDE DEF R
<1> QED
  BY <1>1, <1>2, Zenon

\* What loadIndexLocked returns is as sound as the file, and agrees with the disk
\* wherever the file does.
LEMMA LoadedIndex ==
  ASSUME DiskOK, IndexOK
  PROVE  /\ Sound(Loaded, meta) /\ Loaded.active = index.active
         /\ \A s \in Ids : index.entries[s] # NoState => Loaded.entries[s] = index.entries[s]
         /\ \A s \in Ids : index.entries[s] = NoState =>
              Loaded.entries[s] = NoState \/ Loaded.entries[s] = meta[s]
<1>1. CASE ~index.exists
  BY <1>1, NoIndexType DEF Loaded, IndexOK, Sound
<1>2. CASE index.exists
  <2> DEFINE E == [s \in Ids |-> IF index.entries[s] # NoState THEN index.entries[s] ELSE meta[s]]
  <2>1. E \in [Ids -> State \cup {NoState}]
    BY DEF DiskOK, IndexOK, Sound, IndexType
  <2>2. Loaded = [index EXCEPT !.entries = E]
    BY <1>2 DEF Loaded
  <2>3. \A s \in Ids : E[s] = IF index.entries[s] # NoState THEN index.entries[s] ELSE meta[s]
    OBVIOUS
  <2> HIDE DEF E
  <2>4. Loaded \in IndexType /\ Loaded.active = index.active /\ Loaded.entries = E
    BY <2>1, <2>2 DEF IndexOK, Sound, IndexType
  <2> QED
    BY <2>3, <2>4 DEF IndexOK, Sound, IndexType
<1> QED
  BY <1>1, <1>2

LEMMA LoadedAgrees ==
  ASSUME DiskOK, IndexOK, AgreeOK, MutexFree
  PROVE  Agree(Loaded, meta, torn)
<1>1. update[Main].phase = "none"
  BY DEF MutexFree, NoUpdate, Actors
<1>2. \A s \in Ids \ torn : SameTitle(index, meta, s) /\ SameStatus(index, meta, s)
  BY <1>1 DEF AgreeOK, Saving
<1> QED
  BY <1>2, LoadedIndex DEF Agree, SameTitle, SameStatus

-----------------------------------------------------------------------------
(* What the steps of one goroutine leave alone. *)

\* Sessions stay on disk.
MetaGrows ==
  /\ meta' \in [Ids -> State \cup {NoState}]
  /\ \A s \in Ids : meta[s] # NoState => meta'[s] # NoState

LEMMA WorkersStay ==
  ASSUME DiskOK, WorkersOK, MetaGrows, UNCHANGED <<worker, kept>> PROVE WorkersOK'
  BY DEF WorkersOK, WorkerOK, MetaGrows, WorkerType

LEMMA UpdatesStay ==
  ASSUME UpdatesOK, UNCHANGED <<meta, update, worker>>, update[Main] = NoUpdate \/ UNCHANGED app
  PROVE  UpdatesOK'
  BY DEF UpdatesOK, UpdateOK

LEMMA AgreeStays == ASSUME AgreeOK, UNCHANGED <<meta, index, torn, update>> PROVE AgreeOK'
  BY DEF AgreeOK, Saving, SameTitle, SameStatus

LEMMA AppStays == ASSUME AppOK, UNCHANGED <<app, meta, index, torn>> PROVE AppOK'
  BY DEF AppOK

LEMMA IndexStays == ASSUME IndexOK, UNCHANGED <<meta, index>> PROVE IndexOK'
  BY DEF IndexOK

\* The main goroutine is in no update but at the prompt.
LEMMA MainIsFree ==
  ASSUME UpdatesOK, app.pc # "prompt" PROVE update[Main] = NoUpdate
  BY DEF UpdatesOK, UpdateOK, Actors

-----------------------------------------------------------------------------
(* Opening a session. *)

\* Steps that only move the main goroutine.
LEMMA OnlyApp ==
  ASSUME Inv, UNCHANGED <<disk, worker, update, torn>>, update[Main] = NoUpdate, AppOK'
  PROVE  Inv'
<1>1. UNCHANGED <<meta, index, history, kept>> /\ MetaGrows
  BY DEF disk, MetaGrows, Inv, DiskOK
<1> QED
  BY <1>1, WorkersStay, UpdatesStay, AgreeStays, IndexStays DEF Inv, DiskOK

LEMMA OpenedApp ==
  ASSUME Inv, UNCHANGED <<disk, torn>>, NEW id \in Ids, meta[id] # NoState, app' = Opened(id, Loaded)
  PROVE  AppOK'
<1>1. UNCHANGED <<meta, index>>
  BY DEF disk
<1>2. Loaded.active = index.active
  BY LoadedIndex DEF Inv
<1>3. \A b \in BOOLEAN :
        LET r == [pc |-> "activate", id |-> id, idx |-> NoIndex, activate |-> b]
        IN r \in AppType /\ r.pc = "activate" /\ r.id = id /\ r.activate = b
  BY NoIndexType DEF AppType
<1>4. (Loaded.active # id) \in BOOLEAN
  OBVIOUS
<1>5. /\ app' \in AppType /\ app'.pc = "activate" /\ app'.id = id
      /\ app'.activate = (Loaded.active # id)
  BY <1>3, <1>4, Zenon DEF Opened
<1>6. ~app'.activate => index.active = id
  BY <1>2, <1>5
<1> QED
  BY <1>1, <1>5, <1>6 DEF AppOK

LEMMA OpenNewKeeps == ASSUME Inv, OpenNew PROVE Inv'
<1>1. /\ app.pc \in {"off", "archived"} \/ AtPrompt
      /\ MutexFree /\ UNCHANGED <<disk, worker, update, torn>>
  BY DEF OpenNew
<1>2. PICK id \in Ids : meta[id] = NoState /\ app' = [Off EXCEPT !.pc = "create", !.id = id, !.idx = Loaded]
  BY DEF OpenNew
<1>3. UNCHANGED <<meta, index>> /\ update[Main] = NoUpdate
  BY <1>1 DEF disk, MutexFree, Actors
<1>4. Sound(Loaded, meta) /\ Agree(Loaded, meta, torn)
  BY <1>1, LoadedIndex, LoadedAgrees DEF Inv
<1>5. \A i \in IndexType, b \in BOOLEAN :
        LET r == [[pc |-> "off", id |-> NoId, idx |-> NoIndex, activate |-> b]
                    EXCEPT !.pc = "create", !.id = id, !.idx = i]
        IN r \in AppType /\ r.pc = "create" /\ r.id = id /\ r.idx = i
  BY DEF AppType
<1>6. Loaded \in IndexType /\ FALSE \in BOOLEAN
  BY <1>4 DEF Sound
<1>7. app' \in AppType /\ app'.pc = "create" /\ app'.id = id /\ app'.idx = Loaded
  BY <1>2, <1>5, <1>6, Zenon DEF Off
<1>8. torn' = torn
  BY <1>1
<1>9. AppOK'
  BY <1>2, <1>3, <1>4, <1>7, <1>8 DEF AppOK
<1> QED
  BY <1>1, <1>3, <1>9, OnlyApp

LEMMA OpenExistingKeeps == ASSUME Inv, NEW id \in Ids, OpenExisting(id) PROVE Inv'
<1>1. /\ MutexFree /\ meta[id] # NoState /\ app' = Opened(id, Loaded)
      /\ UNCHANGED <<disk, worker, update, torn>>
  BY DEF OpenExisting
<1>2. update[Main] = NoUpdate
  BY <1>1 DEF MutexFree, Actors
<1> QED
  BY <1>1, <1>2, OpenedApp, OnlyApp

\* A new session gets its metadata: nobody knows it yet.
LEMMA CreateSessionKeeps == ASSUME Inv, CreateSession PROVE Inv'
<1>1. /\ app.pc = "create" /\ meta' = [meta EXCEPT ![app.id] = NewState]
      /\ app' = [app EXCEPT !.pc = "list"]
      /\ UNCHANGED <<index, history, kept, worker, update, torn>>
  BY DEF CreateSession
<1>2. /\ app \in AppType /\ app.id \in Ids /\ meta[app.id] = NoState
      /\ Sound(app.idx, meta) /\ Agree(app.idx, meta, torn)
  BY <1>1 DEF Inv, AppOK
<1>3. app' \in AppType /\ app'.pc = "list" /\ app'.id = app.id /\ app'.idx = app.idx
  BY <1>1, <1>2 DEF AppType
<1>4. /\ DiskOK' /\ MetaGrows
      /\ \A s \in Ids : meta[s] # NoState => meta'[s] = meta[s]
      /\ meta'[app.id] = NewState
  BY <1>1, <1>2, NewStateFields DEF Inv, DiskOK, MetaGrows
<1>5. Sound(app.idx, meta') /\ Agree(app.idx, meta', torn)
  BY <1>2, <1>4 DEF Sound, Agree, SameTitle, SameStatus
<1>6. AppOK'
  BY <1>1, <1>2, <1>3, <1>4, <1>5, NewStateFields DEF AppOK
<1>7. IndexOK'
  BY <1>1, <1>4 DEF Inv, IndexOK, Sound
<1>8. update[Main] = NoUpdate
  BY <1>1, MainIsFree DEF Inv
<1>9. UpdatesOK'
  <2>1. \A a \in Actors : update[a] # NoUpdate => meta'[update[a].id] = update[a].st
    BY <1>4 DEF Inv, UpdatesOK, UpdateOK
  <2>2. \A a \in Actors : UpdateOK(a)'
    BY <1>1, <1>8, <2>1 DEF Inv, UpdatesOK, UpdateOK
  <2> QED
    BY <1>1, <2>2 DEF Inv, UpdatesOK
<1>10. AgreeOK'
  BY <1>1, <1>4 DEF Inv, IndexOK, Sound, AgreeOK, Saving, SameTitle, SameStatus
<1> QED
  BY <1>1, <1>4, <1>6, <1>7, <1>9, <1>10, WorkersStay DEF Inv

\* Steps that move the main goroutine and the index, outside any update.
LEMMA AppAndIndex ==
  ASSUME Inv, UNCHANGED <<meta, history, kept, worker, update, torn>>, MutexFree,
         IndexOK', AppOK', Agree(index', meta, torn)
  PROVE  Inv'
<1>1. MetaGrows
  BY DEF MetaGrows, Inv, DiskOK
<1>2. AgreeOK'
  BY DEF AgreeOK, Agree, SameTitle, SameStatus
<1>3. update[Main] = NoUpdate
  BY DEF MutexFree, Actors
<1> QED
  BY <1>1, <1>2, <1>3, WorkersStay, UpdatesStay DEF Inv, DiskOK

LEMMA ListSessionKeeps == ASSUME Inv, ListSession PROVE Inv'
<1> DEFINE idx == [app.idx EXCEPT !.entries[app.id] = NewState]
<1>1. /\ app.pc = "list" /\ MutexFree /\ index' = Written(idx) /\ app' = Opened(app.id, idx)
      /\ UNCHANGED <<meta, history, kept, worker, update, torn>>
  BY DEF ListSession
<1>2. /\ app.id \in Ids /\ Sound(app.idx, meta) /\ Agree(app.idx, meta, torn)
      /\ meta[app.id] # NoState /\ meta[app.id].title = 0 /\ meta[app.id].status = "active"
  BY <1>1 DEF Inv, AppOK
<1>3. /\ idx \in IndexType /\ idx.active = app.idx.active /\ idx.entries[app.id] = NewState
      /\ \A s \in Ids : s # app.id => idx.entries[s] = app.idx.entries[s]
  BY <1>2, NewStateFields DEF Sound, IndexType
<1> HIDE DEF idx
<1>4. Sound(idx, meta) /\ Agree(idx, meta, torn)
  <2>1. NewState # NoState
    BY NewStateFields
  <2>2. Sound(idx, meta)
    <3>1. /\ idx.active \in Ids \cup {NoId}
          /\ idx.active # NoId => app.idx.entries[idx.active] # NoState
      BY <1>2, <1>3 DEF Sound, IndexType
    <3>2. \A s \in Ids : app.idx.entries[s] # NoState => idx.entries[s] # NoState
      BY <1>3, <2>1
    <3>3. \A s \in Ids : idx.entries[s] # NoState => meta[s] # NoState
      BY <1>2, <1>3 DEF Sound
    <3> QED
      BY <1>3, <3>1, <3>2, <3>3 DEF Sound
  <2>3. ASSUME NEW s \in Ids \ torn PROVE SameTitle(idx, meta, s) /\ SameStatus(idx, meta, s)
    <3>1. CASE s = app.id
      BY <1>2, <1>3, <3>1, NewStateFields DEF SameTitle, SameStatus
    <3>2. CASE s # app.id
      BY <1>2, <1>3, <3>2 DEF Agree, SameTitle, SameStatus
    <3> QED
      BY <3>1, <3>2
  <2> QED
    BY <2>2, <2>3 DEF Agree
<1>5. /\ index' \in IndexType /\ index'.exists
      /\ index'.active = idx.active /\ index'.entries = idx.entries
  BY <1>1, <1>3, WrittenIndex
<1>6. Sound(index', meta) /\ Agree(index', meta, torn)
  BY <1>4, <1>5 DEF Sound, Agree, SameTitle, SameStatus
<1>7. IndexOK'
  BY <1>1, <1>5, <1>6 DEF IndexOK
<1>8. AppOK'
  <2>1. \A b \in BOOLEAN :
          LET r == [pc |-> "activate", id |-> app.id, idx |-> NoIndex, activate |-> b]
          IN r \in AppType /\ r.pc = "activate" /\ r.id = app.id /\ r.activate = b
    BY <1>2, NoIndexType DEF AppType
  <2>2. (idx.active # app.id) \in BOOLEAN
    OBVIOUS
  <2>3. /\ app' \in AppType /\ app'.pc = "activate" /\ app'.id = app.id
        /\ app'.activate = (idx.active # app.id)
    BY <1>1, <2>1, <2>2, Zenon DEF Opened
  <2>4. ~app'.activate => index'.active = app.id
    BY <1>5, <2>3
  <2> QED
    BY <1>1, <1>2, <2>3, <2>4 DEF AppOK
<1> QED
  BY <1>1, <1>6, <1>7, <1>8, AppAndIndex

LEMMA ActivateKeeps == ASSUME Inv, Activate PROVE Inv'
<1> DEFINE idx == [Loaded EXCEPT !.active = app.id]
<1>1. /\ app.pc = "activate" /\ MutexFree
      /\ app.activate => Loaded.entries[app.id] # NoState
      /\ index' = IF app.activate THEN Written(idx) ELSE index
      /\ app' = [app EXCEPT !.pc = "backfill", !.activate = FALSE]
      /\ UNCHANGED <<meta, history, kept, worker, update, torn>>
  BY DEF Activate
<1>2. app.id \in Ids /\ meta[app.id] # NoState /\ app \in AppType
  BY <1>1 DEF Inv, AppOK
<1>3. Sound(Loaded, meta) /\ Agree(Loaded, meta, torn)
  BY <1>1, LoadedIndex, LoadedAgrees DEF Inv
<1>4. IndexOK' /\ Agree(index', meta, torn) /\ index'.active = app.id
  <2>1. CASE app.activate
    <3>1. idx \in IndexType /\ idx.active = app.id /\ idx.entries = Loaded.entries
      BY <1>2, <1>3 DEF Sound, IndexType
    <3> HIDE DEF idx
    <3>2. /\ index' \in IndexType /\ index'.exists
          /\ index'.active = app.id /\ index'.entries = Loaded.entries
      BY <1>1, <2>1, <3>1, WrittenIndex
    <3> QED
      BY <1>1, <1>3, <2>1, <3>2 DEF IndexOK, Sound, Agree, SameTitle, SameStatus
  <2>2. CASE ~app.activate
    <3>1. index' = index /\ index.active = app.id
      BY <1>1, <2>2 DEF Inv, AppOK
    <3>2. update[Main].phase = "none"
      BY <1>1 DEF MutexFree, NoUpdate, Actors
    <3>3. Agree(index, meta, torn)
      BY <3>2 DEF Inv, AgreeOK, Agree, Saving
    <3> QED
      BY <1>1, <3>1, <3>3 DEF Inv, IndexOK
  <2> QED
    BY <2>1, <2>2
<1>5. app' \in AppType /\ app'.pc = "backfill" /\ app'.id = app.id
  <2>1. \A b \in BOOLEAN :
          LET r == [app EXCEPT !.pc = "backfill", !.activate = b]
          IN r \in AppType /\ r.pc = "backfill" /\ r.id = app.id
    BY <1>2 DEF AppType
  <2>2. FALSE \in BOOLEAN /\ app' = [app EXCEPT !.pc = "backfill", !.activate = FALSE]
    BY <1>1, Zenon
  <2> QED
    BY <2>1, <2>2, Zenon
<1>6. AppOK'
  BY <1>1, <1>2, <1>4, <1>5 DEF AppOK
<1> QED
  BY <1>1, <1>4, <1>6, AppAndIndex

LEMMA StartBackfillKeeps == ASSUME Inv, StartBackfill PROVE Inv'
<1> DEFINE todo == {s \in Ids \ {app.id} :
                      /\ Loaded.entries[s] # NoState /\ meta[s] # NoState
                      /\ meta[s].status # "archived" /\ ~meta[s].saved}
<1>1. /\ app.pc = "backfill" /\ app' = [app EXCEPT !.pc = "prompt"]
      /\ UNCHANGED <<disk, update, torn>>
  BY DEF StartBackfill
<1>2. UNCHANGED <<meta, index, history, kept>> /\ update[Main] = NoUpdate
  BY <1>1, MainIsFree DEF disk, Inv
<1>3. AppOK'
  BY <1>1, <1>2 DEF Inv, AppOK, AppType
<1>4. WorkersOK' /\ (\A w \in Workers : worker'[w].pc = "marking" <=> worker[w].pc = "marking")
      /\ \A w \in Workers : worker[w].pc = "marking" => worker'[w] = worker[w]
  <2>1. CASE UNCHANGED worker
    BY <1>2, <2>1 DEF Inv, WorkersOK
  <2>2. CASE \E w \in Workers : /\ worker[w].pc = "idle"
               /\ worker' = [worker EXCEPT ![w] = Ready(todo)]
    <3>1. PICK w \in Workers : /\ worker[w].pc = "idle"
               /\ worker' = [worker EXCEPT ![w] = Ready(todo)]
      BY <2>2
    <3>2. todo \in SUBSET Ids /\ \A s \in todo : meta[s] # NoState
      OBVIOUS
    <3> HIDE DEF todo
    <3>3. WorkerOK(Ready(todo), meta, kept) /\ Ready(todo).pc = "next"
      BY <3>2, ReadyOK
    <3>4. WorkerOK(Ready(todo), meta', kept')
      BY <1>2, <3>3
    <3> QED
      BY <1>2, <3>1, <3>3, <3>4 DEF Inv, WorkersOK, WorkerOK
  <2> QED
    BY <2>1, <2>2 DEF StartBackfill
<1>5. UpdatesOK'
  <2>1. \A a \in Actors : UpdateOK(a)'
    BY <1>1, <1>2, <1>4 DEF Inv, UpdatesOK, UpdateOK, Actors
  <2> QED
    BY <1>1, <1>4, <2>1 DEF Inv, UpdatesOK
<1> QED
  BY <1>1, <1>2, <1>3, <1>4, <1>5, AgreeStays, IndexStays DEF Inv, DiskOK

-----------------------------------------------------------------------------
(* Running a session, and the end of the process. *)

LEMMA TalkKeeps == ASSUME Inv, Talk PROVE Inv'
<1>1. /\ app.id \in Ids /\ history[app.id] + PerTurn <= MaxTalk
      /\ history' = [history EXCEPT ![app.id] = @ + PerTurn]
      /\ UNCHANGED <<meta, index, kept, app, worker, update, torn>>
  BY DEF Talk, AtPrompt, Inv, AppOK
<1>2. DiskOK' /\ MetaGrows
  BY <1>1 DEF Inv, DiskOK, MetaGrows
<1> QED
  BY <1>1, <1>2, AppStays, AgreeStays, IndexStays, WorkersStay, UpdatesStay DEF Inv

\* Whoever begins an update is then the only one in it, with what is on disk.
LEMMA BeginUpdate ==
  ASSUME DiskOK, UpdatesOK, NEW a \in Actors, NEW op \in {"rename", "archive", "mark"},
         NEW id \in Ids, meta[id] # NoState, Begin(a, op, id)
  PROVE  /\ update' \in [Actors -> UpdateType]
         /\ update'[a].phase = "loaded" /\ update'[a].op = op /\ update'[a].id = id
         /\ update'[a].st = meta[id] /\ update'[a].st \in State /\ update'[a] # NoUpdate
         /\ \A b \in Actors : b # a => update'[b] = NoUpdate
         /\ \A b \in Actors : update[b] = NoUpdate
<1> DEFINE u == [phase |-> "loaded", op |-> op, id |-> id, st |-> meta[id]]
<1>1. meta[id] \in State
  BY DEF DiskOK
<1>2. /\ u \in UpdateType /\ u.phase = "loaded" /\ u.op = op /\ u.id = id /\ u.st = meta[id]
  BY <1>1 DEF UpdateType
<1>3. update' = [update EXCEPT ![a] = u] /\ \A b \in Actors : update[b] = NoUpdate
  BY DEF Begin, MutexFree
<1> HIDE DEF u
<1>4. u # NoUpdate
  BY <1>2 DEF NoUpdate
<1> QED
  BY <1>1, <1>2, <1>3, <1>4 DEF UpdatesOK

LEMMA CommandKeeps == ASSUME Inv, NEW op \in {"rename", "archive"}, Command(op) PROVE Inv'
<1>1. /\ app.pc = "prompt" /\ op = "rename" => meta[app.id].title < MaxTitle
      /\ Begin(Main, op, app.id) /\ UNCHANGED <<disk, app, worker, torn>>
  BY DEF Command, AtPrompt
<1>2. /\ UNCHANGED <<meta, index, history, kept>> /\ MetaGrows /\ DiskOK'
      /\ app.pc = "prompt" /\ app.id \in Ids /\ meta[app.id] # NoState /\ Main \in Actors
  BY <1>1, Zenon DEF disk, Command, AtPrompt, Inv, AppOK, DiskOK, MetaGrows, Actors
<1>3. /\ update' \in [Actors -> UpdateType]
      /\ update'[Main].phase = "loaded" /\ update'[Main].op = op /\ update'[Main].id = app.id
      /\ update'[Main].st = meta[app.id] /\ update'[Main].st \in State /\ update'[Main] # NoUpdate
      /\ \A b \in Actors : b # Main => update'[b] = NoUpdate
      /\ \A b \in Actors : update[b] = NoUpdate
  BY <1>1, <1>2, BeginUpdate DEF Inv
<1>4. UpdatesOK'
  <2>1. UpdateOK(Main)'
    BY <1>1, <1>2, <1>3 DEF UpdateOK, Command
  <2>2. \A a \in Actors : UpdateOK(a)'
    BY <1>3, <2>1 DEF UpdateOK
  <2>3. \A w \in Workers : w # Main /\ w \in Actors
    BY DEF Actors
  <2> QED
    BY <1>1, <1>3, <2>2, <2>3 DEF Inv, UpdatesOK
<1>5. AgreeOK'
  BY <1>1, <1>2, <1>3 DEF Inv, AgreeOK, Saving, NoUpdate, SameTitle, SameStatus
<1> QED
  BY <1>1, <1>2, <1>4, <1>5, AppStays, IndexStays, WorkersStay DEF Inv

LEMMA OffType == Off \in AppType /\ Off.pc = "off"
<1>1. \A d \in BOOLEAN :
        LET r == [pc |-> "off", id |-> NoId, idx |-> NoIndex, activate |-> d]
        IN r \in AppType /\ r.pc = "off"
  BY NoIndexType DEF AppType
<1>2. FALSE \in BOOLEAN
  OBVIOUS
<1> QED
  BY <1>1, <1>2, Zenon DEF Off

LEMMA NoUpdateType == NoUpdate \in UpdateType /\ NoUpdate.phase = "none"
  BY DEF NoUpdate, UpdateType

\* A crash in the middle of an update makes its session one of the torn ones.
LEMMA StopKeeps == ASSUME Inv, Stop PROVE Inv'
<1> DEFINE T == torn \cup {update[a].id : a \in {b \in Actors : update[b].phase = "saved"}}
<1>1. /\ app' = Off /\ worker' = [w \in Workers |-> Idle] /\ torn' = T
      /\ update' = [a \in Actors |-> NoUpdate] /\ UNCHANGED <<meta, index, history, kept>>
  BY DEF Stop, disk
<1>2. T \subseteq Ids
  BY NoUpdateType DEF Inv, DiskOK, UpdatesOK, UpdateOK
<1>3. AppOK'
  BY <1>1, OffType DEF AppOK
<1>4. WorkersOK'
  BY <1>1, IdleOK DEF WorkersOK, WorkerOK
<1>5. UpdatesOK'
  BY <1>1, IdleOK, NoUpdateType DEF UpdatesOK, UpdateOK, Actors
<1>6. ASSUME NEW s \in Ids \ T PROVE ~Saving(s, "rename") /\ ~Saving(s, "archive")
  BY <1>6 DEF Saving, Actors
<1>7. AgreeOK'
  BY <1>1, <1>6 DEF Inv, AgreeOK, SameTitle, SameStatus
<1> QED
  BY <1>1, <1>2, <1>3, <1>4, <1>5, <1>7, IndexStays DEF Inv, DiskOK

-----------------------------------------------------------------------------
(* Updates. *)

SavedState(u) ==
  CASE u.op = "rename"  -> [u.st EXCEPT !.title = @ + 1]
    [] u.op = "archive" -> [u.st EXCEPT !.status = "archived"]
    [] u.op = "mark"    -> [u.st EXCEPT !.saved = TRUE]

\* One field of the metadata changes, and only forwards.
LEMMA SavedStateFields ==
  ASSUME NEW u \in UpdateType, u.st \in State, u.op \in {"rename", "archive", "mark"},
         u.op = "rename" => u.st.title < MaxTitle
  PROVE  LET st == SavedState(u)
         IN /\ st \in State /\ st.title >= u.st.title
            /\ u.op # "rename" => st.title = u.st.title
            /\ u.op # "archive" => st.status = u.st.status
            /\ u.op # "mark" => st.saved = u.st.saved
            /\ u.op = "archive" => st.status = "archived"
            /\ u.st.status = "archived" => st.status = "archived"
            /\ u.st.saved => st.saved
<1>1. CASE u.op = "rename"
  <2>1. SavedState(u) = [u.st EXCEPT !.title = u.st.title + 1]
    BY <1>1 DEF SavedState
  <2> QED
    BY <1>1, <2>1 DEF State
<1>2. CASE u.op = "archive"
  <2>1. SavedState(u) = [u.st EXCEPT !.status = "archived"]
    BY <1>2 DEF SavedState
  <2> QED
    BY <1>2, <2>1 DEF State
<1>3. CASE u.op = "mark"
  <2>1. \A d \in BOOLEAN :
          LET st == [u.st EXCEPT !.saved = d]
          IN /\ st \in State /\ st.title = u.st.title /\ st.status = u.st.status
             /\ st.saved = d
    BY DEF State
  <2>2. SavedState(u) = [u.st EXCEPT !.saved = TRUE] /\ TRUE \in BOOLEAN
    BY <1>3, Zenon DEF SavedState
  <2>3. /\ SavedState(u) \in State /\ SavedState(u).title = u.st.title
        /\ SavedState(u).status = u.st.status /\ SavedState(u).saved
    BY <2>1, <2>2, Zenon
  <2>4. u.st.title >= u.st.title
    BY DEF State
  <2> QED
    BY <1>3, <2>3, <2>4
<1> QED
  BY <1>1, <1>2, <1>3

\* What a save of the metadata changes.
LEMMA SaveMetaFields ==
  ASSUME Inv, NEW a \in Actors, SaveMeta(a)
  PROVE  LET u == update[a]  st == SavedState(u)
         IN /\ u \in UpdateType /\ u.phase = "loaded" /\ u.id \in Ids /\ u.st \in State
            /\ u.op \in {"rename", "archive", "mark"} /\ meta[u.id] = u.st /\ u # NoUpdate
            /\ a # Main => u.op = "mark"
            /\ meta' = [meta EXCEPT ![u.id] = st]
            /\ update' = [update EXCEPT ![a].phase = "saved", ![a].st = st]
            /\ UNCHANGED <<index, history, kept, app, worker, torn>>
            /\ st \in State /\ st.title >= u.st.title
            /\ u.op # "rename" => st.title = u.st.title
            /\ u.op # "archive" => st.status = u.st.status
            /\ u.op # "mark" => st.saved = u.st.saved
            /\ u.op = "archive" => st.status = "archived"
            /\ u.st.status = "archived" => st.status = "archived"
            /\ u.st.saved => st.saved
<1>1. update[a] \in UpdateType /\ update[a].phase = "loaded" /\ update[a] # NoUpdate
  BY NoUpdateType DEF SaveMeta, Inv, UpdatesOK
<1>2. /\ update[a].id \in Ids /\ update[a].st \in State
      /\ update[a].op \in {"rename", "archive", "mark"}
      /\ meta[update[a].id] = update[a].st
      /\ a # Main => update[a].op = "mark"
      /\ update[a].op = "rename" => update[a].st.title < MaxTitle
  BY <1>1 DEF Inv, UpdatesOK, UpdateOK
<1>3. /\ meta' = [meta EXCEPT ![update[a].id] = SavedState(update[a])]
      /\ update' = [update EXCEPT ![a].phase = "saved", ![a].st = SavedState(update[a])]
      /\ UNCHANGED <<index, history, kept, app, worker, torn>>
  BY Zenon DEF SaveMeta, SavedState
<1> QED
  BY <1>1, <1>2, <1>3, SavedStateFields

LEMMA SaveMetaKeeps == ASSUME Inv, NEW a \in Actors, SaveMeta(a) PROVE Inv'
<1> DEFINE u == update[a]
           st == SavedState(u)
<1>1. /\ u \in UpdateType /\ u.phase = "loaded" /\ u.id \in Ids /\ u.st \in State
      /\ u.op \in {"rename", "archive", "mark"} /\ meta[u.id] = u.st /\ u # NoUpdate
      /\ a # Main => u.op = "mark"
      /\ meta' = [meta EXCEPT ![u.id] = st]
      /\ update' = [update EXCEPT ![a].phase = "saved", ![a].st = st]
      /\ UNCHANGED <<index, history, kept, app, worker, torn>>
      /\ st \in State
      /\ u.op # "rename" => st.title = u.st.title
      /\ u.op # "archive" => st.status = u.st.status
      /\ u.op = "archive" => st.status = "archived"
  BY SaveMetaFields
<1>2. update = [b \in Actors |-> update[b]] /\ update \in [Actors -> UpdateType]
      /\ \A b \in Actors : b # a => update[b] = NoUpdate
  BY <1>1 DEF Inv, UpdatesOK
<1> HIDE DEF st
<1>3. /\ update' \in [Actors -> UpdateType] /\ update'[a] # NoUpdate
      /\ update'[a].phase = "saved" /\ update'[a].st = st
      /\ update'[a].id = u.id /\ update'[a].op = u.op
      /\ \A b \in Actors : b # a => update'[b] = NoUpdate
  BY <1>1, <1>2, NoUpdateType DEF UpdateType
<1>4. /\ DiskOK' /\ MetaGrows /\ meta'[u.id] = st
      /\ \A s \in Ids : s # u.id => meta'[s] = meta[s]
      /\ \A s \in Ids : meta[s] = NoState => meta'[s] = NoState
      /\ meta[u.id] # NoState /\ meta'[u.id] # NoState
  BY <1>1 DEF Inv, DiskOK, MetaGrows
<1>5. a = Main => app.pc = "prompt" /\ u.op \in {"rename", "archive"}
  BY <1>1 DEF Inv, UpdatesOK, UpdateOK
<1>6. AppOK'
  <2>1. CASE a = Main
    BY <1>1, <1>4, <1>5, <2>1 DEF Inv, AppOK
  <2>2. CASE a # Main
    <3>1. \A s \in Ids : meta[s] # NoState =>
            meta'[s].title = meta[s].title /\ meta'[s].status = meta[s].status
      BY <1>1, <1>4, <2>2
    <3>2. ASSUME Sound(app.idx, meta), Agree(app.idx, meta, torn)
          PROVE  Sound(app.idx, meta') /\ Agree(app.idx, meta', torn)
      BY <1>4, <3>1, <3>2 DEF Sound, Agree, SameTitle, SameStatus, MetaGrows
    <3> QED
      BY <1>1, <1>4, <3>1, <3>2 DEF Inv, AppOK, MetaGrows
  <2> QED
    BY <2>1, <2>2
<1>7. UpdatesOK'
  <2>1. UpdateOK(a)'
    <3>1. UpdateOK(a)
      BY DEF Inv, UpdatesOK
    <3> QED
      BY <1>1, <1>3, <1>4, <3>1 DEF UpdateOK
  <2>2. \A b \in Actors : UpdateOK(b)'
    BY <1>3, <2>1 DEF UpdateOK
  <2>3. \A w \in Workers : update'[w] # NoUpdate <=> update[w] # NoUpdate
    BY <1>1, <1>2, <1>3 DEF Actors
  <2> QED
    BY <1>1, <1>3, <2>2, <2>3 DEF Inv, UpdatesOK
<1>8. AgreeOK'
  <2> SUFFICES ASSUME NEW s \in Ids \ torn
               PROVE  /\ ~Saving(s, "rename")' => SameTitle(index, meta', s)
                      /\ ~Saving(s, "archive")' => SameStatus(index, meta', s)
    BY <1>1 DEF AgreeOK, SameTitle, SameStatus
  <2>1. SameTitle(index, meta, s) /\ SameStatus(index, meta, s)
    <3>1. update[Main].phase # "saved"
      BY <1>1, <1>2, NoUpdateType DEF Actors
    <3> QED
      BY <3>1 DEF Inv, AgreeOK, Saving
  <2>2. CASE s # u.id
    BY <1>4, <2>1, <2>2 DEF SameTitle, SameStatus
  <2>3. CASE s = u.id /\ a = Main
    <3>1. u.op = "rename" => Saving(s, "rename")'
      BY <1>3, <2>3 DEF Saving
    <3>2. u.op = "archive" => Saving(s, "archive")'
      BY <1>3, <2>3 DEF Saving
    <3> QED
      BY <1>1, <1>4, <1>5, <2>1, <2>3, <3>1, <3>2 DEF SameTitle, SameStatus
  <2>4. CASE s = u.id /\ a # Main
    BY <1>1, <1>4, <2>1, <2>4 DEF SameTitle, SameStatus
  <2> QED
    BY <2>2, <2>3, <2>4
<1>9. IndexOK'
  BY <1>1, <1>4 DEF Inv, IndexOK, Sound, MetaGrows
<1> QED
  BY <1>1, <1>4, <1>6, <1>7, <1>8, <1>9, WorkersStay DEF Inv

\* The goroutine whose update is over goes on; nobody is in an update then.
LEMMA GoesOnKeeps ==
  ASSUME Inv, NEW a \in Actors, NEW done \in BOOLEAN, update[a] # NoUpdate, GoesOn(a, done),
         UNCHANGED <<meta, history, kept>>
  PROVE  /\ WorkersOK' /\ UpdatesOK' /\ \A b \in Actors : update'[b] = NoUpdate
         /\ app' \in AppType /\ app'.id = app.id /\ app'.idx = app.idx
         /\ app' = app \/ (a = Main /\ update[a].op = "archive" /\ done /\ app'.pc = "archived")
<1>1. /\ \A b \in Actors : b # a => update[b] = NoUpdate
      /\ update' = [update EXCEPT ![a] = NoUpdate]
  BY DEF Inv, UpdatesOK, GoesOn
<1>2. \A b \in Actors : update'[b] = NoUpdate
  BY <1>1 DEF Inv, UpdatesOK
<1>3. \A w \in Workers : w \in Actors /\ w # Main
  BY DEF Actors
<1>4. WorkersOK' /\ \A w \in Workers : worker'[w].pc # "marking"
  <2>1. \A w \in Workers : w # a => worker[w].pc # "marking"
    BY <1>1, <1>3 DEF Inv, UpdatesOK
  <2>2. CASE a \in Workers
    <3> DEFINE r == Ready(worker[a].todo)
    <3>1. worker' = [worker EXCEPT ![a] = r]
      BY <2>2 DEF GoesOn
    <3>2. worker[a].todo \in SUBSET Ids /\ \A s \in worker[a].todo : meta[s] # NoState
      BY <2>2 DEF Inv, WorkersOK, WorkerOK, WorkerType
    <3>3. WorkerOK(r, meta, kept) /\ r.pc = "next"
      BY <3>2, ReadyOK
    <3> HIDE DEF r
    <3> QED
      BY <2>1, <2>2, <3>1, <3>3 DEF Inv, WorkersOK, WorkerOK
  <2>3. CASE a \notin Workers
    BY <2>1, <2>3 DEF GoesOn, Inv, WorkersOK
  <2> QED
    BY <2>2, <2>3
<1>5. UpdatesOK'
  BY <1>1, <1>2, <1>3, <1>4, NoUpdateType DEF Inv, UpdatesOK, UpdateOK
<1> QED
  <2>1. CASE a = Main /\ update[a].op = "archive" /\ done
    <3>1. app' = [app EXCEPT !.pc = "archived"]
      BY <2>1 DEF GoesOn
    <3>2. app' \in AppType /\ app'.pc = "archived" /\ app'.id = app.id /\ app'.idx = app.idx
      BY <3>1 DEF Inv, AppOK, AppType
    <3> QED
      BY <1>2, <1>4, <1>5, <2>1, <3>2
  <2>2. CASE ~(a = Main /\ update[a].op = "archive" /\ done)
    BY <1>2, <1>4, <1>5, <2>2 DEF GoesOn, Inv, AppOK
  <2> QED
    BY <2>1, <2>2

\* What the second half of an update writes: the field the first half wrote.
LEMMA ReindexedFields ==
  ASSUME DiskOK, IndexOK, NEW u \in UpdateType, u.op \in {"rename", "archive", "mark"},
         u.id \in Ids, u.st \in State, meta[u.id] = u.st,
         u.op = "archive" => u.st.status = "archived"
  PROVE  LET x == Reindexed(u)
         IN /\ Sound(x, meta) /\ (x.exists \/ x = NoIndex)
            /\ u.op # "archive" => x.active = index.active
            /\ \A s \in Ids \ {u.id} :
                 /\ SameTitle(index, meta, s) => SameTitle(x, meta, s)
                 /\ SameStatus(index, meta, s) => SameStatus(x, meta, s)
            /\ u.op = "rename" \/ SameTitle(index, meta, u.id) => SameTitle(x, meta, u.id)
            /\ u.op = "archive" \/ SameStatus(index, meta, u.id) => SameStatus(x, meta, u.id)
<1> DEFINE idx == Loaded
           entry == CASE u.op = "rename"  -> [idx.entries[u.id] EXCEPT !.title = u.st.title]
                      [] u.op = "archive" -> [idx.entries[u.id] EXCEPT !.status = "archived"]
                      [] u.op = "mark"    -> [idx.entries[u.id] EXCEPT !.saved = TRUE]
           active == IF u.op = "archive" /\ idx.active = u.id THEN NoId ELSE idx.active
           x == Reindexed(u)
<1> SUFFICES /\ Sound(x, meta) /\ (x.exists \/ x = NoIndex)
             /\ u.op # "archive" => x.active = index.active
             /\ \A s \in Ids \ {u.id} :
                  /\ SameTitle(index, meta, s) => SameTitle(x, meta, s)
                  /\ SameStatus(index, meta, s) => SameStatus(x, meta, s)
             /\ u.op = "rename" \/ SameTitle(index, meta, u.id) => SameTitle(x, meta, u.id)
             /\ u.op = "archive" \/ SameStatus(index, meta, u.id) => SameStatus(x, meta, u.id)
  OBVIOUS
<1>1. /\ Sound(idx, meta) /\ idx.active = index.active
      /\ \A s \in Ids : SameTitle(index, meta, s) => SameTitle(idx, meta, s)
      /\ \A s \in Ids : SameStatus(index, meta, s) => SameStatus(idx, meta, s)
  BY LoadedIndex DEF SameTitle, SameStatus
<1>2. x = IF idx.entries[u.id] # NoState
          THEN Written([idx EXCEPT !.entries[u.id] = entry, !.active = active])
          ELSE IF u.op = "archive" THEN Written([idx EXCEPT !.active = active]) ELSE index
  BY Zenon DEF Reindexed
<1>3. active \in Ids \cup {NoId}
      /\ (active # NoId => active = idx.active)
      /\ (u.op # "archive" => active = idx.active)
  BY <1>1 DEF Sound, IndexType
<1>4. ASSUME idx.entries[u.id] # NoState
      PROVE  /\ entry \in State
             /\ entry.title = (IF u.op = "rename" THEN u.st ELSE idx.entries[u.id]).title
             /\ entry.status = (IF u.op = "archive" THEN u.st ELSE idx.entries[u.id]).status
  <2>1. idx.entries[u.id] \in State
    BY <1>1, <1>4 DEF Sound, IndexType
  <2> HIDE DEF idx
  <2>2. CASE u.op = "rename"
    <3>1. entry = [idx.entries[u.id] EXCEPT !.title = u.st.title]
      BY <2>2
    <3> QED
      BY <2>1, <2>2, <3>1 DEF State
  <2>3. CASE u.op = "archive"
    <3>1. entry = [idx.entries[u.id] EXCEPT !.status = "archived"]
      BY <2>3
    <3> QED
      BY <2>1, <2>3, <3>1 DEF State
  <2>4. CASE u.op = "mark"
    <3>1. \A d \in BOOLEAN :
            LET r == [idx.entries[u.id] EXCEPT !.saved = d]
            IN r \in State /\ r.title = idx.entries[u.id].title
               /\ r.status = idx.entries[u.id].status
      BY <2>1 DEF State
    <3>2. entry = [idx.entries[u.id] EXCEPT !.saved = TRUE] /\ TRUE \in BOOLEAN
      BY <2>4, Zenon
    <3> HIDE DEF entry
    <3>3. entry \in State /\ entry.title = idx.entries[u.id].title
          /\ entry.status = idx.entries[u.id].status
      BY <3>1, <3>2, Zenon
    <3> QED
      BY <2>4, <3>3
  <2> QED
    BY <2>2, <2>3, <2>4
<1> HIDE DEF idx, entry, active, x
<1>5. CASE idx.entries[u.id] # NoState
  <2> DEFINE y == [idx EXCEPT !.entries[u.id] = entry, !.active = active]
  <2>1. /\ y \in IndexType /\ y.active = active /\ y.entries[u.id] = entry
        /\ \A s \in Ids : s # u.id => y.entries[s] = idx.entries[s]
    BY <1>1, <1>3, <1>4, <1>5 DEF Sound, IndexType
  <2>2. x = Written(y)
    BY <1>2, <1>5
  <2> HIDE DEF y
  <2>3. /\ x \in IndexType /\ x.exists /\ x.active = active /\ x.entries[u.id] = entry
        /\ \A s \in Ids : s # u.id => x.entries[s] = idx.entries[s]
    BY <2>1, <2>2, WrittenIndex
  <2>4. entry # NoState /\ meta[u.id] # NoState
    BY <1>4, <1>5
  <2>5. \A s \in Ids : (x.entries[s] # NoState <=> idx.entries[s] # NoState)
    BY <1>5, <2>3, <2>4
  <2>6. Sound(x, meta)
    BY <1>1, <1>3, <2>3, <2>5 DEF Sound
  <2>7. /\ u.op = "rename" \/ SameTitle(index, meta, u.id) => SameTitle(x, meta, u.id)
        /\ u.op = "archive" \/ SameStatus(index, meta, u.id) => SameStatus(x, meta, u.id)
    BY <1>1, <1>4, <1>5, <2>3 DEF SameTitle, SameStatus
  <2>8. \A s \in Ids \ {u.id} :
          /\ SameTitle(index, meta, s) => SameTitle(x, meta, s)
          /\ SameStatus(index, meta, s) => SameStatus(x, meta, s)
    BY <1>1, <2>3 DEF SameTitle, SameStatus
  <2> QED
    BY <1>1, <1>3, <2>3, <2>6, <2>7, <2>8
<1>6. CASE idx.entries[u.id] = NoState /\ u.op = "archive"
  <2> DEFINE y == [idx EXCEPT !.active = active]
  <2>1. y \in IndexType /\ y.active = active /\ y.entries = idx.entries
    BY <1>1, <1>3 DEF Sound, IndexType
  <2>2. x = Written(y)
    BY <1>2, <1>6
  <2> HIDE DEF y
  <2>3. x \in IndexType /\ x.exists /\ x.active = active /\ x.entries = idx.entries
    BY <2>1, <2>2, WrittenIndex
  <2>4. Sound(x, meta)
    BY <1>1, <1>3, <2>3 DEF Sound
  <2> QED
    BY <1>1, <1>3, <1>6, <2>3, <2>4 DEF SameTitle, SameStatus
<1>7. CASE idx.entries[u.id] = NoState /\ u.op # "archive"
  <2>1. x = index
    BY <1>2, <1>7
  <2>2. index.entries[u.id] = NoState
    BY <1>7, LoadedIndex DEF idx
  <2> QED
    BY <2>1, <2>2 DEF IndexOK, SameTitle, SameStatus
<1> QED
  BY <1>5, <1>6, <1>7

LEMMA SaveIndexKeeps == ASSUME Inv, NEW a \in Actors, SaveIndex(a) PROVE Inv'
<1> DEFINE u == update[a]
<1>1. /\ u \in UpdateType /\ u.phase = "saved" /\ u # NoUpdate
      /\ index' = Reindexed(u) /\ GoesOn(a, TRUE) /\ UNCHANGED <<meta, history, kept, torn>>
  BY NoUpdateType DEF SaveIndex, Inv, UpdatesOK
<1>2. /\ u.id \in Ids /\ u.st \in State /\ meta[u.id] = u.st
      /\ u.op \in {"rename", "archive", "mark"}
      /\ a = Main => app.pc = "prompt" /\ u.op \in {"rename", "archive"}
      /\ a # Main => u.op = "mark"
      /\ u.op = "archive" => u.st.status = "archived"
  BY <1>1 DEF Inv, UpdatesOK, UpdateOK
<1>3. /\ Sound(index', meta) /\ (index'.exists \/ index' = NoIndex)
      /\ u.op # "archive" => index'.active = index.active
      /\ \A s \in Ids \ {u.id} :
           /\ SameTitle(index, meta, s) => SameTitle(index', meta, s)
           /\ SameStatus(index, meta, s) => SameStatus(index', meta, s)
      /\ u.op = "rename" \/ SameTitle(index, meta, u.id) => SameTitle(index', meta, u.id)
      /\ u.op = "archive" \/ SameStatus(index, meta, u.id) => SameStatus(index', meta, u.id)
  <2>1. DiskOK /\ IndexOK
    BY DEF Inv
  <2> HIDE DEF u
  <2>2. /\ Sound(Reindexed(u), meta) /\ (Reindexed(u).exists \/ Reindexed(u) = NoIndex)
        /\ u.op # "archive" => Reindexed(u).active = index.active
        /\ \A s \in Ids \ {u.id} :
             /\ SameTitle(index, meta, s) => SameTitle(Reindexed(u), meta, s)
             /\ SameStatus(index, meta, s) => SameStatus(Reindexed(u), meta, s)
        /\ u.op = "rename" \/ SameTitle(index, meta, u.id) => SameTitle(Reindexed(u), meta, u.id)
        /\ u.op = "archive" \/ SameStatus(index, meta, u.id) => SameStatus(Reindexed(u), meta, u.id)
    BY <1>1, <1>2, <2>1, ReindexedFields
  <2> QED
    BY <1>1, <2>2
<1>4. /\ WorkersOK' /\ UpdatesOK' /\ \A b \in Actors : update'[b] = NoUpdate
      /\ app' \in AppType
      /\ app' = app \/ (a = Main /\ u.op = "archive" /\ app'.pc = "archived")
  BY <1>1, GoesOnKeeps
<1>5. AppOK'
  <2>1. CASE u.op # "archive"
    <3>1. app' = app
      BY <1>4, <2>1
    <3>2. meta' = meta /\ torn' = torn /\ index'.active = index.active
      BY <1>1, <1>3, <2>1
    <3> QED
      BY <3>1, <3>2 DEF Inv, AppOK
  <2>2. CASE u.op = "archive"
    <3>1. app'.pc = "archived"
      <4>1. a = Main
        BY <1>2, <2>2
      <4>2. app' = [app EXCEPT !.pc = "archived"]
        BY <1>1, <2>2, <4>1, Zenon DEF GoesOn
      <4> QED
        BY <4>2 DEF Inv, AppOK, AppType
    <3> QED
      BY <1>4, <3>1 DEF AppOK
  <2> QED
    BY <2>1, <2>2
<1>6. AgreeOK'
  <2> SUFFICES ASSUME NEW s \in Ids \ torn
               PROVE  SameTitle(index', meta, s) /\ SameStatus(index', meta, s)
    BY <1>1 DEF AgreeOK, SameTitle, SameStatus
  <2>1. /\ ~Saving(s, "rename") => SameTitle(index, meta, s)
        /\ ~Saving(s, "archive") => SameStatus(index, meta, s)
    BY DEF Inv, AgreeOK
  <2>2. Saving(s, "rename") => u.id = s /\ u.op = "rename"
    BY <1>1, NoUpdateType DEF Saving, Inv, UpdatesOK, Actors
  <2>3. Saving(s, "archive") => u.id = s /\ u.op = "archive"
    BY <1>1, NoUpdateType DEF Saving, Inv, UpdatesOK, Actors
  <2>4. CASE s = u.id
    BY <1>3, <2>1, <2>2, <2>3, <2>4
  <2>5. CASE s # u.id
    BY <1>3, <2>1, <2>2, <2>3, <2>5
  <2> QED
    BY <2>4, <2>5
<1>7. IndexOK'
  BY <1>1, <1>3 DEF IndexOK
<1> QED
  BY <1>1, <1>4, <1>5, <1>6, <1>7 DEF Inv, DiskOK

LEMMA UpdateFailsKeeps == ASSUME Inv, NEW a \in Actors, UpdateFails(a) PROVE Inv'
<1>1. /\ update[a] # NoUpdate /\ GoesOn(a, FALSE) /\ UNCHANGED <<meta, index, history, kept>>
      /\ torn' = IF update[a].phase = "saved" THEN torn \cup {update[a].id} ELSE torn
  BY DEF UpdateFails, disk
<1>2. update[a].id \in Ids
  BY <1>1 DEF Inv, UpdatesOK, UpdateOK
<1>3. /\ WorkersOK' /\ UpdatesOK' /\ \A b \in Actors : update'[b] = NoUpdate
      /\ app' = app
  <2>1. FALSE \in BOOLEAN
    OBVIOUS
  <2>2. /\ WorkersOK' /\ UpdatesOK' /\ \A b \in Actors : update'[b] = NoUpdate
    BY <1>1, <2>1, GoesOnKeeps
  <2>3. app' = app
    BY <1>1 DEF GoesOn
  <2> QED
    BY <2>2, <2>3
<1>4. torn \subseteq torn' /\ torn' \subseteq Ids
  BY <1>1, <1>2 DEF Inv, DiskOK
<1>5. AppOK'
  <2>1. Agree(app.idx, meta, torn) => Agree(app.idx, meta, torn')
    BY <1>4 DEF Agree
  <2> QED
    BY <1>1, <1>3, <2>1 DEF Inv, AppOK
<1>6. AgreeOK'
  <2>1. ASSUME NEW s \in Ids \ torn' PROVE ~Saving(s, "rename") /\ ~Saving(s, "archive")
    BY <1>1, <2>1, NoUpdateType DEF Saving, Inv, UpdatesOK, Actors
  <2> QED
    BY <1>1, <1>4, <2>1 DEF Inv, AgreeOK, SameTitle, SameStatus
<1> QED
  BY <1>1, <1>3, <1>4, <1>5, <1>6, IndexStays DEF Inv, DiskOK

-----------------------------------------------------------------------------
(* The backfill goroutine. *)

\* A goroutine that is in no update moves on; memory may grow.
LEMMA WorkerMoves ==
  ASSUME Inv, NEW w \in Workers, NEW r,
         worker' = [worker EXCEPT ![w] = r], WorkerOK(r, meta, kept'),
         worker[w].pc # "marking", r.pc # "marking",
         UNCHANGED <<meta, index, history, app, update, torn>>,
         kept' \in [Ids -> SUBSET (1..MaxTalk)], \A s \in Ids : kept[s] \subseteq kept'[s]
  PROVE  Inv'
<1>1. \A v \in Workers : v # w => WorkerOK(worker[v], meta, kept')
  <2> SUFFICES ASSUME NEW v \in Workers, v # w PROVE WorkerOK(worker[v], meta, kept')
    OBVIOUS
  <2>1. WorkerOK(worker[v], meta, kept)
    BY DEF Inv, WorkersOK
  <2>2. worker[v].pc \in {"mark", "marking"} =>
          Recent(worker[v].seen) \subseteq kept'[worker[v].id] \/ worker[v].lost
    <3> SUFFICES ASSUME worker[v].pc \in {"mark", "marking"}, ~worker[v].lost
                 PROVE  Recent(worker[v].seen) \subseteq kept'[worker[v].id]
      OBVIOUS
    <3>1. worker[v].id \in Ids /\ Recent(worker[v].seen) \subseteq kept[worker[v].id]
      BY <2>1 DEF WorkerOK, WorkerType
    <3> QED
      BY <3>1
  <2> QED
    BY <2>1, <2>2 DEF WorkerOK
<1>2. WorkersOK'
  BY <1>1 DEF Inv, WorkersOK, WorkerOK
<1>3. update[w] = NoUpdate /\ w # Main
  BY DEF Inv, UpdatesOK
<1>4. \A v \in Workers : v # w => worker'[v] = worker[v]
  BY DEF Inv, WorkersOK
<1>5. worker'[w] = r
  BY DEF Inv, WorkersOK
<1>6. UpdatesOK'
  <2>1. \A b \in Actors : UpdateOK(b)'
    BY <1>3, <1>4 DEF Inv, UpdatesOK, UpdateOK, Actors
  <2>2. \A v \in Workers : worker'[v].pc = "marking" <=> worker[v].pc = "marking"
    BY <1>4, <1>5
  <2> QED
    BY <2>1, <2>2 DEF Inv, UpdatesOK
<1> QED
  BY <1>2, <1>6, AppStays, AgreeStays, IndexStays DEF Inv, DiskOK

\* Memory does not change.
LEMMA WorkerPasses ==
  ASSUME Inv, NEW w \in Workers, NEW r,
         worker' = [worker EXCEPT ![w] = r], WorkerOK(r, meta, kept),
         worker[w].pc # "marking", r.pc # "marking",
         UNCHANGED <<disk, app, update, torn>>
  PROVE  Inv'
<1>1. UNCHANGED <<meta, index, history, kept>>
  BY DEF disk
<1>2. kept' \in [Ids -> SUBSET (1..MaxTalk)] /\ \A s \in Ids : kept[s] \subseteq kept'[s]
  BY <1>1 DEF Inv, DiskOK
<1>3. WorkerOK(r, meta, kept')
  BY <1>1
<1> QED
  BY <1>1, <1>2, <1>3, WorkerMoves

\* A goroutine with a session in hand.
InHand(w) ==
  /\ worker[w] \in WorkerType /\ worker[w].id \in Ids /\ meta[worker[w].id] # NoState
  /\ \A s \in worker[w].todo : meta[s] # NoState
  /\ history[worker[w].id] \in 0..MaxTalk

LEMMA HasSession ==
  ASSUME Inv, NEW w \in Workers, worker[w].pc \notin {"idle", "next"} PROVE InHand(w)
<1>1. WorkerOK(worker[w], meta, kept)
  BY DEF Inv, WorkersOK
<1> QED
  BY <1>1 DEF WorkerOK, WorkerType, InHand, Inv, DiskOK

Steps == {"load", "read", "recheck", "summarize", "write", "mark", "marking"}

LEMMA PassesOK ==
  ASSUME NEW w \in Workers, InHand(w), NEW step \in Steps, NEW k \in [Ids -> SUBSET (1..MaxTalk)],
         step \in {"mark", "marking"} => Recent(worker[w].seen) \subseteq k[worker[w].id] \/ worker[w].lost
  PROVE  LET r == [worker[w] EXCEPT !.pc = step] IN WorkerOK(r, meta, k) /\ r.pc = step
<1> DEFINE r == [worker[w] EXCEPT !.pc = step]
<1>1. /\ r \in WorkerType /\ r.pc = step /\ r.id = worker[w].id
      /\ r.todo = worker[w].todo /\ r.seen = worker[w].seen /\ r.lost = worker[w].lost
  BY DEF InHand, WorkerType, Steps
<1>2. r.id # NoId /\ r.pc \notin {"idle", "next"}
  BY <1>1 DEF InHand, Steps
<1> HIDE DEF r
<1>3. WorkerOK(r, meta, k)
  BY <1>1, <1>2 DEF WorkerOK, InHand
<1> QED
  BY <1>1, <1>3 DEF r

LEMMA WorkerPassesTo ==
  ASSUME Inv, NEW w \in Workers, worker[w].pc \notin {"idle", "next", "marking"},
         NEW step \in {"load", "read", "recheck", "summarize", "write", "mark"},
         step = "mark" => Recent(worker[w].seen) \subseteq kept[worker[w].id] \/ worker[w].lost,
         Passes(w, step), UNCHANGED <<disk, app, update, torn>>
  PROVE  Inv'
<1>1. InHand(w)
  BY HasSession
<1>2. kept \in [Ids -> SUBSET (1..MaxTalk)] /\ step \in Steps
  BY DEF Inv, DiskOK, Steps
<1> DEFINE r == [worker[w] EXCEPT !.pc = step]
<1>3. WorkerOK(r, meta, kept) /\ r.pc = step
  BY <1>1, <1>2, PassesOK
<1>4. worker' = [worker EXCEPT ![w] = r]
  BY DEF Passes
<1> HIDE DEF r
<1> QED
  BY <1>3, <1>4, WorkerPasses

LEMMA WorkerSkips ==
  ASSUME Inv, NEW w \in Workers, worker[w].pc \notin {"idle", "next", "marking"},
         Skips(w), UNCHANGED <<disk, app, update, torn>>
  PROVE  Inv'
<1>1. InHand(w)
  BY HasSession
<1> DEFINE r == Ready(worker[w].todo)
<1>2. WorkerOK(r, meta, kept) /\ r.pc = "next"
  BY <1>1, ReadyOK DEF InHand, WorkerType
<1>3. worker' = [worker EXCEPT ![w] = r]
  BY DEF Skips
<1> HIDE DEF r
<1> QED
  BY <1>2, <1>3, WorkerPasses

LEMMA TakeKeeps == ASSUME Inv, NEW w \in Workers, Take(w) PROVE Inv'
<1>1. worker[w].pc = "next" /\ UNCHANGED <<disk, app, update, torn>>
  BY DEF Take
<1>2. WorkerOK(worker[w], meta, kept)
  BY DEF Inv, WorkersOK
<1>3. CASE worker' = [worker EXCEPT ![w] = Idle]
  BY <1>1, <1>3, IdleOK, WorkerPasses
<1>4. CASE \E s \in worker[w].todo :
             worker' = [worker EXCEPT ![w].pc = "check", ![w].id = s, ![w].todo = @ \ {s}]
  <2>1. PICK s \in worker[w].todo :
             worker' = [worker EXCEPT ![w].pc = "check", ![w].id = s, ![w].todo = @ \ {s}]
    BY <1>4
  <2> DEFINE r == [worker[w] EXCEPT !.pc = "check", !.id = s, !.todo = @ \ {s}]
  <2>2. worker' = [worker EXCEPT ![w] = r]
    BY <2>1
  <2>3. s \in Ids /\ worker[w] \in WorkerType /\ \A x \in worker[w].todo : meta[x] # NoState
    BY <1>2 DEF WorkerOK, WorkerType
  <2>4. r \in WorkerType /\ r.pc = "check" /\ r.id = s /\ r.todo \subseteq worker[w].todo
    BY <2>3 DEF WorkerType
  <2> HIDE DEF r
  <2>5. WorkerOK(r, meta, kept)
    BY <2>3, <2>4 DEF WorkerOK
  <2> QED
    BY <1>1, <2>2, <2>4, <2>5, WorkerPasses
<1> QED
  BY <1>3, <1>4 DEF Take

LEMMA CheckKeeps == ASSUME Inv, NEW w \in Workers, Check(w) PROVE Inv'
<1>1. worker[w].pc = "check" /\ UNCHANGED <<disk, app, update, torn>>
      /\ (Passes(w, "load") \/ Skips(w))
  BY DEF Check
<1> QED
  BY <1>1, WorkerPassesTo, WorkerSkips

LEMMA LoadMetaKeeps == ASSUME Inv, NEW w \in Workers, LoadMeta(w) PROVE Inv'
<1>1. worker[w].pc = "load" /\ UNCHANGED <<disk, app, update, torn>>
      /\ (Passes(w, "read") \/ Skips(w))
  BY DEF LoadMeta
<1> QED
  BY <1>1, WorkerPassesTo, WorkerSkips

LEMMA ReadHistoryKeeps == ASSUME Inv, NEW w \in Workers, ReadHistory(w) PROVE Inv'
<1>1. worker[w].pc = "read" /\ UNCHANGED <<disk, app, update, torn>>
  BY DEF ReadHistory
<1>2. InHand(w)
  BY <1>1, HasSession
<1> DEFINE r == [worker[w] EXCEPT !.pc = "recheck", !.seen = history[worker[w].id]]
<1>3. CASE Skips(w)
  BY <1>1, <1>3, WorkerSkips
<1>4. CASE worker' = [worker EXCEPT ![w] = r]
  <2>1. /\ r \in WorkerType /\ r.pc = "recheck" /\ r.id = worker[w].id
        /\ r.todo = worker[w].todo
    BY <1>2 DEF InHand, WorkerType
  <2> HIDE DEF r
  <2>2. WorkerOK(r, meta, kept)
    BY <1>2, <2>1 DEF WorkerOK, InHand
  <2> QED
    BY <1>1, <1>4, <2>1, <2>2, WorkerPasses
<1>5. Skips(w) \/ worker' = [worker EXCEPT ![w] = r]
  BY DEF ReadHistory
<1> QED
  BY <1>3, <1>4, <1>5

LEMMA RecheckKeeps == ASSUME Inv, NEW w \in Workers, Recheck(w) PROVE Inv'
<1>1. worker[w].pc = "recheck" /\ UNCHANGED <<disk, app, update, torn>>
      /\ \/ Skips(w) \/ Passes(w, "summarize")
         \/ worker[w].seen = 0 /\ Passes(w, "mark")
  BY DEF Recheck
<1>2. InHand(w)
  BY <1>1, HasSession
<1>3. worker[w].seen = 0 => Recent(worker[w].seen) \subseteq kept[worker[w].id]
  BY DEF Recent
<1> QED
  BY <1>1, <1>3, WorkerPassesTo, WorkerSkips

LEMMA SummarizeKeeps == ASSUME Inv, NEW w \in Workers, Summarize(w) PROVE Inv'
<1>1. worker[w].pc = "summarize" /\ UNCHANGED <<disk, app, update, torn>>
      /\ (Passes(w, "write") \/ Skips(w))
  BY DEF Summarize
<1> QED
  BY <1>1, WorkerPassesTo, WorkerSkips

LEMMA WriteMemoryKeeps == ASSUME Inv, NEW w \in Workers, WriteMemory(w) PROVE Inv'
<1> DEFINE n == kept[worker[w].id] \cup Recent(worker[w].seen)
<1>1. /\ worker[w].pc = "write" /\ UNCHANGED <<meta, index, history, app, update, torn>>
      /\ \/ /\ kept' = [kept EXCEPT ![worker[w].id] = n]
            /\ worker' = [worker EXCEPT ![w].pc = "mark"]
         \/ /\ worker' = [worker EXCEPT ![w].pc = "mark", ![w].lost = TRUE]
            /\ UNCHANGED kept
  BY Zenon DEF WriteMemory, Passes
<1>2. /\ InHand(w) /\ worker[w].seen \in 0..MaxTalk
      /\ kept \in [Ids -> SUBSET (1..MaxTalk)]
      /\ worker[w].pc # "marking"
  BY <1>1, HasSession DEF InHand, WorkerType, Inv, DiskOK
<1>3. CASE /\ kept' = [kept EXCEPT ![worker[w].id] = n]
           /\ worker' = [worker EXCEPT ![w].pc = "mark"]
  <2> DEFINE r == [worker[w] EXCEPT !.pc = "mark"]
  <2>1. /\ n \in SUBSET (1..MaxTalk) /\ kept[worker[w].id] \subseteq n
        /\ Recent(worker[w].seen) \subseteq n
    BY <1>2 DEF InHand, Recent
  <2> HIDE DEF n
  <2>2. /\ kept' \in [Ids -> SUBSET (1..MaxTalk)] /\ kept'[worker[w].id] = n
        /\ \A s \in Ids : kept[s] \subseteq kept'[s]
    BY <1>2, <1>3, <2>1 DEF InHand
  <2>3. WorkerOK(r, meta, kept') /\ r.pc = "mark"
    <3>1. "mark" \in Steps /\ Recent(worker[w].seen) \subseteq kept'[worker[w].id]
      BY <2>1, <2>2 DEF Steps
    <3> QED
      BY <1>2, <2>2, <3>1, PassesOK
  <2>4. worker' = [worker EXCEPT ![w] = r]
    BY <1>3
  <2> HIDE DEF r
  <2> QED
    BY <1>1, <1>2, <2>2, <2>3, <2>4, WorkerMoves
<1>4. CASE /\ worker' = [worker EXCEPT ![w].pc = "mark", ![w].lost = TRUE]
           /\ UNCHANGED kept
  <2> DEFINE r(d) == [worker[w] EXCEPT !.pc = "mark", !.lost = d]
  <2>1. \A d \in BOOLEAN : d => WorkerOK(r(d), meta, kept) /\ r(d).pc = "mark"
    <3> SUFFICES ASSUME NEW d \in BOOLEAN, d PROVE WorkerOK(r(d), meta, kept) /\ r(d).pc = "mark"
      OBVIOUS
    <3>1. /\ r(d) \in WorkerType /\ r(d).pc = "mark" /\ r(d).id = worker[w].id
          /\ r(d).todo = worker[w].todo /\ r(d).lost = d
      BY <1>2 DEF InHand, WorkerType
    <3> HIDE DEF r
    <3>2. r(d).id # NoId
      BY <1>2, <3>1 DEF InHand
    <3> QED
      BY <1>2, <3>1, <3>2 DEF WorkerOK, InHand
  <2>2. worker' = [worker EXCEPT ![w] = r(TRUE)] /\ TRUE \in BOOLEAN
    BY <1>4, Zenon
  <2> HIDE DEF r
  <2>3. WorkerOK(r(TRUE), meta, kept) /\ r(TRUE).pc = "mark"
    BY <2>1, <2>2, Zenon
  <2>4. UNCHANGED <<disk, app, update, torn>>
    BY <1>1, <1>4 DEF disk
  <2> QED
    BY <1>2, <2>2, <2>3, <2>4, WorkerPasses
<1> QED
  BY <1>1, <1>3, <1>4

LEMMA MarkKeeps == ASSUME Inv, NEW w \in Workers, Mark(w) PROVE Inv'
<1>1. worker[w].pc = "mark" /\ UNCHANGED <<disk, app, torn>>
  BY DEF Mark
<1>2. /\ InHand(w) /\ kept \in [Ids -> SUBSET (1..MaxTalk)]
      /\ Recent(worker[w].seen) \subseteq kept[worker[w].id] \/ worker[w].lost
  BY <1>1, HasSession DEF Inv, WorkersOK, WorkerOK, DiskOK
<1>3. CASE Skips(w) /\ UNCHANGED update
  BY <1>1, <1>3, WorkerSkips
<1>4. CASE Begin(w, "mark", worker[w].id) /\ Passes(w, "marking")
  <2> DEFINE r == [worker[w] EXCEPT !.pc = "marking"]
             id == worker[w].id
  <2>1. worker' = [worker EXCEPT ![w] = r]
    BY <1>4 DEF Passes
  <2>2. WorkerOK(r, meta, kept) /\ r.pc = "marking" /\ r.id = id
    <3>1. "marking" \in Steps
      BY DEF Steps
    <3>2. r.id = id
      BY <1>2 DEF InHand, WorkerType
    <3> QED
      BY <1>2, <3>1, <3>2, PassesOK
  <2> HIDE DEF r
  <2>3. UNCHANGED <<meta, index, history, kept, app, torn>>
    BY <1>1 DEF disk
  <2>4. WorkersOK' /\ worker'[w] = r /\ \A v \in Workers : v # w => worker'[v] = worker[v]
    BY <2>1, <2>2, <2>3 DEF Inv, WorkersOK, WorkerOK
  <2>5. w \in Actors /\ w # Main /\ \A v \in Workers : v \in Actors
    BY DEF Actors
  <2>6. id \in Ids /\ meta[id] # NoState /\ "mark" \in {"rename", "archive", "mark"}
    BY <1>2 DEF InHand
  <2>7. /\ update' \in [Actors -> UpdateType]
        /\ update'[w].phase = "loaded" /\ update'[w].op = "mark" /\ update'[w].id = id
        /\ update'[w].st = meta[id] /\ update'[w].st \in State /\ update'[w] # NoUpdate
        /\ \A b \in Actors : b # w => update'[b] = NoUpdate
        /\ \A b \in Actors : update[b] = NoUpdate
    BY <1>4, <2>5, <2>6, BeginUpdate DEF Inv
  <2>8. UpdatesOK'
    <3>1. UpdateOK(w)'
      BY <2>2, <2>3, <2>4, <2>5, <2>6, <2>7 DEF UpdateOK
    <3>2. \A b \in Actors : UpdateOK(b)'
      BY <2>7, <3>1 DEF UpdateOK
    <3>3. \A v \in Workers : v # w => worker[v].pc # "marking"
      BY <2>5, <2>7 DEF Inv, UpdatesOK
    <3> QED
      BY <2>2, <2>4, <2>5, <2>7, <3>2, <3>3 DEF UpdatesOK
  <2>9. AgreeOK'
    <3>1. update'[Main].phase = "none" /\ update[Main].phase = "none"
      BY <2>5, <2>7, NoUpdateType DEF Actors
    <3> QED
      BY <2>3, <3>1 DEF Inv, AgreeOK, Saving, SameTitle, SameStatus
  <2> QED
    BY <2>3, <2>4, <2>8, <2>9, AppStays, IndexStays DEF Inv, DiskOK
<1> QED
  BY <1>3, <1>4 DEF Mark

-----------------------------------------------------------------------------
(* The invariant, and what follows from it. *)

LEMMA InitInv == Init => Inv
<1> SUFFICES ASSUME Init PROVE Inv
  OBVIOUS
<1>1. DiskOK
  BY 0 \in 0..MaxTalk DEF Init, DiskOK
<1>2. IndexOK
  BY NoIndexType DEF Init, IndexOK, Sound
<1>3. AppOK
  BY OffType DEF Init, AppOK
<1>4. WorkersOK
  BY IdleOK DEF Init, WorkersOK, WorkerOK
<1>5. UpdatesOK
  BY IdleOK, NoUpdateType DEF Init, UpdatesOK, UpdateOK, Actors
<1>6. AgreeOK
  BY NoIndexType DEF Init, AgreeOK, SameTitle, SameStatus
<1> QED
  BY <1>1, <1>2, <1>3, <1>4, <1>5, <1>6 DEF Inv

LEMMA Stutters == ASSUME Inv, UNCHANGED vars PROVE Inv'
<1>1. UNCHANGED <<meta, index, history, kept, app, worker, update, torn>> /\ MetaGrows
  BY DEF vars, MetaGrows, Inv, DiskOK
<1> QED
  BY <1>1, AppStays, AgreeStays, IndexStays, WorkersStay, UpdatesStay DEF Inv, DiskOK

LEMMA NextInv == Inv /\ [Next]_vars => Inv'
<1> SUFFICES ASSUME Inv, [Next]_vars PROVE Inv'
  OBVIOUS
<1>1. CASE Open
  BY <1>1, OpenNewKeeps, CreateSessionKeeps, ListSessionKeeps, ActivateKeeps,
     StartBackfillKeeps DEF Open
<1>2. CASE Talk \/ Stop
  BY <1>2, TalkKeeps, StopKeeps
<1>3. CASE \E id \in Ids : OpenExisting(id)
  BY <1>3, OpenExistingKeeps
<1>4. CASE \E op \in {"rename", "archive"} : Command(op)
  BY <1>4, CommandKeeps
<1>5. CASE \E a \in Actors : SaveMeta(a) \/ SaveIndex(a) \/ UpdateFails(a)
  BY <1>5, SaveMetaKeeps, SaveIndexKeeps, UpdateFailsKeeps
<1>6. CASE \E w \in Workers : Backfill(w)
  BY <1>6, TakeKeeps, CheckKeeps, LoadMetaKeeps, ReadHistoryKeeps, RecheckKeeps,
     SummarizeKeeps, WriteMemoryKeeps, MarkKeeps DEF Backfill
<1>7. CASE UNCHANGED vars
  BY <1>7, Stutters
<1> QED
  BY <1>1, <1>2, <1>3, <1>4, <1>5, <1>6, <1>7 DEF Next

LEMMA InvHolds == Spec => []Inv
  BY InitInv, NextInv, PTL DEF Spec

\* A restart finds the session that ran, and everything the index names is on disk,
\* however many goroutines update the repository and wherever the process ends.
THEOREM RunningIsActiveHolds == Spec => []RunningIsActive
<1>1. Inv => RunningIsActive
  BY InvImplies
<1> QED
  BY <1>1, InvHolds, PTL

\* Outside an update the index tells the titles and statuses on disk, but for the
\* sessions whose update was cut short between its two files.
THEOREM IndexAgreesHolds == Spec => []IndexAgrees
<1>1. Inv => IndexAgrees
  BY InvImplies
<1> QED
  BY <1>1, InvHolds, PTL

\* Only a save of metadata changes a session that is on disk.
LEMMA MetaChanges ==
  ASSUME Inv, [Next]_vars, NEW s \in Ids, meta[s] # NoState, meta'[s] # meta[s]
  PROVE  \E a \in Actors : SaveMeta(a) /\ update[a].id = s
<1>1. CASE \E a \in Actors : SaveMeta(a)
  <2>1. PICK a \in Actors : SaveMeta(a)
    BY <1>1
  <2>2. meta' = [meta EXCEPT ![update[a].id] = SavedState(update[a])]
    BY <2>1, SaveMetaFields
  <2> QED
    BY <2>1, <2>2 DEF Inv, DiskOK
<1>2. CASE CreateSession
  <2>1. meta' = [meta EXCEPT ![app.id] = NewState] /\ meta[app.id] = NoState
    BY <1>2 DEF CreateSession, Inv, AppOK
  <2> QED
    BY <2>1 DEF Inv, DiskOK
<1>3. CASE OpenNew \/ ListSession \/ Activate \/ StartBackfill \/ Talk \/ Stop \/ UNCHANGED vars
  BY <1>3 DEF OpenNew, ListSession, Activate, StartBackfill, Talk, Stop, disk, vars
<1>4. CASE \/ \E id \in Ids : OpenExisting(id)
           \/ \E op \in {"rename", "archive"} : Command(op)
           \/ \E a \in Actors : SaveIndex(a) \/ UpdateFails(a)
  BY <1>4 DEF OpenExisting, Command, SaveIndex, UpdateFails, disk
<1>5. CASE \E w \in Workers : Backfill(w)
  BY <1>5 DEF Backfill, Take, Check, LoadMeta, ReadHistory, Recheck, Summarize, WriteMemory,
         Mark, disk
<1> QED
  BY <1>1, <1>2, <1>3, <1>4, <1>5 DEF Next, Open

\* An update never undoes another one: what it saves is what it loaded with one
\* field advanced, and nobody saved in between.
THEOREM NoLostUpdateHolds == Spec => NoLostUpdate
<1> DEFINE A(s) == meta[s] # NoState =>
             /\ meta'[s] # NoState /\ meta'[s].title >= meta[s].title
             /\ meta[s].status = "archived" => meta'[s].status = "archived"
             /\ meta[s].saved => meta'[s].saved
<1>1. ASSUME Inv, [Next]_vars, NEW s \in Ids PROVE A(s)
  <2> SUFFICES ASSUME meta[s] # NoState PROVE A(s)
    OBVIOUS
  <2>1. meta[s] \in State /\ meta[s].title \in 0..MaxTitle
    BY <1>1 DEF Inv, DiskOK, State
  <2>2. CASE meta'[s] = meta[s]
    BY <2>1, <2>2
  <2>3. CASE meta'[s] # meta[s]
    <3>1. PICK a \in Actors : SaveMeta(a) /\ update[a].id = s
      BY <1>1, <2>3, MetaChanges
    <3> DEFINE st == SavedState(update[a])
    <3>2. /\ meta[s] = update[a].st /\ meta' = [meta EXCEPT ![s] = st]
          /\ st \in State /\ st.title >= update[a].st.title
          /\ update[a].st.status = "archived" => st.status = "archived"
          /\ update[a].st.saved => st.saved
      BY <1>1, <3>1, SaveMetaFields
    <3> HIDE DEF st
    <3>3. meta'[s] = st /\ st # NoState
      BY <1>1, <3>2 DEF Inv, DiskOK
    <3> QED
      BY <3>2, <3>3
  <2> QED
    BY <2>2, <2>3
<1>2. Inv /\ [Next]_vars => [\A s \in Ids : A(s)]_vars
  BY <1>1
<1> QED
  BY <1>2, InvHolds, PTL DEF Spec, NoLostUpdate

\* The mark that stops a session from being distilled comes after the last entries a
\* goroutine read of it were worked into memory, or were lost to the memory store.
THEOREM MarkedIsKeptHolds == Spec => MarkedIsKept
<1> DEFINE A(s) == meta[s] # NoState /\ ~meta[s].saved /\ meta'[s].saved =>
             \E w \in Workers :
               worker[w].id = s /\ (Recent(worker[w].seen) \subseteq kept[s] \/ worker[w].lost)
<1>1. ASSUME Inv, [Next]_vars, NEW s \in Ids PROVE A(s)
  <2> SUFFICES ASSUME meta[s] # NoState, ~meta[s].saved, meta'[s].saved
               PROVE  \E w \in Workers :
                        worker[w].id = s /\ (Recent(worker[w].seen) \subseteq kept[s] \/ worker[w].lost)
    OBVIOUS
  <2>1. PICK a \in Actors : SaveMeta(a) /\ update[a].id = s
    BY <1>1, MetaChanges
  <2> DEFINE st == SavedState(update[a])
  <2>2. /\ meta[s] = update[a].st /\ meta' = [meta EXCEPT ![s] = st] /\ update[a] # NoUpdate
        /\ update[a].op # "mark" => st.saved = update[a].st.saved
    BY <1>1, <2>1, SaveMetaFields
  <2> HIDE DEF st
  <2>3. meta'[s] = st
    BY <1>1, <2>2 DEF Inv, DiskOK
  <2>4. update[a].op = "mark"
    BY <2>2, <2>3
  <2>5. a \in Workers /\ worker[a].id = s /\ worker[a].pc = "marking"
    BY <1>1, <2>1, <2>2, <2>4 DEF Inv, UpdatesOK, UpdateOK, Actors
  <2>6. Recent(worker[a].seen) \subseteq kept[s] \/ worker[a].lost
    BY <1>1, <2>5 DEF Inv, WorkersOK, WorkerOK
  <2> QED
    BY <2>5, <2>6
<1>2. Inv /\ [Next]_vars => [\A s \in Ids : A(s)]_vars
  BY <1>1
<1> QED
  BY <1>2, InvHolds, PTL DEF Spec, MarkedIsKept

(***************************************************************************)
(* Memory                                                                  *)
(***************************************************************************)
HIDE SessionsAssumption
HIDE NoStateAssumption

\* What most of the steps need of the constants.
LEMMA LineConstants ==
  NoText \notin Texts /\ Blank \notin Entry /\ Torn \notin Entry /\ Blank # Torn
  BY MemoryAssumption

USE LineConstants

File == Seq(Line)

LEMMA Domains ==
  ASSUME NEW T, NEW s \in Seq(T)
  PROVE  /\ Len(s) \in Nat /\ DOMAIN s = 1..Len(s) /\ s \in [1..Len(s) -> T]
         /\ \A i \in DOMAIN s : s[i] \in T
  BY LenProperties

LEMMA UpTo ==
  ASSUME NEW n \in Nat
  PROVE  IsFiniteSet(1..n) /\ Cardinality(1..n) = n
<1>1. 1 \in Int /\ n \in Int
  OBVIOUS
<1>2. IsFiniteSet(1..n) /\ Cardinality(1..n) = IF 1 > n THEN 0 ELSE n - 1 + 1
  BY <1>1, FS_Interval
<1> QED
  BY <1>2

\* Some arithmetic of line numbers.
LEMMA BelowFacts ==
  /\ \A l \in Nat \ {0}, n \in Int : n \in 1..l /\ n # l => n \in 1..(l - 1)
  /\ \A l \in Nat, m \in Int, n \in Int : n \in 1..l /\ l <= m => n \in 1..m
  /\ \A l \in Nat \ {0}, n \in Int :
       n \in 1..(l + 1) /\ n # l + 1 /\ n # l => n \in 1..(l - 1)
  OBVIOUS

LEMMA NumbersFacts ==
  ASSUME NEW s \in File
  PROVE  /\ IsFiniteSet(Numbers(s)) /\ Cardinality(Numbers(s)) \in Nat
         /\ Numbers(s) \subseteq 1..Len(s)
<1>1. Len(s) \in Nat /\ DOMAIN s = 1..Len(s)
  BY Domains DEF File
<1>2. Numbers(s) \in SUBSET (1..Len(s))
  BY <1>1 DEF Numbers
<1>3. IsFiniteSet(1..Len(s))
  BY <1>1, UpTo
<1> QED
  BY <1>2, <1>3, FS_Subset, FS_CardinalityType

LEMMA LoadsFacts ==
  ASSUME NEW x
  PROVE  /\ Loads(x) => x \in Entry /\ x \in Line /\ x.text \in Texts /\ x # Blank /\ x # Torn
         /\ x \in Entry => /\ x.text \in Texts \cup {NoText} /\ x.category \in Categories
                           /\ x # Blank /\ x # Torn /\ x = Content(x)
         /\ (x \in Entry /\ x.text \in Texts) => Loads(x)
  BY DEF Loads, Decodes, Entry, Line, Content

-----------------------------------------------------------------------------
(* Reading everything: the places are numbered from the first to the last.   *)

Places(S) == \A p \in S : p \in Days \X (Nat \ {0})
Behind(S, p) == {q \in S : NotAfter(q, p)}

LEMMA RankGrows ==
  ASSUME NEW S, IsFiniteSet(S), Places(S), NEW p \in S, NEW q \in S, p # q, NotAfter(p, q)
  PROVE  Rank(S, p) < Rank(S, q) /\ Rank(S, p) \in Nat /\ Rank(S, q) \in Nat
<1>1. /\ p[1] \in Int /\ p[2] \in Int /\ p = <<p[1], p[2]>>
      /\ q[1] \in Int /\ q[2] \in Int /\ q = <<q[1], q[2]>>
  BY DEF Places, Days
<1>2. ~NotAfter(q, p)
  BY <1>1 DEF NotAfter
<1>3. \A r \in S : NotAfter(r, p) => NotAfter(r, q)
  <2> SUFFICES ASSUME NEW r \in S, NotAfter(r, p) PROVE NotAfter(r, q)
    OBVIOUS
  <2>1. r[1] \in Int /\ r[2] \in Int
    BY DEF Places, Days
  <2> QED
    BY <1>1, <2>1 DEF NotAfter
<1>4. NotAfter(q, q)
  BY <1>1 DEF NotAfter
<1>5. Behind(S, p) \in SUBSET Behind(S, q) /\ q \in Behind(S, q) /\ q \notin Behind(S, p)
      /\ Behind(S, q) \in SUBSET S
  BY <1>2, <1>3, <1>4 DEF Behind
<1>6. IsFiniteSet(Behind(S, q))
  BY <1>5, FS_Subset
<1>7. /\ IsFiniteSet(Behind(S, p))
      /\ Cardinality(Behind(S, p)) <= Cardinality(Behind(S, q))
      /\ Cardinality(Behind(S, p)) # Cardinality(Behind(S, q))
  BY <1>5, <1>6, FS_Subset
<1>8. Cardinality(Behind(S, p)) \in Nat /\ Cardinality(Behind(S, q)) \in Nat
  BY <1>6, <1>7, FS_CardinalityType
<1>9. Rank(S, p) = Cardinality(Behind(S, p)) /\ Rank(S, q) = Cardinality(Behind(S, q))
  BY DEF Rank, Behind
<1> QED
  BY <1>7, <1>8, <1>9

LEMMA PlaceFacts ==
  ASSUME NEW S, IsFiniteSet(S), Places(S)
  PROVE  /\ Cardinality(S) \in Nat
         /\ \A i \in 1..Cardinality(S) : Place(S, i) \in S /\ Rank(S, Place(S, i)) = i
         /\ \A p \in S : \E i \in 1..Cardinality(S) : Place(S, i) = p
<1>1. Cardinality(S) \in Nat
  BY FS_CardinalityType
<1>2. ASSUME NEW p \in S PROVE Rank(S, p) \in 1..Cardinality(S)
  <2>1. p[1] \in Int /\ p[2] \in Int
    BY DEF Places, Days
  <2>2. p \in Behind(S, p) /\ Behind(S, p) \in SUBSET S
    BY <2>1 DEF Behind, NotAfter
  <2>3. /\ IsFiniteSet(Behind(S, p)) /\ Cardinality(Behind(S, p)) <= Cardinality(S)
        /\ Cardinality(Behind(S, p)) \in Nat
    BY <2>2, FS_Subset, FS_CardinalityType
  <2>4. Cardinality(Behind(S, p)) # 0
    BY <2>2, <2>3, FS_EmptySet
  <2>5. Rank(S, p) = Cardinality(Behind(S, p))
    BY DEF Rank, Behind
  <2> QED
    BY <1>1, <2>3, <2>4, <2>5
<1>3. ASSUME NEW p \in S, NEW q \in S, Rank(S, p) = Rank(S, q) PROVE p = q
  <2>1. p \in Days \X Nat /\ q \in Days \X Nat
    BY DEF Places
  <2>2. NotAfter(p, q) \/ NotAfter(q, p)
    BY <2>1 DEF NotAfter, Days
  <2>3. p # q /\ NotAfter(p, q) => Rank(S, p) < Rank(S, q)
    BY RankGrows
  <2>4. p # q /\ NotAfter(q, p) => Rank(S, q) < Rank(S, p)
    BY RankGrows
  <2>5. Rank(S, p) \in Int /\ Rank(S, q) \in Int
    BY <1>2
  <2> QED
    BY <1>3, <2>2, <2>3, <2>4, <2>5
<1>4. ASSUME NEW i \in 1..Cardinality(S) PROVE \E p \in S : Rank(S, p) = i
  <2> DEFINE f == [p \in S |-> Rank(S, p)]
             T == 1..Cardinality(S)
  <2>1. f \in Injection(S, T)
    BY <1>2, <1>3 DEF Injection, IsInjective
  <2>2. IsFiniteSet(T) /\ Cardinality(T) = Cardinality(S)
    BY <1>1, UpTo
  <2> HIDE DEF f, T
  <2>3. f \in Surjection(S, T)
    BY <2>1, <2>2, FS_Injection
  <2> QED
    BY <2>3 DEF Surjection, f, T
<1>5. ASSUME NEW i \in 1..Cardinality(S) PROVE Place(S, i) \in S /\ Rank(S, Place(S, i)) = i
  BY <1>4 DEF Place
<1>6. ASSUME NEW p \in S PROVE \E i \in 1..Cardinality(S) : Place(S, i) = p
  BY <1>2, <1>3, <1>5
<1> QED
  BY <1>1, <1>5, <1>6

LEMMA FoundFacts ==
  ASSUME NEW fs \in [Days -> File]
  PROVE  /\ IsFiniteSet(Found(fs)) /\ Places(Found(fs))
         /\ \A p \in Found(fs) : p[1] \in Days /\ p[2] \in Numbers(fs[p[1]])
                                 /\ p = <<p[1], p[2]>>
         /\ \A d \in Days : \A n \in Numbers(fs[d]) : <<d, n>> \in Found(fs)
<1> DEFINE Of(d) == {d} \X Numbers(fs[d])
           All == {Of(d) : d \in Days}
<1>1. \A d \in Days : IsFiniteSet(Of(d))
  BY NumbersFacts, FS_Singleton, FS_Product
<1>2. IsFiniteSet(Days)
  <2>1. MaxDay \in Nat
    BY MemoryAssumption
  <2> QED
    BY <2>1, UpTo DEF Days
<1>3. IsFiniteSet(All)
  <2> DEFINE f == [d \in Days |-> Of(d)]
  <2>1. f \in Surjection(Days, All)
    BY DEF Surjection
  <2> QED
    BY <1>2, <2>1, FS_Surjection
<1>4. IsFiniteSet(UNION All)
  BY <1>1, <1>3, FS_UNION
<1>5. \A d \in Days : Numbers(fs[d]) \subseteq Nat \ {0}
  BY NumbersFacts
<1>6. Found(fs) = UNION All
  BY DEF Found
<1>7. /\ \A p \in Found(fs) : p[1] \in Days /\ p[2] \in Numbers(fs[p[1]])
                              /\ p = <<p[1], p[2]>>
      /\ \A d \in Days : \A n \in Numbers(fs[d]) : <<d, n>> \in Found(fs)
  BY <1>6
<1> QED
  BY <1>4, <1>5, <1>6, <1>7 DEF Places

-----------------------------------------------------------------------------
(* What the cache knows of a file: each of its entries is on its line, each  *)
(* line in one entry at most, and each line that is read in one.  Entries    *)
(* without content, of which CacheMatchesFiles does not speak, are meant     *)
(* too: the number of a new line is counted with them.  Of a file that has   *)
(* drifted nothing is known until everything is read again; that the loss is *)
(* bounded there as well does not depend on the cache.                       *)

CachedOf(cs, d) == {i \in DOMAIN cs : cs[i].day = d}

OnLine(s, k) == k.line \in DOMAIN s /\ s[k.line] = Content(k)
Known(s, cs, d) ==
  /\ \A i \in CachedOf(cs, d) : OnLine(s, cs[i])
  /\ \A i, j \in CachedOf(cs, d) : cs[i].line = cs[j].line => i = j
  /\ \A n \in Numbers(s) : \E i \in CachedOf(cs, d) : cs[i].line = n

MemoryInv ==
  /\ MemoryType
  /\ \A d \in Days \ drifted : Known(files[d], chunks, d)

LEMMA CachedFacts ==
  ASSUME NEW d \in Days, NEW n \in Nat \ {0}, NEW x \in Entry
  PROVE  /\ Cached(d, n, x) \in Chunk
         /\ Cached(d, n, x).day = d /\ Cached(d, n, x).line = n
         /\ Cached(d, n, x).text = x.text
         /\ Content(Cached(d, n, x)) = x
  BY DEF Cached, Content, Chunk, Entry

LEMMA LoadFacts ==
  ASSUME NEW fs \in [Days -> File]
  PROVE  /\ LoadAllFromDisk(fs) \in Seq(Chunk)
         /\ \A d \in Days : Known(fs[d], LoadAllFromDisk(fs), d)
<1> DEFINE S == Found(fs)
           n == Cardinality(S)
           cs == LoadAllFromDisk(fs)
<1>1. /\ IsFiniteSet(S) /\ Places(S)
      /\ \A p \in S : p[1] \in Days /\ p[2] \in Numbers(fs[p[1]]) /\ p = <<p[1], p[2]>>
      /\ \A d \in Days : \A m \in Numbers(fs[d]) : <<d, m>> \in S
  BY FoundFacts
<1>2. /\ n \in Nat
      /\ \A i \in 1..n : Place(S, i) \in S /\ Rank(S, Place(S, i)) = i
      /\ \A p \in S : \E i \in 1..n : Place(S, i) = p
  BY <1>1, PlaceFacts
<1>3. cs = [i \in 1..n |-> LoadedFrom(fs, Place(S, i))]
  BY DEF LoadAllFromDisk
<1>4. ASSUME NEW p \in S
      PROVE  /\ LoadedFrom(fs, p) \in Chunk
             /\ LoadedFrom(fs, p).day = p[1] /\ LoadedFrom(fs, p).line = p[2]
             /\ OnLine(fs[p[1]], LoadedFrom(fs, p))
  <2>1. p[1] \in Days /\ p[2] \in Numbers(fs[p[1]]) /\ fs[p[1]] \in File
    BY <1>1
  <2>2. p[2] \in DOMAIN fs[p[1]] /\ Loads(fs[p[1]][p[2]]) /\ p[2] \in Nat \ {0}
    <3>1. p[2] \in Nat \ {0}
      BY <1>1 DEF Places
    <3> QED
      BY <2>1, <3>1 DEF Numbers
  <2>3. fs[p[1]][p[2]] \in Entry
    BY <2>2, LoadsFacts
  <2>4. LoadedFrom(fs, p) = Cached(p[1], p[2], fs[p[1]][p[2]])
    BY DEF LoadedFrom
  <2> QED
    BY <2>1, <2>2, <2>3, <2>4, CachedFacts DEF OnLine
<1> HIDE DEF cs, n, S
<1>5. cs \in Seq(Chunk) /\ DOMAIN cs = 1..n
  BY <1>2, <1>3, <1>4
<1>6. ASSUME NEW d \in Days PROVE Known(fs[d], cs, d)
  <2>1. \A i \in CachedOf(cs, d) : /\ i \in 1..n /\ Place(S, i) \in S /\ Place(S, i)[1] = d
                                   /\ cs[i] = LoadedFrom(fs, Place(S, i))
                                   /\ cs[i].line = Place(S, i)[2]
    BY <1>2, <1>3, <1>4, <1>5 DEF CachedOf
  <2>2. \A i \in CachedOf(cs, d) : OnLine(fs[d], cs[i])
    BY <1>4, <2>1
  <2>3. ASSUME NEW i \in CachedOf(cs, d), NEW j \in CachedOf(cs, d), cs[i].line = cs[j].line
        PROVE  i = j
    <3>1. Place(S, i) = Place(S, j)
      BY <1>1, <2>1, <2>3
    <3> QED
      BY <1>2, <2>1, <3>1
  <2>4. ASSUME NEW m \in Numbers(fs[d]) PROVE \E i \in CachedOf(cs, d) : cs[i].line = m
    <3>1. PICK i \in 1..n : Place(S, i) = <<d, m>>
      BY <1>1, <1>2
    <3>2. cs[i] = LoadedFrom(fs, <<d, m>>) /\ <<d, m>> \in S
      BY <1>1, <1>3, <3>1
    <3>3. cs[i].day = d /\ cs[i].line = m
      BY <1>4, <3>2
    <3> QED
      BY <1>5, <3>3 DEF CachedOf
  <2> QED
    BY <2>2, <2>3, <2>4 DEF Known
<1> QED
  BY <1>5, <1>6 DEF cs

LEMMA InvImpliesMatches == MemoryInv => CacheMatchesFiles
<1> SUFFICES ASSUME MemoryInv PROVE CacheMatchesFiles
  OBVIOUS
<1>1. MemoryType /\ files \in [Days -> File] /\ chunks \in Seq(Chunk)
  BY DEF MemoryInv, MemoryType, File
<1>2. ASSUME NEW d \in Days \ drifted
      PROVE  LET lines == Numbers(files[d])
                 cached == {i \in DOMAIN chunks : chunks[i].day = d /\ chunks[i].text # NoText} IN
             /\ Cardinality(cached) = Cardinality(lines)
             /\ \A i \in cached : /\ chunks[i].line \in lines
                                  /\ files[d][chunks[i].line] = Content(chunks[i])
             /\ \A i, j \in cached : chunks[i].line = chunks[j].line => i = j
  <2> DEFINE lines == Numbers(files[d])
             cached == {i \in DOMAIN chunks : chunks[i].day = d /\ chunks[i].text # NoText}
             f == [i \in cached |-> chunks[i].line]
  <2>1. Known(files[d], chunks, d) /\ files[d] \in File
    BY <1>1 DEF MemoryInv
  <2>2. \A i \in cached : i \in CachedOf(chunks, d) /\ chunks[i] \in Chunk /\ chunks[i].text # NoText
    BY <1>1, Domains DEF CachedOf
  <2>3. \A i \in cached : /\ chunks[i].line \in DOMAIN files[d]
                          /\ files[d][chunks[i].line] = Content(chunks[i])
    BY <2>1, <2>2 DEF Known, OnLine
  <2>4. \A i \in cached : Loads(Content(chunks[i]))
    BY <2>2 DEF Loads, Decodes, Content, Chunk, Entry
  <2>5. \A i \in cached : chunks[i].line \in lines
    BY <2>3, <2>4 DEF Numbers
  <2>6. \A i, j \in cached : chunks[i].line = chunks[j].line => i = j
    BY <2>1, <2>2 DEF Known
  <2>7. \A n \in lines : \E i \in cached : chunks[i].line = n
    <3> SUFFICES ASSUME NEW n \in lines PROVE \E i \in cached : chunks[i].line = n
      OBVIOUS
    <3>1. PICK i \in CachedOf(chunks, d) : chunks[i].line = n
      BY <2>1 DEF Known
    <3>2. files[d][n] = Content(chunks[i]) /\ Loads(files[d][n])
      BY <2>1, <3>1 DEF Known, OnLine, Numbers
    <3>3. chunks[i].text # NoText
      BY <3>2 DEF Loads, Content
    <3> QED
      BY <3>1, <3>3 DEF CachedOf
  <2>8. IsFiniteSet(lines)
    BY <2>1, NumbersFacts
  <2>9. f \in Injection(cached, lines) /\ f \in Surjection(cached, lines)
    BY <2>5, <2>6, <2>7 DEF Injection, IsInjective, Surjection
  <2> HIDE DEF f, cached, lines
  <2>10. Cardinality(cached) = Cardinality(lines)
    BY <2>8, <2>9, FS_Injection
  <2> QED
    BY <2>3, <2>5, <2>6, <2>10 DEF cached, lines
<1> QED
  BY <1>1, <1>2 DEF CacheMatchesFiles

-----------------------------------------------------------------------------
(* What the operations make of a file.                                       *)

LEMMA JoinedType ==
  ASSUME NEW x \in Line, NEW y \in Line
  PROVE  Joined(x, y) \in Line
  BY DEF Joined, Line

LEMMA OpenedFacts ==
  ASSUME NEW s \in File
  PROVE  /\ OpenedFile(s) \in File /\ OpenedFile(s) # <<>>
         /\ Numbers(OpenedFile(s)) = Numbers(s)
         /\ \A n \in DOMAIN s : n \in DOMAIN OpenedFile(s) /\ OpenedFile(s)[n] = s[n]
<1>1. CASE s = NoFile
  <2>1. OpenedFile(s) = <<Blank>> /\ s = <<>>
    BY <1>1 DEF OpenedFile, NoFile
  <2>2. <<Blank>> \in File /\ DOMAIN <<Blank>> = {1} /\ <<Blank>>[1] = Blank /\ DOMAIN s = {}
        /\ <<Blank>> # <<>>
    BY <2>1 DEF File, Line
  <2>3. ~Loads(Blank)
    BY LoadsFacts
  <2>4. Numbers(<<Blank>>) = {} /\ Numbers(s) = {}
    BY <2>2, <2>3 DEF Numbers
  <2> QED
    BY <2>1, <2>2, <2>4
<1>2. CASE s # NoFile
  BY <1>2 DEF OpenedFile, NoFile
<1> QED
  BY <1>1, <1>2

\* The arithmetic of cutting a sequence.
LEMMA CutFacts ==
  /\ \A l \in Nat \ {0} : /\ (l - 1) - 1 + 1 = l - 1
                          /\ (IF 1 <= l - 1 THEN (l - 1) - 1 + 1 ELSE 0) = l - 1
                          /\ \A i \in 1..(l - 1) : 1 + i - 1 = i
  /\ \A l \in Nat, n \in Int, i \in Int :
       n \in 1..l /\ i \in 1..(l - 1) /\ ~(i < n) =>
         /\ i - (n - 1) \in 1..(l - n) /\ n + (i - (n - 1)) = i + 1
         /\ ~(i <= n - 1) /\ i \in 1..((n - 1) + (l - n))
  OBVIOUS

LEMMA AppendedFacts ==
  ASSUME NEW s \in File, s # <<>>, NEW ls \in File, ls # <<>>
  PROVE  /\ Appended(s, ls) \in File
         /\ Len(Appended(s, ls)) = Len(s) + Len(ls) - 1
         /\ \A i \in 1..(Len(s) - 1) : Appended(s, ls)[i] = s[i]
         /\ Appended(s, ls)[Len(s)] = Joined(Last(s), ls[1])
         /\ \A i \in 2..Len(ls) : Appended(s, ls)[Len(s) + i - 1] = ls[i]
<1> DEFINE F == Front(s)
           x == Joined(Last(s), ls[1])
           t == Tail(ls)
<1>1. /\ Len(s) \in Nat \ {0} /\ Len(ls) \in Nat \ {0}
      /\ \A i \in 1..Len(s) : s[i] \in Line
      /\ \A i \in 1..Len(ls) : ls[i] \in Line
  BY EmptySeq, Domains DEF File
<1>2. /\ F \in Seq(Line) /\ Len(F) = Len(s) - 1
      /\ \A i \in 1..(Len(s) - 1) : F[i] = s[i]
  <2>1. /\ SubSeq(s, 1, Len(s) - 1) \in Seq(Line)
        /\ Len(SubSeq(s, 1, Len(s) - 1)) = IF 1 <= Len(s) - 1 THEN (Len(s) - 1) - 1 + 1 ELSE 0
        /\ \A i \in 1..((Len(s) - 1) - 1 + 1) : SubSeq(s, 1, Len(s) - 1)[i] = s[1 + i - 1]
    <3>1. 1 \in Int /\ Len(s) - 1 \in Int /\ \A i \in 1..(Len(s) - 1) : s[i] \in Line
      BY <1>1
    <3> QED
      BY <3>1, SubSeqProperties
  <2>2. (Len(s) - 1) - 1 + 1 = Len(s) - 1 /\ \A i \in 1..(Len(s) - 1) : 1 + i - 1 = i
    BY <1>1, CutFacts, Zenon
  <2>3. (IF 1 <= Len(s) - 1 THEN (Len(s) - 1) - 1 + 1 ELSE 0) = Len(s) - 1
    BY <1>1, CutFacts, Zenon
  <2>4. F = SubSeq(s, 1, Len(s) - 1)
    BY DEF Front
  <2> QED
    BY <2>1, <2>2, <2>3, <2>4
<1>3. x \in Line
  BY <1>1, JoinedType DEF Last
<1>4. /\ t \in Seq(Line) /\ Len(t) = Len(ls) - 1
      /\ \A i \in 1..Len(t) : t[i] = ls[i + 1]
  BY HeadTailProperties DEF File
<1> HIDE DEF F, x, t
<1>5. <<x>> \in Seq(Line) /\ Len(<<x>>) = 1 /\ <<x>>[1] = x
  BY <1>3
<1>6. /\ F \o <<x>> \in Seq(Line) /\ Len(F \o <<x>>) = Len(s)
      /\ \A i \in 1..(Len(s) - 1) : (F \o <<x>>)[i] = s[i]
      /\ (F \o <<x>>)[Len(s)] = x
  BY <1>1, <1>2, <1>5, ConcatProperties
<1> DEFINE p == F \o <<x>>
<1>8. Appended(s, ls) = p \o t
  BY DEF Appended, F, x, t
<1>11. /\ p \in Seq(Line) /\ Len(p) = Len(s) /\ p[Len(s)] = x
       /\ \A i \in 1..(Len(s) - 1) : p[i] = s[i]
  BY <1>6
<1> HIDE DEF p
<1>7. /\ p \o t \in Seq(Line)
      /\ Len(p \o t) = Len(s) + Len(t)
      /\ \A i \in 1..(Len(s) + Len(t)) : (p \o t)[i] =
            IF i <= Len(s) THEN p[i] ELSE t[i - Len(s)]
  <2>1. /\ p \o t \in Seq(Line) /\ Len(p \o t) = Len(p) + Len(t)
        /\ \A i \in 1..(Len(p) + Len(t)) : (p \o t)[i] =
              IF i <= Len(p) THEN p[i] ELSE t[i - Len(p)]
    BY <1>4, <1>11, ConcatProperties
  <2> QED
    BY <1>11, <2>1, Zenon
<1>9. \A i \in 2..Len(ls) : Appended(s, ls)[Len(s) + i - 1] = ls[i]
  <2> SUFFICES ASSUME NEW i \in 2..Len(ls) PROVE Appended(s, ls)[Len(s) + i - 1] = ls[i]
    OBVIOUS
  <2>1. /\ Len(s) + i - 1 \in 1..(Len(s) + Len(t)) /\ ~(Len(s) + i - 1 <= Len(s))
        /\ (Len(s) + i - 1) - Len(s) = i - 1 /\ i - 1 \in 1..Len(t) /\ (i - 1) + 1 = i
    BY <1>1, <1>4
  <2> QED
    BY <1>4, <1>7, <1>8, <2>1
<1>10. /\ \A i \in 1..(Len(s) - 1) : Appended(s, ls)[i] = s[i]
       /\ Appended(s, ls)[Len(s)] = x
  BY <1>1, <1>4, <1>7, <1>8, <1>11
<1> QED
  BY <1>1, <1>4, <1>7, <1>8, <1>9, <1>10 DEF File, x

LEMMA RemovedFacts ==
  ASSUME NEW T, NEW s \in Seq(T), NEW n \in DOMAIN s
  PROVE  /\ RemoveAt(s, n) \in Seq(T)
         /\ DOMAIN RemoveAt(s, n) = 1..(Len(s) - 1) /\ Len(RemoveAt(s, n)) = Len(s) - 1
         /\ \A i \in 1..(Len(s) - 1) : RemoveAt(s, n)[i] = IF i < n THEN s[i] ELSE s[i + 1]
<1> DEFINE a == SubSeq(s, 1, n - 1)
           b == SubSeq(s, n + 1, Len(s))
<1>1. Len(s) \in Nat /\ n \in 1..Len(s) /\ \A i \in 1..Len(s) : s[i] \in T
  BY Domains
<1>2. /\ a \in Seq(T) /\ Len(a) = n - 1
      /\ \A i \in 1..(n - 1) : a[i] = s[i]
  <2>1. 1 \in Int /\ n - 1 \in Int /\ \A i \in 1..(n - 1) : s[i] \in T
    BY <1>1
  <2>2. /\ a \in Seq(T) /\ Len(a) = IF 1 <= n - 1 THEN (n - 1) - 1 + 1 ELSE 0
        /\ \A i \in 1..((n - 1) - 1 + 1) : a[i] = s[1 + i - 1]
    BY <2>1, SubSeqProperties
  <2> QED
    BY <1>1, <2>2
<1>3. /\ b \in Seq(T) /\ Len(b) = Len(s) - n
      /\ \A i \in 1..(Len(s) - n) : b[i] = s[n + i]
  <2>1. n + 1 \in Int /\ Len(s) \in Int /\ \A i \in (n + 1)..Len(s) : s[i] \in T
    BY <1>1
  <2>2. /\ b \in Seq(T) /\ Len(b) = IF n + 1 <= Len(s) THEN Len(s) - (n + 1) + 1 ELSE 0
        /\ \A i \in 1..(Len(s) - (n + 1) + 1) : b[i] = s[(n + 1) + i - 1]
    BY <2>1, SubSeqProperties
  <2>3. Len(s) - (n + 1) + 1 = Len(s) - n /\ \A i \in 1..(Len(s) - n) : (n + 1) + i - 1 = n + i
    BY <1>1
  <2>4. (IF n + 1 <= Len(s) THEN Len(s) - (n + 1) + 1 ELSE 0) = Len(s) - n
    BY <1>1
  <2> HIDE DEF b
  <2> QED
    BY <2>2, <2>3, <2>4
<1> HIDE DEF a, b
<1>4. /\ a \o b \in Seq(T) /\ Len(a \o b) = Len(a) + Len(b)
      /\ \A i \in 1..(Len(a) + Len(b)) : (a \o b)[i] = IF i <= Len(a) THEN a[i] ELSE b[i - Len(a)]
  BY <1>2, <1>3, ConcatProperties
<1>5. RemoveAt(s, n) = a \o b
  BY DEF RemoveAt, a, b
<1>6. ASSUME NEW i \in 1..(Len(s) - 1)
      PROVE  (a \o b)[i] = IF i < n THEN s[i] ELSE s[i + 1]
  <2>1. CASE i < n
    <3>1. Len(a) = n - 1 /\ Len(b) = Len(s) - n /\ n \in Int /\ Len(s) \in Nat /\ i \in Int
      BY <1>1, <1>2, <1>3
    <3> DEFINE l == Len(s)
               k == Len(a)
               m == Len(b)
    <3> HIDE DEF l, k, m
    <3>2. k = n - 1 /\ m = l - n /\ n \in Int /\ l \in Nat /\ i \in 1..(l - 1)
      BY <3>1 DEF l, k, m
    <3>3. i <= k /\ i \in 1..(k + m) /\ i \in 1..(n - 1)
      BY <2>1, <3>2
    <3>4. i <= Len(a) /\ i \in 1..(Len(a) + Len(b))
      BY <3>3 DEF k, m
    <3>5. (a \o b)[i] = IF i <= Len(a) THEN a[i] ELSE b[i - Len(a)]
      BY <1>4, <3>4, Zenon
    <3>6. a[i] = s[i]
      BY <1>2, <3>3, Zenon
    <3> QED
      BY <2>1, <3>4, <3>5, <3>6, Zenon
  <2>2. CASE ~(i < n)
    <3>1. i - Len(a) \in 1..(Len(s) - n) /\ n + (i - Len(a)) = i + 1 /\ ~(i <= Len(a))
          /\ i \in 1..(Len(a) + Len(b))
      <4>1. Len(a) = n - 1 /\ Len(b) = Len(s) - n /\ n \in Int /\ Len(s) \in Nat /\ i \in Int
        BY <1>1, <1>2, <1>3
      <4> QED
        <5>1. /\ i - (n - 1) \in 1..(Len(s) - n) /\ n + (i - (n - 1)) = i + 1
              /\ ~(i <= n - 1) /\ i \in 1..((n - 1) + (Len(s) - n))
          BY <1>1, <2>2, <4>1, CutFacts, Zenon
        <5> QED
          BY <4>1, <5>1, Zenon
    <3> QED
      BY <1>3, <1>4, <2>2, <3>1
  <2> QED
    BY <2>1, <2>2
<1>7. Len(a \o b) = Len(s) - 1 /\ DOMAIN (a \o b) = 1..(Len(s) - 1)
  <2>1. (n - 1) + (Len(s) - n) = Len(s) - 1
    BY <1>1
  <2>2. Len(a \o b) = Len(s) - 1
    BY <1>2, <1>3, <1>4, <2>1
  <2>3. DOMAIN (a \o b) = 1..Len(a \o b)
    BY <1>4, Domains, Zenon
  <2> QED
    BY <2>2, <2>3
<1> QED
  BY <1>4, <1>5, <1>6, <1>7

LEMMA WithoutFacts ==
  ASSUME NEW s \in File, NEW n \in DOMAIN s
  PROVE  /\ Without(s, n) \in File
         /\ Numbers(Without(s, n)) = Numbers(RemoveAt(s, n))
         /\ \A i \in 1..(Len(s) - 1) : RemoveAt(s, n)[i] # Blank =>
              i \in DOMAIN Without(s, n) /\ Without(s, n)[i] = RemoveAt(s, n)[i]
<1> DEFINE r == RemoveAt(s, n)
<1>1. r \in File /\ DOMAIN r = 1..(Len(s) - 1)
  BY RemovedFacts DEF File
<1>2. Without(s, n) = IF \A i \in DOMAIN r : r[i] = Blank THEN NoFile ELSE r
  BY DEF Without, Kept
<1> HIDE DEF r
<1>3. CASE \A i \in DOMAIN r : r[i] = Blank
  <2>1. Without(s, n) = <<>> /\ DOMAIN <<>> = {} /\ <<>> \in File
    BY <1>2, <1>3 DEF NoFile, File
  <2>2. ~Loads(Blank)
    BY LoadsFacts
  <2>3. Numbers(r) = {} /\ Numbers(<<>>) = {}
    BY <1>3, <2>1, <2>2 DEF Numbers
  <2> QED
    BY <1>1, <1>3, <2>1, <2>3 DEF r
<1>4. CASE ~(\A i \in DOMAIN r : r[i] = Blank)
  BY <1>1, <1>2, <1>4 DEF r
<1> QED
  BY <1>3, <1>4

-----------------------------------------------------------------------------
(* Rewriting a line.                                                         *)

SetText(x, t) == [x EXCEPT !.text = t]

LEMMA SetTextFacts ==
  ASSUME NEW t \in Texts
  PROVE  /\ \A x \in Entry : /\ SetText(x, t) \in Entry /\ SetText(x, t).text = t
                             /\ SetText(x, t).category = x.category
                             /\ Loads(SetText(x, t))
         /\ \A k \in Chunk : /\ SetText(k, t) \in Chunk /\ SetText(k, t).text = t
                             /\ SetText(k, t).day = k.day /\ SetText(k, t).line = k.line
                             /\ Content(SetText(k, t)) = SetText(Content(k), t)
                             /\ Content(k) \in Entry
<1>1. ASSUME NEW x \in Entry
      PROVE  /\ SetText(x, t) \in Entry /\ SetText(x, t).text = t
             /\ SetText(x, t).category = x.category
  BY DEF SetText, Entry
<1>2. ASSUME NEW x \in Entry PROVE Loads(SetText(x, t))
  BY <1>1 DEF Loads, Decodes
<1>3. ASSUME NEW k \in Chunk
      PROVE  /\ SetText(k, t) \in Chunk /\ SetText(k, t).text = t
             /\ SetText(k, t).day = k.day /\ SetText(k, t).line = k.line
             /\ SetText(k, t).category = k.category
  BY DEF SetText, Chunk
<1>4. ASSUME NEW k \in Chunk PROVE Content(k) \in Entry
  BY DEF Content, Chunk, Entry
<1>5. ASSUME NEW k \in Chunk PROVE Content(SetText(k, t)) = SetText(Content(k), t)
  <2>1. Content(SetText(k, t)) = [text |-> t, category |-> k.category]
    BY <1>3 DEF Content
  <2>2. SetText(Content(k), t) = [text |-> t, category |-> k.category]
    BY DEF SetText, Content
  <2> QED
    BY <2>1, <2>2
<1> QED
  BY <1>1, <1>2, <1>3, <1>4, <1>5

LEMMA RewrittenLine ==
  ASSUME NEW s \in File, NEW n \in DOMAIN s, s[n] \in Entry, NEW t \in Texts
  PROVE  /\ Rewritten(s, n, t) \in File /\ DOMAIN Rewritten(s, n, t) = DOMAIN s
         /\ Rewritten(s, n, t)[n] = SetText(s[n], t)
         /\ \A m \in DOMAIN s : m # n => Rewritten(s, n, t)[m] = s[m]
         /\ Numbers(Rewritten(s, n, t)) = Numbers(s) \cup {n}
<1> DEFINE r == Rewritten(s, n, t)
           x == SetText(s[n], t)
<1>1. x \in Entry /\ Loads(x) /\ x \in Line
  BY SetTextFacts DEF Line
<1>2. r = [s EXCEPT ![n] = x]
  BY DEF SetText, Rewritten
<1>3. Len(s) \in Nat /\ DOMAIN s = 1..Len(s) /\ s \in Seq(Line) /\ n \in 1..Len(s)
  BY Domains DEF File
<1> HIDE DEF r, x
<1>4. /\ r \in Seq(Line) /\ Len(r) = Len(s)
      /\ \A j \in 1..Len(s) : r[j] = IF j = n THEN x ELSE s[j]
  BY <1>1, <1>2, <1>3, ExceptSeq
<1>5. DOMAIN r = DOMAIN s
  BY <1>3, <1>4, Domains
<1>6. Numbers(r) = Numbers(s) \cup {n}
  BY <1>1, <1>3, <1>4, <1>5 DEF Numbers
<1> QED
  BY <1>3, <1>4, <1>5, <1>6 DEF File, r, x

LEMMA RewrittenChunk ==
  ASSUME NEW cs \in Seq(Chunk), NEW i \in DOMAIN cs, NEW t \in Texts
  PROVE  LET r == [cs EXCEPT ![i].text = t] IN
         /\ r \in Seq(Chunk) /\ DOMAIN r = DOMAIN cs
         /\ r[i] = SetText(cs[i], t)
         /\ \A j \in DOMAIN cs : j # i => r[j] = cs[j]
         /\ \A j \in DOMAIN cs : r[j].day = cs[j].day /\ r[j].line = cs[j].line
         /\ \A d : CachedOf(r, d) = CachedOf(cs, d)
<1> DEFINE r == [cs EXCEPT ![i].text = t]
           x == SetText(cs[i], t)
<1>1. /\ Len(cs) \in Nat /\ DOMAIN cs = 1..Len(cs) /\ i \in 1..Len(cs)
      /\ cs[i] \in Chunk
  BY Domains
<1>2. x \in Chunk /\ x.day = cs[i].day /\ x.line = cs[i].line
  BY <1>1, SetTextFacts
<1>3. r = [cs EXCEPT ![i] = x]
  BY DEF SetText
<1> HIDE DEF r, x
<1>4. /\ r \in Seq(Chunk) /\ Len(r) = Len(cs)
      /\ \A j \in 1..Len(cs) : r[j] = IF j = i THEN x ELSE cs[j]
  BY <1>1, <1>2, <1>3, ExceptSeq
<1>5. DOMAIN r = DOMAIN cs
  BY <1>1, <1>4, Domains
<1>6. \A j \in DOMAIN cs : r[j].day = cs[j].day /\ r[j].line = cs[j].line
  BY <1>1, <1>2, <1>4
<1>7. \A d : CachedOf(r, d) = CachedOf(cs, d)
  BY <1>5, <1>6 DEF CachedOf
<1> QED
  BY <1>1, <1>4, <1>5, <1>6, <1>7 DEF r, x

LEMMA KnownRewritten ==
  ASSUME NEW s \in File, NEW cs \in Seq(Chunk), NEW d, NEW t \in Texts,
         NEW i \in CachedOf(cs, d), cs[i].text \in Texts, Known(s, cs, d)
  PROVE  Known(Rewritten(s, cs[i].line, t), [cs EXCEPT ![i].text = t], d)
<1> DEFINE n == cs[i].line
           s2 == Rewritten(s, n, t)
           c2 == [cs EXCEPT ![i].text = t]
<1>1. i \in DOMAIN cs /\ cs[i] \in Chunk
  BY Domains DEF CachedOf
<1>2. n \in DOMAIN s /\ s[n] = Content(cs[i]) /\ Content(cs[i]) \in Entry
  BY <1>1, SetTextFacts DEF Known, OnLine
<1>3. /\ DOMAIN s2 = DOMAIN s /\ s2[n] = SetText(s[n], t)
      /\ \A m \in DOMAIN s : m # n => s2[m] = s[m]
      /\ Numbers(s2) = Numbers(s) \cup {n}
  <2>1. n \in DOMAIN s /\ s[n] \in Entry
    BY <1>2
  <2> HIDE DEF n
  <2> QED
    BY <2>1, RewrittenLine
<1>4. /\ c2[i] = SetText(cs[i], t)
      /\ \A j \in DOMAIN cs : j # i => c2[j] = cs[j]
      /\ \A j \in DOMAIN cs : c2[j].line = cs[j].line
      /\ CachedOf(c2, d) = CachedOf(cs, d)
  BY <1>1, RewrittenChunk
<1>5. n \in Numbers(s)
  BY <1>2 DEF Numbers, Loads, Decodes, Content
<1>6. Content(c2[i]) = SetText(Content(cs[i]), t)
  BY <1>1, <1>4, SetTextFacts
<1> HIDE DEF s2, c2, n
<1>7. ASSUME NEW j \in CachedOf(cs, d) PROVE OnLine(s2, c2[j])
  <2>1. j \in DOMAIN cs /\ OnLine(s, cs[j])
    BY DEF Known, CachedOf
  <2>2. CASE j = i
    BY <1>2, <1>3, <1>4, <1>6, <2>1, <2>2 DEF OnLine, n
  <2>3. CASE j # i
    <3>1. cs[j].line # n
      BY <2>3 DEF Known, n
    <3> QED
      BY <1>3, <1>4, <2>1, <2>3, <3>1 DEF OnLine
  <2> QED
    BY <2>2, <2>3
<1>8. \A j \in CachedOf(cs, d) : c2[j].line = cs[j].line
  BY <1>4 DEF CachedOf
<1>9. Numbers(s2) = Numbers(s)
  BY <1>3, <1>5
<1> QED
  BY <1>4, <1>7, <1>8, <1>9 DEF Known, s2, c2, n

\* An entry of another day is no matter.
LEMMA KnownRewrittenOther ==
  ASSUME NEW s, NEW cs \in Seq(Chunk), NEW d, NEW t \in Texts,
         NEW i \in DOMAIN cs, cs[i].day # d, Known(s, cs, d)
  PROVE  Known(s, [cs EXCEPT ![i].text = t], d)
<1> DEFINE c2 == [cs EXCEPT ![i].text = t]
<1>1. /\ \A j \in DOMAIN cs : j # i => c2[j] = cs[j]
      /\ CachedOf(c2, d) = CachedOf(cs, d)
  BY RewrittenChunk
<1>2. \A j \in CachedOf(cs, d) : c2[j] = cs[j]
  BY <1>1 DEF CachedOf
<1> HIDE DEF c2
<1> QED
  BY <1>1, <1>2 DEF Known, c2

-----------------------------------------------------------------------------
(* Appending a line: the number the cache gives it, one more than it has     *)
(* entries of the file, is the line's in a tidy file.                        *)

LEMMA KnownOpened ==
  ASSUME NEW s \in File, NEW cs, NEW d, Known(s, cs, d)
  PROVE  Known(OpenedFile(s), cs, d)
  BY OpenedFacts DEF Known, OnLine

LEMMA CountIsLength ==
  ASSUME NEW s \in File, s # <<>>, Tidy(s), NEW cs \in Seq(Chunk), NEW d, Known(s, cs, d)
  PROVE  Cardinality(CachedOf(cs, d)) + 1 = Len(s)
<1> DEFINE C == CachedOf(cs, d)
           T == 1..(Len(s) - 1)
           f == [i \in C |-> cs[i].line]
<1>1. Len(s) \in Nat \ {0} /\ DOMAIN s = 1..Len(s)
  BY EmptySeq, Domains DEF File
<1>2. ASSUME NEW i \in C PROVE cs[i].line \in T
  <2>1. cs[i].line \in DOMAIN s /\ s[cs[i].line] = Content(cs[i]) /\ cs[i] \in Chunk
    BY Domains DEF Known, OnLine, CachedOf
  <2>2. s[cs[i].line] # Blank
    <3>1. Content(cs[i]) \in Entry
      BY <2>1 DEF Content, Chunk, Entry
    <3> QED
      BY <2>1, <3>1
  <2>3. cs[i].line # Len(s)
    BY <2>2 DEF Tidy, Last
  <2> QED
    BY <1>1, <2>1, <2>3
<1>3. \A i, j \in C : cs[i].line = cs[j].line => i = j
  BY DEF Known
<1>4. ASSUME NEW n \in T PROVE \E i \in C : cs[i].line = n
  <2>1. n \in Numbers(s)
    BY <1>1 DEF Tidy, Numbers
  <2> QED
    BY <2>1 DEF Known
<1>5. f \in Injection(C, T) /\ f \in Surjection(C, T)
  BY <1>2, <1>3, <1>4 DEF Injection, IsInjective, Surjection
<1>6. IsFiniteSet(T) /\ Cardinality(T) = Len(s) - 1
  <2>1. Len(s) - 1 \in Nat
    BY <1>1
  <2> QED
    BY <2>1, UpTo
<1> HIDE DEF f, T, C
<1>7. Cardinality(C) = Cardinality(T)
  BY <1>5, <1>6, FS_Injection
<1> QED
  BY <1>1, <1>6, <1>7 DEF C

LEMMA KnownAppendOther ==
  ASSUME NEW s, NEW cs \in Seq(Chunk), NEW k \in Chunk, NEW d, k.day # d, Known(s, cs, d)
  PROVE  Known(s, Append(cs, k), d)
<1>1. /\ Append(cs, k) \in Seq(Chunk) /\ Len(cs) \in Nat
      /\ DOMAIN Append(cs, k) = 1..(Len(cs) + 1) /\ DOMAIN cs = 1..Len(cs)
      /\ \A i \in 1..Len(cs) : Append(cs, k)[i] = cs[i]
      /\ Append(cs, k)[Len(cs) + 1] = k
  BY AppendProperties, Domains
<1>2. /\ CachedOf(Append(cs, k), d) = CachedOf(cs, d)
      /\ \A i \in CachedOf(cs, d) : Append(cs, k)[i] = cs[i]
  BY <1>1 DEF CachedOf
<1> QED
  BY <1>2 DEF Known

LEMMA KnownAppended ==
  ASSUME NEW s \in File, s # <<>>, Tidy(s), NEW cs \in Seq(Chunk), NEW d \in Days,
         Known(s, cs, d), NEW e \in Entry
  PROVE  Known(Appended(s, <<e, Blank>>), Append(cs, Cached(d, Len(s), e)), d)
<1> DEFINE ls == <<e, Blank>>
           r == Appended(s, ls)
           k == Cached(d, Len(s), e)
           c2 == Append(cs, k)
<1>1. Len(s) \in Nat \ {0} /\ DOMAIN s = 1..Len(s)
  BY EmptySeq, Domains DEF File
<1>2. ls \in File /\ ls # <<>> /\ Len(ls) = 2 /\ ls[1] = e /\ ls[2] = Blank
  BY DEF File, Line
<1>3. Joined(Last(s), ls[1]) = e
  BY <1>2 DEF Tidy, Joined
<1> HIDE DEF ls
<1>4. /\ r \in File /\ Len(r) = Len(s) + Len(ls) - 1
      /\ \A i \in 1..(Len(s) - 1) : r[i] = s[i]
      /\ r[Len(s)] = Joined(Last(s), ls[1])
      /\ \A i \in 2..Len(ls) : r[Len(s) + i - 1] = ls[i]
  BY <1>2, AppendedFacts
<1>5. r[Len(s) + 1] = Blank /\ Len(r) = Len(s) + 1 /\ r[Len(s)] = e
  <2>1. Len(s) + 2 - 1 = Len(s) + 1 /\ 2 \in 2..2
    BY <1>1
  <2> QED
    BY <1>2, <1>3, <1>4, <2>1
<1>6. DOMAIN r = 1..(Len(s) + 1)
  BY <1>4, <1>5, Domains DEF File
<1>7. k \in Chunk /\ k.day = d /\ k.line = Len(s) /\ Content(k) = e
  BY <1>1, CachedFacts
<1> HIDE DEF r, k
<1>8. /\ c2 \in Seq(Chunk) /\ Len(cs) \in Nat
      /\ DOMAIN c2 = 1..(Len(cs) + 1) /\ DOMAIN cs = 1..Len(cs)
      /\ \A i \in 1..Len(cs) : c2[i] = cs[i]
      /\ c2[Len(cs) + 1] = k
  BY <1>7, AppendProperties, Domains
<1> HIDE DEF c2
<1>9. CachedOf(c2, d) = CachedOf(cs, d) \cup {Len(cs) + 1}
  BY <1>7, <1>8 DEF CachedOf
<1>10. ASSUME NEW i \in CachedOf(cs, d)
       PROVE  c2[i] = cs[i] /\ c2[i].line \in 1..(Len(s) - 1) /\ OnLine(r, c2[i])
  <2>1. /\ c2[i] = cs[i] /\ OnLine(s, cs[i]) /\ cs[i] \in Chunk
    BY <1>8, Domains DEF Known, CachedOf
  <2>2. Content(cs[i]) \in Entry
    BY <2>1 DEF Content, Chunk, Entry
  <2>3. s[cs[i].line] # Blank
    BY <2>1, <2>2 DEF OnLine
  <2>4. cs[i].line # Len(s)
    BY <2>3 DEF Tidy, Last
  <2>5. cs[i].line \in 1..(Len(s) - 1)
    BY <1>1, <2>1, <2>4 DEF OnLine
  <2>6. cs[i].line \in DOMAIN r /\ r[cs[i].line] = s[cs[i].line]
    BY <1>1, <1>4, <1>6, <2>5
  <2> QED
    BY <2>1, <2>5, <2>6 DEF OnLine
<1>11. OnLine(r, k)
  BY <1>1, <1>5, <1>6, <1>7 DEF OnLine
<1>12. ASSUME NEW i \in CachedOf(c2, d), NEW j \in CachedOf(c2, d), c2[i].line = c2[j].line
       PROVE  i = j
  <2>1. CASE i = Len(cs) + 1
    <3>1. c2[i].line = Len(s)
      BY <1>7, <1>8, <2>1
    <3>2. ASSUME j # Len(cs) + 1 PROVE FALSE
      <4>1. c2[j].line \in 1..(Len(s) - 1)
        BY <1>9, <1>10, <3>2
      <4>2. Len(s) \in Int
        BY <1>1
      <4>3. c2[j].line # Len(s)
        BY <4>1, <4>2
      <4> QED
        BY <1>12, <3>1, <4>3
    <3> QED
      BY <2>1, <3>2
  <2>2. CASE j = Len(cs) + 1
    <3>1. c2[j].line = Len(s)
      BY <1>7, <1>8, <2>2
    <3>2. ASSUME i # Len(cs) + 1 PROVE FALSE
      <4>1. c2[i].line \in 1..(Len(s) - 1)
        BY <1>9, <1>10, <3>2
      <4>2. Len(s) \in Int
        BY <1>1
      <4>3. c2[i].line # Len(s)
        BY <4>1, <4>2
      <4> QED
        BY <1>12, <3>1, <4>3
    <3> QED
      BY <2>2, <3>2
  <2>3. CASE i # Len(cs) + 1 /\ j # Len(cs) + 1
    BY <1>9, <1>10, <1>12, <2>3 DEF Known
  <2> QED
    BY <2>1, <2>2, <2>3
<1>13. ASSUME NEW n \in Numbers(r) PROVE \E i \in CachedOf(c2, d) : c2[i].line = n
  <2>1. n \in 1..(Len(s) + 1) /\ Loads(r[n]) /\ r[n] # Blank
    BY <1>6, LoadsFacts DEF Numbers
  <2>2. n # Len(s) + 1
    BY <1>5, <2>1
  <2>3. CASE n = Len(s)
    BY <1>7, <1>8, <1>9, <2>3
  <2>4. CASE n # Len(s)
    <3>4. n \in Int /\ Len(s) \in Nat \ {0}
      BY <1>1, <2>1
    <3>1. n \in 1..(Len(s) - 1)
      BY <2>1, <2>2, <2>4, <3>4, BelowFacts, Zenon
    <3>2. n \in Numbers(s)
      BY <1>1, <1>4, <2>1, <3>1 DEF Numbers
    <3>3. PICK i \in CachedOf(cs, d) : cs[i].line = n
      BY <3>2 DEF Known
    <3> QED
      BY <1>9, <1>10, <3>3
  <2> QED
    BY <2>3, <2>4
<1> QED
  <2>1. \A i \in CachedOf(c2, d) : OnLine(r, c2[i])
    BY <1>8, <1>9, <1>10, <1>11
  <2>2. Known(r, c2, d)
    BY <1>12, <1>13, <2>1 DEF Known
  <2> QED
    BY <2>2 DEF c2, r, k, ls

-----------------------------------------------------------------------------
(* Deleting a line: below it, both the lines and the cache's numbers move up *)
(* by one.                                                                   *)

\* Where what is now at i was before position n was removed.
Skip(n, i) == IF i < n THEN i ELSE i + 1

LEMMA SkipFacts ==
  ASSUME NEW l \in Nat, NEW n \in 1..l
  PROVE  /\ \A i \in 1..(l - 1) : Skip(n, i) \in 1..l /\ Skip(n, i) # n
         /\ \A i, j \in 1..(l - 1) : Skip(n, i) = Skip(n, j) => i = j
         /\ \A j \in 1..l : j # n => \E i \in 1..(l - 1) : Skip(n, i) = j
<1>1. \A i \in 1..(l - 1) : Skip(n, i) \in 1..l /\ Skip(n, i) # n
  BY DEF Skip
<1>2. \A i, j \in 1..(l - 1) : Skip(n, i) = Skip(n, j) => i = j
  BY DEF Skip
<1>3. ASSUME NEW j \in 1..l, j # n PROVE \E i \in 1..(l - 1) : Skip(n, i) = j
  <2>1. CASE j < n
    <3>1. j \in 1..(l - 1) /\ Skip(n, j) = j
      BY <2>1 DEF Skip
    <3> QED
      BY <3>1
  <2>2. CASE ~(j < n)
    <3>1. j - 1 \in 1..(l - 1) /\ Skip(n, j - 1) = j
      BY <1>3, <2>2 DEF Skip
    <3> QED
      BY <3>1
  <2> QED
    BY <2>1, <2>2
<1> QED
  BY <1>1, <1>2, <1>3

LEMMA RemovedIsSkip ==
  ASSUME NEW T, NEW s \in Seq(T), NEW n \in DOMAIN s
  PROVE  /\ RemoveAt(s, n) \in Seq(T) /\ DOMAIN RemoveAt(s, n) = 1..(Len(s) - 1)
         /\ \A i \in 1..(Len(s) - 1) : RemoveAt(s, n)[i] = s[Skip(n, i)]
  BY RemovedFacts DEF Skip

LEMMA MovedUpFacts ==
  ASSUME NEW k \in Chunk, NEW c \in Chunk
  PROVE  /\ MovedUp(k, c) \in Chunk /\ MovedUp(k, c).day = c.day
         /\ Content(MovedUp(k, c)) = Content(c)
         /\ c.day # k.day => MovedUp(k, c) = c
         /\ c.day = k.day /\ c.line # k.line => Skip(k.line, MovedUp(k, c).line) = c.line
<1>1. c.line \in Nat \ {0} /\ k.line \in Nat \ {0}
  BY DEF Chunk
<1>2. CASE c.day = k.day /\ c.line > k.line
  <2>1. MovedUp(k, c) = [c EXCEPT !.line = c.line - 1]
    BY <1>2 DEF MovedUp
  <2>2. c.line - 1 \in Nat \ {0}
    BY <1>1, <1>2
  <2> DEFINE n == c.line - 1
  <2>3. n \in Nat \ {0} /\ MovedUp(k, c) = [c EXCEPT !.line = n]
    BY <2>1, <2>2
  <2> HIDE DEF n
  <2>4. /\ MovedUp(k, c) \in Chunk /\ MovedUp(k, c).day = c.day
        /\ MovedUp(k, c).text = c.text /\ MovedUp(k, c).category = c.category
        /\ MovedUp(k, c).line = n
    BY <2>3 DEF Chunk
  <2>5. Skip(k.line, n) = c.line
    BY <1>1, <1>2 DEF Skip, n
  <2> QED
    BY <1>2, <2>4, <2>5 DEF Content
<1>3. CASE ~(c.day = k.day /\ c.line > k.line)
  <2>1. MovedUp(k, c) = c
    BY <1>3 DEF MovedUp
  <2>2. c.day = k.day /\ c.line # k.line => Skip(k.line, c.line) = c.line
    BY <1>1, <1>3 DEF Skip
  <2> QED
    BY <2>1, <2>2
<1> QED
  BY <1>2, <1>3

LEMMA ShiftedFacts ==
  ASSUME chunks \in Seq(Chunk), NEW i \in DOMAIN chunks
  PROVE  /\ Shifted(i) \in Seq(Chunk) /\ DOMAIN Shifted(i) = 1..(Len(chunks) - 1)
         /\ \A j \in 1..(Len(chunks) - 1) :
              /\ Skip(i, j) \in DOMAIN chunks /\ Skip(i, j) # i
              /\ Shifted(i)[j] = MovedUp(chunks[i], chunks[Skip(i, j)])
         /\ \A a, b \in 1..(Len(chunks) - 1) : Skip(i, a) = Skip(i, b) => a = b
         /\ \A m \in DOMAIN chunks : m # i => \E j \in 1..(Len(chunks) - 1) : Skip(i, j) = m
<1>1. Len(chunks) \in Nat /\ DOMAIN chunks = 1..Len(chunks) /\ i \in 1..Len(chunks)
  BY Domains
<1> DEFINE rest == RemoveAt(chunks, i)
           l == Len(chunks) - 1
<1>2. /\ rest \in Seq(Chunk) /\ DOMAIN rest = 1..l
      /\ \A j \in 1..l : rest[j] = chunks[Skip(i, j)]
  BY RemovedIsSkip
<1>3. Shifted(i) = [j \in DOMAIN rest |-> MovedUp(chunks[i], rest[j])]
  BY DEF Shifted
<1>4. l \in Nat
  BY <1>1
<1> HIDE DEF rest, l
<1>5. \A j \in 1..l : rest[j] \in Chunk /\ MovedUp(chunks[i], rest[j]) \in Chunk
  BY <1>1, <1>2, Domains, MovedUpFacts
<1>6. Shifted(i) = [j \in 1..l |-> MovedUp(chunks[i], rest[j])]
  BY <1>2, <1>3
<1>7. /\ Shifted(i) \in Seq(Chunk) /\ DOMAIN Shifted(i) = 1..l
      /\ \A j \in 1..l : Shifted(i)[j] = MovedUp(chunks[i], chunks[Skip(i, j)])
  BY <1>2, <1>4, <1>5, <1>6
<1> QED
  BY <1>1, <1>7, SkipFacts DEF l

LEMMA KnownShiftedOther ==
  ASSUME NEW s, NEW d, chunks \in Seq(Chunk), NEW i \in DOMAIN chunks,
         chunks[i].day # d, Known(s, chunks, d)
  PROVE  Known(s, Shifted(i), d)
<1> DEFINE sh == Shifted(i)
           old(j) == chunks[Skip(i, j)]
<1>1. ASSUME NEW j \in CachedOf(sh, d)
      PROVE  Skip(i, j) \in CachedOf(chunks, d) /\ sh[j] = old(j) /\ j \in 1..(Len(chunks) - 1)
  <2>1. /\ j \in 1..(Len(chunks) - 1) /\ sh[j].day = d
        /\ Skip(i, j) \in DOMAIN chunks /\ sh[j] = MovedUp(chunks[i], old(j))
        /\ old(j) \in Chunk /\ chunks[i] \in Chunk
    BY ShiftedFacts, Domains DEF CachedOf
  <2>2. old(j).day = d
    BY <2>1, MovedUpFacts
  <2>3. sh[j] = old(j)
    BY <2>1, <2>2, MovedUpFacts
  <2> QED
    BY <2>1, <2>2, <2>3 DEF CachedOf
<1>2. ASSUME NEW m \in CachedOf(chunks, d)
      PROVE  \E j \in CachedOf(sh, d) : sh[j] = chunks[m]
  <2>1. m \in DOMAIN chunks /\ m # i /\ chunks[m].day = d
    BY DEF CachedOf
  <2>2. PICK j \in 1..(Len(chunks) - 1) : Skip(i, j) = m
    BY <2>1, ShiftedFacts
  <2>3. /\ sh[j] = MovedUp(chunks[i], chunks[m]) /\ j \in DOMAIN sh
        /\ chunks[m] \in Chunk /\ chunks[i] \in Chunk
    BY <2>1, <2>2, ShiftedFacts, Domains
  <2>4. sh[j] = chunks[m]
    BY <2>1, <2>3, MovedUpFacts
  <2> QED
    BY <2>1, <2>3, <2>4 DEF CachedOf
<1>3. \A a, b \in 1..(Len(chunks) - 1) : Skip(i, a) = Skip(i, b) => a = b
  BY ShiftedFacts
<1> HIDE DEF sh
<1>4. Known(s, sh, d)
  <2>1. \A j \in CachedOf(sh, d) : OnLine(s, sh[j])
    BY <1>1 DEF Known
  <2>2. \A a, b \in CachedOf(sh, d) : sh[a].line = sh[b].line => a = b
    BY <1>1, <1>3 DEF Known
  <2>3. \A n \in Numbers(s) : \E j \in CachedOf(sh, d) : sh[j].line = n
    <3> SUFFICES ASSUME NEW n \in Numbers(s) PROVE \E j \in CachedOf(sh, d) : sh[j].line = n
      OBVIOUS
    <3>1. PICK m \in CachedOf(chunks, d) : chunks[m].line = n
      BY DEF Known
    <3> QED
      BY <1>2, <3>1
  <2> QED
    BY <2>1, <2>2, <2>3 DEF Known
<1> QED
  BY <1>4 DEF sh

LEMMA KnownShifted ==
  ASSUME NEW s \in File, NEW d, chunks \in Seq(Chunk), NEW i \in CachedOf(chunks, d),
         Known(s, chunks, d)
  PROVE  Known(Without(s, chunks[i].line), Shifted(i), d)
<1> DEFINE sh == Shifted(i)
           k == chunks[i]
           r == RemoveAt(s, k.line)
           w == Without(s, k.line)
           l == Len(chunks) - 1
           ls == Len(s) - 1
           old(j) == chunks[Skip(i, j)]
<1>1. /\ i \in DOMAIN chunks /\ k \in Chunk /\ k.day = d /\ k.line \in DOMAIN s
      /\ Len(s) \in Nat /\ DOMAIN s = 1..Len(s) /\ s \in Seq(Line)
      /\ DOMAIN chunks = 1..Len(chunks)
  BY Domains DEF CachedOf, Known, OnLine, File
<1>2. /\ DOMAIN r = 1..ls
      /\ \A n \in 1..ls : r[n] = s[Skip(k.line, n)]
  BY <1>1, RemovedIsSkip
<1>3. /\ Numbers(w) = Numbers(r)
      /\ \A n \in 1..ls : r[n] # Blank => n \in DOMAIN w /\ w[n] = r[n]
  BY <1>1, WithoutFacts
<1>4. /\ \A n \in 1..ls : Skip(k.line, n) \in 1..Len(s) /\ Skip(k.line, n) # k.line
      /\ \A a, b \in 1..ls : Skip(k.line, a) = Skip(k.line, b) => a = b
      /\ \A n \in 1..Len(s) : n # k.line => \E m \in 1..ls : Skip(k.line, m) = n
  BY <1>1, SkipFacts
<1>5. ASSUME NEW j \in CachedOf(sh, d)
      PROVE  /\ j \in 1..l /\ Skip(i, j) \in CachedOf(chunks, d)
             /\ Skip(k.line, sh[j].line) = old(j).line /\ OnLine(w, sh[j])
             /\ sh[j].line \in 1..ls
  <2>1. /\ j \in 1..l /\ sh[j].day = d /\ Skip(i, j) # i
        /\ Skip(i, j) \in DOMAIN chunks /\ sh[j] = MovedUp(k, old(j))
        /\ old(j) \in Chunk
    <3>1. j \in DOMAIN sh /\ sh[j].day = d
      BY DEF CachedOf
    <3>2. /\ DOMAIN sh = 1..l
          /\ \A x \in 1..l : /\ Skip(i, x) \in DOMAIN chunks /\ Skip(i, x) # i
                             /\ sh[x] = MovedUp(k, old(x))
      BY <1>1, ShiftedFacts
    <3>3. \A x \in DOMAIN chunks : chunks[x] \in Chunk
      BY Domains
    <3> HIDE DEF sh, l, k
    <3> QED
      BY <3>1, <3>2, <3>3
  <2>2. old(j).day = d /\ Content(sh[j]) = Content(old(j)) /\ sh[j] \in Chunk
    BY <1>1, <2>1, MovedUpFacts
  <2>3. Skip(i, j) \in CachedOf(chunks, d)
    BY <2>1, <2>2 DEF CachedOf
  <2>4. old(j).line # k.line /\ OnLine(s, old(j))
    BY <2>1, <2>3 DEF Known
  <2>5. Skip(k.line, sh[j].line) = old(j).line
    BY <1>1, <2>1, <2>2, <2>4, MovedUpFacts
  <2>6. old(j).line \in 1..Len(s) /\ s[old(j).line] = Content(old(j))
    BY <1>1, <2>4 DEF OnLine
  <2>7. sh[j].line \in 1..ls
    <3>1. sh[j].line \in Nat \ {0} /\ k.line \in 1..Len(s)
      BY <1>1, <2>2 DEF Chunk
    <3> DEFINE m == sh[j].line
               o == old(j).line
               n == k.line
    <3>2. m \in Nat \ {0} /\ n \in 1..Len(s) /\ o \in 1..Len(s) /\ Skip(n, m) = o
      BY <2>5, <2>6, <3>1
    <3> HIDE DEF m, n, o
    <3>3. m \in 1..ls
      BY <1>1, <3>2 DEF Skip
    <3> QED
      BY <3>3 DEF m
  <2>8. r[sh[j].line] = Content(sh[j])
    BY <1>2, <2>2, <2>5, <2>6, <2>7
  <2>9. Content(sh[j]) \in Entry
    BY <2>2 DEF Content, Chunk, Entry
  <2>10. r[sh[j].line] # Blank
    BY <2>8, <2>9
  <2>11. OnLine(w, sh[j])
    BY <1>3, <2>7, <2>8, <2>10 DEF OnLine
  <2> QED
    BY <2>1, <2>3, <2>5, <2>7, <2>11
<1>6. \A a, b \in 1..l : Skip(i, a) = Skip(i, b) => a = b
  BY <1>1, ShiftedFacts
<1>7. ASSUME NEW a \in CachedOf(sh, d), NEW b \in CachedOf(sh, d), sh[a].line = sh[b].line
      PROVE  a = b
  <2>1. old(a).line = old(b).line
    BY <1>5, <1>7
  <2>2. Skip(i, a) = Skip(i, b)
    BY <1>5, <2>1 DEF Known
  <2> QED
    BY <1>5, <1>6, <2>2
<1>8. ASSUME NEW n \in Numbers(w) PROVE \E j \in CachedOf(sh, d) : sh[j].line = n
  <2>1. n \in 1..ls /\ Loads(r[n])
    BY <1>2, <1>3 DEF Numbers
  <2>2. Skip(k.line, n) \in 1..Len(s) /\ Skip(k.line, n) # k.line /\ Loads(s[Skip(k.line, n)])
    BY <1>2, <1>4, <2>1
  <2>3. Skip(k.line, n) \in Numbers(s)
    BY <1>1, <2>2 DEF Numbers
  <2>4. PICK m \in CachedOf(chunks, d) : chunks[m].line = Skip(k.line, n)
    BY <2>3 DEF Known
  <2>5. m \in DOMAIN chunks /\ m # i /\ chunks[m].day = d /\ chunks[m] \in Chunk
    BY <2>2, <2>4, Domains DEF CachedOf
  <2>6. PICK j \in 1..l : Skip(i, j) = m
    BY <1>1, <2>5, ShiftedFacts
  <2>7. sh[j] = MovedUp(k, chunks[m]) /\ j \in DOMAIN sh
    BY <1>1, <2>6, ShiftedFacts
  <2>8. j \in CachedOf(sh, d)
    BY <1>1, <2>5, <2>7, MovedUpFacts DEF CachedOf
  <2>9. Skip(k.line, sh[j].line) = Skip(k.line, n) /\ sh[j].line \in 1..ls
    BY <1>5, <2>4, <2>6, <2>8
  <2> QED
    BY <1>4, <2>1, <2>8, <2>9
<1> QED
  BY <1>5, <1>7, <1>8 DEF Known

-----------------------------------------------------------------------------
(* How many entries a file loses.                                            *)

AtMostOne(s, s2) == Cardinality(Numbers(s2)) + 1 >= Cardinality(Numbers(s))

LEMMA LossFacts ==
  ASSUME NEW s \in File, NEW s2 \in File, NEW n, Numbers(s) \ {n} \subseteq Numbers(s2)
  PROVE  AtMostOne(s, s2)
<1> DEFINE A == Numbers(s)
           B == Numbers(s2)
<1>1. IsFiniteSet(A) /\ IsFiniteSet(B) /\ Cardinality(A) \in Nat /\ Cardinality(B) \in Nat
  BY NumbersFacts
<1>2. A \ {n} \in SUBSET B
  OBVIOUS
<1> HIDE DEF A, B
<1>3. Cardinality(A \ {n}) <= Cardinality(B)
  BY <1>1, <1>2, FS_Subset
<1>4. Cardinality(A \ {n}) = IF n \in A THEN Cardinality(A) - 1 ELSE Cardinality(A)
  BY <1>1, FS_RemoveElement
<1>5. Cardinality(B) + 1 >= Cardinality(A)
  BY <1>1, <1>3, <1>4
<1> QED
  BY <1>5 DEF AtMostOne, A, B

LEMMA LossAppended ==
  ASSUME NEW s \in File, NEW ls \in File, ls # <<>>
  PROVE  /\ Appended(OpenedFile(s), ls) \in File
         /\ AtMostOne(s, Appended(OpenedFile(s), ls))
<1> DEFINE o == OpenedFile(s)
           r == Appended(o, ls)
<1>1. o \in File /\ o # <<>> /\ Numbers(o) = Numbers(s)
  BY OpenedFacts
<1> HIDE DEF o
<1>2. /\ r \in File /\ Len(r) = Len(o) + Len(ls) - 1
      /\ \A i \in 1..(Len(o) - 1) : r[i] = o[i]
  BY <1>1, AppendedFacts
<1>3. Len(o) \in Nat \ {0} /\ DOMAIN o = 1..Len(o) /\ Len(ls) \in Nat \ {0}
  BY <1>1, EmptySeq, Domains DEF File
<1>4. DOMAIN r = 1..Len(r)
  BY <1>2, Domains DEF File
<1> HIDE DEF r
<1>5. Numbers(s) \ {Len(o)} \subseteq Numbers(r)
  <2> SUFFICES ASSUME NEW n \in Numbers(o), n # Len(o) PROVE n \in Numbers(r)
    BY <1>1
  <2>1. n \in 1..Len(o) /\ Loads(o[n])
    BY <1>3 DEF Numbers
  <2>2. n \in 1..(Len(o) - 1) /\ n \in 1..Len(r)
    <3>1. Len(o) \in Nat \ {0} /\ Len(o) \in Nat
      BY <1>3
    <3>3. n \in Int
      BY <2>1
    <3>2. Len(r) \in Int /\ Len(o) <= Len(r)
      BY <1>2, <1>3
    <3> QED
      BY <2>1, <3>1, <3>2, <3>3, BelowFacts, Zenon
  <2>3. r[n] = o[n]
    BY <1>2, <2>2
  <2> QED
    BY <1>4, <2>1, <2>2, <2>3 DEF Numbers
<1> QED
  BY <1>2, <1>5, LossFacts DEF r, o

LEMMA LossInPart ==
  ASSUME NEW s \in File, NEW e \in Entry, NEW part \in AppendedInPart(OpenedFile(s), e)
  PROVE  part \in File /\ AtMostOne(s, part)
<1>1. CASE part = OpenedFile(s)
  BY <1>1, OpenedFacts, LossFacts
<1>2. /\ <<e>> \in File /\ <<e>> # <<>> /\ <<Torn>> \in File /\ <<Torn>> # <<>>
      /\ <<Torn, Blank>> \in File /\ <<Torn, Blank>> # <<>>
      /\ <<Blank, Blank>> \in File /\ <<Blank, Blank>> # <<>>
  BY DEF File, Line
<1>3. CASE \/ part = Appended(OpenedFile(s), <<e>>)
           \/ part = Appended(OpenedFile(s), <<Torn>>)
           \/ part = Appended(OpenedFile(s), <<Torn, Blank>>)
           \/ part = Appended(OpenedFile(s), <<Blank, Blank>>)
  BY <1>2, <1>3, LossAppended
<1> QED
  BY <1>1, <1>3 DEF AppendedInPart

LEMMA LossWithout ==
  ASSUME NEW s \in File, NEW n \in DOMAIN s
  PROVE  AtMostOne(s, Without(s, n))
<1> DEFINE r == RemoveAt(s, n)
           A == Numbers(s)
           B == Numbers(r)
           f == [i \in B |-> Skip(n, i)]
<1>1. /\ Len(s) \in Nat /\ DOMAIN s = 1..Len(s) /\ n \in 1..Len(s) /\ s \in Seq(Line)
  BY Domains DEF File
<1>2. /\ r \in File /\ DOMAIN r = 1..(Len(s) - 1)
      /\ \A i \in 1..(Len(s) - 1) : r[i] = s[Skip(n, i)]
  BY <1>1, RemovedIsSkip DEF File
<1>3. Numbers(Without(s, n)) = B
  BY WithoutFacts
<1>4. IsFiniteSet(A) /\ IsFiniteSet(B) /\ Cardinality(A) \in Nat /\ Cardinality(B) \in Nat
  BY <1>2, NumbersFacts
<1> HIDE DEF r
<1>5. \A i \in B : Skip(n, i) \in A \ {n}
  BY <1>1, <1>2, SkipFacts DEF Numbers
<1>6. \A m \in A \ {n} : \E i \in B : Skip(n, i) = m
  <2> SUFFICES ASSUME NEW m \in A, m # n PROVE \E i \in B : Skip(n, i) = m
    OBVIOUS
  <2>1. m \in 1..Len(s) /\ Loads(s[m])
    BY <1>1 DEF Numbers
  <2>2. PICK i \in 1..(Len(s) - 1) : Skip(n, i) = m
    BY <1>1, <2>1, SkipFacts
  <2>3. i \in B
    BY <1>2, <2>1, <2>2 DEF Numbers
  <2> QED
    BY <2>2, <2>3
<1>7. f \in Surjection(B, A \ {n})
  BY <1>5, <1>6 DEF Surjection
<1> HIDE DEF f, A, B
<1>8. Cardinality(A \ {n}) <= Cardinality(B)
  BY <1>4, <1>7, FS_Surjection
<1>9. Cardinality(A \ {n}) = IF n \in A THEN Cardinality(A) - 1 ELSE Cardinality(A)
  BY <1>4, FS_RemoveElement
<1>10. Cardinality(B) + 1 >= Cardinality(A)
  BY <1>4, <1>8, <1>9
<1>11. Cardinality(Numbers(Without(s, n))) + 1 >= Cardinality(Numbers(s))
  BY <1>3, <1>10 DEF A
<1> QED
  BY <1>11 DEF AtMostOne

LEMMA LossNothing ==
  ASSUME NEW s \in File PROVE AtMostOne(s, s)
  BY LossFacts

-----------------------------------------------------------------------------
(* The steps.                                                                *)

\* What AtMostOneLost says of a step.
StepLosesOne ==
  \A d \in Days : files'[d] # NoFile \/ d + TTL > today => AtMostOne(files[d], files'[d])

LEMMA InvFacts ==
  ASSUME MemoryInv
  PROVE  /\ files \in [Days -> File] /\ chunks \in Seq(Chunk) /\ today \in Days
         /\ drifted \subseteq Days
         /\ \A d \in Days \ drifted : Known(files[d], chunks, d)
         /\ \A i \in DOMAIN chunks : chunks[i] \in Chunk /\ chunks[i].day \in Days
                                     /\ chunks[i].line \in Nat \ {0}
<1>1. /\ files \in [Days -> File] /\ chunks \in Seq(Chunk) /\ today \in Days
      /\ drifted \subseteq Days
      /\ \A d \in Days \ drifted : Known(files[d], chunks, d)
  BY DEF MemoryInv, MemoryType, File
<1>2. \A i \in DOMAIN chunks : chunks[i] \in Chunk
  BY <1>1, Domains
<1> QED
  BY <1>1, <1>2 DEF Chunk

\* Only texts are similar, and to the store as to the notebook.
LEMMA SimilarFacts ==
  ASSUME NEW t, NEW u
  PROVE  /\ Similar(t, u) => t \in Texts /\ u \in Texts
         /\ t \in Texts /\ u \in Texts =>
              /\ Score(t, u) = Sim[<<t, u>>] /\ Score(t, u) \in Nat
              /\ Similar(t, u) <=> Book!Similar(t, u)
<1>1. ASSUME ~(t \in Texts /\ u \in Texts) PROVE ~Similar(t, u)
  <2>1. Score(t, u) = 0 /\ Threshold \in Nat \ {0}
    BY <1>1, MemoryAssumption DEF Score
  <2> QED
    BY <2>1 DEF Similar
<1>2. ASSUME t \in Texts, u \in Texts
      PROVE  /\ Score(t, u) = Sim[<<t, u>>] /\ Score(t, u) \in Nat
             /\ Similar(t, u) <=> Book!Similar(t, u)
  <2>1. Score(t, u) = Sim[<<t, u>>] /\ <<t, u>> \in Texts \X Texts
    BY <1>2 DEF Score
  <2>2. Sim[<<t, u>>] \in Nat
    BY <2>1, MemoryAssumption
  <2> QED
    BY <2>1, <2>2 DEF Similar, Book!Similar
<1> QED
  BY <1>1, <1>2

LEMMA ReplaceStep ==
  ASSUME MemoryInv, NEW t, NEW c, NEW i \in Duplicates(t, c), ReplaceDuplicate(t, i),
         UNCHANGED today
  PROVE  MemoryInv' /\ StepLosesOne
<1> DEFINE k == chunks[i]
<1>1. /\ files \in [Days -> File] /\ chunks \in Seq(Chunk) /\ today \in Days
      /\ drifted \subseteq Days
      /\ \A d \in Days \ drifted : Known(files[d], chunks, d)
  BY InvFacts
<1>2. /\ i \in DOMAIN chunks /\ k \in Chunk /\ k.day \in Days
      /\ Similar(t, k.text) /\ k.line \in DOMAIN files[k.day]
      /\ files[k.day][k.line] \in Entry
  BY InvFacts DEF Duplicates, Decodes
<1>3. t \in Texts /\ k.text \in Texts
  BY <1>2, SimilarFacts
<1>4. chunks' = [chunks EXCEPT ![i].text = t] /\ chunks' \in Seq(Chunk)
  BY <1>1, <1>2, <1>3, RewrittenChunk DEF ReplaceDuplicate
<1>5. ASSUME NEW d \in Days, d # k.day, Known(files[d], chunks, d)
      PROVE  Known(files[d], chunks', d)
  BY <1>1, <1>2, <1>3, <1>4, <1>5, KnownRewrittenOther
<1>6. CASE files' = [files EXCEPT ![k.day] = Rewritten(@, k.line, t)] /\ UNCHANGED drifted
  <2> DEFINE r == Rewritten(files[k.day], k.line, t)
  <2>1. files' = [files EXCEPT ![k.day] = r]
    BY <1>6
  <2>2. /\ r \in File /\ Numbers(r) = Numbers(files[k.day]) \cup {k.line}
    <3> DEFINE s == files[k.day]
               n == k.line
    <3>1. s \in File /\ n \in DOMAIN s /\ s[n] \in Entry
      BY <1>1, <1>2
    <3> HIDE DEF s, n
    <3>2. Rewritten(s, n, t) \in File /\ Numbers(Rewritten(s, n, t)) = Numbers(s) \cup {n}
      BY <1>3, <3>1, RewrittenLine
    <3> QED
      BY <3>2 DEF s, n
  <2> HIDE DEF r
  <2>3. files' \in [Days -> File]
    BY <1>1, <1>2, <2>1, <2>2
  <2>4. ASSUME NEW d \in Days \ drifted' PROVE Known(files'[d], chunks', d)
    <3>1. CASE d = k.day
      <4>1. files'[d] = Rewritten(files[d], k.line, t) /\ Known(files[d], chunks, d)
        BY <1>1, <1>6, <2>1, <2>4, <3>1 DEF r
      <4>2. i \in CachedOf(chunks, d) /\ files[d] \in File
        BY <1>1, <1>2, <3>1 DEF CachedOf
      <4>3. Known(Rewritten(files[d], chunks[i].line, t), [chunks EXCEPT ![i].text = t], d)
        BY <1>1, <1>3, <4>1, <4>2, KnownRewritten
      <4> QED
        BY <1>4, <4>1, <4>3
    <3>2. CASE d # k.day
      BY <1>1, <1>5, <1>6, <2>1, <2>4, <3>2
    <3> QED
      BY <3>1, <3>2
  <2>5. ASSUME NEW d \in Days PROVE AtMostOne(files[d], files'[d])
    <3>1. files[d] \in File /\ files'[d] \in File
      BY <1>1, <2>3
    <3>2. Numbers(files[d]) \subseteq Numbers(files'[d])
      BY <1>1, <1>2, <2>1, <2>2
    <3> QED
      BY <3>1, <3>2, LossFacts
  <2> QED
    BY <1>1, <1>4, <1>6, <2>3, <2>4, <2>5 DEF MemoryInv, MemoryType, StepLosesOne, File
<1>7. CASE UNCHANGED files /\ drifted' = drifted \cup {k.day}
  <2>1. ASSUME NEW d \in Days \ drifted' PROVE Known(files'[d], chunks', d)
    BY <1>1, <1>5, <1>7, <2>1
  <2>2. drifted' \subseteq Days
    BY <1>1, <1>2, <1>7
  <2>3. StepLosesOne
    BY <1>1, <1>7, LossNothing DEF StepLosesOne
  <2> QED
    BY <1>1, <1>4, <1>7, <2>1, <2>2, <2>3 DEF MemoryInv, MemoryType, File
<1> QED
  BY <1>6, <1>7 DEF ReplaceDuplicate

LEMMA AppendStep ==
  ASSUME MemoryInv, NEW e \in Entry, AppendEntry(e), UNCHANGED today
  PROVE  MemoryInv' /\ StepLosesOne
<1> DEFINE d == today
           s == OpenedFile(files[d])
           n == Cardinality({i \in DOMAIN chunks : chunks[i].day = d})
           k == Cached(d, n + 1, e)
<1>1. /\ files \in [Days -> File] /\ chunks \in Seq(Chunk) /\ d \in Days
      /\ drifted \subseteq Days
      /\ \A x \in Days \ drifted : Known(files[x], chunks, x)
  BY InvFacts
<1>2. s \in File /\ s # <<>>
  BY <1>1, OpenedFacts
<1>3. n = Cardinality(CachedOf(chunks, d))
  BY DEF CachedOf
<1>4. n + 1 \in Nat \ {0}
  <2>1. DOMAIN chunks = 1..Len(chunks) /\ Len(chunks) \in Nat
    BY <1>1, Domains
  <2>2. IsFiniteSet(DOMAIN chunks)
    BY <2>1, UpTo
  <2>3. CachedOf(chunks, d) \in SUBSET (DOMAIN chunks)
    BY DEF CachedOf
  <2>4. Cardinality(CachedOf(chunks, d)) \in Nat
    BY <2>2, <2>3, FS_Subset, FS_CardinalityType
  <2> QED
    BY <1>3, <2>4
<1>5. k \in Chunk /\ k.day = d
  BY <1>1, <1>4, CachedFacts
<1>6. /\ chunks' = Append(chunks, k)
      /\ \/ /\ files' = [files EXCEPT ![d] = Appended(s, <<e, Blank>>)]
            /\ drifted' = IF Tidy(s) THEN drifted ELSE drifted \cup {d}
         \/ /\ \E part \in AppendedInPart(s, e) : files' = [files EXCEPT ![d] = part]
            /\ drifted' = drifted \cup {d}
  BY Zenon DEF AppendEntry
<1>7. <<e, Blank>> \in File /\ <<e, Blank>> # <<>>
  BY DEF File, Line
<1>8. PICK r \in File :
        /\ files' = [files EXCEPT ![d] = r] /\ AtMostOne(files[d], r)
        /\ \/ r = Appended(s, <<e, Blank>>) /\ Tidy(s) /\ drifted' = drifted
           \/ drifted' = drifted \cup {d}
  <2>1. CASE /\ files' = [files EXCEPT ![d] = Appended(s, <<e, Blank>>)]
             /\ drifted' = IF Tidy(s) THEN drifted ELSE drifted \cup {d}
    <3>1. /\ Appended(s, <<e, Blank>>) \in File
          /\ AtMostOne(files[d], Appended(s, <<e, Blank>>))
      BY <1>1, <1>7, LossAppended
    <3> QED
      BY <2>1, <3>1
  <2>2. CASE /\ \E part \in AppendedInPart(s, e) : files' = [files EXCEPT ![d] = part]
             /\ drifted' = drifted \cup {d}
    <3>1. PICK part \in AppendedInPart(s, e) : files' = [files EXCEPT ![d] = part]
      BY <2>2
    <3>2. part \in File /\ AtMostOne(files[d], part)
      BY <1>1, <3>1, LossInPart
    <3> QED
      BY <2>2, <3>1, <3>2
  <2> QED
    BY <1>6, <2>1, <2>2
<1> HIDE DEF s, n, k
<1>9. files' \in [Days -> File] /\ chunks' \in Seq(Chunk) /\ drifted' \subseteq Days
  BY <1>1, <1>5, <1>6, <1>8, AppendProperties
<1>10. ASSUME NEW x \in Days \ drifted' PROVE Known(files'[x], chunks', x)
  <2>1. Known(files[x], chunks, x)
    BY <1>1, <1>8, <1>10
  <2>2. CASE x # d
    <3>1. files'[x] = files[x]
      BY <1>1, <1>8, <2>2
    <3> QED
      BY <1>1, <1>5, <1>6, <2>1, <2>2, <3>1, KnownAppendOther
  <2>3. CASE x = d
    <3>1. r = Appended(s, <<e, Blank>>) /\ Tidy(s)
      BY <1>8, <1>10, <2>3
    <3>2. Known(s, chunks, d)
      BY <1>1, <2>1, <2>3, KnownOpened DEF s
    <3>3. n + 1 = Len(s)
      BY <1>1, <1>2, <1>3, <3>1, <3>2, CountIsLength
    <3>4. Known(Appended(s, <<e, Blank>>), Append(chunks, Cached(d, Len(s), e)), d)
      BY <1>1, <1>2, <3>1, <3>2, KnownAppended
    <3>5. files'[x] = r /\ chunks' = Append(chunks, Cached(d, Len(s), e))
      BY <1>1, <1>6, <1>8, <2>3, <3>3 DEF k
    <3> QED
      BY <2>3, <3>1, <3>4, <3>5
  <2> QED
    BY <2>2, <2>3
<1>11. ASSUME NEW x \in Days PROVE AtMostOne(files[x], files'[x])
  BY <1>1, <1>8, LossNothing
<1> QED
  BY <1>1, <1>9, <1>10, <1>11 DEF MemoryInv, MemoryType, StepLosesOne, File

LEMMA NewStoreKeeps ==
  ASSUME MemoryInv, NEW fs \in [Days -> File], NewStore(fs)
  PROVE  MemoryInv'
<1>1. /\ chunks' = LoadAllFromDisk(fs) /\ drifted' = {} /\ files' = fs /\ today' = today
  BY DEF NewStore
<1>2. /\ LoadAllFromDisk(fs) \in Seq(Chunk)
      /\ \A d \in Days : Known(fs[d], LoadAllFromDisk(fs), d)
  BY LoadFacts
<1> QED
  BY <1>1, <1>2, InvFacts DEF MemoryInv, MemoryType, File

LEMMA DeleteStep ==
  ASSUME MemoryInv, NEW q, NEW c, Delete(q, c)
  PROVE  MemoryInv' /\ StepLosesOne
<1>1. /\ files \in [Days -> File] /\ chunks \in Seq(Chunk) /\ today \in Days
      /\ drifted \subseteq Days
      /\ \A d \in Days \ drifted : Known(files[d], chunks, d)
  BY InvFacts
<1>2. PICK i \in BestMatches(q, c) :
        /\ files[chunks[i].day] # NoFile
        /\ IF chunks[i].line > Len(files[chunks[i].day]) THEN Rebuild
           ELSE /\ \/ /\ files' = [files EXCEPT ![chunks[i].day] = Without(@, chunks[i].line)]
                      /\ UNCHANGED drifted
                   \/ UNCHANGED files /\ drifted' = drifted \cup {chunks[i].day}
                /\ chunks' = Shifted(i)
        /\ UNCHANGED today
  BY Zenon DEF Delete
<1> DEFINE k == chunks[i]
<1>3. i \in DOMAIN chunks
  BY DEF BestMatches, First
<1>4. k \in Chunk /\ k.day \in Days /\ k.line \in Nat \ {0}
  BY <1>3, InvFacts
<1>5. CASE k.line > Len(files[k.day])
  <2>1. chunks' = LoadAllFromDisk(files) /\ drifted' = {} /\ files' = files /\ today' = today
    BY <1>2, <1>5 DEF Rebuild
  <2>2. MemoryInv'
    BY <1>1, <2>1, NewStoreKeeps DEF NewStore
  <2>3. StepLosesOne
    BY <1>1, <2>1, LossNothing DEF StepLosesOne
  <2> QED
    BY <2>2, <2>3
<1>6. CASE ~(k.line > Len(files[k.day]))
  <2>1. /\ chunks' = Shifted(i) /\ today' = today
        /\ \/ /\ files' = [files EXCEPT ![k.day] = Without(@, k.line)]
              /\ UNCHANGED drifted
           \/ UNCHANGED files /\ drifted' = drifted \cup {k.day}
    BY <1>2, <1>6
  <2>2. chunks' \in Seq(Chunk)
    BY <1>1, <1>3, <2>1, ShiftedFacts
  <2>3. k.line \in DOMAIN files[k.day] /\ files[k.day] \in File
    <3>1. files[k.day] \in File
      BY <1>1, <1>4
    <3>2. Len(files[k.day]) \in Nat /\ DOMAIN files[k.day] = 1..Len(files[k.day])
      BY <3>1, Domains DEF File
    <3> QED
      BY <1>4, <1>6, <3>1, <3>2
  <2>4. ASSUME NEW d \in Days, d # k.day, Known(files[d], chunks, d)
        PROVE  Known(files[d], chunks', d)
    BY <1>1, <1>3, <2>1, <2>4, KnownShiftedOther
  <2>5. CASE files' = [files EXCEPT ![k.day] = Without(@, k.line)] /\ UNCHANGED drifted
    <3> DEFINE w == Without(files[k.day], k.line)
    <3>1. files' = [files EXCEPT ![k.day] = w]
      BY <2>5
    <3>2. w \in File /\ AtMostOne(files[k.day], w)
      BY <2>3, WithoutFacts, LossWithout
    <3>3. ASSUME NEW d \in Days \ drifted' PROVE Known(files'[d], chunks', d)
      <4>1. Known(files[d], chunks, d)
        BY <1>1, <2>5, <3>3
      <4>2. CASE d = k.day
        <5>1. i \in CachedOf(chunks, d) /\ files[d] \in File /\ files'[d] = w
          BY <1>1, <1>3, <3>1, <4>2 DEF CachedOf
        <5>2. Known(Without(files[d], chunks[i].line), Shifted(i), d)
          BY <1>1, <4>1, <5>1, KnownShifted
        <5> QED
          BY <2>1, <4>2, <5>1, <5>2
      <4>3. CASE d # k.day
        <5>1. files'[d] = files[d]
          BY <1>1, <3>1, <4>3
        <5> QED
          BY <2>4, <4>1, <4>3, <5>1
      <4> QED
        BY <4>2, <4>3
    <3> HIDE DEF w
    <3>4. files' \in [Days -> File]
      BY <1>1, <3>1, <3>2
    <3>5. ASSUME NEW d \in Days PROVE AtMostOne(files[d], files'[d])
      <4>1. files[d] \in File /\ files'[d] = IF d = k.day THEN w ELSE files[d]
        BY <1>1, <3>1
      <4> QED
        BY <3>2, <4>1, LossNothing
    <3> QED
      BY <1>1, <2>1, <2>2, <2>5, <3>3, <3>4, <3>5 DEF MemoryInv, MemoryType, StepLosesOne, File
  <2>6. CASE UNCHANGED files /\ drifted' = drifted \cup {k.day}
    <3>1. ASSUME NEW d \in Days \ drifted' PROVE Known(files'[d], chunks', d)
      BY <1>1, <2>4, <2>6, <3>1
    <3>2. drifted' \subseteq Days
      BY <1>1, <1>4, <2>6
    <3>3. StepLosesOne
      BY <1>1, <2>6, LossNothing DEF StepLosesOne
    <3> QED
      BY <1>1, <2>1, <2>2, <2>6, <3>1, <3>2, <3>3 DEF MemoryInv, MemoryType, File
  <2> QED
    BY <2>1, <2>5, <2>6
<1> QED
  BY <1>5, <1>6

LEMMA CleanFacts ==
  ASSUME MemoryInv
  PROVE  /\ CleanExpired \in [Days -> File]
         /\ \A d \in Days : (CleanExpired[d] = NoFile /\ d + TTL <= today) \/ CleanExpired[d] = files[d]
<1>1. files \in [Days -> File] /\ today \in Int
  BY InvFacts DEF Days
<1>2. NoFile \in File
  BY DEF NoFile, File
<1> QED
  BY <1>1, <1>2 DEF CleanExpired

\* A new store reads what is on disk; the files of today and the days before lose
\* no more than the part of a line that was being written.
LEMMA NewStoreStep ==
  ASSUME MemoryInv, NEW part \in File, AtMostOne(files[today], part),
         NewStore([CleanExpired EXCEPT ![today] = part])
  PROVE  MemoryInv' /\ StepLosesOne
<1> DEFINE fs == [CleanExpired EXCEPT ![today] = part]
<1>1. /\ files \in [Days -> File] /\ today \in Days
  BY InvFacts
<1>2. /\ fs \in [Days -> File] /\ fs[today] = part
      /\ \A d \in Days : d # today => fs[d] = CleanExpired[d]
  BY <1>1, CleanFacts
<1> HIDE DEF fs
<1>3. NewStore(fs)
  BY DEF fs
<1>4. MemoryInv' /\ files' = fs
  BY <1>2, <1>3, NewStoreKeeps DEF NewStore
<1>5. ASSUME NEW d \in Days, files'[d] # NoFile \/ d + TTL > today
      PROVE  AtMostOne(files[d], files'[d])
  <2>1. CASE d = today
    BY <1>2, <1>4, <2>1
  <2>2. CASE d # today
    <3>1. files'[d] = CleanExpired[d]
      BY <1>2, <1>4, <2>2
    <3>2. ~(CleanExpired[d] = NoFile /\ d + TTL <= today)
      <4>1. d \in Int /\ today \in Int /\ TTL \in Int
        BY <1>1, MemoryAssumption DEF Days
      <4> QED
        BY <1>5, <3>1, <4>1
    <3>3. CleanExpired[d] = files[d]
      BY <3>2, CleanFacts
    <3> QED
      BY <1>1, <3>1, <3>3, LossNothing
  <2> QED
    BY <2>1, <2>2
<1> QED
  BY <1>4, <1>5 DEF StepLosesOne

LEMMA RestartStep ==
  ASSUME MemoryInv, Restart
  PROVE  MemoryInv' /\ StepLosesOne
<1>1. /\ files \in [Days -> File] /\ today \in Days /\ CleanExpired \in [Days -> File]
  BY InvFacts, CleanFacts
<1>2. CleanExpired[today] = files[today]
  <2>1. today \in Int /\ TTL \in Nat \ {0}
    BY <1>1, MemoryAssumption DEF Days
  <2>2. ~(today + TTL <= today)
    BY <2>1
  <2> QED
    BY <1>1, <2>2, CleanFacts
<1>3. CleanExpired = [CleanExpired EXCEPT ![today] = files[today]]
  BY <1>1, <1>2
<1>4. NewStore([CleanExpired EXCEPT ![today] = files[today]])
  BY <1>3 DEF Restart
<1> QED
  BY <1>1, <1>4, LossNothing, NewStoreStep

LEMMA MemoryStep ==
  ASSUME MemoryInv, MemoryNext
  PROVE  MemoryInv' /\ StepLosesOne
<1>1. ASSUME NEW t \in Texts \cup {NoText}, NEW c \in Categories, Write(t, c)
      PROVE  MemoryInv' /\ StepLosesOne
  <2>1. UNCHANGED today
    BY <1>1 DEF Write
  <2>2. CASE \E i \in First(Duplicates(t, c)) : ReplaceDuplicate(t, i)
    <3>1. PICK i \in Duplicates(t, c) : ReplaceDuplicate(t, i)
      BY <2>2 DEF First
    <3> QED
      BY <2>1, <3>1, ReplaceStep
  <2>3. CASE AppendEntry([text |-> t, category |-> c])
    <3>1. [text |-> t, category |-> c] \in Entry
      BY DEF Entry
    <3> QED
      BY <2>1, <2>3, <3>1, AppendStep
  <2> QED
    BY <1>1, <2>2, <2>3 DEF Write
<1>2. ASSUME NEW t \in Texts \cup {NoText}, NEW c \in Categories, CrashInWrite(t, c)
      PROVE  MemoryInv' /\ StepLosesOne
  <2> DEFINE e == [text |-> t, category |-> c]
  <2>1. PICK part \in AppendedInPart(OpenedFile(files[today]), e) :
          NewStore([CleanExpired EXCEPT ![today] = part])
    BY <1>2 DEF CrashInWrite
  <2>2. e \in Entry /\ files[today] \in File
    BY InvFacts DEF Entry
  <2> HIDE DEF e
  <2>3. part \in File /\ AtMostOne(files[today], part)
    BY <2>1, <2>2, LossInPart
  <2> QED
    BY <2>1, <2>3, NewStoreStep
<1>3. ASSUME NEW q \in Texts, NEW c \in {Categories} \cup {{d} : d \in Categories}, Delete(q, c)
      PROVE  MemoryInv' /\ StepLosesOne
  BY <1>3, DeleteStep
<1>4. CASE NextDay
  <2>1. /\ files \in [Days -> File] /\ chunks \in Seq(Chunk) /\ today \in Days
        /\ drifted \subseteq Days
        /\ \A d \in Days \ drifted : Known(files[d], chunks, d)
    BY InvFacts
  <2>2. /\ today' \in Days /\ files' = files /\ chunks' = chunks /\ drifted' = drifted
    BY <1>4, <2>1, MemoryAssumption DEF NextDay, Days
  <2>3. StepLosesOne
    BY <2>1, <2>2, LossNothing DEF StepLosesOne
  <2> QED
    BY <2>1, <2>2, <2>3 DEF MemoryInv, MemoryType, File
<1>5. CASE Restart
  BY <1>5, RestartStep
<1> QED
  BY <1>1, <1>2, <1>3, <1>4, <1>5 DEF MemoryNext

LEMMA MemoryInitially == MemoryInit => MemoryInv
<1> SUFFICES ASSUME MemoryInit PROVE MemoryInv
  OBVIOUS
<1>1. /\ files = [d \in Days |-> <<>>] /\ chunks = <<>> /\ today = 1 /\ drifted = {}
  BY DEF MemoryInit, NoFile
<1>2. 1 \in Days
  BY MemoryAssumption DEF Days
<1>3. <<>> \in File /\ <<>> \in Seq(Chunk) /\ DOMAIN <<>> = {}
  BY DEF File
<1>4. ASSUME NEW d \in Days PROVE Known(files[d], chunks, d)
  <2>1. files[d] = <<>> /\ Numbers(<<>>) = {} /\ CachedOf(<<>>, d) = {}
    BY <1>1, <1>3 DEF Numbers, CachedOf
  <2> QED
    BY <1>1, <2>1 DEF Known
<1> QED
  BY <1>1, <1>2, <1>3, <1>4 DEF MemoryInv, MemoryType, File

LEMMA MemoryStutter ==
  ASSUME MemoryInv, UNCHANGED memoryVars
  PROVE  MemoryInv' /\ StepLosesOne
<1>1. files' = files /\ chunks' = chunks /\ today' = today /\ drifted' = drifted
  BY DEF memoryVars
<1>2. StepLosesOne
  BY <1>1, InvFacts, LossNothing DEF StepLosesOne
<1> QED
  BY <1>1, <1>2 DEF MemoryInv, MemoryType

\* The inductive invariant, for any texts, categories, days and files.
THEOREM MemoryInvHolds == MemorySpec => []MemoryInv
<1>1. MemoryInv /\ [MemoryNext]_memoryVars => MemoryInv'
  BY MemoryStep, MemoryStutter
<1> QED
  BY MemoryInitially, <1>1, PTL DEF MemorySpec

\* What the cache has under a number is on that line of the file, and nothing else is
\* in the file, unless a failed or misplaced write has set the two apart.
THEOREM CacheMatchesFilesHolds == MemorySpec => []CacheMatchesFiles
  BY MemoryInvHolds, InvImpliesMatches, PTL

\* No operation, not even a misdirected delete or an append to a torn line, takes
\* more than one entry from a file.
THEOREM AtMostOneLostHolds == MemorySpec => AtMostOneLost
<1>1. MemoryInv /\ [MemoryNext]_memoryVars =>
        [\A d \in Days : files'[d] # NoFile \/ d + TTL > today =>
           Cardinality(Numbers(files'[d])) + 1 >= Cardinality(Numbers(files[d]))]_memoryVars
  BY MemoryStep DEF StepLosesOne, AtMostOne
<1> QED
  BY MemoryInvHolds, <1>1, PTL DEF MemorySpec, AtMostOneLost
-----------------------------------------------------------------------------
(* The notes of a file.  Every operation changes one line or removes one, so *)
(* that a note may go, the one that was on it, and a note may come.          *)

Lines(s, e) == {n \in DOMAIN s : s[n] = e}
At(s, n) == IF n \in DOMAIN s THEN s[n] ELSE Blank
Is(x, e) == IF x = e THEN 1 ELSE 0

\* From b to c the note x has gone and the note y has come, if notes they are.
Changed(b, c, x, y) == \A e \in Note : c[e] + Is(x, e) = b[e] + Is(y, e)

Counts == [Note -> Nat]

LEMMA NoteFacts ==
  /\ \A e \in Note : /\ e \in Entry /\ e \in Line /\ e # Blank /\ e # Torn /\ Loads(e)
                     /\ e.text \in Texts /\ e.category \in Categories
  /\ \A x : Loads(x) <=> x \in Note
<1>1. \A e \in Note : e \in Entry /\ e.text \in Texts /\ e.category \in Categories
  BY DEF Note, Entry
<1>2. \A e \in Note : e \in Line /\ e # Blank /\ e # Torn /\ Loads(e)
  BY <1>1, LoadsFacts DEF Line
<1>3. ASSUME NEW x, Loads(x) PROVE x \in Note
  BY <1>3 DEF Loads, Decodes, Entry, Note
<1> QED
  BY <1>1, <1>2, <1>3

LEMMA NotesFacts ==
  ASSUME NEW s \in File
  PROVE  /\ NotesOf(s) \in Counts
         /\ \A e \in Note : /\ NotesOf(s)[e] = Cardinality(Lines(s, e))
                            /\ IsFiniteSet(Lines(s, e))
                            /\ NotesOf(s)[e] > 0 <=> Lines(s, e) # {}
<1>1. \A e : IsFiniteSet(Lines(s, e))
  <2>1. Len(s) \in Nat /\ DOMAIN s = 1..Len(s)
    BY Domains DEF File
  <2>2. IsFiniteSet(1..Len(s))
    BY <2>1, UpTo
  <2>3. \A e : Lines(s, e) \in SUBSET (1..Len(s))
    BY <2>1 DEF Lines
  <2> QED
    BY <2>2, <2>3, FS_Subset
<1>2. ASSUME NEW e \in Note
      PROVE  /\ Cardinality(Lines(s, e)) \in Nat
             /\ Cardinality(Lines(s, e)) > 0 <=> Lines(s, e) # {}
  <2>1. Cardinality(Lines(s, e)) \in Nat
    BY <1>1, FS_CardinalityType
  <2>2. Cardinality(Lines(s, e)) = 0 <=> Lines(s, e) = {}
    BY <1>1, FS_EmptySet
  <2> QED
    BY <2>1, <2>2
<1>3. NotesOf(s) = [e \in Note |-> Cardinality(Lines(s, e))]
  BY DEF NotesOf, Lines
<1> HIDE DEF Lines
<1> QED
  BY <1>1, <1>2, <1>3 DEF Counts

LEMMA LessAndMore ==
  ASSUME NEW b \in Counts, NEW c \in Counts, NEW x, NEW y, Changed(b, c, x, y)
  PROVE  /\ Book!Mistaken(b, c)
         /\ x \in Note /\ y \in Note => c = Book!More(Book!Less(b, x), y)
         /\ x \in Note /\ y \notin Note => c = Book!Less(b, x)
         /\ x \notin Note /\ y \in Note => c = Book!More(b, y)
         /\ x \notin Note /\ y \notin Note => c = b
<1>1. /\ \A e \in Note : b[e] \in Nat /\ c[e] \in Nat
      /\ b = [e \in Note |-> b[e]] /\ c = [e \in Note |-> c[e]]
  BY DEF Counts
<1>2. \A e \in Note : c[e] = b[e] + Is(y, e) - Is(x, e)
  BY <1>1 DEF Changed, Is
<1>3. x \notin Note /\ y \notin Note => c = b
  <2> SUFFICES ASSUME x \notin Note, y \notin Note PROVE c = b
    OBVIOUS
  <2>1. \A e \in Note : c[e] = b[e]
    BY <1>1, <1>2 DEF Is
  <2> QED
    BY <1>1, <2>1
<1>4. x \in Note /\ y \notin Note => c = Book!Less(b, x)
  <2> SUFFICES ASSUME x \in Note, y \notin Note PROVE c = [b EXCEPT ![x] = b[x] - 1]
    BY DEF Book!Less
  <2>1. \A e \in Note : c[e] = IF e = x THEN b[x] - 1 ELSE b[e]
    BY <1>1, <1>2 DEF Is
  <2> QED
    BY <1>1, <2>1
<1>5. x \notin Note /\ y \in Note => c = Book!More(b, y)
  <2> SUFFICES ASSUME x \notin Note, y \in Note PROVE c = [b EXCEPT ![y] = b[y] + 1]
    BY DEF Book!More
  <2>1. \A e \in Note : c[e] = IF e = y THEN b[y] + 1 ELSE b[e]
    BY <1>1, <1>2 DEF Is
  <2> QED
    BY <1>1, <2>1
<1>6. x \in Note /\ y \in Note => c = Book!More(Book!Less(b, x), y)
  <2> SUFFICES ASSUME x \in Note, y \in Note PROVE c = Book!More(Book!Less(b, x), y)
    OBVIOUS
  <2> DEFINE l == [e \in Note |-> IF e = x THEN b[e] - 1 ELSE b[e]]
  <2>1. Book!Less(b, x) = l
    BY <1>1 DEF Book!Less
  <2>2. \A e \in Note : l[e] \in Int /\ c[e] = IF e = y THEN l[e] + 1 ELSE l[e]
    BY <1>1, <1>2 DEF Is
  <2>3. Book!More(l, y) = [e \in Note |-> IF e = y THEN l[e] + 1 ELSE l[e]]
    BY DEF Book!More
  <2> HIDE DEF l
  <2> QED
    BY <1>1, <2>1, <2>2, <2>3
<1>7. Book!Mistaken(b, c)
  <2>1. CASE x \notin Note /\ y \notin Note
    BY <1>3, <2>1 DEF Book!Mistaken
  <2>2. CASE x \in Note /\ y \in Note
    <3>1. \A e \in Note : /\ c[e] <= b[e] + (IF e = y THEN 1 ELSE 0)
                          /\ b[e] <= c[e] + (IF e = x THEN 1 ELSE 0)
      BY <1>1, <1>2 DEF Is
    <3> QED
      BY <2>2, <3>1 DEF Book!Mistaken, Book!Note, Note
  <2>3. CASE x \in Note /\ y \notin Note
    <3>1. \A e \in Note : /\ c[e] <= b[e] + (IF e = x THEN 1 ELSE 0)
                          /\ b[e] <= c[e] + (IF e = x THEN 1 ELSE 0)
      BY <1>1, <1>2, <2>3 DEF Is
    <3> QED
      BY <2>3, <3>1 DEF Book!Mistaken, Book!Note, Note
  <2>4. CASE x \notin Note /\ y \in Note
    <3>1. \A e \in Note : /\ c[e] <= b[e] + (IF e = y THEN 1 ELSE 0)
                          /\ b[e] <= c[e] + (IF e = y THEN 1 ELSE 0)
      BY <1>1, <1>2, <2>4 DEF Is
    <3> QED
      BY <2>4, <3>1 DEF Book!Mistaken, Book!Note, Note
  <2> QED
    BY <2>1, <2>2, <2>3, <2>4
<1> QED
  BY <1>3, <1>4, <1>5, <1>6, <1>7

LEMMA LineChanged ==
  ASSUME NEW s \in File, NEW s2 \in File, NEW n,
         \A e \in Note : Lines(s, e) \ {n} = Lines(s2, e) \ {n}
  PROVE  Changed(NotesOf(s), NotesOf(s2), At(s, n), At(s2, n))
<1> SUFFICES ASSUME NEW e \in Note
             PROVE  NotesOf(s2)[e] + Is(At(s, n), e) = NotesOf(s)[e] + Is(At(s2, n), e)
  BY DEF Changed
<1> DEFINE A == Lines(s, e)
           B == Lines(s2, e)
<1>1. /\ IsFiniteSet(A) /\ IsFiniteSet(B) /\ Cardinality(A) \in Nat /\ Cardinality(B) \in Nat
      /\ NotesOf(s)[e] = Cardinality(A) /\ NotesOf(s2)[e] = Cardinality(B)
  BY NotesFacts, FS_CardinalityType
<1>2. /\ Is(At(s, n), e) = IF n \in A THEN 1 ELSE 0
      /\ Is(At(s2, n), e) = IF n \in B THEN 1 ELSE 0
  BY NoteFacts DEF Is, At, Lines
<1>3. A \ {n} = B \ {n}
  OBVIOUS
<1> HIDE DEF A, B
<1>4. /\ Cardinality(A \ {n}) = IF n \in A THEN Cardinality(A) - 1 ELSE Cardinality(A)
      /\ Cardinality(B \ {n}) = IF n \in B THEN Cardinality(B) - 1 ELSE Cardinality(B)
  BY <1>1, FS_RemoveElement
<1>5. Cardinality(A \ {n}) = Cardinality(B \ {n})
  BY <1>3
<1>6. Cardinality(B) + Is(At(s, n), e) = Cardinality(A) + Is(At(s2, n), e)
  BY <1>1, <1>2, <1>4, <1>5
<1> QED
  BY <1>1, <1>6

LEMMA NotesRewritten ==
  ASSUME NEW s \in File, NEW n \in DOMAIN s, s[n] \in Entry, NEW t \in Texts
  PROVE  Changed(NotesOf(s), NotesOf(Rewritten(s, n, t)), s[n], SetText(s[n], t))
<1> DEFINE r == Rewritten(s, n, t)
<1>1. /\ r \in File /\ DOMAIN r = DOMAIN s /\ r[n] = SetText(s[n], t)
      /\ \A m \in DOMAIN s : m # n => r[m] = s[m]
  BY RewrittenLine
<1> HIDE DEF r
<1>2. \A e \in Note : Lines(s, e) \ {n} = Lines(r, e) \ {n}
  BY <1>1 DEF Lines
<1>3. At(s, n) = s[n] /\ At(r, n) = SetText(s[n], t)
  BY <1>1 DEF At
<1>4. Changed(NotesOf(s), NotesOf(r), At(s, n), At(r, n))
  BY <1>1, <1>2, LineChanged
<1> QED
  BY <1>3, <1>4 DEF r

LEMMA NotesOpened ==
  ASSUME NEW s \in File
  PROVE  NotesOf(OpenedFile(s)) = NotesOf(s)
<1>1. CASE s = NoFile
  <2>1. OpenedFile(s) = <<Blank>> /\ DOMAIN <<Blank>> = {1} /\ <<Blank>>[1] = Blank
        /\ s = <<>> /\ DOMAIN <<>> = {}
    BY <1>1 DEF OpenedFile, NoFile
  <2>2. \A e \in Note : Lines(<<Blank>>, e) = {} /\ Lines(<<>>, e) = {}
    BY <2>1, NoteFacts DEF Lines
  <2>3. NotesOf(<<Blank>>) = NotesOf(<<>>)
    BY <2>2 DEF NotesOf, Lines
  <2> QED
    BY <2>1, <2>3
<1>2. CASE s # NoFile
  BY <1>2 DEF OpenedFile
<1> QED
  BY <1>1, <1>2

LEMMA LastOfTwo ==
  \A n \in Int, l \in Int, m \in Int, i \in Int :
    l \in {1, 2} /\ m = n + l - 1 /\ i <= m /\ i > n => l = 2 /\ i = n + 2 - 1 /\ i = n + 1
  OBVIOUS

\* What is appended behind the newline of a file is one line or one line and an empty
\* one.
LEMMA NotesAppended ==
  ASSUME NEW s \in File, s # <<>>, NEW x \in Line, NEW ls \in {<<x>>, <<x, Blank>>}
  PROVE  Changed(NotesOf(s), NotesOf(Appended(s, ls)), Last(s), Joined(Last(s), x))
<1> DEFINE r == Appended(s, ls)
           n == Len(s)
<1>1. /\ ls \in File /\ ls # <<>> /\ ls[1] = x /\ Len(ls) \in {1, 2}
      /\ \A i \in 2..Len(ls) : ls[i] = Blank
  <2>1. CASE ls = <<x>>
    BY <2>1 DEF File, Line
  <2>2. CASE ls = <<x, Blank>>
    BY <2>2 DEF File, Line
  <2> QED
    BY <2>1, <2>2
<1>2. /\ r \in File /\ Len(r) = n + Len(ls) - 1
      /\ \A i \in 1..(n - 1) : r[i] = s[i]
      /\ r[n] = Joined(Last(s), x)
      /\ \A i \in 2..Len(ls) : r[n + i - 1] = ls[i]
  BY <1>1, AppendedFacts
<1>3. n \in Nat \ {0} /\ DOMAIN s = 1..n /\ Last(s) = s[n]
  BY EmptySeq, Domains DEF File, Last
<1>4. DOMAIN r = 1..Len(r)
  BY <1>2, Domains DEF File
<1> HIDE DEF r, n
<1>5. \A i \in 1..Len(r) : i < n \/ i = n \/ (i = n + 1 /\ r[i] = Blank)
  <2> SUFFICES ASSUME NEW i \in 1..Len(r), i > n PROVE i = n + 1 /\ r[i] = Blank
    BY <1>3
  <2>1. n \in Int /\ i \in Int /\ i <= Len(r)
    BY <1>1, <1>2, <1>3
  <2>2. Len(ls) \in {1, 2} /\ Len(r) = n + Len(ls) - 1
    BY <1>1, <1>2
  <2>3. Len(ls) \in Int /\ Len(r) \in Int
    BY <1>1, <1>2, <2>1
  <2>4. Len(ls) = 2 /\ i = n + 2 - 1 /\ i = n + 1
    BY <2>1, <2>2, <2>3, LastOfTwo, Zenon
  <2>5. r[n + 2 - 1] = ls[2] /\ ls[2] = Blank
    BY <1>1, <1>2, <2>4
  <2> QED
    BY <2>4, <2>5
<1>6. ASSUME NEW e \in Note PROVE Lines(s, e) \ {n} = Lines(r, e) \ {n}
  <2>1. e # Blank
    BY NoteFacts
  <2>2. ASSUME NEW i \in Lines(s, e) \ {n} PROVE i \in Lines(r, e)
    <3>1. i \in 1..(n - 1) /\ i \in 1..Len(r)
      BY <1>1, <1>2, <1>3 DEF Lines
    <3> QED
      BY <1>2, <1>4, <3>1 DEF Lines
  <2>3. ASSUME NEW i \in Lines(r, e) \ {n} PROVE i \in Lines(s, e)
    <3>1. i \in 1..Len(r) /\ i < n
      BY <1>4, <1>5, <2>1 DEF Lines
    <3>2. i \in 1..(n - 1) /\ i \in 1..n
      BY <1>3, <3>1
    <3> QED
      BY <1>2, <1>3, <3>2 DEF Lines
  <2> QED
    BY <2>2, <2>3
<1>7. At(s, n) = Last(s) /\ At(r, n) = Joined(Last(s), x)
  BY <1>1, <1>2, <1>3, <1>4 DEF At
<1>8. Changed(NotesOf(s), NotesOf(r), At(s, n), At(r, n))
  BY <1>2, <1>6, LineChanged
<1> QED
  BY <1>7, <1>8 DEF r

LEMMA NotesWithout ==
  ASSUME NEW s \in File, NEW n \in DOMAIN s
  PROVE  Changed(NotesOf(s), NotesOf(Without(s, n)), s[n], Blank)
<1> DEFINE r == RemoveAt(s, n)
           w == Without(s, n)
<1>1. /\ Len(s) \in Nat /\ DOMAIN s = 1..Len(s) /\ n \in 1..Len(s) /\ s \in Seq(Line)
  BY Domains DEF File
<1>2. /\ r \in File /\ DOMAIN r = 1..(Len(s) - 1)
      /\ \A i \in 1..(Len(s) - 1) : r[i] = s[Skip(n, i)]
  BY <1>1, RemovedIsSkip DEF File
<1>3. \A i, j \in 1..(Len(s) - 1) : Skip(n, i) = Skip(n, j) => i = j
  BY <1>1, SkipFacts
<1>4. w \in File
  BY WithoutFacts
<1>5. w = IF \A i \in DOMAIN r : r[i] = Blank THEN NoFile ELSE r
  BY DEF Without, Kept
<1> HIDE DEF r, w
<1>6. \A e \in Note : Lines(w, e) = Lines(r, e)
  <2> SUFFICES ASSUME NEW e \in Note, \A i \in DOMAIN r : r[i] = Blank
               PROVE  Lines(NoFile, e) = Lines(r, e)
    BY <1>5
  <2>1. Lines(r, e) = {}
    BY NoteFacts DEF Lines
  <2>2. Lines(NoFile, e) = {}
    BY DEF Lines, NoFile
  <2> QED
    BY <2>1, <2>2
<1> SUFFICES ASSUME NEW e \in Note
             PROVE  NotesOf(w)[e] + Is(s[n], e) = NotesOf(s)[e] + Is(Blank, e)
  BY DEF Changed, w
<1> DEFINE A == Lines(s, e)
           B == Lines(r, e)
           f == [i \in B |-> Skip(n, i)]
<1>7. /\ IsFiniteSet(A) /\ IsFiniteSet(B) /\ Cardinality(A) \in Nat /\ Cardinality(B) \in Nat
      /\ NotesOf(s)[e] = Cardinality(A) /\ NotesOf(w)[e] = Cardinality(B)
  BY <1>2, <1>4, <1>6, NotesFacts, FS_CardinalityType
<1>8. \A i \in B : Skip(n, i) \in A \ {n}
  BY <1>1, <1>2, SkipFacts DEF Lines
<1>9. \A m \in A \ {n} : \E i \in B : Skip(n, i) = m
  <2> SUFFICES ASSUME NEW m \in A, m # n PROVE \E i \in B : Skip(n, i) = m
    OBVIOUS
  <2>1. m \in 1..Len(s) /\ s[m] = e
    BY <1>1 DEF Lines
  <2>2. PICK i \in 1..(Len(s) - 1) : Skip(n, i) = m
    BY <1>1, <2>1, SkipFacts
  <2>3. i \in B
    BY <1>2, <2>1, <2>2 DEF Lines
  <2> QED
    BY <2>2, <2>3
<1>10. \A i, j \in B : Skip(n, i) = Skip(n, j) => i = j
  <2>1. \A i \in B : i \in 1..(Len(s) - 1)
    BY <1>2 DEF Lines
  <2> QED
    BY <1>3, <2>1
<1> HIDE DEF A, B
<1>11. f \in Bijection(B, A \ {n})
  <2>1. f \in [B -> A \ {n}] /\ \A i \in B : f[i] = Skip(n, i)
    BY <1>8
  <2> HIDE DEF f
  <2>2. f \in Surjection(B, A \ {n})
    BY <1>9, <2>1 DEF Surjection
  <2>3. f \in Injection(B, A \ {n})
    <3>1. \A i, j \in B : f[i] = f[j] => i = j
      BY <1>10, <2>1
    <3> QED
      BY <2>1, <3>1 DEF Injection, IsInjective
  <2> QED
    BY <2>2, <2>3 DEF Bijection
<1>12. Is(s[n], e) = (IF n \in A THEN 1 ELSE 0) /\ Is(Blank, e) = 0
  BY NoteFacts DEF Is, Lines, A
<1> HIDE DEF f
<1>13. Cardinality(A \ {n}) = Cardinality(B)
  <2>1. ExistsBijection(B, A \ {n})
    BY <1>11 DEF ExistsBijection
  <2> QED
    BY <1>7, <2>1, FS_Bijection
<1>14. Cardinality(A \ {n}) = IF n \in A THEN Cardinality(A) - 1 ELSE Cardinality(A)
  BY <1>7, FS_RemoveElement
<1> QED
  BY <1>7, <1>12, <1>13, <1>14

-----------------------------------------------------------------------------
(* Step by step: the files and the notebook.                                 *)

Noted(fs) == [d \in Days |-> NotesOf(fs[d])]

LEMMA NotedFacts ==
  ASSUME files \in [Days -> File], NEW d \in Days, NEW r \in File,
         files' = [files EXCEPT ![d] = r]
  PROVE  /\ Noted(files') = [Noted(files) EXCEPT ![d] = NotesOf(r)]
         /\ Noted(files)[d] = NotesOf(files[d]) /\ Noted(files')[d] = NotesOf(r)
         /\ NotesOf(files[d]) \in Counts /\ NotesOf(r) \in Counts
<1> DEFINE N == Noted(files)
           M == Noted(files')
           W == [x \in Days |-> IF x = d THEN NotesOf(r) ELSE NotesOf(files[x])]
<1>1. NotesOf(r) \in Counts /\ NotesOf(files[d]) \in Counts
  BY NotesFacts
<1>2. \A x \in Days : files'[x] = IF x = d THEN r ELSE files[x]
  OBVIOUS
<1>3. M = W
  BY <1>2 DEF Noted
<1>4. [N EXCEPT ![d] = NotesOf(r)] = W
  BY DEF Noted
<1>5. N[d] = NotesOf(files[d])
  BY DEF Noted
<1>6. M[d] = NotesOf(r)
  BY <1>3
<1> QED
  BY <1>1, <1>3, <1>4, <1>5, <1>6

LEMMA BookFacts ==
  /\ Book!Note = Note
  /\ Book!vars = <<Noted(files), today, drifted>>
  /\ NotesOf(NoFile) = Book!NoNotes
<1>1. Book!Note = Note
  BY DEF Book!Note, Note
<1>2. Book!vars = <<Noted(files), today, drifted>>
  BY DEF Book!vars, Noted
<1>3. \A e \in Note : Lines(NoFile, e) = {} /\ Cardinality({}) = 0
  BY FS_EmptySet DEF Lines, NoFile
<1>4. NotesOf(NoFile) = [e \in Note |-> 0]
  BY <1>3 DEF NotesOf, Lines
<1> QED
  BY <1>1, <1>2, <1>4 DEF Book!NoNotes

\* At most one note more and one note less: a mishap, whatever happened.
LEMMA MishapRefines ==
  ASSUME files \in [Days -> File], NEW d \in Days, NEW r \in File, NEW x, NEW y,
         Changed(NotesOf(files[d]), NotesOf(r), x, y),
         files' = [files EXCEPT ![d] = r], drifted' = drifted \cup {d}, today' = today
  PROVE  Book!Next
<1> DEFINE N == Noted(files)
           M == Noted(files')
<1>1. /\ M = [N EXCEPT ![d] = NotesOf(r)] /\ N[d] = NotesOf(files[d]) /\ M[d] = NotesOf(r)
      /\ N[d] \in Counts /\ M[d] \in Counts
  <2>1. files \in [Days -> File] /\ d \in Days /\ r \in File /\ files' = [files EXCEPT ![d] = r]
    OBVIOUS
  <2> QED
    BY <2>1, NotedFacts
<1>2. Book!Mistaken(N[d], M[d])
  BY <1>1, LessAndMore
<1>3. M = [N EXCEPT ![d] = M[d]]
  BY <1>1
<1>4. Book!Mishap(d)
  BY <1>2, <1>3 DEF Book!Mishap, Noted
<1> QED
  BY <1>4 DEF Book!Next

\* A failed write that left the file alone.
LEMMA NothingRefines ==
  ASSUME files \in [Days -> File], NEW d \in Days,
         files' = files, drifted' = drifted \cup {d}, today' = today
  PROVE  Book!Next
<1>1. files[d] \in File /\ files' = [files EXCEPT ![d] = files[d]]
  OBVIOUS
<1>2. Changed(NotesOf(files[d]), NotesOf(files[d]), Blank, Blank)
  BY DEF Changed
<1> QED
  BY <1>1, <1>2, MishapRefines

LEMMA HeldFacts ==
  ASSUME MemoryInv, NEW d \in Days \ drifted
  PROVE  /\ \A e \in Note : NotesOf(files[d])[e] > 0 =>
              \E i \in CachedOf(chunks, d) :
                 Content(chunks[i]) = e /\ OnLine(files[d], chunks[i])
         /\ \A i \in CachedOf(chunks, d) : chunks[i].text \in Texts =>
              /\ Content(chunks[i]) \in Note /\ OnLine(files[d], chunks[i])
              /\ NotesOf(files[d])[Content(chunks[i])] > 0
<1> DEFINE s == files[d]
<1>1. s \in File /\ Known(s, chunks, d)
  BY InvFacts
<1>2. \A i \in CachedOf(chunks, d) : chunks[i] \in Chunk
  BY InvFacts DEF CachedOf
<1> HIDE DEF s
<1>3. ASSUME NEW e \in Note, NotesOf(s)[e] > 0
      PROVE  \E i \in CachedOf(chunks, d) : Content(chunks[i]) = e /\ OnLine(s, chunks[i])
  <2>1. PICK n \in DOMAIN s : s[n] = e
    BY <1>1, <1>3, NotesFacts DEF Lines
  <2>2. n \in Numbers(s)
    BY <2>1, NoteFacts DEF Numbers
  <2>3. PICK i \in CachedOf(chunks, d) : chunks[i].line = n
    BY <1>1, <2>2 DEF Known
  <2>4. OnLine(s, chunks[i])
    BY <1>1 DEF Known
  <2> QED
    BY <2>1, <2>3, <2>4 DEF OnLine
<1>4. ASSUME NEW i \in CachedOf(chunks, d), chunks[i].text \in Texts
      PROVE  /\ Content(chunks[i]) \in Note /\ OnLine(s, chunks[i])
             /\ NotesOf(s)[Content(chunks[i])] > 0
  <2>1. Content(chunks[i]) \in Note
    BY <1>2, <1>4 DEF Content, Note, Chunk
  <2>2. OnLine(s, chunks[i])
    BY <1>1 DEF Known
  <2>3. Lines(s, Content(chunks[i])) # {}
    BY <2>2 DEF OnLine, Lines
  <2> QED
    BY <1>1, <2>1, <2>2, <2>3, NotesFacts
<1> QED
  BY <1>3, <1>4 DEF s

\* What the notebook holds for sure, the cache knows.
LEMMA LikeIsCached ==
  ASSUME MemoryInv, NEW t \in Texts, NEW cs, NEW f \in Book!Like(t, cs)
  PROVE  /\ f \in Note /\ f.category \in cs /\ Similar(t, f.text)
         /\ \E i \in DOMAIN chunks :
              /\ Content(chunks[i]) = f /\ chunks[i].day \in Days
              /\ OnLine(files[chunks[i].day], chunks[i])
<1>1. f \in Note /\ f.category \in cs /\ Similar(t, f.text)
  <2>1. f \in Note /\ f.category \in cs /\ Book!Similar(t, f.text)
    BY BookFacts DEF Book!Like
  <2> QED
    BY <2>1, NoteFacts, SimilarFacts
<1>2. PICK d \in Days \ drifted : Noted(files)[d][f] > 0
  BY DEF Book!Like, Book!Sure, Noted
<1>3. NotesOf(files[d])[f] > 0
  BY <1>2 DEF Noted
<1>4. PICK i \in CachedOf(chunks, d) : Content(chunks[i]) = f /\ OnLine(files[d], chunks[i])
  BY <1>1, <1>3, HeldFacts
<1>5. i \in DOMAIN chunks /\ chunks[i].day = d
  BY DEF CachedOf
<1> QED
  BY <1>1, <1>4, <1>5

LEMMA ReplaceRefines ==
  ASSUME MemoryInv, NEW t, NEW c, NEW i \in Duplicates(t, c), ReplaceDuplicate(t, i),
         UNCHANGED today
  PROVE  Book!Next
<1> DEFINE k == chunks[i]
           d == k.day
           s == files[d]
           n == k.line
<1>1. /\ files \in [Days -> File] /\ drifted \subseteq Days /\ i \in DOMAIN chunks
      /\ k \in Chunk /\ d \in Days /\ Similar(t, k.text) /\ n \in DOMAIN s /\ s[n] \in Entry
  BY InvFacts DEF Duplicates, Decodes
<1>2. t \in Texts /\ k.text \in Texts /\ s \in File
  BY <1>1, SimilarFacts
<1>3. CASE UNCHANGED files /\ drifted' = drifted \cup {d}
  BY <1>1, <1>3, NothingRefines
<1>4. CASE files' = [files EXCEPT ![d] = Rewritten(@, n, t)] /\ UNCHANGED drifted
  <2> DEFINE r == Rewritten(s, n, t)
  <2>1. files' = [files EXCEPT ![d] = r]
    BY <1>4
  <2>2. r \in File /\ Changed(NotesOf(s), NotesOf(r), s[n], SetText(s[n], t))
    <3> HIDE DEF s, n
    <3> QED
      BY <1>1, <1>2, RewrittenLine, NotesRewritten
  <2> HIDE DEF r
  <2>3. CASE d \in drifted
    <3>1. drifted' = drifted \cup {d}
      BY <1>4, <2>3
    <3> QED
      BY <1>1, <2>1, <2>2, <3>1, MishapRefines
  <2>4. CASE d \notin drifted
    <3> DEFINE e == Content(k)
               N == Noted(files)
               M == Noted(files')
    <3>1. e \in Note /\ OnLine(s, k) /\ NotesOf(s)[e] > 0
      <4>1. i \in CachedOf(chunks, d)
        BY <1>1 DEF CachedOf
      <4> QED
        BY <1>1, <1>2, <2>4, <4>1, HeldFacts
    <3>2. s[n] = e /\ e.text = k.text /\ e \in Entry
      BY <3>1, NoteFacts DEF OnLine, Content
    <3>3. SetText(e, t) \in Note
      BY <1>2, <3>2, SetTextFacts, NoteFacts
    <3>4. /\ M = [N EXCEPT ![d] = NotesOf(r)] /\ N[d] = NotesOf(s)
          /\ NotesOf(s) \in Counts /\ NotesOf(r) \in Counts
      BY <1>1, <2>1, <2>2, NotedFacts
    <3>5. NotesOf(r) = Book!More(Book!Less(N[d], e), SetText(e, t))
      BY <2>2, <3>1, <3>2, <3>3, <3>4, LessAndMore
    <3>6. /\ d \in Book!Sure /\ Book!Similar(t, e.text) /\ N[d][e] > 0
      BY <1>1, <1>2, <2>4, <3>1, <3>2, <3>4, SimilarFacts DEF Book!Sure
    <3> HIDE DEF d, e
    <3>7. M = [N EXCEPT ![d] = Book!More(Book!Less(N[d], e), [e EXCEPT !.text = t])]
      BY <3>4, <3>5 DEF SetText
    <3>8. Book!Revise(d, e, t)
      BY <1>4, <3>6, <3>7 DEF Book!Revise, Noted
    <3> QED
      BY <1>1, <1>2, <3>1, <3>8, BookFacts DEF Book!Next
  <2> QED
    BY <2>3, <2>4
<1> QED
  BY <1>3, <1>4 DEF ReplaceDuplicate

LEMMA NotesInPart ==
  ASSUME NEW s \in File, NEW e \in Entry, NEW part \in AppendedInPart(OpenedFile(s), e)
  PROVE  part \in File /\ \E x, y : Changed(NotesOf(s), NotesOf(part), x, y)
<1> DEFINE o == OpenedFile(s)
<1>1. o \in File /\ o # <<>> /\ NotesOf(o) = NotesOf(s)
  BY OpenedFacts, NotesOpened
<1>2. e \in Line /\ Torn \in Line /\ Blank \in Line
  BY DEF Line
<1>3. part \in File
  BY LossInPart
<1>4. CASE part = o
  <2>1. Changed(NotesOf(s), NotesOf(part), Blank, Blank)
    BY <1>1, <1>4 DEF Changed
  <2> QED
    BY <1>3, <2>1
<1>5. CASE part = Appended(o, <<e>>)
  BY <1>1, <1>2, <1>3, <1>5, NotesAppended
<1>6. CASE part = Appended(o, <<Torn>>)
  BY <1>1, <1>2, <1>3, <1>6, NotesAppended
<1>7. CASE part = Appended(o, <<Torn, Blank>>)
  BY <1>1, <1>2, <1>3, <1>7, NotesAppended
<1>8. CASE part = Appended(o, <<Blank, Blank>>)
  BY <1>1, <1>2, <1>3, <1>8, NotesAppended
<1> QED
  BY <1>4, <1>5, <1>6, <1>7, <1>8 DEF AppendedInPart

LEMMA AppendRefines ==
  ASSUME MemoryInv, NEW e \in Entry, Duplicates(e.text, e.category) = {}, AppendEntry(e),
         UNCHANGED today
  PROVE  Book!Next \/ UNCHANGED Book!vars
<1> DEFINE d == today
           s == OpenedFile(files[d])
           N == Noted(files)
           M == Noted(files')
<1>1. files \in [Days -> File] /\ d \in Days /\ files[d] \in File
  BY InvFacts
<1>2. s \in File /\ s # <<>> /\ NotesOf(s) = NotesOf(files[d]) /\ e \in Line
  BY <1>1, OpenedFacts, NotesOpened DEF Line
<1>3. \/ /\ files' = [files EXCEPT ![d] = Appended(s, <<e, Blank>>)]
         /\ drifted' = IF Tidy(s) THEN drifted ELSE drifted \cup {d}
      \/ /\ \E part \in AppendedInPart(s, e) : files' = [files EXCEPT ![d] = part]
         /\ drifted' = drifted \cup {d}
  BY Zenon DEF AppendEntry
<1>4. CASE /\ \E part \in AppendedInPart(s, e) : files' = [files EXCEPT ![d] = part]
           /\ drifted' = drifted \cup {d}
  <2>1. PICK part \in AppendedInPart(s, e) : files' = [files EXCEPT ![d] = part]
    BY <1>4
  <2>2. part \in File /\ \E x, y : Changed(NotesOf(files[d]), NotesOf(part), x, y)
    BY <1>1, <2>1, NotesInPart
  <2> QED
    BY <1>1, <1>4, <2>1, <2>2, MishapRefines
<1>5. CASE /\ files' = [files EXCEPT ![d] = Appended(s, <<e, Blank>>)]
           /\ drifted' = IF Tidy(s) THEN drifted ELSE drifted \cup {d}
  <2> DEFINE r == Appended(s, <<e, Blank>>)
  <2>1. files' = [files EXCEPT ![d] = r]
    BY <1>5
  <2>2. r \in File
    <3>1. <<e, Blank>> \in File /\ <<e, Blank>> # <<>>
      BY <1>2 DEF File, Line
    <3> QED
      BY <1>1, <3>1, LossAppended
  <2>3. Changed(NotesOf(files[d]), NotesOf(r), Last(s), Joined(Last(s), e))
    <3> HIDE DEF s
    <3> QED
      BY <1>2, NotesAppended
  <2> HIDE DEF r, s
  <2>4. CASE drifted' = drifted \cup {d}
    BY <1>1, <2>1, <2>2, <2>3, <2>4, MishapRefines
  <2>5. CASE d \notin drifted /\ Tidy(s) /\ drifted' = drifted
    <3>1. Changed(NotesOf(files[d]), NotesOf(r), Blank, e)
      BY <2>3, <2>5 DEF Tidy, Joined
    <3>2. /\ M = [N EXCEPT ![d] = NotesOf(r)] /\ N[d] = NotesOf(files[d])
          /\ NotesOf(r) \in Counts /\ NotesOf(files[d]) \in Counts
      BY <1>1, <2>1, <2>2, NotedFacts
    <3>3. CASE e \notin Note
      <4>1. NotesOf(r) = N[d]
        BY <3>1, <3>2, <3>3, NoteFacts, LessAndMore
      <4>2. M = N
        BY <3>2, <4>1 DEF Noted
      <4> QED
        BY <2>5, <4>2 DEF Book!vars, Noted
    <3>4. CASE e \in Note
      <4>1. NotesOf(r) = Book!More(N[d], e)
        BY <3>1, <3>2, <3>4, NoteFacts, LessAndMore
      <4>6. e.text \in Texts
        BY <3>4, NoteFacts
      <4>2. ASSUME NEW f \in Book!Like(e.text, {e.category}) PROVE FALSE
        <5>1. PICK i \in DOMAIN chunks :
                /\ Content(chunks[i]) = f /\ chunks[i].day \in Days
                /\ OnLine(files[chunks[i].day], chunks[i])
          BY <4>2, <4>6, LikeIsCached
        <5>2. f \in Note /\ f.category = e.category /\ Similar(e.text, f.text)
          BY <4>2, <4>6, LikeIsCached
        <5>3. chunks[i].category = e.category /\ Similar(e.text, chunks[i].text)
          BY <5>1, <5>2 DEF Content
        <5>4. /\ chunks[i].line \in DOMAIN files[chunks[i].day]
              /\ Decodes(files[chunks[i].day][chunks[i].line])
          BY <5>1, <5>2, NoteFacts DEF OnLine, Decodes
        <5>5. i \in Duplicates(e.text, e.category)
          BY <5>3, <5>4 DEF Duplicates
        <5> QED
          BY <5>5
      <4>3. d \in Book!Sure /\ Book!Like(e.text, {e.category}) = {}
        BY <1>1, <2>5, <4>2 DEF Book!Sure
      <4>4. M = [N EXCEPT ![d] = Book!More(N[d], e)]
        BY <3>2, <4>1
      <4>5. Book!Remember(e)
        BY <2>5, <4>3, <4>4 DEF Book!Remember, Noted
      <4> QED
        BY <3>4, <4>5, BookFacts DEF Book!Next
    <3> QED
      BY <3>3, <3>4
  <2> QED
    BY <1>5, <2>4, <2>5
<1> QED
  BY <1>3, <1>4, <1>5


LEMMA DeleteRefines ==
  ASSUME MemoryInv, NEW q \in Texts, NEW c \in SUBSET Categories, Delete(q, c)
  PROVE  Book!Next
<1>1. /\ files \in [Days -> File] /\ drifted \subseteq Days
  BY InvFacts
<1>2. PICK i \in BestMatches(q, c) :
        /\ files[chunks[i].day] # NoFile
        /\ IF chunks[i].line > Len(files[chunks[i].day]) THEN Rebuild
           ELSE /\ \/ /\ files' = [files EXCEPT ![chunks[i].day] = Without(@, chunks[i].line)]
                      /\ UNCHANGED drifted
                   \/ UNCHANGED files /\ drifted' = drifted \cup {chunks[i].day}
                /\ chunks' = Shifted(i)
        /\ UNCHANGED today
  BY Zenon DEF Delete
<1> DEFINE k == chunks[i]
           d == k.day
           s == files[d]
           n == k.line
<1>3. /\ i \in DOMAIN chunks /\ Similar(q, k.text) /\ k.category \in c
      /\ \A j \in DOMAIN chunks :
           Similar(q, chunks[j].text) /\ chunks[j].category \in c
             => Score(q, chunks[j].text) <= Score(q, k.text)
  BY DEF BestMatches, First
<1>4. k \in Chunk /\ d \in Days /\ n \in Nat \ {0} /\ k.text \in Texts /\ s \in File
  BY <1>1, <1>3, InvFacts, SimilarFacts
<1>5. CASE n > Len(s)
  <2>1. drifted' = {} /\ files' = files /\ today' = today
    BY <1>2, <1>5 DEF Rebuild
  <2>2. Book!Reread
    BY <2>1 DEF Book!Reread
  <2> QED
    BY <2>2 DEF Book!Next
<1>6. CASE ~(n > Len(s))
  <2>1. /\ today' = today
        /\ \/ /\ files' = [files EXCEPT ![d] = Without(@, n)]
              /\ UNCHANGED drifted
           \/ UNCHANGED files /\ drifted' = drifted \cup {d}
    BY <1>2, <1>6
  <2>2. n \in DOMAIN s
    <3>1. Len(s) \in Nat /\ DOMAIN s = 1..Len(s)
      BY <1>4, Domains DEF File
    <3> QED
      BY <1>4, <1>6, <3>1
  <2>3. CASE UNCHANGED files /\ drifted' = drifted \cup {d}
    BY <1>1, <1>4, <2>1, <2>3, NothingRefines
  <2>4. CASE files' = [files EXCEPT ![d] = Without(@, n)] /\ UNCHANGED drifted
    <3> DEFINE w == Without(s, n)
    <3>1. files' = [files EXCEPT ![d] = w]
      BY <2>4
    <3>2. w \in File /\ Changed(NotesOf(s), NotesOf(w), s[n], Blank)
      BY <1>4, <2>2, WithoutFacts, NotesWithout
    <3> HIDE DEF w
    <3>3. CASE d \in drifted
      <4>1. drifted' = drifted \cup {d}
        BY <2>4, <3>3
      <4> QED
        BY <1>1, <1>4, <2>1, <3>1, <3>2, <4>1, MishapRefines
    <3>4. CASE d \notin drifted
      <4> DEFINE e == Content(k)
                 N == Noted(files)
                 M == Noted(files')
      <4>1. e \in Note /\ OnLine(s, k) /\ NotesOf(s)[e] > 0
        <5>1. i \in CachedOf(chunks, d)
          BY <1>3 DEF CachedOf
        <5> QED
          BY <1>4, <3>4, <5>1, HeldFacts
      <4>2. s[n] = e /\ e.text = k.text /\ e.category = k.category
        BY <4>1 DEF OnLine, Content
      <4>3. /\ M = [N EXCEPT ![d] = NotesOf(w)] /\ N[d] = NotesOf(s)
            /\ NotesOf(s) \in Counts /\ NotesOf(w) \in Counts
        BY <1>1, <1>4, <3>1, <3>2, NotedFacts
      <4>4. NotesOf(w) = Book!Less(N[d], e)
        BY <3>2, <4>1, <4>2, <4>3, NoteFacts, LessAndMore
      <4>5. \A f \in Book!Like(q, c) : Sim[<<q, f.text>>] <= Sim[<<q, e.text>>]
        <5> SUFFICES ASSUME NEW f \in Book!Like(q, c)
                     PROVE  Sim[<<q, f.text>>] <= Sim[<<q, k.text>>]
          BY <4>2
        <5>1. /\ f \in Note /\ f.category \in c /\ Similar(q, f.text)
              /\ \E j \in DOMAIN chunks : Content(chunks[j]) = f
          BY LikeIsCached
        <5>2. PICK j \in DOMAIN chunks : Content(chunks[j]) = f
          BY <5>1
        <5>3. chunks[j].text = f.text /\ chunks[j].category \in c /\ Similar(q, f.text)
          BY <5>1, <5>2 DEF Content
        <5>4. Score(q, f.text) <= Score(q, k.text)
          BY <1>3, <5>3
        <5>5. Score(q, f.text) = Sim[<<q, f.text>>] /\ Score(q, k.text) = Sim[<<q, k.text>>]
          BY <1>4, <5>1, NoteFacts, SimilarFacts
        <5> QED
          BY <5>4, <5>5
      <4>6. /\ d \in Book!Sure /\ Book!Similar(q, e.text) /\ e.category \in c /\ N[d][e] > 0
        BY <1>3, <1>4, <3>4, <4>1, <4>2, <4>3, SimilarFacts DEF Book!Sure
      <4> HIDE DEF d, e
      <4>7. M = [N EXCEPT ![d] = Book!Less(N[d], e)]
        BY <4>3, <4>4
      <4>8. Book!Forget(d, e, q, c)
        BY <2>1, <2>4, <4>5, <4>6, <4>7 DEF Book!Forget, Noted
      <4> QED
        BY <1>4, <4>1, <4>8, BookFacts DEF Book!Next
    <3> QED
      BY <3>3, <3>4
  <2> QED
    BY <2>1, <2>3, <2>4
<1> QED
  BY <1>5, <1>6

LEMMA NewStoreRefines ==
  ASSUME MemoryInv, NEW part \in File, NEW x, NEW y,
         Changed(NotesOf(files[today]), NotesOf(part), x, y),
         NewStore([CleanExpired EXCEPT ![today] = part])
  PROVE  Book!Next
<1> DEFINE N == Noted(files)
           M == Noted(files')
<1>1. files \in [Days -> File] /\ today \in Days /\ files[today] \in File
  BY InvFacts
<1>2. /\ files' = [CleanExpired EXCEPT ![today] = part] /\ drifted' = {} /\ today' = today
  BY DEF NewStore
<1>3. \A d \in Days : files'[d] = IF d = today THEN part
                                 ELSE IF d + TTL <= today THEN NoFile ELSE files[d]
  BY <1>1, <1>2 DEF CleanExpired
<1>4. N[today] = NotesOf(files[today]) /\ M[today] = NotesOf(part)
  BY <1>1, <1>3 DEF Noted
<1>5. Book!Mistaken(N[today], M[today])
  <2>1. NotesOf(files[today]) \in Counts /\ NotesOf(part) \in Counts
    BY <1>1, NotesFacts
  <2> QED
    BY <1>4, <2>1, LessAndMore
<1>6. \A d \in Days : M[d] = IF d = today THEN M[today]
                            ELSE IF d + TTL <= today THEN Book!NoNotes ELSE N[d]
  BY <1>3, BookFacts DEF Noted
<1>7. M = [d \in Days |-> IF d = today THEN M[today]
                          ELSE IF d + TTL <= today THEN Book!NoNotes ELSE N[d]]
  <2>1. M = [d \in Days |-> M[d]]
    BY DEF Noted
  <2> HIDE DEF M, N
  <2> QED
    BY <1>6, <2>1
<1>8. Book!Reopen
  BY <1>2, <1>5, <1>7 DEF Book!Reopen, Noted
<1> QED
  BY <1>8 DEF Book!Next

LEMMA RestartRefines ==
  ASSUME MemoryInv, Restart
  PROVE  Book!Next
<1>1. /\ files \in [Days -> File] /\ today \in Days /\ CleanExpired \in [Days -> File]
      /\ files[today] \in File
  BY InvFacts, CleanFacts
<1>2. CleanExpired[today] = files[today]
  <2>1. today \in Int /\ TTL \in Nat \ {0}
    BY <1>1, MemoryAssumption DEF Days
  <2>2. ~(today + TTL <= today)
    BY <2>1
  <2> QED
    BY <1>1, <2>2, CleanFacts
<1>3. CleanExpired = [CleanExpired EXCEPT ![today] = files[today]]
  BY <1>1, <1>2
<1>4. NewStore([CleanExpired EXCEPT ![today] = files[today]])
  BY <1>3 DEF Restart
<1>5. Changed(NotesOf(files[today]), NotesOf(files[today]), Blank, Blank)
  BY DEF Changed
<1> QED
  BY <1>1, <1>4, <1>5, NewStoreRefines

LEMMA NextRefinesBook ==
  ASSUME MemoryInv, [MemoryNext]_memoryVars
  PROVE  [Book!Next]_(Book!vars)
<1>1. ASSUME NEW t \in Texts \cup {NoText}, NEW c \in Categories, Write(t, c)
      PROVE  Book!Next \/ UNCHANGED Book!vars
  <2>1. UNCHANGED today
    BY <1>1 DEF Write
  <2>2. CASE \E i \in First(Duplicates(t, c)) : ReplaceDuplicate(t, i)
    <3>1. PICK i \in Duplicates(t, c) : ReplaceDuplicate(t, i)
      BY <2>2 DEF First
    <3> QED
      BY <2>1, <3>1, ReplaceRefines
  <2>3. CASE Duplicates(t, c) = {} /\ AppendEntry([text |-> t, category |-> c])
    <3> DEFINE e == [text |-> t, category |-> c]
    <3>1. e \in Entry /\ e.text = t /\ e.category = c
      BY DEF Entry
    <3> HIDE DEF e
    <3>2. Duplicates(e.text, e.category) = {} /\ AppendEntry(e)
      BY <2>3, <3>1 DEF e
    <3> QED
      BY <2>1, <3>1, <3>2, AppendRefines
  <2> QED
    BY <1>1, <2>2, <2>3 DEF Write
<1>2. ASSUME NEW t \in Texts \cup {NoText}, NEW c \in Categories, CrashInWrite(t, c)
      PROVE  Book!Next
  <2> DEFINE e == [text |-> t, category |-> c]
  <2>1. PICK part \in AppendedInPart(OpenedFile(files[today]), e) :
          NewStore([CleanExpired EXCEPT ![today] = part])
    BY <1>2 DEF CrashInWrite
  <2>2. e \in Entry /\ files[today] \in File
    BY InvFacts DEF Entry
  <2> HIDE DEF e
  <2>3. part \in File /\ \E x, y : Changed(NotesOf(files[today]), NotesOf(part), x, y)
    BY <2>1, <2>2, NotesInPart
  <2> QED
    BY <2>1, <2>3, NewStoreRefines
<1>3. ASSUME NEW q \in Texts, NEW c \in {Categories} \cup {{d} : d \in Categories}, Delete(q, c)
      PROVE  Book!Next
  <2>1. c \in SUBSET Categories
    OBVIOUS
  <2> QED
    BY <1>3, <2>1, DeleteRefines
<1>4. CASE NextDay
  <2>1. Book!Tomorrow
    BY <1>4 DEF NextDay, Book!Tomorrow
  <2> QED
    BY <2>1 DEF Book!Next
<1>5. CASE Restart
  BY <1>5, RestartRefines
<1>6. CASE UNCHANGED memoryVars
  BY <1>6 DEF memoryVars, Book!vars
<1> QED
  BY <1>1, <1>2, <1>3, <1>4, <1>5, <1>6 DEF MemoryNext

LEMMA InitRefinesBook == MemoryInit => Book!Init
<1> SUFFICES ASSUME MemoryInit PROVE Book!Init
  OBVIOUS
<1>1. /\ files = [d \in Days |-> NoFile] /\ today = 1 /\ drifted = {}
  BY DEF MemoryInit
<1>2. \A d \in Days : NotesOf(files[d]) = Book!NoNotes
  BY <1>1, BookFacts
<1> QED
  BY <1>1, <1>2 DEF Book!Init

\* The Store of internal/memory keeps what Notebook promises, with files of lines and a
\* cache of line numbers: a note is written where none like it is held, revised in
\* place, forgotten one at a time, and whatever fails costs and brings one note at most.
THEOREM NotebookImplemented == MemorySpec => ImplementsNotebook
<1>1. MemoryInit => Book!Init
  BY InitRefinesBook
<1>2. MemoryInv /\ [MemoryNext]_memoryVars => [Book!Next]_(Book!vars)
  BY NextRefinesBook
<1> QED
  BY <1>1, <1>2, MemoryInvHolds, PTL DEF MemorySpec, ImplementsNotebook, Book!Spec
=============================================================================
