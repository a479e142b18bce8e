------------------------------- MODULE Memory -------------------------------
(***************************************************************************)
(* The long-term memory store (internal/memory/store.go): one JSONL file   *)
(* per day and a cache of its entries.  The cache knows an entry by file   *)
(* and line number, and rewriting or deleting an entry trusts the number;  *)
(* the file is cut into lines anew each time.  Every operation holds the   *)
(* store's mutex from its first to its last line, so it is one step here;  *)
(* what can come between its writes is an error, which the code does not   *)
(* look at, or the end of the process.                                     *)
(*                                                                         *)
(* A file is the sequence strings.Split makes of it: the lines and what    *)
(* follows the last newline, which is Blank in a file that ends with one.  *)
(* MEMORY.md is left out: Write and Delete do not touch it.  Ranking a     *)
(* search only reads the cache.                                            *)
(***************************************************************************)
EXTENDS Naturals, Sequences, FiniteSets, SequencesExt

CONSTANTS
  Texts,      \* what is remembered
  NoText,     \* an entry without content
  Categories,
  Sim,        \* pair of texts -> jaccardSimilarity of their token sets
  Threshold,  \* DeduplicateThreshold
  Blank,      \* an empty line
  Torn,       \* a line that is not one JSON object
  MaxDay,     \* bound: days that pass
  TTL,        \* MemoryTTLDays
  MaxLines    \* bound: lines of a file, and entries in the cache

Days == 1..MaxDay
Entry == [text : Texts \cup {NoText}, category : Categories]
Line == Entry \cup {Blank, Torn}
Chunk == [day : Days, line : Nat \ {0}, text : Texts \cup {NoText}, category : Categories]
NoFile == <<>>

ASSUME MemoryAssumption ==
  /\ NoText \notin Texts /\ MaxDay \in Nat \ {0} /\ TTL \in Nat \ {0}
  /\ Sim \in [Texts \X Texts -> Nat] /\ Threshold \in Nat \ {0}
  /\ Blank \notin Entry /\ Torn \notin Entry /\ Blank # Torn

VARIABLES
  files,  \* the daily files
  chunks, \* Store.chunks
  today,
  drifted \* history: the days of whose file the cache no longer knows the lines,
          \* since a write of this process failed or followed a line it skips

memoryVars == <<files, chunks, today, drifted>>

\* Different texts can have the same tokens, and a text can have none.
Score(t, u) == IF t \in Texts /\ u \in Texts THEN Sim[<<t, u>>] ELSE 0
Similar(t, u) == Score(t, u) >= Threshold

-----------------------------------------------------------------------------
(* Reading. *)

Decodes(line) == line \in Entry
Loads(line) == Decodes(line) /\ line.text # NoText

\* The numbers of the lines that are read; the others are passed over.
Numbers(s) == {n \in DOMAIN s : Loads(s[n])}

\* A line as the cache knows it, and what of the line is known to it.
Cached(d, n, line) ==
  [day |-> d, line |-> n, text |-> line.text, category |-> line.category]
Content(k) == [text |-> k.text, category |-> k.category]

\* All that is read, day by day and line by line.
Found(fs) == UNION {{d} \X Numbers(fs[d]) : d \in Days}
NotAfter(p, q) == p[1] < q[1] \/ (p[1] = q[1] /\ p[2] <= q[2])
Rank(S, p) == Cardinality({q \in S : NotAfter(q, p)})
Place(S, i) == CHOOSE p \in S : Rank(S, p) = i
LoadedFrom(fs, p) == Cached(p[1], p[2], fs[p[1]][p[2]])

LoadAllFromDisk(fs) ==
  LET found == Found(fs) IN
  [i \in 1..Cardinality(found) |-> LoadedFrom(fs, Place(found, i))]

\* A file expires TTL days after the midnight its day begins with, so on day d + TTL.
CleanExpired == [d \in Days |-> IF d + TTL <= today THEN NoFile ELSE files[d]]

-----------------------------------------------------------------------------
(* Writing. *)

\* Opened for appending, a file that is missing is created.
OpenedFile(s) == IF s = NoFile THEN <<Blank>> ELSE s

\* What lies behind the last newline is continued by what is appended.
Joined(rest, line) == IF rest = Blank THEN line ELSE IF line = Blank THEN rest ELSE Torn

Appended(s, lines) == Front(s) \o <<Joined(Last(s), lines[1])>> \o Tail(lines)

\* The line and its newline are two writes; each can be left out or cut short.
AppendedInPart(s, e) ==
  {s, Appended(s, <<e>>), Appended(s, <<Torn>>), Appended(s, <<Torn, Blank>>),
   Appended(s, <<Blank, Blank>>)}

\* A file in which number and rank agree: entries with content, each a line.
Tidy(s) == Last(s) = Blank /\ \A i \in 1..(Len(s) - 1) : Loads(s[i])

\* The first of some cached entries.
First(S) == {i \in S : \A j \in S : i <= j}

\* Mutant of Duplicates: only entries of today are looked at.
DuplicatesToday(t, c) ==
  {i \in DOMAIN chunks :
     /\ chunks[i].category = c /\ Similar(t, chunks[i].text)
     /\ chunks[i].day = today
     /\ chunks[i].line \in DOMAIN files[chunks[i].day]
     /\ Decodes(files[chunks[i].day][chunks[i].line])}

\* The cached entries of the category that are similar and whose line decodes.
Duplicates(t, c) ==
  {i \in DOMAIN chunks :
     /\ chunks[i].category = c /\ Similar(t, chunks[i].text)
     /\ chunks[i].line \in DOMAIN files[chunks[i].day]
     /\ Decodes(files[chunks[i].day][chunks[i].line])}

\* The entry on the line keeps its category, the file all its other lines.
Rewritten(s, n, t) == [s EXCEPT ![n].text = t]

\* tryReplaceDuplicate; AtomicWritePrivate may fail, and nobody looks.
ReplaceDuplicate(t, i) ==
  LET k == chunks[i] IN
  /\ \/ files' = [files EXCEPT ![k.day] = Rewritten(@, k.line, t)] /\ UNCHANGED drifted
     \/ UNCHANGED files /\ drifted' = drifted \cup {k.day}
  /\ chunks' = [chunks EXCEPT ![i].text = t]

\* Bounds the files and the cache.
HasRoom == Len(files[today]) <= MaxLines /\ Len(chunks) < MaxLines

\* A new line in today's file.  Its number is the number of cached entries of
\* the file.
AppendEntry(e) ==
  LET d == today
      s == OpenedFile(files[d])
      n == Cardinality({i \in DOMAIN chunks : chunks[i].day = d}) IN
  /\ HasRoom
  /\ \/ /\ files' = [files EXCEPT ![d] = Appended(s, <<e, Blank>>)]
        /\ drifted' = IF Tidy(s) THEN drifted ELSE drifted \cup {d}
     \/ /\ \E part \in AppendedInPart(s, e) : files' = [files EXCEPT ![d] = part]
        /\ drifted' = drifted \cup {d}
  /\ chunks' = Append(chunks, Cached(d, n + 1, e))

Write(t, c) ==
  /\ \/ \E i \in First(Duplicates(t, c)) : ReplaceDuplicate(t, i)
     \/ Duplicates(t, c) = {} /\ AppendEntry([text |-> t, category |-> c])
  /\ UNCHANGED today

-----------------------------------------------------------------------------
(* Deleting. *)

\* The first of the cached entries most similar to the query.
BestMatches(q, c) ==
  LET near == {i \in DOMAIN chunks : Similar(q, chunks[i].text) /\ chunks[i].category \in c}
  IN First({i \in near : \A j \in near : Score(q, chunks[j].text) <= Score(q, chunks[i].text)})

\* Mutant of Shifted: the lines below keep their numbers.
ShiftedNot(i) == RemoveAt(chunks, i)

\* The lines below the deleted one, k, move up, as far as the cache knows.
MovedUp(k, c) ==
  IF c.day = k.day /\ c.line > k.line THEN [c EXCEPT !.line = @ - 1] ELSE c
Shifted(i) ==
  LET rest == RemoveAt(chunks, i) IN [j \in DOMAIN rest |-> MovedUp(chunks[i], rest[j])]

Kept(rest) == IF \A i \in DOMAIN rest : rest[i] = Blank THEN NoFile ELSE rest

\* Mutant of Without: every line equal to the one is deleted.
WithoutEqual(s, n) == Kept(SelectSeq(s, LAMBDA line : line # s[n]))

\* The file without the line; one without any text left is removed.
Without(s, n) == Kept(RemoveAt(s, n))

\* A number beyond the file makes the store read everything again.
Rebuild == chunks' = LoadAllFromDisk(files) /\ drifted' = {} /\ UNCHANGED files

Delete(q, c) ==
  \E i \in BestMatches(q, c) :
    LET k == chunks[i] IN
    /\ files[k.day] # NoFile
    /\ IF k.line > Len(files[k.day]) THEN Rebuild
       ELSE /\ \/ files' = [files EXCEPT ![k.day] = Without(@, k.line)] /\ UNCHANGED drifted
               \/ UNCHANGED files /\ drifted' = drifted \cup {k.day}
            /\ chunks' = Shifted(i)
    /\ UNCHANGED today

-----------------------------------------------------------------------------
(* Days and processes. *)

NextDay ==
  /\ today < MaxDay /\ today' = today + 1
  /\ UNCHANGED <<files, chunks, drifted>>

\* NewStore: files whose day is long past are removed, the rest is read.
NewStore(fs) == chunks' = LoadAllFromDisk(fs) /\ drifted' = {} /\ files' = fs /\ UNCHANGED today

Restart == NewStore(CleanExpired)

\* The process dies while it appends.
CrashInWrite(t, c) ==
  /\ Duplicates(t, c) = {} /\ HasRoom
  /\ \E s \in AppendedInPart(OpenedFile(files[today]), [text |-> t, category |-> c]) :
       NewStore([CleanExpired EXCEPT ![today] = s])

MemoryInit ==
  /\ files = [d \in Days |-> NoFile] /\ chunks = <<>> /\ today = 1 /\ drifted = {}

MemoryNext ==
  \/ \E t \in Texts \cup {NoText}, c \in Categories : Write(t, c) \/ CrashInWrite(t, c)
  \/ \E q \in Texts, c \in {Categories} \cup {{d} : d \in Categories} : Delete(q, c)
  \/ NextDay \/ Restart

MemorySpec == MemoryInit /\ [][MemoryNext]_memoryVars
-----------------------------------------------------------------------------
MemoryType ==
  /\ files \in [Days -> Seq(Line)]
  /\ chunks \in Seq(Chunk) /\ today \in Days /\ drifted \subseteq Days

\* What search finds, and what delete and update then address by line number, is
\* what the file holds on that line: in every file but those that a failed write,
\* or an append behind a line that is passed over, has set apart from the cache,
\* and again in these after a restart or a rebuild.  Deletes and updates in any
\* order keep the numbers right.  (The invariant carries the types.)
CacheMatchesFiles ==
  /\ MemoryType
  /\ \A d \in Days \ drifted :
       LET lines == Numbers(files[d])
           cached == {i \in DOMAIN chunks : chunks[i].day = d /\ chunks[i].text # NoText} IN
       /\ Cardinality(cached) = Cardinality(lines)
       /\ \A i \in cached :
            /\ chunks[i].line \in lines
            /\ files[d][chunks[i].line] = Content(chunks[i])
       /\ \A i, j \in cached : chunks[i].line = chunks[j].line => i = j

\* However far the cache has drifted from the files, no operation takes more than
\* one entry from the disk with it, be it the wrong one; only expired days are lost
\* as a whole.
AtMostOneLost ==
  [][\A d \in Days : files'[d] # NoFile \/ d + TTL > today =>
       Cardinality(Numbers(files'[d])) + 1 >= Cardinality(Numbers(files[d]))]_memoryVars
-----------------------------------------------------------------------------
(* Refinement: the files are a notebook.  Unsure are the days whose files the *)
(* cache has drifted from.                                                    *)

Note == [text : Texts, category : Categories]
NotesOf(s) == [e \in Note |-> Cardinality({n \in DOMAIN s : s[n] = e})]

Book == INSTANCE Notebook WITH
  notes <- [d \in Days |-> NotesOf(files[d])], unsure <- drifted

\* The store implements the notebook, with lines for notes and line numbers to find
\* them again: no write, update, delete, expiry, crash or failed write of it
\* does more to the notes than the notebook allows (store.go, all of it).
ImplementsNotebook == Book!Spec
=============================================================================
