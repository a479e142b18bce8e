------------------------------ MODULE Notebook ------------------------------
(***************************************************************************)
(* What the long-term memory promises to those who remember with it,       *)
(* whatever its files and its cache do: a note is added only where none    *)
(* like it is held; one like it is revised in place, and stays in its      *)
(* category; one that is forgotten is like the query, and no note held is  *)
(* more like it.  After a mishap the notes of a day are unsure until they  *)
(* are read again.  What touches an unsure day may hit the wrong note, but *)
(* only one of that day, and never one of another day.                     *)
(***************************************************************************)
EXTENDS Naturals

CONSTANTS
  Texts,
  Categories,
  Sim,        \* pair of texts -> how like each other they are
  Threshold,  \* from which on they are alike
  Days,
  TTL         \* how many days notes are held

VARIABLES
  notes,      \* how many of each note are held, by day
  today,
  unsure      \* days of which notes may be mistaken for others

vars == <<notes, today, unsure>>

Note == [text : Texts, category : Categories]
NoNotes == [e \in Note |-> 0]
Sure == Days \ unsure
Similar(t, u) == Sim[<<t, u>>] >= Threshold

More(b, e) == [b EXCEPT ![e] = @ + 1]
Less(b, e) == [b EXCEPT ![e] = @ - 1]

\* At most one note has come, and at most one is gone.
Mistaken(b, c) ==
  \/ c = b
  \/ \E come, gone \in Note :
       \A e \in Note : /\ c[e] <= b[e] + (IF e = come THEN 1 ELSE 0)
                      /\ b[e] <= c[e] + (IF e = gone THEN 1 ELSE 0)

\* The notes of the categories that are like the text, as far as they are sure.
Like(t, cs) ==
  {e \in Note : e.category \in cs /\ Similar(t, e.text) /\ \E d \in Sure : notes[d][e] > 0}

Init == notes = [d \in Days |-> NoNotes] /\ today = 1 /\ unsure = {}

Remember(e) ==
  /\ today \in Sure /\ Like(e.text, {e.category}) = {}
  /\ notes' = [notes EXCEPT ![today] = More(@, e)]
  /\ UNCHANGED <<today, unsure>>

Revise(d, e, t) ==
  /\ d \in Sure /\ Similar(t, e.text) /\ notes[d][e] > 0
  /\ notes' = [notes EXCEPT ![d] = More(Less(@, e), [e EXCEPT !.text = t])]
  /\ UNCHANGED <<today, unsure>>

Forget(d, e, q, cs) ==
  /\ d \in Sure /\ Similar(q, e.text) /\ e.category \in cs /\ notes[d][e] > 0
  /\ \A f \in Like(q, cs) : Sim[<<q, f.text>>] <= Sim[<<q, e.text>>]
  /\ notes' = [notes EXCEPT ![d] = Less(@, e)]
  /\ UNCHANGED <<today, unsure>>

Mishap(d) ==
  /\ unsure' = unsure \cup {d} /\ UNCHANGED today
  /\ notes' = [notes EXCEPT ![d] = notes'[d]] /\ Mistaken(notes[d], notes'[d])

Tomorrow == today' = today + 1 /\ UNCHANGED <<notes, unsure>>

Reread == unsure' = {} /\ UNCHANGED <<notes, today>>

\* Old notes are dropped; writing one for today may have been interrupted.
Reopen ==
  /\ unsure' = {} /\ UNCHANGED today
  /\ notes' = [d \in Days |-> IF d = today THEN notes'[d]
                             ELSE IF d + TTL <= today THEN NoNotes ELSE notes[d]]
  /\ Mistaken(notes[today], notes'[today])

Next ==
  \/ Tomorrow \/ Reread \/ Reopen
  \/ \E d \in Days : Mishap(d)
  \/ \E e \in Note : Remember(e)
  \/ \E d \in Days, e \in Note, t \in Texts :
       Revise(d, e, t) \/ \E cs \in SUBSET Categories : Forget(d, e, t, cs)

Spec == Init /\ [][Next]_vars
=============================================================================
