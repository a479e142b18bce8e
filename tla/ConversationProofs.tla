------------------------- MODULE ConversationProofs -------------------------
(***************************************************************************)
(* LogInOrder and ContextPaired of Conversation, for any numbers of        *)
(* messages, calls and checkpoints, any compactions, failing writes and    *)
(* restarts.                                                               *)
(*                                                                         *)
(* The invariant says of the file that its lines are in order, of what is  *)
(* queued for it, and of the part of the list behind the boundary of the   *)
(* turn, that they are in order and come after every line of the file, and *)
(* of the list that its blocks are whole.  The boundary may point anywhere *)
(* into the list (it is not an invariant that all before it is on file),   *)
(* but nothing behind it is on file: every operation that shortens the     *)
(* list moves positions down and the boundary less than them.              *)
(*                                                                         *)
(* A list is filtered in six places, and each proof about it is one about  *)
(* positions: Kept(s, S)[k] is s[Place(S, k)], Place grows, and what stood *)
(* together and is kept stands together (BlockRank).                       *)
(***************************************************************************)
EXTENDS Conversation, TLAPS, FiniteSetTheorems, SequenceTheorems

USE ConversationAssumption

-----------------------------------------------------------------------------
(* Kept: its elements are those of the list at the positions that are kept,  *)
(* in their order; neighbours stay neighbours.                               *)

Positions(n, S) == n \in Nat /\ \A i \in S : i \in 1..n

LEMMA RankType ==
  ASSUME NEW n, NEW S, Positions(n, S)
  PROVE  /\ IsFiniteSet(S) /\ Cardinality(S) \in Nat
         /\ \A i \in 0..n : /\ IsFiniteSet({j \in S : j <= i}) /\ Rank(S, i) \in Nat
                            /\ Rank(S, i) <= Cardinality(S) /\ Rank(S, i) <= i
<1>1. IsFiniteSet(1..n)
  BY FS_Interval DEF Positions
<1>2. IsFiniteSet(S)
  BY <1>1, FS_Subset DEF Positions
<1>3. ASSUME NEW i \in 0..n
      PROVE  /\ IsFiniteSet({j \in S : j <= i}) /\ Rank(S, i) \in Nat
             /\ Rank(S, i) <= Cardinality(S) /\ Rank(S, i) <= i
  <2> DEFINE L == {j \in S : j <= i}
  <2>1. L \in SUBSET S /\ L \in SUBSET (1..i)
    BY DEF Positions
  <2>2. IsFiniteSet(1..i) /\ Cardinality(1..i) = i
    BY FS_Interval DEF Positions
  <2> HIDE DEF L
  <2>3. IsFiniteSet(L) /\ Cardinality(L) \in Nat /\ Cardinality(L) <= Cardinality(S)
    BY <1>2, <2>1, FS_Subset, FS_CardinalityType
  <2>4. Cardinality(L) <= i
    BY <2>1, <2>2, FS_Subset
  <2> QED
    BY <2>3, <2>4 DEF Rank, L
<1> QED
  BY <1>2, <1>3, FS_CardinalityType

LEMMA RankGrows ==
  ASSUME NEW n, NEW S, Positions(n, S), NEW i \in 0..n, NEW j \in S, i < j
  PROVE  Rank(S, i) < Rank(S, j)
<1> DEFINE L(x) == {k \in S : k <= x}
<1>1. j \in 0..n
  BY DEF Positions
<1>2. L(i) \in SUBSET L(j) /\ j \in L(j) /\ j \notin L(i)
  BY DEF Positions
<1>3. IsFiniteSet(L(j)) /\ Rank(S, i) \in Nat /\ Rank(S, j) \in Nat
  BY <1>1, RankType
<1>4. Rank(S, i) = Cardinality(L(i)) /\ Rank(S, j) = Cardinality(L(j))
  BY DEF Rank
<1> HIDE DEF L
<1>5. Cardinality(L(i)) <= Cardinality(L(j)) /\ Cardinality(L(i)) # Cardinality(L(j))
  BY <1>2, <1>3, FS_Subset
<1> QED
  BY <1>3, <1>4, <1>5

LEMMA RankOfKept ==
  ASSUME NEW n, NEW S, Positions(n, S)
  PROVE  /\ \A i \in S : Rank(S, i) \in 1..Cardinality(S)
         /\ \A i, j \in S : Rank(S, i) = Rank(S, j) => i = j
         /\ \A k \in 1..Cardinality(S) : \E i \in S : Rank(S, i) = k
<1>1. \A i \in S : i \in 0..n /\ i \in Nat /\ 0 < i
  BY DEF Positions
<1>2. /\ IsFiniteSet(S) /\ Cardinality(S) \in Nat
      /\ \A i \in S : Rank(S, i) \in Nat /\ Rank(S, i) <= Cardinality(S)
      /\ Rank(S, 0) \in Nat
  <2>1. 0 \in 0..n
    BY DEF Positions
  <2> QED
    BY <1>1, <2>1, RankType
<1>3. ASSUME NEW i \in S PROVE Rank(S, i) \in 1..Cardinality(S)
  <2>1. 0 \in 0..n
    BY DEF Positions
  <2>2. Rank(S, 0) < Rank(S, i)
    BY <1>1, <2>1, RankGrows
  <2> QED
    BY <1>2, <2>2
<1>4. ASSUME NEW i \in S, NEW j \in S, Rank(S, i) = Rank(S, j) PROVE i = j
  <2>1. i < j => Rank(S, i) < Rank(S, j)
    BY <1>1, RankGrows
  <2>2. j < i => Rank(S, j) < Rank(S, i)
    BY <1>1, RankGrows
  <2> QED
    BY <1>1, <1>2, <1>4, <2>1, <2>2
<1>5. ASSUME NEW k \in 1..Cardinality(S) PROVE \E i \in S : Rank(S, i) = k
  <2> DEFINE f == [i \in S |-> Rank(S, i)]
             T == 1..Cardinality(S)
  <2>1. f \in Injection(S, T)
    BY <1>3, <1>4 DEF Injection, IsInjective
  <2>2. IsFiniteSet(T) /\ Cardinality(T) = Cardinality(S)
    BY <1>2, FS_Interval
  <2> HIDE DEF f, T
  <2>3. f \in Surjection(S, T)
    BY <2>1, <2>2, FS_Injection
  <2> QED
    BY <2>3 DEF Surjection, f, T
<1> QED
  BY <1>3, <1>4, <1>5

LEMMA PlaceFacts ==
  ASSUME NEW n, NEW S, Positions(n, S)
  PROVE  /\ \A k \in 1..Cardinality(S) :
              Place(S, k) \in S /\ Rank(S, Place(S, k)) = k /\ k <= Place(S, k)
         /\ \A k, l \in 1..Cardinality(S) : k < l => Place(S, k) < Place(S, l)
         /\ \A i \in S : Place(S, Rank(S, i)) = i
<1>1. ASSUME NEW k \in 1..Cardinality(S)
      PROVE  Place(S, k) \in S /\ Rank(S, Place(S, k)) = k
  BY RankOfKept DEF Place
<1>2. ASSUME NEW k \in 1..Cardinality(S) PROVE k <= Place(S, k)
  <2>1. Place(S, k) \in 0..n
    BY <1>1 DEF Positions
  <2> QED
    BY <1>1, <2>1, RankType
<1>3. ASSUME NEW k \in 1..Cardinality(S), NEW l \in 1..Cardinality(S), k < l
      PROVE  Place(S, k) < Place(S, l)
  <2>1. /\ Place(S, k) \in S /\ Place(S, k) \in 0..n /\ Place(S, k) \in Nat
        /\ Place(S, l) \in S /\ Place(S, l) \in 0..n /\ Place(S, l) \in Nat
    BY <1>1 DEF Positions
  <2>2. Place(S, l) < Place(S, k) => l < k
    BY <1>1, <2>1, RankGrows
  <2>3. Place(S, l) # Place(S, k)
    BY <1>1, <1>3, <2>1
  <2>4. Cardinality(S) \in Nat
    BY RankType
  <2> QED
    BY <1>3, <2>1, <2>2, <2>3, <2>4
<1>4. \A i \in S : Place(S, Rank(S, i)) = i
  BY <1>1, RankOfKept
<1> QED
  BY <1>1, <1>2, <1>3, <1>4

\* What stands together and is kept stands together.
Together(S, i, m) == \A k \in 1..m : i + k \in S

LEMMA BlockRank ==
  ASSUME NEW n \in Nat, NEW S, Positions(n, S), NEW i \in 0..n, NEW m \in Nat,
         Together(S, i, m)
  PROVE  Rank(S, i + m) = Rank(S, i) + m
<1> DEFINE L(x) == {k \in S : k <= x}
           B == (i + 1)..(i + m)
<1>0. i + m <= n
  <2>1. m = 0 => i + m <= n
    BY DEF Positions
  <2>2. m # 0 => m \in 1..m /\ i + m \in S
    BY DEF Together
  <2> QED
    BY <2>1, <2>2 DEF Positions
<1>1. L(i + m) = L(i) \cup B /\ L(i) \cap B = {}
  <2>1. B \subseteq S
    <3> SUFFICES ASSUME NEW x \in B PROVE x \in S
      OBVIOUS
    <3>1. x - i \in 1..m /\ x = i + (x - i)
      BY DEF Positions
    <3> QED
      BY <3>1 DEF Together
  <2> QED
    BY <1>0, <2>1 DEF Positions
<1>2. IsFiniteSet(B) /\ Cardinality(B) = m
  BY FS_Interval DEF Positions
<1>3. IsFiniteSet(L(i)) /\ Rank(S, i) \in Nat
  BY RankType
<1>4. Rank(S, i) = Cardinality(L(i)) /\ Rank(S, i + m) = Cardinality(L(i + m))
  BY DEF Rank
<1> HIDE DEF L, B
<1>5. Cardinality(L(i) \cup B) = Cardinality(L(i)) + Cardinality(B) - Cardinality(L(i) \cap B)
  BY <1>2, <1>3, FS_Union
<1>6. Cardinality({}) = 0
  BY FS_EmptySet
<1>7. Cardinality(L(i + m)) = Cardinality(L(i)) + m - 0
  BY <1>1, <1>2, <1>5, <1>6, Zenon
<1> QED
  BY <1>3, <1>4, <1>7

LEMMA KeptFacts ==
  ASSUME NEW T, NEW s \in Seq(T), NEW S \in SUBSET (DOMAIN s)
  PROVE  /\ Positions(Len(s), S)
         /\ Kept(s, S) \in Seq(T) /\ Len(Kept(s, S)) = Cardinality(S)
         /\ Cardinality(S) \in Nat
         /\ \A k \in 1..Cardinality(S) : Kept(s, S)[k] = s[Place(S, k)]
<1>1. Positions(Len(s), S)
  BY LenProperties DEF Positions
<1>2. Cardinality(S) \in Nat
  BY <1>1, RankType
<1>3. Kept(s, S) = [k \in 1..Cardinality(S) |-> s[Place(S, k)]]
  BY DEF Kept, Place
<1>4. \A k \in 1..Cardinality(S) : s[Place(S, k)] \in T
  BY <1>1, PlaceFacts, ElementOfSeq, LenProperties
<1>5. Kept(s, S) \in Seq(T)
  BY <1>2, <1>3, <1>4, IsASeq
<1>6. DOMAIN Kept(s, S) = 1..Cardinality(S)
  BY <1>3
<1>7. Len(Kept(s, S)) = Cardinality(S)
  BY <1>2, <1>5, <1>6, LenProperties
<1> QED
  BY <1>1, <1>2, <1>3, <1>5, <1>7

-----------------------------------------------------------------------------
(* Messages and lines. *)

Utterance == [kind : {"user", "assistant", "tool"}, id : 1..MaxSaid, n : 0..MaxCalls]
Digest == [kind : {"summary"}, of : SUBSET Message]
Text == Message \cup Digest
Line == Utterance \cup [kind : {"checkpoint"}, of : SUBSET Message, to : Nat]

LEMMA Kinds ==
  /\ \A m \in Utterance : /\ m \in Message /\ IsSaid(m)
                          /\ m.id \in 1..MaxSaid /\ m.n \in 0..MaxCalls
                          /\ m.kind \in {"user", "assistant", "tool"}
  /\ \A m \in Message : IsSaid(m) => m \in Utterance
  /\ \A m \in Text : (IsSaid(m) => m \in Utterance) /\ IsMessage(m)
                     /\ (m.kind = "summary" => m.of \in SUBSET Message)
  /\ \A e \in Line : /\ (IsSaid(e) => e \in Utterance) /\ IsEntry(e)
                     /\ (e.kind = "checkpoint" => e.of \in SUBSET Message /\ e.to \in Nat)
<1>1. \A m \in Utterance : /\ m \in Message /\ IsSaid(m) /\ m.id \in 1..MaxSaid
                           /\ m.n \in 0..MaxCalls /\ m.kind \in {"user", "assistant", "tool"}
  BY DEF Utterance, Message, IsSaid
<1>2. ASSUME NEW m \in Message, m \notin Utterance
      PROVE  m.kind \in {"system", "ack", "inbox", "session", "recall", "nudge"}
  BY <1>2 DEF Message, Utterance, Note
<1>3. \A m \in Digest : m.kind = "summary" /\ m.of \in SUBSET Message
  BY DEF Digest
<1>4. \A e \in Line :
        e \in Utterance \/ (e.kind = "checkpoint" /\ e.of \in SUBSET Message /\ e.to \in Nat)
  BY DEF Line
<1>5. \A m \in Message : IsSaid(m) => m \in Utterance
  BY <1>2 DEF IsSaid
<1>6. \A m \in Text : /\ (IsSaid(m) => m \in Utterance) /\ IsMessage(m)
                      /\ (m.kind = "summary" => m.of \in SUBSET Message)
  BY <1>1, <1>2, <1>3, <1>5 DEF Text, IsMessage, IsSaid
<1>7. \A e \in Line : /\ (IsSaid(e) => e \in Utterance) /\ IsEntry(e)
                      /\ (e.kind = "checkpoint" => e.of \in SUBSET Message /\ e.to \in Nat)
  BY <1>1, <1>4 DEF IsEntry, IsSaid
<1> QED
  BY <1>1, <1>5, <1>6, <1>7

LEMMA NoteFacts ==
  /\ \A k \in {"system", "ack", "inbox", "session", "recall", "nudge"} :
       Note(k) \in Text /\ Note(k).kind = k
  /\ \A k \in {"user", "assistant", "tool"}, id \in 1..MaxSaid, n \in 0..MaxCalls :
       /\ Said(k, id, n) \in Utterance /\ Said(k, id, n).kind = k
       /\ Said(k, id, n).id = id /\ Said(k, id, n).n = n
  /\ \A of \in SUBSET Message :
       /\ Summary(of) \in Text /\ Summary(of).kind = "summary"
       /\ \A to \in Nat : Checkpoint(of, to) \in Line /\ Checkpoint(of, to).kind = "checkpoint"
<1>1. \A k \in {"system", "ack", "inbox", "session", "recall", "nudge"} :
        Note(k) \in Text /\ Note(k).kind = k
  BY DEF Note, Text, Message
<1>2. \A k \in {"user", "assistant", "tool"}, id \in 1..MaxSaid, n \in 0..MaxCalls :
        /\ Said(k, id, n) \in Utterance /\ Said(k, id, n).kind = k
        /\ Said(k, id, n).id = id /\ Said(k, id, n).n = n
  BY DEF Said, Utterance
<1>3. \A of \in SUBSET Message : Summary(of) \in Text /\ Summary(of).kind = "summary"
  BY DEF Summary, Text, Digest
<1>4. \A of \in SUBSET Message, to \in Nat :
        Checkpoint(of, to) \in Line /\ Checkpoint(of, to).kind = "checkpoint"
  BY DEF Checkpoint, Line
<1> QED
  BY <1>1, <1>2, <1>3, <1>4

\* The operations on lists tell of nothing that the list did not.
LEMMA VerbatimOfKept ==
  ASSUME NEW T, NEW s \in Seq(T), NEW S \in SUBSET (DOMAIN s)
  PROVE  Verbatim(Kept(s, S)) \subseteq Verbatim(s)
<1> DEFINE t == Kept(s, S)
<1>1. /\ t \in Seq(T) /\ \A k \in DOMAIN t : t[k] = s[Place(S, k)] /\ Place(S, k) \in DOMAIN s
  BY KeptFacts, PlaceFacts, LenProperties
<1> HIDE DEF t
<1>2. Verbatim(t) \subseteq Verbatim(s)
  BY <1>1 DEF Verbatim
<1> QED
  BY <1>2 DEF t

LEMMA VerbatimOfConcat ==
  ASSUME NEW T, NEW s \in Seq(T), NEW t \in Seq(T)
  PROVE  Verbatim(s \o t) \subseteq Verbatim(s) \cup Verbatim(t)
<1> SUFFICES ASSUME NEW i \in DOMAIN (s \o t), IsSaid((s \o t)[i])
             PROVE  (s \o t)[i] \in Verbatim(s) \cup Verbatim(t)
  BY DEF Verbatim
<1>1. /\ i \in 1..(Len(s) + Len(t)) /\ Len(s) \in Nat /\ Len(t) \in Nat
      /\ DOMAIN s = 1..Len(s) /\ DOMAIN t = 1..Len(t)
  BY ConcatProperties, LenProperties
<1>2. CASE i <= Len(s)
  BY <1>1, <1>2, ConcatProperties DEF Verbatim
<1>3. CASE i > Len(s)
  <2>1. (s \o t)[i] = t[i - Len(s)] /\ i - Len(s) \in DOMAIN t
    BY <1>1, <1>3, ConcatProperties
  <2> QED
    BY <2>1 DEF Verbatim
<1> QED
  BY <1>1, <1>2, <1>3

LEMMA VerbatimOfAppend ==
  ASSUME NEW T, NEW s \in Seq(T), NEW e \in T
  PROVE  /\ Verbatim(Append(s, e)) \subseteq Verbatim(s) \cup {e}
         /\ ~IsSaid(e) => Verbatim(Append(s, e)) \subseteq Verbatim(s)
<1>1. /\ DOMAIN s = 1..Len(s) /\ DOMAIN Append(s, e) = 1..(Len(s) + 1) /\ Len(s) \in Nat
      /\ \A i \in 1..Len(s) : Append(s, e)[i] = s[i]
      /\ Append(s, e)[Len(s) + 1] = e
  BY AppendProperties, LenProperties
<1>2. \A i \in 1..(Len(s) + 1) : i \in 1..Len(s) \/ i = Len(s) + 1
  BY <1>1
<1> QED
  BY <1>1, <1>2 DEF Verbatim

LEMMA VerbatimOfSubSeq ==
  ASSUME NEW T, NEW s \in Seq(T), NEW m \in 1..(Len(s) + 1), NEW n \in Nat, n <= Len(s)
  PROVE  /\ SubSeq(s, m, n) \in Seq(T)
         /\ Len(SubSeq(s, m, n)) = IF m <= n THEN n - m + 1 ELSE 0
         /\ \A i \in 1..(n - m + 1) : SubSeq(s, m, n)[i] = s[m + i - 1]
         /\ Verbatim(SubSeq(s, m, n)) \subseteq Verbatim(s)
<1>1. Len(s) \in Nat /\ DOMAIN s = 1..Len(s) /\ m \in Int /\ n \in Int
  BY LenProperties
<1>2. \A i \in m..n : s[i] \in T
  BY <1>1, ElementOfSeq
<1> DEFINE t == SubSeq(s, m, n)
<1>3. /\ t \in Seq(T) /\ Len(t) = IF m <= n THEN n - m + 1 ELSE 0
      /\ \A i \in 1..(n - m + 1) : t[i] = s[m + i - 1]
  BY <1>1, <1>2, SubSeqProperties
<1> HIDE DEF t
<1>4. \A i \in DOMAIN t : i \in 1..(n - m + 1) /\ m + i - 1 \in DOMAIN s
  BY <1>1, <1>3, LenProperties
<1>5. Verbatim(t) \subseteq Verbatim(s)
  BY <1>3, <1>4 DEF Verbatim
<1> QED
  BY <1>3, <1>5 DEF t

LEMMA VerbatimIsSaid ==
  /\ \A s \in Seq(Text) : Verbatim(s) \subseteq Utterance
  /\ \A s \in Seq(Line) : Verbatim(s) \subseteq Utterance
  /\ \A s \in Seq(Utterance) : /\ Verbatim(s) \subseteq Utterance
                              /\ \A i \in DOMAIN s : s[i] \in Verbatim(s)
  BY Kinds, ElementOfSeq, LenProperties DEF Verbatim

\* A summary tells of messages.
LEMMA ToldIsMessages ==
  ASSUME NEW s \in Seq(Text) PROVE Told(s) \in SUBSET Message
<1>1. Verbatim(s) \subseteq Message
  BY VerbatimIsSaid, Kinds
<1>2. \A i \in DOMAIN s : s[i].kind = "summary" => s[i].of \in SUBSET Message
  BY Kinds, ElementOfSeq, LenProperties
<1> QED
  BY <1>1, <1>2 DEF Told

-----------------------------------------------------------------------------
(* Order. *)

SaidAt(s) == {i \in DOMAIN s : IsSaid(s[i])}
Ordered(s, S) == \A i, j \in S : i < j => Earlier(s[i], s[j])
After(s, e) == \A i \in SaidAt(s) : Earlier(s[i], e)

LEMMA SaidAtAppend ==
  ASSUME NEW s \in Seq(Line), NEW e \in Line
  PROVE  /\ \A i \in SaidAt(Append(s, e)) :
              i # Len(s) + 1 => i \in SaidAt(s) /\ Append(s, e)[i] = s[i]
         /\ \A i \in SaidAt(Append(s, e)) : i \in 1..(Len(s) + 1)
         /\ \A i \in SaidAt(Append(s, e)) :
              i = Len(s) + 1 => IsSaid(e) /\ Append(s, e)[i] = e
         /\ \A i \in SaidAt(s) : i \in SaidAt(Append(s, e)) /\ Append(s, e)[i] = s[i]
<1>1. /\ DOMAIN s = 1..Len(s) /\ DOMAIN Append(s, e) = 1..(Len(s) + 1) /\ Len(s) \in Nat
      /\ \A i \in 1..Len(s) : Append(s, e)[i] = s[i]
      /\ Append(s, e)[Len(s) + 1] = e
  BY AppendProperties, LenProperties
<1>2. \A i \in 1..(Len(s) + 1) : i \in 1..Len(s) \/ i = Len(s) + 1
  BY <1>1
<1> QED
  BY <1>1, <1>2 DEF SaidAt

LEMMA OrderOfAppend ==
  ASSUME NEW s \in Seq(Line), NEW e \in Line, Ordered(s, SaidAt(s)), IsSaid(e) => After(s, e)
  PROVE  Ordered(Append(s, e), SaidAt(Append(s, e)))
<1> SUFFICES ASSUME NEW i \in SaidAt(Append(s, e)), NEW j \in SaidAt(Append(s, e)), i < j
             PROVE  Earlier(Append(s, e)[i], Append(s, e)[j])
  BY DEF Ordered
<1>1. Len(s) \in Nat /\ \A k \in SaidAt(s) : k \in 1..Len(s)
  BY LenProperties DEF SaidAt
<1>2. i \in SaidAt(s) /\ Append(s, e)[i] = s[i]
  <2>1. i # Len(s) + 1
    <3>1. j \in 1..(Len(s) + 1)
      BY <1>1, SaidAtAppend
    <3>2. i \in 1..(Len(s) + 1)
      BY <1>1, SaidAtAppend
    <3> QED
      BY <1>1, <3>1, <3>2
  <2>2. i # Len(s) + 1 => i \in SaidAt(s) /\ Append(s, e)[i] = s[i]
    BY SaidAtAppend
  <2> QED
    BY <2>1, <2>2
<1>3. CASE j # Len(s) + 1
  <2>1. j \in SaidAt(s) /\ Append(s, e)[j] = s[j]
    BY <1>3, SaidAtAppend
  <2> QED
    BY <1>2, <2>1 DEF Ordered
<1>4. CASE j = Len(s) + 1
  <2>1. IsSaid(e) /\ Append(s, e)[j] = e
    BY <1>4, SaidAtAppend
  <2> QED
    BY <1>2, <2>1 DEF After
<1> QED
  BY <1>3, <1>4

LEMMA AfterAppend ==
  ASSUME NEW s \in Seq(Line), NEW e \in Line, NEW f, After(s, f), IsSaid(e) => Earlier(e, f)
  PROVE  After(Append(s, e), f)
<1> SUFFICES ASSUME NEW i \in SaidAt(Append(s, e)) PROVE Earlier(Append(s, e)[i], f)
  BY DEF After
<1>1. CASE i # Len(s) + 1
  <2>1. i \in SaidAt(s) /\ Append(s, e)[i] = s[i]
    BY <1>1, SaidAtAppend
  <2> QED
    BY <2>1 DEF After
<1>2. CASE i = Len(s) + 1
  <2>1. IsSaid(e) /\ Append(s, e)[i] = e
    BY <1>2, SaidAtAppend
  <2> QED
    BY <2>1
<1> QED
  BY <1>1, <1>2

LEMMA EarlierFacts ==
  ASSUME NEW e \in Utterance, NEW f \in Utterance
  PROVE  /\ e.id < f.id => Earlier(e, f)
         /\ Earlier(e, f) => e.id <= f.id /\ ~Earlier(f, e)
  BY DEF Earlier, Utterance

-----------------------------------------------------------------------------
(* Calls and results. *)

\* A result's number is at most the number of calls of its assistant.
Matched(M) ==
  \A t, a \in M : t.kind = "tool" /\ a.kind = "assistant" /\ t.id = a.id => t.n \in 1..a.n

LEMMA PlaceInList ==
  ASSUME NEW T, NEW s \in Seq(T), NEW S \in SUBSET (DOMAIN s)
  PROVE  /\ DOMAIN Kept(s, S) = 1..Cardinality(S) /\ Cardinality(S) \in Nat
         /\ Len(Kept(s, S)) = Cardinality(S)
         /\ \A k \in DOMAIN Kept(s, S) :
              /\ Place(S, k) \in S /\ Kept(s, S)[k] = s[Place(S, k)]
              /\ Rank(S, Place(S, k)) = k
         /\ \A i \in S : /\ Rank(S, i) \in DOMAIN Kept(s, S)
                         /\ Kept(s, S)[Rank(S, i)] = s[i]
<1>1. /\ Positions(Len(s), S) /\ Len(Kept(s, S)) = Cardinality(S) /\ Kept(s, S) \in Seq(T)
      /\ Cardinality(S) \in Nat
      /\ \A k \in 1..Cardinality(S) : Kept(s, S)[k] = s[Place(S, k)]
  BY KeptFacts
<1>2. DOMAIN Kept(s, S) = 1..Cardinality(S)
  BY <1>1, LenProperties
<1>3. /\ \A k \in 1..Cardinality(S) : Place(S, k) \in S /\ Rank(S, Place(S, k)) = k
      /\ \A i \in S : Place(S, Rank(S, i)) = i /\ Rank(S, i) \in 1..Cardinality(S)
  BY <1>1, PlaceFacts, RankOfKept
<1> QED
  BY <1>1, <1>2, <1>3

\* The answers to a call that is kept are kept.
LEMMA AnsweredKept ==
  ASSUME NEW s \in Seq(Text), NEW S \in SUBSET (DOMAIN s),
         \A i \in S : HasCalls(s[i]) => \A k \in 1..s[i].n :
           i + k \in S /\ s[i + k] = Said("tool", s[i].id, k)
  PROVE  Answered(Kept(s, S))
<1> SUFFICES ASSUME NEW p \in DOMAIN Kept(s, S), HasCalls(Kept(s, S)[p]),
                    NEW k \in 1..(Kept(s, S)[p].n)
             PROVE  /\ p + k <= Len(Kept(s, S))
                    /\ Kept(s, S)[p + k] = Said("tool", Kept(s, S)[p].id, k)
  BY DEF Answered
<1> DEFINE i == Place(S, p)
<1>1. /\ i \in S /\ Kept(s, S)[p] = s[i] /\ Rank(S, i) = p
  BY PlaceInList
<1> HIDE DEF i
<1>2. /\ i \in 1..Len(s) /\ Len(s) \in Nat /\ Positions(Len(s), S)
  BY <1>1, KeptFacts, LenProperties
<1>3. s[i].n \in Nat /\ k \in Nat
  <2>1. s[i] \in Utterance
    BY <1>1, Kinds, ElementOfSeq, LenProperties DEF HasCalls, IsSaid
  <2> QED
    BY <1>1, <2>1, Kinds
<1>4. \A j \in 1..k : j \in 1..s[i].n
  BY <1>1, <1>3
<1>5. Together(S, i, k)
  BY <1>1, <1>4 DEF Together
<1>6. i + k \in S /\ s[i + k] = Said("tool", s[i].id, k)
  BY <1>1
<1>7. i + k <= Len(s)
  BY <1>2, <1>6 DEF Positions
<1>8. Rank(S, i + k) = p + k
  <2>1. i \in 0..Len(s)
    BY <1>2
  <2>2. Rank(S, i + k) = Rank(S, i) + k
    BY <1>2, <1>3, <1>5, <2>1, BlockRank
  <2> QED
    BY <1>1, <2>2
<1>9. /\ p + k \in 1..Cardinality(S) /\ Kept(s, S)[p + k] = s[i + k]
      /\ Len(Kept(s, S)) = Cardinality(S) /\ Cardinality(S) \in Nat
  BY <1>6, <1>8, PlaceInList
<1> QED
  BY <1>1, <1>6, <1>9

\* And so is the call of a result that is kept, with the results between them.
LEMMA OrphansKept ==
  ASSUME NEW s \in Seq(Text), NEW S \in SUBSET (DOMAIN s),
         \A i \in S : s[i].kind = "tool" =>
           /\ i - s[i].n \in S /\ s[i - s[i].n].kind = "assistant" /\ s[i - s[i].n].id = s[i].id
           /\ \A k \in 1..s[i].n : i - s[i].n + k \in S
  PROVE  NoOrphans(Kept(s, S))
<1> SUFFICES ASSUME NEW p \in DOMAIN Kept(s, S), Kept(s, S)[p].kind = "tool"
             PROVE  LET q == p - Kept(s, S)[p].n
                    IN  /\ p > Kept(s, S)[p].n
                        /\ Kept(s, S)[q].kind = "assistant"
                        /\ Kept(s, S)[q].id = Kept(s, S)[p].id
  BY DEF NoOrphans
<1> DEFINE i == Place(S, p)
           m == s[i].n
           a == i - m
<1>1. /\ i \in S /\ Kept(s, S)[p] = s[i] /\ Rank(S, i) = p /\ p \in Nat
  BY PlaceInList
<1>2. s[i].n \in Nat
  <2>1. s[i] \in Utterance
    BY <1>1, Kinds, ElementOfSeq, LenProperties DEF IsSaid
  <2> QED
    BY <2>1, Kinds
<1>3. /\ a \in S /\ s[a].kind = "assistant" /\ s[a].id = s[i].id /\ \A k \in 1..m : a + k \in S
  BY <1>1
<1>4. i \in 1..Len(s) /\ a \in 1..Len(s) /\ Len(s) \in Nat /\ Positions(Len(s), S)
  BY <1>1, <1>3, KeptFacts, LenProperties
<1>5. a + m = i /\ m \in Nat
  BY <1>2, <1>4
<1> HIDE DEF a, i, m
<1>6. Rank(S, a + m) = Rank(S, a) + m
  <2>1. a \in 0..Len(s)
    BY <1>4, <1>5
  <2>2. Together(S, a, m)
    BY <1>3 DEF Together
  <2> QED
    BY <1>4, <1>5, <2>1, <2>2, BlockRank
<1>7. Rank(S, a) \in DOMAIN Kept(s, S) /\ Kept(s, S)[Rank(S, a)] = s[a] /\ Rank(S, a) \in Nat \ {0}
  BY <1>3, PlaceInList
<1>8. Rank(S, a) = p - m /\ p > m
  <2>1. p = Rank(S, a) + m
    BY <1>1, <1>5, <1>6, Zenon
  <2> QED
    BY <1>5, <1>7, <2>1
<1>9. m = Kept(s, S)[p].n
  BY <1>1 DEF m
<1> QED
  BY <1>1, <1>3, <1>7, <1>8, <1>9

\* The block a result belongs to.
LEMMA BlockOfResult ==
  ASSUME NEW s \in Seq(Text), Answered(s), NoOrphans(s), Matched(Verbatim(s)),
         NEW i \in DOMAIN s, s[i].kind = "tool"
  PROVE  /\ s[i].n \in Nat \ {0} /\ i - s[i].n \in DOMAIN s
         /\ s[i - s[i].n].kind = "assistant" /\ s[i - s[i].n].id = s[i].id
         /\ \A k \in 1..s[i].n : /\ i - s[i].n + k \in DOMAIN s
                                 /\ s[i - s[i].n + k].kind = "tool"
<1> DEFINE m == s[i].n
           a == i - m
<1>1. DOMAIN s = 1..Len(s) /\ Len(s) \in Nat /\ i \in 1..Len(s)
  BY LenProperties
<1>2. s[i] \in Utterance /\ m \in Nat
  BY Kinds, ElementOfSeq, <1>1 DEF IsSaid
<1>3. i > m /\ s[a].kind = "assistant" /\ s[a].id = s[i].id
  BY DEF NoOrphans
<1>4. a \in DOMAIN s /\ a + m = i
  BY <1>1, <1>2, <1>3
<1>5. s[a] \in Utterance
  BY <1>1, <1>3, <1>4, Kinds, ElementOfSeq DEF IsSaid
<1>6. s[i] \in Verbatim(s) /\ s[a] \in Verbatim(s)
  BY <1>2, <1>4, <1>5, Kinds DEF Verbatim
<1>7. m \in 1..s[a].n /\ s[a].n \in Nat
  BY <1>3, <1>5, <1>6, Kinds DEF Matched
<1>8. HasCalls(s[a])
  BY <1>3, <1>7 DEF HasCalls
<1>9. ASSUME NEW k \in 1..m PROVE a + k \in DOMAIN s /\ s[a + k].kind = "tool"
  <2>1. k \in 1..s[a].n
    BY <1>7
  <2>2. a + k <= Len(s) /\ s[a + k] = Said("tool", s[a].id, k)
    BY <1>4, <1>8, <2>1 DEF Answered
  <2>3. Said("tool", s[a].id, k).kind = "tool"
    BY DEF Said
  <2>4. a + k \in DOMAIN s
    BY <1>1, <1>4, <2>1, <2>2
  <2> QED
    BY <2>2, <2>3, <2>4
<1> QED
  BY <1>2, <1>3, <1>4, <1>7, <1>9

-----------------------------------------------------------------------------
(* Where the list is cut. *)

LEMMA MaxFacts ==
  ASSUME NEW n \in Nat, NEW S, Positions(n, S), S # {}
  PROVE  Max(S) \in S /\ \A j \in S : j <= Max(S)
<1>1. Cardinality(S) \in Nat /\ IsFiniteSet(S)
  BY RankType
<1>2. Cardinality(S) \in 1..Cardinality(S)
  BY <1>1, FS_EmptySet
<1>3. PICK i \in S : Rank(S, i) = Cardinality(S)
  BY <1>2, RankOfKept
<1>4. ASSUME NEW j \in S PROVE i >= j
  <2>1. i \in 0..n /\ j \in 0..n /\ i \in Nat /\ j \in Nat
    BY DEF Positions
  <2>2. i < j => Rank(S, i) < Rank(S, j)
    BY <2>1, RankGrows
  <2>3. Rank(S, j) \in Nat /\ Rank(S, j) <= Cardinality(S)
    BY <2>1, RankType
  <2> QED
    BY <1>1, <1>3, <2>1, <2>2, <2>3
<1>5. Max(S) \in S /\ \A j \in S : Max(S) >= j
  BY <1>4 DEF Max
<1>6. \A j \in S : j \in Nat
  BY DEF Positions
<1> QED
  BY <1>5, <1>6

LEMMA MinFacts ==
  ASSUME NEW n \in Nat, NEW S, Positions(n, S), S # {}
  PROVE  Min(S) \in S
<1>1. Cardinality(S) \in Nat /\ IsFiniteSet(S)
  BY RankType
<1>2. 1 \in 1..Cardinality(S)
  BY <1>1, FS_EmptySet
<1>3. PICK i \in S : Rank(S, i) = 1
  BY <1>2, RankOfKept
<1>4. ASSUME NEW j \in S PROVE i <= j
  <2>1. i \in 0..n /\ j \in 0..n /\ i \in Nat /\ j \in Nat
    BY DEF Positions
  <2>2. j < i => Rank(S, j) < Rank(S, i)
    BY <2>1, RankGrows
  <2>3. Rank(S, j) \in 1..Cardinality(S)
    BY RankOfKept
  <2> QED
    BY <1>1, <1>3, <2>1, <2>2, <2>3
<1>5. Min(S) \in S
  BY <1>4 DEF Min
<1> QED
  BY <1>5

\* A cut that is made is safe.
LEMMA SplitIsSafe ==
  ASSUME NEW ms \in Seq(Text), FindCompactionSplit(ms) > 0
  PROVE  /\ IsSafeSplit(ms, FindCompactionSplit(ms))
         /\ FindCompactionSplit(ms) \in Nat /\ FindCompactionSplit(ms) < Len(ms)
<1> DEFINE desired == Len(ms) - KeepRecent
           safe == {s \in 1..Len(ms) : IsSafeSplit(ms, s)}
           enough == {s \in safe : s <= desired}
           users == {s \in enough : IsUser(ms[s + 1]) /\ s + KeepRecent >= desired}
<1>1. Len(ms) \in Nat
  BY LenProperties
<1>2. Positions(Len(ms), safe) /\ Positions(Len(ms), enough) /\ Positions(Len(ms), users)
  BY <1>1 DEF Positions
<1>3. /\ safe # {} => Min(safe) \in safe
      /\ enough # {} => Max(enough) \in enough
      /\ users # {} => Max(users) \in users
  <2> HIDE DEF safe, enough, users
  <2> QED
    BY <1>1, <1>2, MaxFacts, MinFacts
<1>4. /\ users \subseteq safe /\ enough \subseteq safe
      /\ \A s \in safe : IsSafeSplit(ms, s) /\ s \in Nat /\ s < Len(ms)
  BY <1>1 DEF IsSafeSplit
<1>5. FindCompactionSplit(ms) =
        CASE Len(ms) <= KeepRecent \/ safe = {} -> 0
          [] users # {} -> Max(users)
          [] users = {} /\ enough # {} -> Max(enough)
          [] OTHER -> Min(safe)
  BY DEF FindCompactionSplit
<1> HIDE DEF safe, enough, users
<1>6. CASE Len(ms) <= KeepRecent \/ safe = {}
  <2>1. FindCompactionSplit(ms) = 0 \/ FindCompactionSplit(ms) \in safe
    BY <1>3, <1>4, <1>5, <1>6
  <2> QED
    BY <1>4, <2>1
<1>7. CASE ~(Len(ms) <= KeepRecent \/ safe = {})
  <2>1. FindCompactionSplit(ms) \in safe
    BY <1>3, <1>4, <1>5, <1>7
  <2> QED
    BY <1>4, <2>1
<1> QED
  BY <1>6, <1>7

-----------------------------------------------------------------------------
(* Lists put together. *)

LEMMA ConcatPlaces ==
  ASSUME NEW s \in Seq(Text), NEW t \in Seq(Text)
  PROVE  /\ s \o t \in Seq(Text) /\ Len(s) \in Nat /\ Len(t) \in Nat
         /\ Len(s \o t) = Len(s) + Len(t)
         /\ DOMAIN s = 1..Len(s) /\ DOMAIN t = 1..Len(t) /\ DOMAIN (s \o t) = 1..(Len(s) + Len(t))
         /\ \A i \in 1..Len(s) : (s \o t)[i] = s[i]
         /\ \A i \in 1..Len(t) : (s \o t)[Len(s) + i] = t[i]
<1>1. /\ s \o t \in Seq(Text) /\ Len(s) \in Nat /\ Len(t) \in Nat
      /\ Len(s \o t) = Len(s) + Len(t)
      /\ DOMAIN s = 1..Len(s) /\ DOMAIN t = 1..Len(t)
  BY ConcatProperties, LenProperties
<1>2. DOMAIN (s \o t) = 1..(Len(s) + Len(t))
  BY <1>1, LenProperties
<1>3. ASSUME NEW i \in 1..Len(s) PROVE (s \o t)[i] = s[i]
  BY <1>1, ConcatProperties
<1>4. ASSUME NEW i \in 1..Len(t) PROVE (s \o t)[Len(s) + i] = t[i]
  <2>1. Len(s) + i \in 1..(Len(s) + Len(t)) /\ ~(Len(s) + i <= Len(s)) /\ Len(s) + i - Len(s) = i
    BY <1>1
  <2> QED
    BY <2>1, ConcatProperties
<1> QED
  BY <1>1, <1>2, <1>3, <1>4

LEMMA AnsweredConcat ==
  ASSUME NEW s \in Seq(Text), NEW t \in Seq(Text), Answered(s), Answered(t)
  PROVE  Answered(s \o t)
<1> DEFINE u == s \o t
<1>1. /\ Len(s) \in Nat /\ Len(t) \in Nat /\ Len(u) = Len(s) + Len(t)
      /\ DOMAIN s = 1..Len(s) /\ DOMAIN t = 1..Len(t) /\ DOMAIN u = 1..(Len(s) + Len(t))
      /\ u \in Seq(Text)
      /\ \A i \in 1..Len(s) : u[i] = s[i]
      /\ \A i \in 1..Len(t) : u[Len(s) + i] = t[i]
  BY ConcatPlaces
<1> HIDE DEF u
<1> SUFFICES ASSUME NEW i \in DOMAIN u, HasCalls(u[i]), NEW k \in 1..(u[i].n)
             PROVE  i + k <= Len(u) /\ u[i + k] = Said("tool", u[i].id, k)
  BY DEF Answered, u
<1>2. u[i].n \in Nat /\ k \in Nat /\ i \in Nat
  <2>1. u[i] \in Utterance
    BY <1>1, Kinds, ElementOfSeq DEF HasCalls, IsSaid
  <2> QED
    BY <1>1, <2>1, Kinds
<1>3. CASE i <= Len(s)
  <2>1. u[i] = s[i] /\ i \in DOMAIN s
    BY <1>1, <1>3
  <2>2. i + k <= Len(s) /\ s[i + k] = Said("tool", s[i].id, k)
    BY <2>1 DEF Answered
  <2>3. i + k \in 1..Len(s)
    BY <1>1, <1>2, <2>2
  <2> QED
    BY <1>1, <1>2, <2>1, <2>2, <2>3
<1>4. CASE i > Len(s)
  <2> DEFINE j == i - Len(s)
  <2>1. j \in 1..Len(t) /\ i = Len(s) + j
    BY <1>1, <1>4
  <2>2. u[i] = t[j]
    BY <1>1, <2>1
  <2> HIDE DEF j
  <2>3. j + k <= Len(t) /\ t[j + k] = Said("tool", t[j].id, k)
    BY <1>1, <2>1, <2>2 DEF Answered
  <2>4. j + k \in 1..Len(t) /\ Len(s) + (j + k) = i + k
    BY <1>1, <1>2, <2>1, <2>3
  <2>5. u[i + k] = t[j + k]
    BY <1>1, <2>4
  <2> QED
    BY <1>1, <1>2, <2>1, <2>2, <2>3, <2>4, <2>5
<1> QED
  BY <1>1, <1>2, <1>3, <1>4

LEMMA NoOrphansConcat ==
  ASSUME NEW s \in Seq(Text), NEW t \in Seq(Text), NoOrphans(s), NoOrphans(t)
  PROVE  NoOrphans(s \o t)
<1> DEFINE u == s \o t
<1>1. /\ Len(s) \in Nat /\ Len(t) \in Nat /\ Len(u) = Len(s) + Len(t)
      /\ DOMAIN s = 1..Len(s) /\ DOMAIN t = 1..Len(t) /\ DOMAIN u = 1..(Len(s) + Len(t))
      /\ u \in Seq(Text)
      /\ \A i \in 1..Len(s) : u[i] = s[i]
      /\ \A i \in 1..Len(t) : u[Len(s) + i] = t[i]
  BY ConcatPlaces
<1> HIDE DEF u
<1> SUFFICES ASSUME NEW i \in DOMAIN u, u[i].kind = "tool"
             PROVE  /\ i > u[i].n
                    /\ u[i - u[i].n].kind = "assistant" /\ u[i - u[i].n].id = u[i].id
  BY DEF NoOrphans, u
<1>2. u[i].n \in Nat /\ i \in Nat
  <2>1. u[i] \in Utterance
    BY <1>1, Kinds, ElementOfSeq DEF IsSaid
  <2> QED
    BY <1>1, <2>1, Kinds
<1>3. CASE i <= Len(s)
  <2>1. u[i] = s[i] /\ i \in DOMAIN s
    BY <1>1, <1>3
  <2>2. /\ i > s[i].n /\ s[i - s[i].n].kind = "assistant" /\ s[i - s[i].n].id = s[i].id
    BY <2>1 DEF NoOrphans
  <2>3. i - s[i].n \in 1..Len(s)
    BY <1>1, <1>2, <1>3, <2>1, <2>2
  <2> QED
    BY <1>1, <1>2, <2>1, <2>2, <2>3
<1>4. CASE i > Len(s)
  <2> DEFINE j == i - Len(s)
  <2>1. j \in 1..Len(t) /\ i = Len(s) + j
    BY <1>1, <1>4
  <2>2. u[i] = t[j]
    BY <1>1, <2>1
  <2> HIDE DEF j
  <2>3. j > t[j].n /\ t[j - t[j].n].kind = "assistant" /\ t[j - t[j].n].id = t[j].id
    BY <1>1, <2>1, <2>2 DEF NoOrphans
  <2>4. j - t[j].n \in 1..Len(t) /\ Len(s) + (j - t[j].n) = i - u[i].n /\ i > u[i].n
    BY <1>1, <1>2, <2>1, <2>2, <2>3
  <2>5. u[i - u[i].n] = t[j - t[j].n]
    BY <1>1, <2>4
  <2> QED
    BY <2>2, <2>3, <2>4, <2>5
<1> QED
  BY <1>1, <1>2, <1>3, <1>4

LEMMA EmptyList ==
  /\ <<>> \in Seq(Text) /\ Answered(<<>>) /\ NoOrphans(<<>>) /\ Verbatim(<<>>) = {}
  /\ Len(<<>>) = 0 /\ DOMAIN <<>> = {}
<1>1. <<>> \in Seq(Text) /\ Len(<<>>) = 0 /\ DOMAIN <<>> = 1..0
  BY EmptySeq, LenProperties
<1>2. DOMAIN <<>> = {}
  BY <1>1
<1> QED
  BY <1>1, <1>2 DEF Answered, NoOrphans, Verbatim

LEMMA OneMessage ==
  ASSUME NEW e \in Text, e.kind \notin {"assistant", "tool"}
  PROVE  /\ <<e>> \in Seq(Text) /\ Len(<<e>>) = 1 /\ <<e>>[1] = e
         /\ Answered(<<e>>) /\ NoOrphans(<<e>>)
         /\ Verbatim(<<e>>) \subseteq {e} /\ (~IsSaid(e) => Verbatim(<<e>>) = {})
<1>1. /\ <<e>> \in Seq(Text) /\ Len(<<e>>) = 1 /\ DOMAIN <<e>> = 1..1 /\ <<e>>[1] = e
  <2>1. <<e>> = Append(<<>>, e)
    OBVIOUS
  <2>2. <<e>> \in Seq(Text) /\ Len(<<e>>) = 1
    BY <2>1, EmptyList, AppendProperties
  <2> QED
    BY <2>2, LenProperties
<1>2. \A i \in DOMAIN <<e>> : <<e>>[i] = e
  BY <1>1
<1> DEFINE s == <<e>>
<1> HIDE DEF s
<1>3. Answered(s) /\ NoOrphans(s) /\ Verbatim(s) \subseteq {e} /\ (~IsSaid(e) => Verbatim(s) = {})
  BY <1>2 DEF s, Answered, NoOrphans, Verbatim, HasCalls
<1> QED
  BY <1>1, <1>3 DEF s

LEMMA Opening ==
  ASSUME NEW of \in SUBSET Message
  PROVE  LET s == <<System, Summary(of), Ack>>
         IN  /\ s \in Seq(Text) /\ Len(s) = 3 /\ Answered(s) /\ NoOrphans(s) /\ Verbatim(s) = {}
             /\ \A i \in 1..3 : ~IsSaid(s[i])
<1> DEFINE s == <<System, Summary(of), Ack>>
<1>1. /\ System \in Text /\ Summary(of) \in Text /\ Ack \in Text
      /\ System.kind = "system" /\ Summary(of).kind = "summary" /\ Ack.kind = "ack"
  BY NoteFacts DEF System, Ack
<1>2. /\ s = Append(Append(<<System>>, Summary(of)), Ack)
      /\ <<System>> = Append(<<>>, System)
  OBVIOUS
<1>3. s \in Seq(Text) /\ Len(s) = 3
  <2>1. <<System>> \in Seq(Text) /\ Len(<<System>>) = 1
    BY <1>1, OneMessage
  <2>2. /\ Append(<<System>>, Summary(of)) \in Seq(Text)
        /\ Len(Append(<<System>>, Summary(of))) = 2
    BY <1>1, <2>1, AppendProperties
  <2>3. /\ Append(Append(<<System>>, Summary(of)), Ack) \in Seq(Text)
        /\ Len(Append(Append(<<System>>, Summary(of)), Ack)) = 3
    BY <1>1, <2>2, AppendProperties
  <2> QED
    BY <1>2, <2>3
<1>4. s[1] = System /\ s[2] = Summary(of) /\ s[3] = Ack
  OBVIOUS
<1> HIDE DEF s
<1>5. DOMAIN s = 1..3 /\ \A i \in 1..3 : i = 1 \/ i = 2 \/ i = 3
  BY <1>3, LenProperties
<1>6. \A i \in DOMAIN s : s[i].kind \in {"system", "summary", "ack"}
  BY <1>1, <1>4, <1>5
<1>7. Answered(s) /\ NoOrphans(s) /\ Verbatim(s) = {} /\ \A i \in DOMAIN s : ~IsSaid(s[i])
  BY <1>6 DEF Answered, NoOrphans, Verbatim, HasCalls, IsSaid
<1> QED
  BY <1>3, <1>5, <1>7 DEF s

\* What a reply adds to the list.
Block(id, n) == <<Said("assistant", id, n)>> \o [k \in 1..n |-> Said("tool", id, k)]

LEMMA BlockFacts ==
  ASSUME NEW id \in 1..MaxSaid, NEW n \in 0..MaxCalls
  PROVE  /\ Block(id, n) \in Seq(Text) /\ Len(Block(id, n)) = n + 1
         /\ Block(id, n)[1] = Said("assistant", id, n)
         /\ \A k \in 1..n : Block(id, n)[1 + k] = Said("tool", id, k)
<1> DEFINE one == <<Said("assistant", id, n)>>
           res == [k \in 1..n |-> Said("tool", id, k)]
<1>1. n \in Nat /\ n \in 0..MaxCalls /\ 1 \in Nat
  OBVIOUS
<1>2. Said("assistant", id, n) \in Text
  <2>1. Said("assistant", id, n) \in Utterance
    BY NoteFacts
  <2> QED
    BY <2>1, Kinds DEF Text
<1>3. \A k \in 1..n : Said("tool", id, k) \in Text
  <2> SUFFICES ASSUME NEW k \in 1..n PROVE Said("tool", id, k) \in Text
    OBVIOUS
  <2>1. k \in 0..MaxCalls
    BY <1>1
  <2>2. Said("tool", id, k) \in Utterance
    BY <2>1, NoteFacts
  <2> QED
    BY <2>2, Kinds DEF Text
<1>4. one \in Seq(Text) /\ Len(one) = 1 /\ one[1] = Said("assistant", id, n)
  <2>1. one = Append(<<>>, Said("assistant", id, n))
    OBVIOUS
  <2> QED
    BY <1>2, <2>1, EmptyList, AppendProperties
<1>5. res \in Seq(Text) /\ Len(res) = n /\ \A k \in 1..n : res[k] = Said("tool", id, k)
  BY <1>1, <1>3, IsASeq
<1>6. Block(id, n) = one \o res
  BY DEF Block
<1> HIDE DEF one, res
<1>7. /\ one \o res \in Seq(Text) /\ Len(one \o res) = 1 + n
      /\ \A i \in 1..1 : (one \o res)[i] = one[i]
      /\ \A i \in 1..n : (one \o res)[1 + i] = res[i]
  <2>1. /\ one \o res \in Seq(Text) /\ Len(one \o res) = Len(one) + Len(res)
        /\ \A i \in 1..Len(one) : (one \o res)[i] = one[i]
        /\ \A i \in 1..Len(res) : (one \o res)[Len(one) + i] = res[i]
    BY <1>4, <1>5, ConcatPlaces
  <2> QED
    BY <1>4, <1>5, <2>1
<1>8. 1 \in 1..1
  OBVIOUS
<1> QED
  BY <1>1, <1>4, <1>5, <1>6, <1>7, <1>8

LEMMA BlockIsWhole ==
  ASSUME NEW id \in 1..MaxSaid, NEW n \in 0..MaxCalls
  PROVE  LET b == Block(id, n)
         IN  /\ Answered(b) /\ NoOrphans(b) /\ Ordered(b, DOMAIN b)
             /\ Verbatim(b) \subseteq Utterance
             /\ \A i \in DOMAIN b : b[i].id = id /\ IsPersisted(b[i])
             /\ \A m \in Verbatim(b) : m.id = id
             /\ \A m \in Verbatim(b) : m.kind = "assistant" => m.n = n
             /\ \A m \in Verbatim(b) : m.kind = "tool" => m.n \in 1..n
<1> DEFINE b == Block(id, n)
<1>1. /\ b \in Seq(Text) /\ Len(b) = n + 1 /\ n \in Nat /\ DOMAIN b = 1..(n + 1)
      /\ b[1] = Said("assistant", id, n)
      /\ \A k \in 1..n : b[1 + k] = Said("tool", id, k)
  <2>1. b \in Seq(Text) /\ Len(b) = n + 1
    BY BlockFacts
  <2> QED
    BY <2>1, BlockFacts, LenProperties
<1>2. /\ b[1].kind = "assistant" /\ b[1].id = id /\ b[1].n = n
      /\ \A k \in 1..n : b[1 + k].kind = "tool" /\ b[1 + k].id = id /\ b[1 + k].n = k
  <2>1. b[1].kind = "assistant" /\ b[1].id = id /\ b[1].n = n
    BY <1>1, NoteFacts
  <2>2. ASSUME NEW k \in 1..n
        PROVE  b[1 + k].kind = "tool" /\ b[1 + k].id = id /\ b[1 + k].n = k
    <3>1. k \in 0..MaxCalls
      BY <1>1
    <3> QED
      BY <1>1, <3>1, NoteFacts
  <2> QED
    BY <2>1, <2>2
<1> HIDE DEF b
<1>3. \A i \in DOMAIN b : i = 1 \/ (i - 1 \in 1..n /\ i = 1 + (i - 1))
  BY <1>1
<1>4. \A i \in DOMAIN b : i # 1 => b[i].kind = "tool" /\ b[i].id = id /\ b[i].n = i - 1
  BY <1>2, <1>3
<1>5. Answered(b)
  <2> SUFFICES ASSUME NEW i \in DOMAIN b, HasCalls(b[i]), NEW k \in 1..b[i].n
               PROVE  i + k <= Len(b) /\ b[i + k] = Said("tool", b[i].id, k)
    BY DEF Answered
  <2>1. i = 1
    BY <1>4 DEF HasCalls
  <2> QED
    BY <1>1, <1>2, <2>1
<1>6. NoOrphans(b)
  <2> SUFFICES ASSUME NEW i \in DOMAIN b, b[i].kind = "tool"
               PROVE  /\ i > b[i].n
                      /\ b[i - b[i].n].kind = "assistant" /\ b[i - b[i].n].id = b[i].id
    BY DEF NoOrphans
  <2>1. i # 1
    BY <1>2
  <2>2. b[i].n = i - 1 /\ i \in Nat /\ i - b[i].n = 1 /\ i > b[i].n
    BY <1>1, <1>4, <2>1
  <2> QED
    BY <1>2, <1>4, <2>1, <2>2
<1>7. Ordered(b, DOMAIN b)
  <2> SUFFICES ASSUME NEW i \in DOMAIN b, NEW j \in DOMAIN b, i < j PROVE Earlier(b[i], b[j])
    BY DEF Ordered
  <2>1. j # 1 /\ i \in Nat /\ j \in Nat
    BY <1>1
  <2>2. b[j].kind = "tool" /\ b[j].id = id /\ b[j].n = j - 1
    BY <1>4, <2>1
  <2>3. CASE i = 1
    BY <1>2, <2>2, <2>3 DEF Earlier
  <2>4. CASE i # 1
    <3>1. b[i].kind = "tool" /\ b[i].id = id /\ b[i].n = i - 1
      BY <1>4, <2>4
    <3>2. b[i].n < b[j].n
      BY <2>1, <2>2, <3>1
    <3> QED
      BY <2>2, <3>1, <3>2 DEF Earlier
  <2> QED
    BY <2>3, <2>4
<1>8. \A i \in DOMAIN b : b[i].id = id /\ IsPersisted(b[i])
  BY <1>2, <1>4 DEF IsPersisted
<1>9. \A i \in DOMAIN b : /\ b[i].kind = "assistant" => b[i].n = n
                          /\ b[i].kind = "tool" => b[i].n \in 1..n
  <2> SUFFICES ASSUME NEW i \in DOMAIN b
               PROVE  /\ b[i].kind = "assistant" => b[i].n = n
                      /\ b[i].kind = "tool" => b[i].n \in 1..n
    OBVIOUS
  <2>1. CASE i = 1
    BY <1>2, <2>1
  <2>2. CASE i # 1
    BY <1>3, <1>4, <2>2
  <2> QED
    BY <2>1, <2>2
<1>10. Verbatim(b) \subseteq Utterance
  BY <1>1, VerbatimIsSaid
<1>11. \A m \in Verbatim(b) : \E i \in DOMAIN b : m = b[i]
  BY DEF Verbatim
<1>12. /\ \A m \in Verbatim(b) : m.id = id
       /\ \A m \in Verbatim(b) : m.kind = "assistant" => m.n = n
       /\ \A m \in Verbatim(b) : m.kind = "tool" => m.n \in 1..n
  BY <1>8, <1>9, <1>11
<1> QED
  BY <1>5, <1>6, <1>7, <1>8, <1>10, <1>12 DEF b

-----------------------------------------------------------------------------
(* What is kept by a cut. *)

LEMMA TailPlaces ==
  ASSUME NEW s \in Seq(Text), NEW c \in Nat, c > 0, c < Len(s)
  PROVE  LET t == SubSeq(s, c + 1, Len(s))
         IN  /\ t \in Seq(Text) /\ Len(t) = Len(s) - c /\ Len(s) \in Nat
             /\ DOMAIN t = 1..(Len(s) - c) /\ DOMAIN s = 1..Len(s)
             /\ \A i \in 1..(Len(s) - c) : t[i] = s[c + i]
             /\ Verbatim(t) \subseteq Verbatim(s)
<1> DEFINE t == SubSeq(s, c + 1, Len(s))
<1>1. Len(s) \in Nat /\ DOMAIN s = 1..Len(s)
  BY LenProperties
<1>2. c + 1 \in 1..(Len(s) + 1) /\ Len(s) <= Len(s) /\ c + 1 <= Len(s)
  BY <1>1
<1>3. /\ t \in Seq(Text) /\ Len(t) = Len(s) - (c + 1) + 1 /\ Verbatim(t) \subseteq Verbatim(s)
      /\ \A i \in 1..(Len(s) - (c + 1) + 1) : t[i] = s[(c + 1) + i - 1]
  BY <1>1, <1>2, VerbatimOfSubSeq
<1>4. DOMAIN t = 1..Len(t)
  BY <1>3, LenProperties
<1> HIDE DEF t
<1>5. /\ Len(t) = Len(s) - c
      /\ \A i \in 1..(Len(s) - c) : t[i] = s[c + i]
  BY <1>1, <1>3
<1> QED
  BY <1>1, <1>3, <1>4, <1>5 DEF t

LEMMA TailIsWhole ==
  ASSUME NEW s \in Seq(Text), NEW c \in Nat, IsSafeSplit(s, c), Answered(s)
  PROVE  LET t == SubSeq(s, c + 1, Len(s))
         IN  /\ Answered(t)
             /\ Matched(Verbatim(s)) /\ NoOrphans(s) => NoOrphans(t)
<1> DEFINE t == SubSeq(s, c + 1, Len(s))
<1>1. c > 0 /\ c < Len(s) /\ s[c + 1].kind # "tool" /\ ~HasCalls(s[c])
  BY DEF IsSafeSplit
<1>2. /\ t \in Seq(Text) /\ Len(t) = Len(s) - c /\ Len(s) \in Nat
      /\ DOMAIN t = 1..(Len(s) - c) /\ DOMAIN s = 1..Len(s)
      /\ \A i \in 1..(Len(s) - c) : t[i] = s[c + i]
  BY <1>1, TailPlaces
<1> HIDE DEF t
<1>3. Answered(t)
  <2> SUFFICES ASSUME NEW i \in DOMAIN t, HasCalls(t[i]), NEW k \in 1..(t[i].n)
               PROVE  i + k <= Len(t) /\ t[i + k] = Said("tool", t[i].id, k)
    BY DEF Answered
  <2>1. t[i] = s[c + i] /\ c + i \in DOMAIN s
    BY <1>2
  <2>2. (c + i) + k <= Len(s) /\ s[(c + i) + k] = Said("tool", s[c + i].id, k)
    BY <2>1 DEF Answered
  <2>3. t[i].n \in Nat
    <3>1. t[i] \in Utterance
      BY <1>2, Kinds, ElementOfSeq DEF HasCalls, IsSaid
    <3> QED
      BY <3>1, Kinds
  <2>4. i + k \in 1..(Len(s) - c) /\ c + (i + k) = (c + i) + k
    BY <1>2, <2>2, <2>3
  <2>5. t[i + k] = s[(c + i) + k]
    BY <1>2, <2>4
  <2> QED
    BY <1>2, <2>1, <2>2, <2>4, <2>5
<1>4. ASSUME Matched(Verbatim(s)), NoOrphans(s) PROVE NoOrphans(t)
  <2> SUFFICES ASSUME NEW i \in DOMAIN t, t[i].kind = "tool"
               PROVE  /\ i > t[i].n
                      /\ t[i - t[i].n].kind = "assistant" /\ t[i - t[i].n].id = t[i].id
    BY DEF NoOrphans
  <2> DEFINE m == t[i].n
             a == (c + i) - m
  <2>1. t[i] = s[c + i] /\ c + i \in DOMAIN s /\ i \in Nat
    BY <1>2
  <2>2. /\ m \in Nat \ {0} /\ a \in DOMAIN s
        /\ s[a].kind = "assistant" /\ s[a].id = t[i].id
        /\ \A k \in 1..m : a + k \in DOMAIN s /\ s[a + k].kind = "tool"
    BY <1>4, <2>1, BlockOfResult
  <2>0. a + m = c + i /\ a \in Nat /\ m \in Nat
    BY <1>2, <2>1, <2>2
  <2> HIDE DEF a, m
  <2>3. HasCalls(s[a])
    <3>1. s[a] \in Utterance /\ t[i] \in Utterance
      BY <1>2, <2>2, Kinds, ElementOfSeq DEF IsSaid
    <3>2. s[a] \in Verbatim(s) /\ t[i] \in Verbatim(s)
      BY <2>1, <2>2, <3>1, Kinds DEF Verbatim
    <3>3. m \in 1..s[a].n /\ s[a].n \in Nat
      <4>1. t[i].n \in 1..s[a].n
        BY <1>4, <2>2, <3>2 DEF Matched
      <4> QED
        BY <3>1, <4>1, Kinds DEF m
    <3> QED
      BY <2>2, <3>3 DEF HasCalls
  <2>4. a > c
    <3>1. a # c
      BY <1>1, <2>3
    <3>2. ~(a < c)
      <4>1. SUFFICES ASSUME a < c PROVE FALSE
        OBVIOUS
      <4>2. (c + 1) - a \in 1..m /\ a + ((c + 1) - a) = c + 1
        BY <1>2, <2>0, <2>1, <4>1
      <4>3. s[c + 1].kind = "tool"
        BY <2>2, <4>2
      <4> QED
        BY <1>1, <4>3
    <3> QED
      BY <1>2, <2>2, <3>1, <3>2
  <2>5. i > m /\ i - m \in 1..(Len(s) - c) /\ c + (i - m) = a
    BY <1>2, <2>0, <2>1, <2>2, <2>4
  <2>6. t[i - m] = s[a]
    BY <1>2, <2>5
  <2> QED
    BY <2>2, <2>5, <2>6 DEF m
<1> QED
  BY <1>3, <1>4 DEF t

-----------------------------------------------------------------------------
(* The list of a new process. *)

LEMMA SaidIsUtterance ==
  ASSUME NEW s \in Seq(Text), NEW i \in DOMAIN s, IsSaid(s[i])
  PROVE  s[i] \in Utterance /\ s[i] \in Verbatim(s) /\ i \in SaidAt(s) /\ i \in Nat
<1>1. DOMAIN s = 1..Len(s) /\ Len(s) \in Nat
  BY LenProperties
<1>2. s[i] \in Text
  BY <1>1, ElementOfSeq
<1> QED
  BY <1>1, <1>2, Kinds DEF Verbatim, SaidAt

LEMMA WhoSaid ==
  \A m \in Utterance : m = Said(m.kind, m.id, m.n)
BY DEF Utterance, Said

LEMMA IntervalSize ==
  ASSUME NEW a \in Nat, NEW b \in Nat
  PROVE  /\ IsFiniteSet(1..b) /\ Cardinality(1..b) = b
         /\ a < b => Cardinality((a + 1)..b) = b - a
<1>1. IsFiniteSet(1..b) /\ Cardinality(1..b) = b
  BY FS_Interval
<1>2. Cardinality((a + 1)..b) = IF a + 1 > b THEN 0 ELSE b - (a + 1) + 1
  BY FS_Interval
<1> QED
  BY <1>1, <1>2

\* What is kept of an ordered list is ordered.
LEMMA OrderOfKept ==
  ASSUME NEW T, NEW s \in Seq(T), NEW S \in SUBSET (DOMAIN s), Ordered(s, SaidAt(s))
  PROVE  Ordered(Kept(s, S), SaidAt(Kept(s, S)))
<1> DEFINE t == Kept(s, S)
<1>1. /\ DOMAIN t = 1..Cardinality(S)
      /\ \A k \in DOMAIN t : Place(S, k) \in S /\ t[k] = s[Place(S, k)]
      /\ \A k, l \in 1..Cardinality(S) : k < l => Place(S, k) < Place(S, l)
  BY PlaceInList, KeptFacts, PlaceFacts
<1> HIDE DEF t
<1>2. \A k \in SaidAt(t) : k \in DOMAIN t /\ Place(S, k) \in SaidAt(s)
  BY <1>1 DEF SaidAt
<1>3. Ordered(t, SaidAt(t))
  BY <1>1, <1>2 DEF Ordered
<1> QED
  BY <1>3 DEF t

\* An assistant whose calls have as many answers as it has calls, in the order
\* they were said, is followed by these answers and nothing else.
LEMMA AnswersFollow ==
  ASSUME NEW s \in Seq(Text), Ordered(s, SaidAt(s)), Matched(Verbatim(s)),
         NEW i \in DOMAIN s, HasCalls(s[i]), ~Unanswered(s, i)
  PROVE  \A k \in 1..s[i].n : i + k \in Run(s, i) /\ s[i + k] = Said("tool", s[i].id, k)
<1> DEFINE n == s[i].n
           id == s[i].id
           J == {j \in Run(s, i) : s[j].id = s[i].id}
           f == [j \in J |-> s[j].n]
<1>1. DOMAIN s = 1..Len(s) /\ Len(s) \in Nat /\ i \in Nat
  BY LenProperties
<1>2. /\ IsSaid(s[i]) /\ s[i].kind = "assistant" /\ s[i] \in Utterance /\ s[i] \in Verbatim(s)
      /\ n \in Nat /\ id \in Nat /\ i \in SaidAt(s)
  <2>1. IsSaid(s[i]) /\ s[i].kind = "assistant"
    BY DEF HasCalls, IsSaid
  <2> QED
    BY <2>1, SaidIsUtterance, Kinds
<1>3. \A j \in Run(s, i) : /\ j \in DOMAIN s /\ j \in Nat /\ i < j
                           /\ s[j].kind = "tool"
                           /\ \A x \in (i + 1)..j : x \in Run(s, i)
  BY <1>1 DEF Run
<1>4. \A j \in Run(s, i) : s[j] \in Utterance /\ s[j] \in Verbatim(s) /\ j \in SaidAt(s)
  <2>1. \A j \in Run(s, i) : IsSaid(s[j])
    BY <1>3 DEF IsSaid
  <2> QED
    BY <1>3, <2>1, SaidIsUtterance
<1>5. \A j \in J : j \in Run(s, i) /\ s[j].id = id
  OBVIOUS
<1>6. \A j \in J : s[j].n \in 1..n
  BY <1>2, <1>3, <1>4, <1>5 DEF Matched
<1>7. \A x, y \in Run(s, i) : x < y => Earlier(s[x], s[y])
  BY <1>4 DEF Ordered
<1>8. \A x, y \in J : x < y => s[x].n < s[y].n
  <2> SUFFICES ASSUME NEW x \in J, NEW y \in J, x < y PROVE s[x].n < s[y].n
    OBVIOUS
  <2>1. Earlier(s[x], s[y]) /\ s[x].id = id /\ s[y].id = id /\ s[x].kind = "tool"
    BY <1>3, <1>5, <1>7
  <2> QED
    BY <1>2, <2>1 DEF Earlier
<1>9. ~(Cardinality(J) < n)
  BY DEF Unanswered
<1>10. IsFiniteSet(1..n) /\ Cardinality(1..n) = n
  BY <1>2, IntervalSize
<1> HIDE DEF J, n, id
<1>11. f \in Injection(J, 1..n)
  <2>1. \A x, y \in J : s[x].n = s[y].n => x = y
    <3> SUFFICES ASSUME NEW x \in J, NEW y \in J, s[x].n = s[y].n, x # y PROVE FALSE
      OBVIOUS
    <3>1. x \in Nat /\ y \in Nat /\ s[x].n \in 1..n /\ s[y].n \in 1..n
      BY <1>3, <1>5, <1>6
    <3>2. x < y \/ y < x
      BY <3>1
    <3> QED
      BY <1>8, <3>1, <3>2
  <2> QED
    BY <1>6, <2>1 DEF Injection, IsInjective
<1>12. f \in Surjection(J, 1..n)
  <2> HIDE DEF f
  <2>1. /\ IsFiniteSet(J) /\ Cardinality(J) <= n
        /\ Cardinality(J) = n => f \in Surjection(J, 1..n)
    BY <1>10, <1>11, FS_Injection
  <2>2. Cardinality(J) \in Nat
    BY <2>1, FS_CardinalityType
  <2> QED
    BY <1>2, <1>9, <2>1, <2>2
<1>13. \A k \in 1..n : \E j \in J : s[j].n = k
  BY <1>12 DEF Surjection
<1>14. \A j \in J : \A x \in (i + 1)..j : x \in J
  <2> SUFFICES ASSUME NEW j \in J, NEW x \in (i + 1)..j PROVE s[x].id = id
    BY <1>3, <1>5 DEF J, id
  <2>1. /\ x \in Run(s, i) /\ j \in Run(s, i) /\ s[j].id = id
        /\ x \in Nat /\ j \in Nat /\ i < x /\ x <= j
    BY <1>1, <1>3, <1>5
  <2>2. Earlier(s[i], s[x])
    BY <1>2, <1>4, <2>1 DEF Ordered
  <2>3. x = j \/ Earlier(s[x], s[j])
    BY <1>7, <2>1
  <2>4. s[i].id <= s[x].id
    BY <1>2, <1>4, <2>1, <2>2, EarlierFacts
  <2>5. s[x].id <= s[j].id
    <3>1. CASE x = j
      BY <1>4, <2>1, <3>1, Kinds
    <3>2. CASE Earlier(s[x], s[j])
      BY <1>4, <2>1, <3>2, EarlierFacts
    <3> QED
      BY <2>3, <3>1, <3>2
  <2>6. s[x].id \in Nat
    BY <1>4, <2>1, Kinds
  <2> QED
    BY <1>2, <2>1, <2>4, <2>5, <2>6 DEF id
<1>15. ASSUME NEW j \in J PROVE j = i + s[j].n
  <2> DEFINE k == s[j].n
             B == (i + 1)..j
             g == [x \in B |-> s[x].n]
  <2>1. k \in 1..n /\ k \in Nat /\ j \in Nat /\ i < j
    BY <1>2, <1>3, <1>5, <1>6
  <2>2. \A x \in B : x \in J /\ x \in Nat /\ x <= j
    BY <1>1, <1>14, <2>1
  <2>3. \A x \in B : s[x].n \in 1..k
    <3> SUFFICES ASSUME NEW x \in B PROVE s[x].n \in 1..k
      OBVIOUS
    <3>1. s[x].n \in 1..n
      BY <1>6, <2>2
    <3>2. x = j \/ s[x].n < s[j].n
      BY <1>8, <2>1, <2>2
    <3> QED
      BY <2>1, <3>1, <3>2
  <2>4. \A x, y \in B : s[x].n = s[y].n => x = y
    <3> SUFFICES ASSUME NEW x \in B, NEW y \in B, s[x].n = s[y].n, x # y PROVE FALSE
      OBVIOUS
    <3>1. x < y \/ y < x
      BY <2>2
    <3>2. s[x].n < s[y].n \/ s[y].n < s[x].n
      BY <1>8, <2>2, <3>1
    <3> QED
      BY <2>1, <2>3, <3>2
  <2>5. \A l \in 1..k : \E x \in B : s[x].n = l
    <3> SUFFICES ASSUME NEW l \in 1..k PROVE \E x \in B : s[x].n = l
      OBVIOUS
    <3>1. l \in 1..n
      BY <1>2, <2>1
    <3>2. PICK x \in J : s[x].n = l
      BY <1>13, <3>1
    <3>3. x \in Nat /\ i < x
      BY <1>3, <1>5
    <3>4. ~(j < x)
      <4>1. j < x => k < l
        BY <1>8, <3>2
      <4> QED
        BY <2>1, <4>1
    <3>5. x \in B
      BY <1>1, <2>1, <3>3, <3>4
    <3> QED
      BY <3>2, <3>5
  <2>6. IsFiniteSet(1..k) /\ Cardinality(1..k) = k /\ Cardinality(B) = j - i
    <3>1. k \in Nat /\ i \in Nat /\ j \in Nat /\ i < j
      BY <1>1, <2>1
    <3> HIDE DEF k
    <3> QED
      BY <3>1, IntervalSize
  <2> HIDE DEF B, k
  <2>7. g \in Injection(B, 1..k) /\ g \in Surjection(B, 1..k)
    BY <2>3, <2>4, <2>5 DEF Injection, IsInjective, Surjection
  <2> HIDE DEF g
  <2>8. Cardinality(B) = k
    BY <2>6, <2>7, FS_Injection
  <2> QED
    BY <1>1, <2>1, <2>6, <2>8 DEF k
<1> SUFFICES ASSUME NEW k \in 1..n
             PROVE  i + k \in Run(s, i) /\ s[i + k] = Said("tool", s[i].id, k)
  BY DEF n
<1>16. PICK j \in J : s[j].n = k
  BY <1>13
<1>17. j = i + k /\ j \in Run(s, i)
  BY <1>5, <1>15, <1>16
<1>18. s[j] = Said("tool", id, k)
  BY <1>3, <1>4, <1>5, <1>16, <1>17, WhoSaid
<1> QED
  BY <1>17, <1>18 DEF id

\* What is not said (the opening of the list) stands before what is.
SaidLast(s) == \A i, j \in DOMAIN s : i < j /\ IsSaid(s[i]) => IsSaid(s[j])

\* Every result comes after the assistant message that asked for it.
Owned(s) ==
  \A i \in DOMAIN s : s[i].kind = "tool" =>
    \E j \in DOMAIN s : j < i /\ s[j].kind = "assistant" /\ s[j].id = s[i].id

LEMMA RunFacts ==
  ASSUME NEW s \in Seq(Text), NEW i \in DOMAIN s, NEW x \in Run(s, i)
  PROVE  /\ x \in DOMAIN s /\ x \in Nat /\ i \in Nat /\ i < x /\ s[x].kind = "tool"
         /\ IsSaid(s[x]) /\ ~HasCalls(s[x])
         /\ \A b \in DOMAIN s : x \in Run(s, b) /\ s[i].kind # "tool" /\ s[b].kind # "tool" => b = i
<1>1. DOMAIN s = 1..Len(s) /\ Len(s) \in Nat
  BY LenProperties
<1>2. /\ x \in DOMAIN s /\ x \in Nat /\ i \in Nat /\ i < x /\ s[x].kind = "tool"
      /\ \A y \in (i + 1)..x : s[y].kind = "tool"
  BY <1>1 DEF Run
<1>3. ASSUME NEW b \in DOMAIN s, x \in Run(s, b), s[i].kind # "tool", s[b].kind # "tool"
      PROVE  b = i
  <2>1. b \in Nat /\ b < x /\ \A y \in (b + 1)..x : s[y].kind = "tool"
    BY <1>1, <1>3 DEF Run
  <2>2. ~(i < b)
    <3>1. i < b => b \in (i + 1)..x
      BY <1>2, <2>1
    <3> QED
      BY <1>2, <1>3, <3>1
  <2>3. ~(b < i)
    <3>1. b < i => i \in (b + 1)..x
      BY <1>2, <2>1
    <3> QED
      BY <1>3, <2>1, <3>1
  <2> QED
    BY <1>2, <2>1, <2>2, <2>3
<1> QED
  BY <1>2, <1>3 DEF IsSaid, HasCalls

\* trimDanglingToolCalls drops a call whose answers are not complete, with them.
LEMMA DropIncompleteFacts ==
  ASSUME NEW s \in Seq(Text), Ordered(s, SaidAt(s)), Matched(Verbatim(s))
  PROVE  /\ DropIncomplete(s) \in Seq(Text)
         /\ Verbatim(DropIncomplete(s)) \subseteq Verbatim(s)
         /\ Answered(DropIncomplete(s))
         /\ SaidLast(s) /\ Owned(s) => NoOrphans(DropIncomplete(s))
<1> DEFINE broken == {i \in DOMAIN s : Unanswered(s, i)}
           S == DOMAIN s \ (broken \cup UNION {Run(s, i) : i \in broken})
<1>1. DropIncomplete(s) = Kept(s, S)
  BY DEF DropIncomplete
<1>2. DOMAIN s = 1..Len(s) /\ Len(s) \in Nat
  BY LenProperties
<1>3. S \in SUBSET (DOMAIN s)
  OBVIOUS
<1>4. \A b \in broken : b \in DOMAIN s /\ HasCalls(s[b]) /\ Unanswered(s, b)
  BY DEF Unanswered
<1>5. \A i \in S : i \in DOMAIN s /\ i \notin broken /\ \A b \in broken : i \notin Run(s, b)
  OBVIOUS
<1>6. \A i \in DOMAIN s : i \notin broken /\ (\A b \in broken : i \notin Run(s, b)) => i \in S
  OBVIOUS
<1>7. \A i \in DOMAIN s : ~Unanswered(s, i) => i \notin broken
  OBVIOUS
<1>8. \A i \in S : ~Unanswered(s, i)
  OBVIOUS
<1> HIDE DEF S, broken
<1>9. \A i \in DOMAIN s : s[i].kind # "tool" /\ i \notin broken => i \in S
  BY <1>4, <1>6, RunFacts
<1>10. ASSUME NEW i \in S, HasCalls(s[i]), NEW k \in 1..s[i].n
       PROVE  i + k \in S /\ i + k \in Run(s, i) /\ s[i + k] = Said("tool", s[i].id, k)
  <2>1. i \in DOMAIN s /\ ~Unanswered(s, i) /\ i \notin broken
    BY <1>5, <1>8
  <2>2. i + k \in Run(s, i) /\ s[i + k] = Said("tool", s[i].id, k)
    BY <1>10, <2>1, AnswersFollow
  <2>3. i + k \in DOMAIN s /\ ~HasCalls(s[i + k])
    BY <2>1, <2>2, RunFacts
  <2>4. i + k \notin broken
    BY <1>4, <2>3
  <2>5. ASSUME NEW b \in broken, i + k \in Run(s, b) PROVE FALSE
    <3>1. s[i].kind # "tool" /\ s[b].kind # "tool" /\ b \in DOMAIN s
      BY <1>4, <1>10 DEF HasCalls
    <3>2. b = i
      BY <2>1, <2>2, <2>5, <3>1, RunFacts
    <3> QED
      BY <2>1, <3>2
  <2> QED
    BY <1>6, <2>2, <2>3, <2>4, <2>5
<1>11. Answered(Kept(s, S))
  BY <1>3, <1>10, AnsweredKept
<1>12. ASSUME SaidLast(s), Owned(s) PROVE NoOrphans(Kept(s, S))
  <2>1. ASSUME NEW i \in S, s[i].kind = "tool"
        PROVE  /\ i - s[i].n \in S /\ s[i - s[i].n].kind = "assistant"
               /\ s[i - s[i].n].id = s[i].id
               /\ \A k \in 1..s[i].n : i - s[i].n + k \in S
    <3>1. i \in DOMAIN s
      BY <1>5
    <3>2. PICK j \in DOMAIN s : j < i /\ s[j].kind = "assistant" /\ s[j].id = s[i].id
      BY <1>12, <2>1, <3>1 DEF Owned
    <3>3. /\ IsSaid(s[i]) /\ s[i] \in Utterance /\ s[i] \in Verbatim(s) /\ i \in SaidAt(s)
          /\ IsSaid(s[j]) /\ s[j] \in Utterance /\ s[j] \in Verbatim(s) /\ j \in SaidAt(s)
          /\ i \in Nat /\ j \in Nat
      <4>1. IsSaid(s[i]) /\ IsSaid(s[j])
        BY <2>1, <3>2 DEF IsSaid
      <4> QED
        BY <3>1, <4>1, SaidIsUtterance
    <3>4. ASSUME NEW x \in (j + 1)..i PROVE s[x].kind = "tool"
      <4>1. x \in DOMAIN s /\ j < x /\ x <= i /\ x \in Nat
        BY <1>2, <3>1, <3>2, <3>3
      <4>2. IsSaid(s[x])
        BY <1>12, <3>3, <4>1 DEF SaidLast
      <4>3. s[x] \in Utterance /\ x \in SaidAt(s)
        BY <4>1, <4>2, SaidIsUtterance
      <4>4. Earlier(s[j], s[x])
        BY <3>3, <4>1, <4>3 DEF Ordered
      <4>5. x = i \/ Earlier(s[x], s[i])
        BY <3>3, <4>1, <4>3 DEF Ordered
      <4>6. CASE x = i
        BY <2>1, <4>6
      <4>7. CASE Earlier(s[x], s[i])
        <5>1. s[x].id <= s[i].id /\ s[j].id <= s[x].id
          BY <3>3, <4>3, <4>4, <4>7, EarlierFacts
        <5>2. s[x].id \in Nat /\ s[i].id \in Nat
          BY <3>3, <4>3, Kinds
        <5>3. s[x].id = s[j].id
          BY <3>2, <5>1, <5>2
        <5> QED
          BY <4>4, <5>2, <5>3 DEF Earlier
      <4> QED
        BY <4>5, <4>6, <4>7
    <3>5. i \in Run(s, j)
      BY <1>2, <3>1, <3>2, <3>3, <3>4 DEF Run
    <3>6. j \notin broken
      BY <1>5, <3>5
    <3>7. j \in S
      BY <1>9, <3>2, <3>6
    <3>8. s[i].n \in 1..s[j].n /\ s[i].n \in Nat /\ HasCalls(s[j])
      <4>1. s[i].n \in 1..s[j].n
        BY <2>1, <3>2, <3>3 DEF Matched
      <4>2. s[i].n \in Nat /\ s[j].n \in Nat
        BY <3>3, Kinds
      <4> QED
        BY <3>2, <4>1, <4>2 DEF HasCalls
    <3> DEFINE p == j + s[i].n
    <3>9. p \in S /\ p \in Run(s, j) /\ s[p] = Said("tool", s[j].id, s[i].n)
      BY <1>10, <3>7, <3>8
    <3>10. s[p] = s[i]
      <4>1. s[i] = Said("tool", s[i].id, s[i].n)
        BY <2>1, <3>3, WhoSaid
      <4> QED
        BY <3>2, <3>9, <4>1
    <3>11. p \in DOMAIN s /\ p \in Nat
      BY <3>9, RunFacts
    <3> HIDE DEF p
    <3>12. p \in SaidAt(s)
      BY <3>3, <3>10, <3>11 DEF SaidAt
    <3>13. ~Earlier(s[i], s[i])
      BY <3>3, EarlierFacts
    <3>14. p = i
      <4>1. ~(p < i) /\ ~(i < p)
        BY <3>3, <3>10, <3>12, <3>13 DEF Ordered
      <4> QED
        BY <3>3, <3>11, <4>1
    <3>15. i - s[i].n = j
      BY <3>3, <3>8, <3>14 DEF p
    <3>16. ASSUME NEW k \in 1..s[i].n PROVE j + k \in S
      <4>1. k \in 1..s[j].n
        BY <3>3, <3>8, Kinds
      <4> QED
        BY <1>10, <3>7, <3>8, <4>1
    <3> QED
      BY <3>2, <3>7, <3>15, <3>16
  <2> QED
    BY <1>3, <2>1, OrphansKept
<1>13. Kept(s, S) \in Seq(Text) /\ Verbatim(Kept(s, S)) \subseteq Verbatim(s)
  BY <1>3, KeptFacts, VerbatimOfKept
<1> QED
  BY <1>1, <1>11, <1>12, <1>13

LEMMA SaidLastOfKept ==
  ASSUME NEW s \in Seq(Text), NEW S \in SUBSET (DOMAIN s), SaidLast(s)
  PROVE  SaidLast(Kept(s, S))
<1> DEFINE t == Kept(s, S)
<1>1. /\ DOMAIN t = 1..Cardinality(S)
      /\ \A k \in DOMAIN t : Place(S, k) \in DOMAIN s /\ t[k] = s[Place(S, k)]
      /\ \A k, l \in 1..Cardinality(S) : k < l => Place(S, k) < Place(S, l)
  BY PlaceInList, KeptFacts, PlaceFacts
<1> HIDE DEF t
<1>2. SaidLast(t)
  BY <1>1 DEF SaidLast
<1> QED
  BY <1>2 DEF t

\* A result behind any call has its own call before it.
OwnedAfterCall(s) ==
  \A i, j \in DOMAIN s : j < i /\ HasCalls(s[j]) /\ s[i].kind = "tool" =>
    \E a \in DOMAIN s : a < i /\ s[a].kind = "assistant" /\ s[a].id = s[i].id

LEMMA DropOrphansFacts ==
  ASSUME NEW s \in Seq(Text), Ordered(s, SaidAt(s)), SaidLast(s)
  PROVE  /\ DropOrphans(s) \in Seq(Text) /\ Verbatim(DropOrphans(s)) \subseteq Verbatim(s)
         /\ Ordered(DropOrphans(s), SaidAt(DropOrphans(s))) /\ SaidLast(DropOrphans(s))
         /\ OwnedAfterCall(s) => Owned(DropOrphans(s))
<1> DEFINE S == {i \in DOMAIN s : s[i].kind = "tool" => \E j \in 1..(i - 1) : HasCalls(s[j])}
<1>1. DropOrphans(s) = Kept(s, S)
  BY DEF DropOrphans
<1>2. S \in SUBSET (DOMAIN s) /\ DOMAIN s = 1..Len(s) /\ Len(s) \in Nat
  BY LenProperties
<1>3. \A i \in DOMAIN s : s[i].kind # "tool" => i \in S
  OBVIOUS
<1>4. \A i \in S : s[i].kind = "tool" => \E j \in DOMAIN s : j < i /\ HasCalls(s[j])
  <2> SUFFICES ASSUME NEW i \in S, s[i].kind = "tool"
               PROVE  \E j \in DOMAIN s : j < i /\ HasCalls(s[j])
    OBVIOUS
  <2>1. PICK j \in 1..(i - 1) : HasCalls(s[j])
    OBVIOUS
  <2>2. i \in 1..Len(s)
    BY <1>2
  <2>3. j \in DOMAIN s /\ j < i
    BY <1>2, <2>2
  <2> QED
    BY <2>1, <2>3
<1> HIDE DEF S
<1>5. ASSUME OwnedAfterCall(s) PROVE Owned(Kept(s, S))
  <2> SUFFICES ASSUME NEW k \in DOMAIN Kept(s, S), Kept(s, S)[k].kind = "tool"
               PROVE  \E l \in DOMAIN Kept(s, S) : /\ l < k /\ Kept(s, S)[l].kind = "assistant"
                                                   /\ Kept(s, S)[l].id = Kept(s, S)[k].id
    BY DEF Owned
  <2> DEFINE i == Place(S, k)
  <2>1. i \in S /\ Kept(s, S)[k] = s[i] /\ Rank(S, i) = k /\ i \in DOMAIN s
    BY <1>2, PlaceInList
  <2> HIDE DEF i
  <2>2. PICK j \in DOMAIN s : j < i /\ HasCalls(s[j])
    BY <1>4, <2>1
  <2>3. PICK a \in DOMAIN s : a < i /\ s[a].kind = "assistant" /\ s[a].id = s[i].id
    BY <1>5, <2>1, <2>2 DEF OwnedAfterCall
  <2>4. a \in S
    BY <1>3, <2>3
  <2>5. Rank(S, a) \in DOMAIN Kept(s, S) /\ Kept(s, S)[Rank(S, a)] = s[a]
    BY <1>2, <2>4, PlaceInList
  <2>6. Rank(S, a) < Rank(S, i)
    <3>1. Positions(Len(s), S) /\ a \in 0..Len(s)
      BY <1>2, <2>3, KeptFacts
    <3> QED
      BY <2>1, <2>3, <3>1, RankGrows
  <2> QED
    BY <2>1, <2>3, <2>5, <2>6
<1>6. /\ Kept(s, S) \in Seq(Text) /\ Verbatim(Kept(s, S)) \subseteq Verbatim(s)
      /\ Ordered(Kept(s, S), SaidAt(Kept(s, S))) /\ SaidLast(Kept(s, S))
  BY <1>2, KeptFacts, VerbatimOfKept, OrderOfKept, SaidLastOfKept
<1> QED
  BY <1>1, <1>5, <1>6

LEMMA DropTrailingUsersFacts ==
  ASSUME NEW s \in Seq(Text)
  PROVE  LET t == DropTrailingUsers(s)
         IN  /\ t \in Seq(Text) /\ Verbatim(t) \subseteq Verbatim(s)
             /\ Answered(s) => Answered(t)
             /\ NoOrphans(s) => NoOrphans(t)
<1> DEFINE S == {i \in DOMAIN s : ~IsUser(s[i])}
           m == Max({0} \cup S)
           t == SubSeq(s, 1, m)
<1>1. DOMAIN s = 1..Len(s) /\ Len(s) \in Nat
  BY LenProperties
<1>2. Positions(Len(s), S) /\ \A i \in S : i \in 1..Len(s)
  BY <1>1 DEF Positions
<1>3. \A i \in DOMAIN s : s[i].kind = "tool" => i \in S
  BY DEF IsUser
<1> HIDE DEF S
<1>4. m \in {0} \cup S /\ \A i \in S : i <= m
  <2>1. \E x \in {0} \cup S : \A y \in {0} \cup S : x >= y
    <3>1. CASE S = {}
      BY <3>1
    <3>2. CASE S # {}
      BY <1>1, <1>2, <3>2, MaxFacts
    <3> QED
      BY <3>1, <3>2
  <2>2. m \in {0} \cup S /\ \A y \in {0} \cup S : m >= y
    BY <2>1 DEF Max
  <2> QED
    BY <1>2, <2>2
<1>5. m \in Nat /\ m <= Len(s)
  BY <1>1, <1>2, <1>4
<1> HIDE DEF m
<1>6. /\ t \in Seq(Text) /\ Verbatim(t) \subseteq Verbatim(s) /\ Len(t) = m /\ DOMAIN t = 1..m
      /\ \A i \in 1..m : t[i] = s[i]
  <2>1. 1 \in 1..(Len(s) + 1)
    BY <1>1
  <2>2. /\ t \in Seq(Text) /\ Verbatim(t) \subseteq Verbatim(s)
        /\ Len(t) = IF 1 <= m THEN m - 1 + 1 ELSE 0
        /\ \A i \in 1..(m - 1 + 1) : t[i] = s[1 + i - 1]
    BY <1>1, <1>5, <2>1, VerbatimOfSubSeq
  <2>3. DOMAIN t = 1..Len(t)
    BY <2>2, LenProperties
  <2> HIDE DEF t
  <2> QED
    BY <1>5, <2>2, <2>3
<1> HIDE DEF t
<1>7. ASSUME Answered(s) PROVE Answered(t)
  <2> SUFFICES ASSUME NEW i \in DOMAIN t, HasCalls(t[i]), NEW k \in 1..t[i].n
               PROVE  i + k <= Len(t) /\ t[i + k] = Said("tool", t[i].id, k)
    BY DEF Answered
  <2>1. i \in DOMAIN s /\ t[i] = s[i] /\ i \in Nat
    BY <1>1, <1>5, <1>6
  <2>2. i + k <= Len(s) /\ s[i + k] = Said("tool", s[i].id, k)
    BY <1>7, <2>1 DEF Answered
  <2>3. s[i + k].kind = "tool"
    BY <2>2 DEF Said
  <2>4. s[i].n \in Nat
    <3>1. IsSaid(s[i])
      BY <2>1 DEF HasCalls, IsSaid
    <3> QED
      BY <2>1, <3>1, SaidIsUtterance, Kinds
  <2>5. i + k \in DOMAIN s
    BY <1>1, <2>1, <2>2, <2>4
  <2>6. i + k <= m /\ i + k \in 1..m
    BY <1>1, <1>3, <1>4, <1>5, <2>3, <2>5
  <2> QED
    BY <1>6, <2>1, <2>2, <2>6
<1>8. ASSUME NoOrphans(s) PROVE NoOrphans(t)
  <2> SUFFICES ASSUME NEW i \in DOMAIN t, t[i].kind = "tool"
               PROVE  /\ i > t[i].n
                      /\ t[i - t[i].n].kind = "assistant" /\ t[i - t[i].n].id = t[i].id
    BY DEF NoOrphans
  <2>1. i \in DOMAIN s /\ t[i] = s[i] /\ i \in 1..m
    BY <1>1, <1>5, <1>6
  <2>2. /\ i > s[i].n
        /\ s[i - s[i].n].kind = "assistant" /\ s[i - s[i].n].id = s[i].id
    BY <1>8, <2>1 DEF NoOrphans
  <2>3. s[i].n \in Nat
    <3>1. IsSaid(s[i])
      BY <2>1 DEF IsSaid
    <3> QED
      BY <2>1, <3>1, SaidIsUtterance, Kinds
  <2>4. i - s[i].n \in 1..m
    BY <1>5, <2>1, <2>2, <2>3
  <2> QED
    BY <1>6, <2>1, <2>2, <2>4
<1> QED
  BY <1>6, <1>7, <1>8 DEF DropTrailingUsers, t, m, S

LEMMA NewestFacts ==
  ASSUME log \in Seq(Line)
  PROVE  /\ Covered \in Nat
         /\ ValidCheckpoints # {} => Newest.of \in SUBSET Message
<1>1. DOMAIN log = 1..Len(log) /\ Len(log) \in Nat
  BY LenProperties
<1>2. Positions(Len(log), ValidCheckpoints)
  BY <1>1 DEF Positions, ValidCheckpoints
<1>3. ASSUME ValidCheckpoints # {} PROVE Newest.of \in SUBSET Message /\ Newest.to \in Nat
  <2>1. Max(ValidCheckpoints) \in ValidCheckpoints
    BY <1>1, <1>2, <1>3, MaxFacts
  <2>2. /\ Max(ValidCheckpoints) \in DOMAIN log
        /\ log[Max(ValidCheckpoints)].kind = "checkpoint"
    BY <2>1 DEF ValidCheckpoints, ValidRuntimeCheckpoint
  <2>3. log[Max(ValidCheckpoints)] \in Line
    BY <1>1, <2>2, ElementOfSeq
  <2> QED
    BY <2>2, <2>3, Kinds DEF Newest
<1> QED
  BY <1>3 DEF Covered

LEMMA UncoveredFacts ==
  ASSUME log \in Seq(Line), Ordered(log, SaidAt(log))
  PROVE  /\ Uncovered \in Seq(Text) /\ Verbatim(Uncovered) \subseteq Verbatim(log)
         /\ \A i \in DOMAIN Uncovered : IsSaid(Uncovered[i])
         /\ Ordered(Uncovered, SaidAt(Uncovered))
         /\ LogWhole => OwnedAfterCall(Uncovered)
<1> DEFINE S == {i \in (Covered + 1)..Len(log) : IsSaid(log[i])}
<1>1. Uncovered = Kept(log, S)
  BY DEF Uncovered
<1>2. DOMAIN log = 1..Len(log) /\ Len(log) \in Nat /\ Covered \in Nat
  BY LenProperties, NewestFacts
<1>3. S \in SUBSET (DOMAIN log)
  BY <1>2
<1>4. \A i \in S : i \in DOMAIN log /\ IsSaid(log[i]) /\ i > Covered /\ i \in Nat
  BY <1>2
<1>5. \A i \in DOMAIN log : IsSaid(log[i]) /\ i > Covered => i \in S
  BY <1>2
<1> HIDE DEF S
<1> DEFINE u == Kept(log, S)
<1>6. /\ DOMAIN u = 1..Cardinality(S) /\ Cardinality(S) \in Nat
      /\ \A k \in DOMAIN u :
           Place(S, k) \in S /\ u[k] = log[Place(S, k)] /\ Rank(S, Place(S, k)) = k
      /\ \A i \in S : Rank(S, i) \in DOMAIN u /\ u[Rank(S, i)] = log[i]
      /\ \A k, l \in 1..Cardinality(S) : k < l => Place(S, k) < Place(S, l)
  BY <1>3, PlaceInList, KeptFacts, PlaceFacts
<1>7. Ordered(u, SaidAt(u)) /\ Verbatim(u) \subseteq Verbatim(log)
  BY <1>3, OrderOfKept, VerbatimOfKept
<1>8. \A i, j \in S : i < j => Rank(S, i) < Rank(S, j)
  <2> SUFFICES ASSUME NEW i \in S, NEW j \in S, i < j PROVE Rank(S, i) < Rank(S, j)
    OBVIOUS
  <2>1. Positions(Len(log), S) /\ i \in 0..Len(log)
    BY <1>2, <1>3, KeptFacts
  <2> QED
    BY <2>1, RankGrows
<1>9. u = [k \in 1..Cardinality(S) |-> log[Place(S, k)]]
  BY DEF Kept, Place
<1>10. \A i \in S : log[i] \in Utterance
  BY <1>2, <1>4, Kinds, ElementOfSeq
<1>11. u \in Seq(Text)
  <2>1. \A k \in 1..Cardinality(S) : log[Place(S, k)] \in Text
    BY <1>6, <1>10, Kinds DEF Text
  <2> HIDE DEF u
  <2> QED
    BY <1>6, <1>9, <2>1, IsASeq
<1> HIDE DEF u
<1>12. \A i \in DOMAIN u : IsSaid(u[i])
  BY <1>4, <1>6
<1>13. ASSUME LogWhole PROVE OwnedAfterCall(u)
  <2> SUFFICES ASSUME NEW i \in DOMAIN u, NEW j \in DOMAIN u, j < i, HasCalls(u[j]),
                      u[i].kind = "tool"
               PROVE  \E a \in DOMAIN u : a < i /\ u[a].kind = "assistant" /\ u[a].id = u[i].id
    BY DEF OwnedAfterCall
  <2> DEFINE I == Place(S, i)
             J == Place(S, j)
  <2>1. /\ I \in S /\ u[i] = log[I] /\ Rank(S, I) = i
        /\ J \in S /\ u[j] = log[J] /\ J < I
    BY <1>6
  <2> HIDE DEF I, J
  <2>2. PICK A \in 1..(I - 1) : log[A].kind = "assistant" /\ log[A].id = log[I].id
    BY <1>4, <1>13, <2>1 DEF LogWhole
  <2>3. A \in DOMAIN log /\ A < I /\ A \in Nat /\ I \in Nat /\ J \in Nat /\ J > Covered
    BY <1>2, <1>4, <2>1
  <2>4. /\ A \in SaidAt(log) /\ I \in SaidAt(log) /\ J \in SaidAt(log)
        /\ log[A] \in Utterance /\ log[I] \in Utterance /\ log[J] \in Utterance
        /\ IsSaid(log[A])
    <3>1. IsSaid(log[A])
      BY <2>2 DEF IsSaid
    <3>2. log[A] \in Line
      BY <1>2, <2>3, ElementOfSeq
    <3> QED
      BY <1>4, <1>10, <2>1, <2>3, <3>1, <3>2, Kinds DEF SaidAt
  <2>5. A > Covered
    <3>1. SUFFICES ASSUME A <= Covered PROVE FALSE
      BY <1>2, <2>3
    <3>2. A < J
      BY <1>2, <2>3, <3>1
    <3>3. Earlier(log[A], log[J]) /\ Earlier(log[J], log[I])
      BY <2>1, <2>4, <3>2 DEF Ordered
    <3>4. log[A].id < log[J].id
      <4>1. log[J].kind = "assistant"
        BY <2>1 DEF HasCalls
      <4> QED
        BY <3>3, <4>1 DEF Earlier
    <3>5. log[J].id <= log[I].id
      BY <2>4, <3>3, EarlierFacts
    <3>6. log[A].id \in Nat /\ log[J].id \in Nat /\ log[I].id \in Nat
      BY <2>4, Kinds
    <3> QED
      BY <2>2, <3>4, <3>5, <3>6
  <2>6. A \in S
    BY <1>5, <2>3, <2>4, <2>5
  <2>7. /\ Rank(S, A) \in DOMAIN u /\ u[Rank(S, A)] = log[A] /\ Rank(S, A) < i
    BY <1>6, <1>8, <2>1, <2>3, <2>6
  <2> QED
    BY <2>1, <2>2, <2>7
<1> QED
  BY <1>1, <1>7, <1>11, <1>12, <1>13 DEF u

LEMMA OpenedFacts ==
  ASSUME NEW o \in Seq(Text), NEW u \in Seq(Text), Verbatim(o) = {},
         \A i \in DOMAIN u : IsSaid(u[i]), Ordered(u, SaidAt(u))
  PROVE  LET s == o \o u
         IN  /\ s \in Seq(Text) /\ Verbatim(s) \subseteq Verbatim(u)
             /\ Ordered(s, SaidAt(s)) /\ SaidLast(s)
             /\ OwnedAfterCall(u) => OwnedAfterCall(s)
<1> DEFINE s == o \o u
<1>1. /\ s \in Seq(Text) /\ Len(o) \in Nat /\ Len(u) \in Nat
      /\ DOMAIN o = 1..Len(o) /\ DOMAIN u = 1..Len(u) /\ DOMAIN s = 1..(Len(o) + Len(u))
      /\ \A i \in 1..Len(o) : s[i] = o[i]
      /\ \A i \in 1..Len(u) : s[Len(o) + i] = u[i]
  BY ConcatPlaces
<1>2. Verbatim(s) \subseteq Verbatim(u)
  BY VerbatimOfConcat
<1> HIDE DEF s
<1>3. \A i \in DOMAIN o : ~IsSaid(o[i])
  BY DEF Verbatim
<1>4. ASSUME NEW i \in DOMAIN s, IsSaid(s[i])
      PROVE  /\ i - Len(o) \in DOMAIN u /\ s[i] = u[i - Len(o)] /\ i \in Nat
             /\ i - Len(o) \in SaidAt(u)
  <2>1. i \in 1..(Len(o) + Len(u)) /\ i \notin 1..Len(o)
    BY <1>1, <1>3, <1>4
  <2>2. i - Len(o) \in 1..Len(u) /\ i = Len(o) + (i - Len(o))
    BY <1>1, <2>1
  <2>3. s[i] = u[i - Len(o)]
    BY <1>1, <2>2
  <2> QED
    BY <1>1, <1>4, <2>1, <2>2, <2>3 DEF SaidAt
<1>5. Ordered(s, SaidAt(s))
  <2> SUFFICES ASSUME NEW i \in SaidAt(s), NEW j \in SaidAt(s), i < j PROVE Earlier(s[i], s[j])
    BY DEF Ordered
  <2>1. i \in DOMAIN s /\ j \in DOMAIN s /\ IsSaid(s[i]) /\ IsSaid(s[j])
    BY DEF SaidAt
  <2>2. /\ i - Len(o) \in SaidAt(u) /\ s[i] = u[i - Len(o)] /\ i \in Nat
        /\ j - Len(o) \in SaidAt(u) /\ s[j] = u[j - Len(o)] /\ j \in Nat
    BY <1>4, <2>1
  <2>3. i - Len(o) < j - Len(o)
    BY <1>1, <2>2
  <2> QED
    BY <2>2, <2>3 DEF Ordered
<1>6. SaidLast(s)
  <2> SUFFICES ASSUME NEW i \in DOMAIN s, NEW j \in DOMAIN s, i < j, IsSaid(s[i])
               PROVE  IsSaid(s[j])
    BY DEF SaidLast
  <2>1. i - Len(o) \in 1..Len(u) /\ i \in Nat
    BY <1>1, <1>4
  <2>2. j - Len(o) \in 1..Len(u) /\ j = Len(o) + (j - Len(o))
    BY <1>1, <2>1
  <2>3. s[j] = u[j - Len(o)]
    BY <1>1, <2>2
  <2> QED
    BY <1>1, <2>2, <2>3
<1>7. ASSUME OwnedAfterCall(u) PROVE OwnedAfterCall(s)
  <2> SUFFICES ASSUME NEW i \in DOMAIN s, NEW j \in DOMAIN s, j < i, HasCalls(s[j]),
                      s[i].kind = "tool"
               PROVE  \E a \in DOMAIN s : a < i /\ s[a].kind = "assistant" /\ s[a].id = s[i].id
    BY DEF OwnedAfterCall
  <2>1. IsSaid(s[i]) /\ IsSaid(s[j])
    BY DEF IsSaid, HasCalls
  <2>2. /\ i - Len(o) \in DOMAIN u /\ s[i] = u[i - Len(o)] /\ i \in Nat
        /\ j - Len(o) \in DOMAIN u /\ s[j] = u[j - Len(o)] /\ j \in Nat
    BY <1>4, <2>1
  <2>3. j - Len(o) < i - Len(o)
    BY <1>1, <2>2
  <2>4. PICK b \in DOMAIN u : b < i - Len(o) /\ u[b].kind = "assistant" /\ u[b].id = s[i].id
    BY <1>7, <2>2, <2>3 DEF OwnedAfterCall
  <2>5. Len(o) + b \in DOMAIN s /\ s[Len(o) + b] = u[b] /\ Len(o) + b < i
    BY <1>1, <2>2, <2>4
  <2> QED
    BY <2>4, <2>5
<1> QED
  BY <1>1, <1>2, <1>5, <1>6, <1>7 DEF s

\* The list of a new process is whole, and tells of what is on file only.
LEMMA LoadRuntimeFacts ==
  ASSUME log \in Seq(Line), Ordered(log, SaidAt(log)), Matched(Verbatim(log))
  PROVE  /\ LoadRuntime \in Seq(Text) /\ Verbatim(LoadRuntime) \subseteq Verbatim(log)
         /\ Answered(LoadRuntime)
         /\ LogWhole => NoOrphans(LoadRuntime)
<1> DEFINE o == IF ValidCheckpoints = {} THEN <<System>> ELSE <<System, Summary(Newest.of), Ack>>
           s == o \o Uncovered
           t == DropOrphans(s)
           u == DropIncomplete(t)
<1>1. o \in Seq(Text) /\ Verbatim(o) = {}
  <2>1. CASE ValidCheckpoints = {}
    <3>1. System \in Text /\ System.kind = "system" /\ ~IsSaid(System)
      BY NoteFacts DEF System, IsSaid
    <3>2. <<System>> \in Seq(Text) /\ Verbatim(<<System>>) = {}
      BY <3>1, OneMessage
    <3> QED
      BY <2>1, <3>2
  <2>2. CASE ValidCheckpoints # {}
    <3>1. Newest.of \in SUBSET Message
      BY <2>2, NewestFacts
    <3>2. /\ <<System, Summary(Newest.of), Ack>> \in Seq(Text)
          /\ Verbatim(<<System, Summary(Newest.of), Ack>>) = {}
      BY <3>1, Opening
    <3> QED
      BY <2>2, <3>2
  <2> QED
    BY <2>1, <2>2
<1>2. LoadRuntime = DropTrailingUsers(u)
  BY DEF LoadRuntime, TrimDanglingToolCalls
<1> HIDE DEF o
<1>3. /\ Uncovered \in Seq(Text) /\ Verbatim(Uncovered) \subseteq Verbatim(log)
      /\ \A i \in DOMAIN Uncovered : IsSaid(Uncovered[i])
      /\ Ordered(Uncovered, SaidAt(Uncovered))
      /\ LogWhole => OwnedAfterCall(Uncovered)
  BY UncoveredFacts
<1>4. /\ s \in Seq(Text) /\ Verbatim(s) \subseteq Verbatim(Uncovered)
      /\ Ordered(s, SaidAt(s)) /\ SaidLast(s)
      /\ OwnedAfterCall(Uncovered) => OwnedAfterCall(s)
  BY <1>1, <1>3, OpenedFacts
<1> HIDE DEF s
<1>5. /\ t \in Seq(Text) /\ Verbatim(t) \subseteq Verbatim(s)
      /\ Ordered(t, SaidAt(t)) /\ SaidLast(t)
      /\ OwnedAfterCall(s) => Owned(t)
  BY <1>4, DropOrphansFacts
<1> HIDE DEF t
<1>6. Matched(Verbatim(t))
  BY <1>3, <1>4, <1>5 DEF Matched
<1>7. /\ u \in Seq(Text) /\ Verbatim(u) \subseteq Verbatim(t) /\ Answered(u)
      /\ SaidLast(t) /\ Owned(t) => NoOrphans(u)
  BY <1>5, <1>6, DropIncompleteFacts
<1> HIDE DEF u
<1>8. /\ LoadRuntime \in Seq(Text) /\ Verbatim(LoadRuntime) \subseteq Verbatim(u)
      /\ Answered(u) => Answered(LoadRuntime)
      /\ NoOrphans(u) => NoOrphans(LoadRuntime)
  BY <1>2, <1>7, DropTrailingUsersFacts
<1> QED
  BY <1>3, <1>4, <1>5, <1>7, <1>8

-----------------------------------------------------------------------------
(* What a turn will add to the file. *)

Fresh(ms, b) == {i \in DOMAIN ms : i > b /\ IsPersisted(ms[i])}
Pending(ms, b, l) == Ordered(ms, Fresh(ms, b)) /\ \A i \in Fresh(ms, b) : After(l, ms[i])

\* If what is fresh in t was fresh in s, in the same order, it is still pending.
LEMMA PendingMoves ==
  ASSUME NEW s, NEW b, NEW t, NEW c, NEW l, NEW f, Pending(s, b, l),
         \A i \in Fresh(t, c) : f[i] \in Fresh(s, b) /\ t[i] = s[f[i]],
         \A i, j \in Fresh(t, c) : i < j => f[i] < f[j]
  PROVE  Pending(t, c, l)
BY DEF Pending, Ordered

LEMMA PendingKept ==
  ASSUME NEW s \in Seq(Text), NEW S \in SUBSET (DOMAIN s), NEW b \in Nat, NEW l, Pending(s, b, l)
  PROVE  Pending(Kept(s, S), b, l)
<1> DEFINE t == Kept(s, S)
           f == [k \in DOMAIN t |-> Place(S, k)]
<1>1. /\ DOMAIN t = 1..Cardinality(S)
      /\ \A k \in DOMAIN t : Place(S, k) \in S /\ t[k] = s[Place(S, k)]
      /\ \A k, l1 \in 1..Cardinality(S) : k < l1 => Place(S, k) < Place(S, l1)
      /\ \A k \in 1..Cardinality(S) : k <= Place(S, k)
  BY PlaceInList, KeptFacts, PlaceFacts
<1>2. DOMAIN s = 1..Len(s) /\ Len(s) \in Nat
  BY LenProperties
<1> HIDE DEF t
<1>3. ASSUME NEW i \in Fresh(t, b) PROVE f[i] \in Fresh(s, b) /\ t[i] = s[f[i]]
  <2>1. i \in DOMAIN t /\ i > b /\ IsPersisted(t[i]) /\ i \in Nat
    BY <1>1 DEF Fresh
  <2>2. f[i] = Place(S, i) /\ Place(S, i) \in DOMAIN s /\ t[i] = s[Place(S, i)] /\ i <= Place(S, i)
    BY <1>1, <2>1
  <2>3. Place(S, i) > b
    BY <1>2, <2>1, <2>2
  <2> QED
    BY <2>1, <2>2, <2>3 DEF Fresh
<1>4. \A i, j \in Fresh(t, b) : i < j => f[i] < f[j]
  BY <1>1 DEF Fresh
<1> HIDE DEF f
<1>5. Pending(t, b, l)
  BY <1>3, <1>4, PendingMoves
<1> QED
  BY <1>5 DEF t

LEMMA PendingTail ==
  ASSUME NEW s \in Seq(Text), NEW c \in Nat, c > 0, c < Len(s), NEW b \in Nat, NEW l,
         NEW o \in Seq(Text), Len(o) = 3, Pending(s, b, l)
  PROVE  Pending(o \o SubSeq(s, c + 1, Len(s)), 3 + MonusOf(b, c), l)
<1> DEFINE t == SubSeq(s, c + 1, Len(s))
           u == o \o t
           d == 3 + MonusOf(b, c)
           f == [i \in DOMAIN u |-> i - 3 + c]
<1>1. /\ t \in Seq(Text) /\ Len(t) = Len(s) - c /\ Len(s) \in Nat
      /\ DOMAIN t = 1..(Len(s) - c) /\ DOMAIN s = 1..Len(s)
      /\ \A i \in 1..(Len(s) - c) : t[i] = s[c + i]
  BY TailPlaces
<1> HIDE DEF t
<1>2. /\ DOMAIN u = 1..(3 + (Len(s) - c))
      /\ \A i \in 1..(Len(s) - c) : u[3 + i] = t[i]
  <2>1. DOMAIN u = 1..(Len(o) + Len(t)) /\ \A i \in 1..Len(t) : u[Len(o) + i] = t[i]
    BY <1>1, ConcatPlaces
  <2> QED
    BY <1>1, <2>1
<1> HIDE DEF u
<1>3. d \in Nat /\ d >= 3 /\ (b > c => d = 3 + (b - c))
  BY DEF MonusOf
<1> HIDE DEF d
<1>4. ASSUME NEW i \in Fresh(u, d) PROVE f[i] \in Fresh(s, b) /\ u[i] = s[f[i]]
  <2>1. i \in DOMAIN u /\ i > d /\ IsPersisted(u[i]) /\ i \in Nat
    BY <1>2 DEF Fresh
  <2> DEFINE k == i - 3
  <2>2. k \in 1..(Len(s) - c) /\ i = 3 + k
    BY <1>1, <1>2, <1>3, <2>1
  <2>3. f[i] = c + k /\ u[i] = s[c + k] /\ c + k \in DOMAIN s
    <3>1. f[i] = c + k
      BY <2>1, <2>2
    <3>2. u[3 + k] = s[c + k]
      BY <1>1, <1>2, <2>2
    <3> QED
      BY <1>1, <2>2, <3>1, <3>2
  <2>4. c + k > b
    BY <1>3, <2>1, <2>2
  <2> QED
    BY <2>1, <2>3, <2>4 DEF Fresh
<1>5. \A i, j \in Fresh(u, d) : i < j => f[i] < f[j]
  BY <1>1, <1>2 DEF Fresh
<1> HIDE DEF f
<1>6. Pending(u, d, l)
  BY <1>4, <1>5, PendingMoves
<1> QED
  BY <1>6 DEF u, d, t

LEMMA PendingConcat ==
  ASSUME NEW s \in Seq(Text), NEW t \in Seq(Text), NEW b \in Nat, NEW l, Pending(s, b, l),
         \A i \in DOMAIN t : ~IsPersisted(t[i])
  PROVE  Pending(s \o t, b, l)
<1> DEFINE u == s \o t
<1>1. /\ Len(s) \in Nat /\ Len(t) \in Nat
      /\ DOMAIN s = 1..Len(s) /\ DOMAIN t = 1..Len(t) /\ DOMAIN u = 1..(Len(s) + Len(t))
      /\ \A i \in 1..Len(s) : u[i] = s[i]
      /\ \A i \in 1..Len(t) : u[Len(s) + i] = t[i]
  BY ConcatPlaces
<1> HIDE DEF u
<1>2. ASSUME NEW i \in Fresh(u, b) PROVE i \in Fresh(s, b) /\ u[i] = s[i]
  <2>1. i \in DOMAIN u /\ i > b /\ IsPersisted(u[i])
    BY DEF Fresh
  <2>2. CASE i \in 1..Len(s)
    BY <1>1, <2>1, <2>2 DEF Fresh
  <2>3. CASE i \notin 1..Len(s)
    <3>1. i - Len(s) \in 1..Len(t) /\ i = Len(s) + (i - Len(s))
      BY <1>1, <2>1, <2>3
    <3>2. u[i] = t[i - Len(s)]
      BY <1>1, <3>1
    <3> QED
      BY <1>1, <2>1, <3>1, <3>2
  <2> QED
    BY <2>2, <2>3
<1>3. Pending(u, b, l)
  BY <1>2 DEF Pending, Ordered
<1> QED
  BY <1>3 DEF u

\* A reply comes after everything said before.
LEMMA PendingBlock ==
  ASSUME NEW s \in Seq(Text), NEW b \in Nat, NEW l \in Seq(Line), Pending(s, b, l),
         NEW id \in 1..MaxSaid, NEW n \in 0..MaxCalls,
         \A m \in Verbatim(s) \cup Verbatim(l) : m.id < id
  PROVE  Pending(s \o Block(id, n), b, l)
<1> DEFINE t == Block(id, n)
           u == s \o t
<1>1. /\ t \in Seq(Text) /\ Ordered(t, DOMAIN t)
      /\ \A i \in DOMAIN t : t[i].id = id /\ IsPersisted(t[i])
  BY BlockFacts, BlockIsWhole
<1> HIDE DEF t
<1>2. /\ Len(s) \in Nat /\ Len(t) \in Nat
      /\ DOMAIN s = 1..Len(s) /\ DOMAIN t = 1..Len(t) /\ DOMAIN u = 1..(Len(s) + Len(t))
      /\ \A i \in 1..Len(s) : u[i] = s[i]
      /\ \A i \in 1..Len(t) : u[Len(s) + i] = t[i]
  BY <1>1, ConcatPlaces
<1> HIDE DEF u
<1>3. ASSUME NEW i \in Fresh(u, b), i \in 1..Len(s)
      PROVE  i \in Fresh(s, b) /\ u[i] = s[i] /\ s[i] \in Verbatim(s)
  <2>1. i \in DOMAIN s /\ i > b /\ u[i] = s[i] /\ IsPersisted(s[i])
    BY <1>2, <1>3 DEF Fresh
  <2>2. IsSaid(s[i])
    BY <2>1 DEF IsSaid, IsPersisted
  <2> QED
    BY <2>1, <2>2 DEF Fresh, Verbatim
<1>4. ASSUME NEW i \in Fresh(u, b), i \notin 1..Len(s)
      PROVE  i - Len(s) \in DOMAIN t /\ u[i] = t[i - Len(s)] /\ i \in Nat
  <2>1. i \in 1..(Len(s) + Len(t))
    BY <1>2 DEF Fresh
  <2>2. i - Len(s) \in 1..Len(t) /\ i = Len(s) + (i - Len(s))
    BY <1>2, <1>4, <2>1
  <2> QED
    BY <1>2, <2>1, <2>2
<1>5. \A i \in SaidAt(l) : l[i] \in Verbatim(l)
  BY DEF SaidAt, Verbatim
<1>6. ASSUME NEW i \in Fresh(u, b), NEW j \in Fresh(u, b), i < j PROVE Earlier(u[i], u[j])
  <2>1. i \in Nat /\ j \in Nat /\ i >= 1
    BY <1>2 DEF Fresh
  <2>2. CASE j \in 1..Len(s)
    <3>1. i \in 1..Len(s)
      BY <1>2, <1>6, <2>1, <2>2
    <3> QED
      BY <1>3, <1>6, <2>2, <3>1 DEF Pending, Ordered
  <2>3. CASE j \notin 1..Len(s) /\ i \in 1..Len(s)
    <3>1. u[i].id < id /\ u[j].id = id
      BY <1>1, <1>3, <1>4, <2>3
    <3> QED
      BY <3>1 DEF Earlier
  <2>4. CASE j \notin 1..Len(s) /\ i \notin 1..Len(s)
    <3>1. /\ i - Len(s) \in DOMAIN t /\ u[i] = t[i - Len(s)]
          /\ j - Len(s) \in DOMAIN t /\ u[j] = t[j - Len(s)]
      BY <1>4, <2>4
    <3>2. i - Len(s) < j - Len(s)
      BY <1>2, <1>6, <2>1
    <3> QED
      BY <1>1, <3>1, <3>2 DEF Ordered
  <2> QED
    BY <2>2, <2>3, <2>4
<1>7. ASSUME NEW i \in Fresh(u, b) PROVE After(l, u[i])
  <2>1. CASE i \in 1..Len(s)
    BY <1>3, <2>1 DEF Pending
  <2>2. CASE i \notin 1..Len(s)
    <3>1. u[i].id = id
      BY <1>1, <1>4, <2>2
    <3> QED
      BY <1>5, <3>1 DEF After, Earlier
  <2> QED
    BY <2>1, <2>2
<1>8. Pending(u, b, l)
  BY <1>6, <1>7 DEF Pending, Ordered
<1> QED
  BY <1>8 DEF u, t

-----------------------------------------------------------------------------
(* The inductive invariant. *)

Types ==
  /\ msgs \in Seq(Text) /\ log \in Seq(Line) /\ queue \in Seq(Utterance)
  /\ written = Len(log)
  /\ pc \in {"idle", "top", "model", "compress", "end", "save"}
  /\ before \in Nat /\ saved \in BOOLEAN /\ said \in 0..MaxSaid

\* Numbers are given out once, and results stay within their batch.
Numbered(M, n) == (\A m \in M : m.id <= n) /\ Matched(M)
AllSaid == Verbatim(msgs) \cup Verbatim(log) \cup Verbatim(queue)

\* What is still to be appended comes after what is on file.
QueueFits ==
  /\ pc = "save" <=> queue # <<>>
  /\ Ordered(queue, DOMAIN queue)
  /\ \A i \in DOMAIN queue : After(log, queue[i])

\* And so does what the turn will add, wherever its boundary points by now.
TurnFits == pc \in {"top", "model", "compress", "end"} => Pending(msgs, before, log)

IInv ==
  /\ Types /\ Numbered(AllSaid, said) /\ Ordered(log, SaidAt(log))
  /\ QueueFits /\ TurnFits /\ ContextPaired

LEMMA NumberedLess ==
  ASSUME NEW M \in SUBSET Utterance, NEW N \in SUBSET M, NEW n \in Nat, NEW k \in Nat, n <= k,
         Numbered(M, n)
  PROVE  Numbered(N, k)
<1>1. \A m \in M : m.id \in Nat
  BY Kinds
<1> QED
  BY <1>1 DEF Numbered, Matched

LEMMA AllUtterances ==
  ASSUME Types
  PROVE  /\ Verbatim(msgs) \subseteq Utterance /\ Verbatim(log) \subseteq Utterance
         /\ Verbatim(queue) \subseteq Utterance /\ AllSaid \subseteq Utterance
         /\ \A i \in DOMAIN queue : queue[i] \in Verbatim(queue) /\ queue[i] \in Utterance
<1>1. msgs \in Seq(Text) /\ log \in Seq(Line) /\ queue \in Seq(Utterance)
  BY DEF Types
<1>2. /\ Verbatim(msgs) \subseteq Utterance /\ Verbatim(log) \subseteq Utterance
      /\ Verbatim(queue) \subseteq Utterance
      /\ \A i \in DOMAIN queue : queue[i] \in Verbatim(queue)
  BY <1>1, VerbatimIsSaid
<1> QED
  BY <1>2 DEF AllSaid

LEMMA CheckpointIsLine ==
  ASSUME NEW of \in SUBSET Message, NEW to \in Nat
  PROVE  Checkpoint(of, to) \in Line /\ Checkpoint(of, to).kind = "checkpoint"
BY NoteFacts

\* Appending to the file does not make it whole again.
WholeLog(l) ==
  \A i \in DOMAIN l : l[i].kind = "tool" =>
    \E j \in 1..(i - 1) : l[j].kind = "assistant" /\ l[j].id = l[i].id

LEMMA WholeBefore ==
  ASSUME NEW l \in Seq(Line), NEW e \in Line, WholeLog(Append(l, e))
  PROVE  WholeLog(l)
<1> SUFFICES ASSUME NEW i \in DOMAIN l, l[i].kind = "tool"
             PROVE  \E j \in 1..(i - 1) : l[j].kind = "assistant" /\ l[j].id = l[i].id
  BY DEF WholeLog
<1> DEFINE u == Append(l, e)
<1>1. /\ DOMAIN l = 1..Len(l) /\ DOMAIN u = 1..(Len(l) + 1) /\ Len(l) \in Nat
      /\ \A k \in 1..Len(l) : u[k] = l[k]
  BY AppendProperties, LenProperties
<1> HIDE DEF u
<1>2. i \in DOMAIN u /\ u[i] = l[i]
  BY <1>1
<1>3. PICK j \in 1..(i - 1) : u[j].kind = "assistant" /\ u[j].id = u[i].id
  BY <1>2 DEF WholeLog, u
<1>4. j \in 1..Len(l)
  BY <1>1
<1> QED
  BY <1>1, <1>2, <1>3, <1>4

\* Compaction: what the list and the file say is said already, the file gets a
\* checkpoint at most, and list and boundary move together.
LEMMA AutoCompactKeeps ==
  ASSUME Types, Ordered(log, SaidAt(log)), Matched(Verbatim(msgs)),
         NEW list \in Seq(Text), Verbatim(list) \subseteq Verbatim(msgs),
         Answered(list), LogWhole => NoOrphans(list),
         NEW end \in Nat, NEW bounds \in BOOLEAN, AutoCompact(list, end, bounds)
  PROVE  /\ msgs' \in Seq(Text) /\ log' \in Seq(Line) /\ written' = Len(log') /\ before' \in Nat
         /\ Verbatim(msgs') \subseteq Verbatim(msgs) /\ Verbatim(log') \subseteq Verbatim(log)
         /\ Ordered(log', SaidAt(log')) /\ \A e : After(log, e) => After(log', e)
         /\ ContextPaired'
         /\ bounds /\ Pending(list, before, log) => Pending(msgs', before', log')
<1> DEFINE split == FindCompactionSplit(list)
           of == Told(SubSeq(list, 1, split))
           covered == CompactedHistoryCoverage(Len(list), split, end)
           line == Checkpoint(of, covered)
           opening == <<System, Summary(of), Ack>>
           tail == SubSeq(list, split + 1, Len(list))
<1>1. /\ msgs \in Seq(Text) /\ log \in Seq(Line) /\ written = Len(log) /\ before \in Nat
      /\ written \in Nat /\ Len(list) \in Nat
  BY LenProperties DEF Types
<1>2. LogWhole = WholeLog(log) /\ LogWhole' = WholeLog(log')
  BY DEF LogWhole, WholeLog
<1>3. CASE msgs' = list /\ UNCHANGED <<log, written, before>>
  <2>1. \A e : After(log, e) => After(log', e)
    BY <1>3
  <2>2. ContextPaired'
    BY <1>2, <1>3 DEF ContextPaired
  <2> QED
    BY <1>1, <1>3, <2>1, <2>2
<1>4. ASSUME split > 0, log' = Append(log, line), written' = written + 1
      PROVE  /\ log' \in Seq(Line) /\ written' = Len(log') /\ Verbatim(log') \subseteq Verbatim(log)
             /\ Ordered(log', SaidAt(log')) /\ \A e : After(log, e) => After(log', e)
             /\ LogWhole' => LogWhole
             /\ IsSafeSplit(list, split) /\ split \in Nat /\ split < Len(list)
             /\ of \in SUBSET Message
             /\ \A ms, b : Pending(ms, b, log) => Pending(ms, b, log')
  <2>1. IsSafeSplit(list, split)
    BY <1>4, SplitIsSafe
  <2>2. split \in Nat /\ split < Len(list)
    BY <1>4, SplitIsSafe
  <2>3. of \in SUBSET Message
    <3>1. 1 \in 1..(Len(list) + 1) /\ split <= Len(list)
      BY <1>1, <2>2
    <3>2. SubSeq(list, 1, split) \in Seq(Text)
      BY <2>2, <3>1, VerbatimOfSubSeq
    <3> QED
      BY <3>2, ToldIsMessages
  <2>4. covered \in Nat
    BY <1>1, <2>2 DEF CompactedHistoryCoverage, MonusOf
  <2> HIDE DEF split, of, covered
  <2>5. line \in Line /\ ~IsSaid(line)
    <3>1. line \in Line /\ line.kind = "checkpoint"
      BY <2>3, <2>4, CheckpointIsLine
    <3> QED
      BY <3>1 DEF IsSaid
  <2> HIDE DEF line
  <2>6. log' \in Seq(Line) /\ Len(log') = Len(log) + 1
    BY <1>1, <1>4, <2>5, AppendProperties
  <2>7. Verbatim(log') \subseteq Verbatim(log)
    BY <1>1, <1>4, <2>5, VerbatimOfAppend
  <2>8. Ordered(log', SaidAt(log'))
    BY <1>1, <1>4, <2>5, OrderOfAppend
  <2>9. \A e : After(log, e) => After(log', e)
    <3> SUFFICES ASSUME NEW e, After(log, e) PROVE After(log', e)
      OBVIOUS
    <3> QED
      BY <1>1, <1>4, <2>5, AfterAppend
  <2>10. LogWhole' => LogWhole
    BY <1>1, <1>2, <1>4, <2>5, WholeBefore
  <2>11. \A ms, b : Pending(ms, b, log) => Pending(ms, b, log')
    BY <2>9 DEF Pending
  <2> QED
    BY <1>1, <1>4, <2>1, <2>2, <2>3, <2>6, <2>7, <2>8, <2>9, <2>10, <2>11
<1>5. CASE /\ split > 0 /\ log' = Append(log, line) /\ written' = written + 1
           /\ msgs' = opening \o tail
           /\ before' = IF bounds THEN RemapPersistedBoundary(before, split) ELSE before
  <2>1. /\ log' \in Seq(Line) /\ written' = Len(log') /\ Verbatim(log') \subseteq Verbatim(log)
        /\ Ordered(log', SaidAt(log')) /\ \A e : After(log, e) => After(log', e)
        /\ LogWhole' => LogWhole
        /\ IsSafeSplit(list, split) /\ split \in Nat /\ split < Len(list)
        /\ of \in SUBSET Message
        /\ \A ms, b : Pending(ms, b, log) => Pending(ms, b, log')
    BY <1>4, <1>5
  <2> HIDE DEF split, of, covered, line
  <2>2. /\ opening \in Seq(Text) /\ Len(opening) = 3 /\ Answered(opening) /\ NoOrphans(opening)
        /\ Verbatim(opening) = {}
    BY <2>1, Opening
  <2>3. /\ tail \in Seq(Text) /\ Verbatim(tail) \subseteq Verbatim(list)
    BY <1>5, <2>1, TailPlaces
  <2>4. /\ Answered(tail)
        /\ Matched(Verbatim(list)) /\ NoOrphans(list) => NoOrphans(tail)
    BY <2>1, TailIsWhole
  <2>5. Matched(Verbatim(list))
    BY DEF Matched
  <2>6. before \in Nat /\ (bounds => before' = 3 + MonusOf(before, split)) /\ before' \in Nat
    BY <1>1, <1>5, <2>1 DEF RemapPersistedBoundary, MonusOf
  <2>7. bounds /\ Pending(list, before, log) => Pending(msgs', before', log')
    <3> SUFFICES ASSUME bounds, Pending(list, before, log) PROVE Pending(msgs', before', log')
      OBVIOUS
    <3>1. Pending(opening \o tail, 3 + MonusOf(before, split), log)
      <4> HIDE DEF opening
      <4> QED
        BY <1>5, <2>1, <2>2, <2>6, PendingTail
    <3> QED
      BY <1>5, <2>1, <2>6, <3>1
  <2> HIDE DEF opening, tail
  <2>8. /\ msgs' \in Seq(Text) /\ Verbatim(msgs') \subseteq Verbatim(msgs)
        /\ Answered(msgs') /\ (LogWhole' => NoOrphans(msgs'))
    <3>1. /\ opening \o tail \in Seq(Text)
          /\ Verbatim(opening \o tail) \subseteq Verbatim(opening) \cup Verbatim(tail)
      BY <2>2, <2>3, ConcatProperties, VerbatimOfConcat
    <3>2. Answered(opening \o tail)
      BY <2>2, <2>3, <2>4, AnsweredConcat
    <3>3. LogWhole' => NoOrphans(opening \o tail)
      BY <2>1, <2>2, <2>3, <2>4, <2>5, NoOrphansConcat
    <3> QED
      BY <1>5, <2>2, <2>3, <3>1, <3>2, <3>3
  <2> QED
    BY <2>1, <2>6, <2>7, <2>8 DEF ContextPaired
<1>6. CASE /\ split > 0 /\ log' = Append(log, line) /\ written' = written + 1
           /\ msgs' = list /\ UNCHANGED before
  <2>1. /\ log' \in Seq(Line) /\ written' = Len(log') /\ Verbatim(log') \subseteq Verbatim(log)
        /\ Ordered(log', SaidAt(log')) /\ \A e : After(log, e) => After(log', e)
        /\ LogWhole' => LogWhole
        /\ \A ms, b : Pending(ms, b, log) => Pending(ms, b, log')
    BY <1>4, <1>6
  <2> HIDE DEF split, line
  <2> QED
    BY <1>1, <1>6, <2>1 DEF ContextPaired
<1> QED
  BY <1>3, <1>5, <1>6 DEF AutoCompact

-----------------------------------------------------------------------------
(* The steps. *)

LEMMA CompactStep ==
  ASSUME IInv, NEW list \in Seq(Text), Verbatim(list) \subseteq Verbatim(msgs),
         Answered(list), LogWhole => NoOrphans(list),
         NEW end \in Nat, NEW bounds \in BOOLEAN, AutoCompact(list, end, bounds),
         UNCHANGED <<saved, queue, said>>,
         pc # "save", pc' \in {"idle", "top", "model", "end"},
         pc' # "idle" => bounds /\ Pending(list, before, log)
  PROVE  IInv'
<1>1. Types /\ Ordered(log, SaidAt(log)) /\ Numbered(AllSaid, said) /\ QueueFits
  BY DEF IInv
<1>2. Matched(Verbatim(msgs))
  BY <1>1 DEF Numbered, Matched, AllSaid
<1>3. /\ msgs' \in Seq(Text) /\ log' \in Seq(Line) /\ written' = Len(log') /\ before' \in Nat
      /\ Verbatim(msgs') \subseteq Verbatim(msgs) /\ Verbatim(log') \subseteq Verbatim(log)
      /\ Ordered(log', SaidAt(log')) /\ \A e : After(log, e) => After(log', e)
      /\ ContextPaired'
      /\ bounds /\ Pending(list, before, log) => Pending(msgs', before', log')
  BY <1>1, <1>2, AutoCompactKeeps
<1>4. saved' = saved /\ queue' = queue /\ said' = said
  OBVIOUS
<1>5. Types'
  BY <1>1, <1>3, <1>4 DEF Types
<1>6. Numbered(AllSaid', said')
  <2>1. AllSaid' \in SUBSET AllSaid
    BY <1>3, <1>4 DEF AllSaid
  <2>2. AllSaid \in SUBSET Utterance /\ said \in Nat
    BY <1>1, AllUtterances DEF Types
  <2>3. said <= said
    BY <2>2
  <2> QED
    BY <1>1, <1>4, <2>1, <2>2, <2>3, NumberedLess
<1>7. QueueFits'
  BY <1>1, <1>3, <1>4 DEF QueueFits
<1>8. TurnFits'
  BY <1>3 DEF TurnFits
<1> QED
  BY <1>3, <1>5, <1>6, <1>7, <1>8 DEF IInv

LEMMA MaybeFacts ==
  ASSUME NEW kind \in {"inbox", "session", "recall", "nudge"}, NEW s \in Maybe(kind)
  PROVE  /\ s \in Seq(Text) /\ Answered(s) /\ NoOrphans(s) /\ Verbatim(s) = {}
         /\ \A i \in DOMAIN s : ~IsPersisted(s[i])
<1>1. s = <<>> \/ s = <<Note(kind)>>
  BY DEF Maybe
<1>2. Note(kind) \in Text /\ Note(kind).kind = kind
  BY NoteFacts
<1>3. ~IsSaid(Note(kind)) /\ Note(kind).kind \notin {"assistant", "tool"}
  BY <1>2 DEF IsSaid
<1>4. s \in Seq(Text) /\ Answered(s) /\ NoOrphans(s) /\ Verbatim(s) = {}
  <2>1. CASE s = <<>>
    BY <2>1, EmptyList
  <2>2. CASE s = <<Note(kind)>>
    <3>1. /\ <<Note(kind)>> \in Seq(Text) /\ Answered(<<Note(kind)>>)
          /\ NoOrphans(<<Note(kind)>>) /\ Verbatim(<<Note(kind)>>) = {}
      BY <1>2, <1>3, OneMessage
    <3> QED
      BY <2>2, <3>1
  <2> QED
    BY <1>1, <2>1, <2>2
<1>5. \A i \in DOMAIN s : ~IsPersisted(s[i])
  BY <1>4 DEF Verbatim, IsSaid, IsPersisted
<1> QED
  BY <1>4, <1>5

LEMMA GrowingList ==
  ASSUME NEW s \in Seq(Text), NEW t \in Seq(Text), NEW w \in BOOLEAN,
         Answered(s), Answered(t), w => NoOrphans(s), NoOrphans(t)
  PROVE  /\ s \o t \in Seq(Text) /\ Verbatim(s \o t) \subseteq Verbatim(s) \cup Verbatim(t)
         /\ Answered(s \o t) /\ (w => NoOrphans(s \o t))
BY ConcatPlaces, VerbatimOfConcat, AnsweredConcat, NoOrphansConcat

LEMMA NumberedUser ==
  ASSUME NEW M \in SUBSET Utterance, NEW n \in Nat, Numbered(M, n), NEW e \in Utterance,
         e.kind = "user", e.id = n + 1, NEW N \in SUBSET (M \cup {e})
  PROVE  Numbered(N, n + 1)
<1>1. \A m \in M : m.id \in Nat
  BY Kinds
<1> QED
  BY <1>1 DEF Numbered, Matched

LEMMA NumberedBlock ==
  ASSUME NEW M \in SUBSET Utterance, NEW n \in Nat, Numbered(M, n), n + 1 \in 1..MaxSaid,
         NEW c \in 0..MaxCalls, NEW N \in SUBSET (M \cup Verbatim(Block(n + 1, c)))
  PROVE  Numbered(N, n + 1)
<1> DEFINE B == Verbatim(Block(n + 1, c))
<1>1. \A m \in M : m.id \in Nat /\ m.id <= n /\ m.id # n + 1
  BY Kinds DEF Numbered
<1>2. /\ \A m \in B : m.id = n + 1
      /\ \A m \in B : m.kind = "assistant" => m.n = c
      /\ \A m \in B : m.kind = "tool" => m.n \in 1..c
  BY BlockIsWhole
<1> HIDE DEF B
<1>3. N \subseteq M \cup B
  BY DEF B
<1>4. \A m \in N : m.id <= n + 1
  BY <1>1, <1>2, <1>3
<1>5. Matched(M)
  BY DEF Numbered
<1>6. ASSUME NEW t \in N, NEW a \in N, t.kind = "tool", a.kind = "assistant", t.id = a.id
      PROVE  t.n \in 1..a.n
  <2>1. CASE t \in M /\ a \in M
    BY <1>5, <1>6, <2>1 DEF Matched
  <2>2. CASE t \in B /\ a \in B
    BY <1>2, <1>6, <2>2
  <2>3. ~(t \in M /\ a \in B) /\ ~(t \in B /\ a \in M)
    BY <1>1, <1>2, <1>6
  <2> QED
    BY <1>3, <2>1, <2>2, <2>3
<1> QED
  BY <1>4, <1>6 DEF Numbered, Matched

LEMMA StartTurnStep ==
  ASSUME IInv, StartTurn
  PROVE  IInv'
<1>1. /\ Types /\ Ordered(log, SaidAt(log)) /\ Numbered(AllSaid, said) /\ QueueFits /\ ContextPaired
      /\ msgs \in Seq(Text) /\ log \in Seq(Line) /\ written = Len(log) /\ said \in Nat
      /\ Len(log) \in Nat
  BY LenProperties DEF IInv, Types
<1>2. pc = "idle" /\ said < MaxSaid /\ said' = said + 1 /\ pc' = "top" /\ queue' = queue
  BY DEF StartTurn
<1> DEFINE line == Said("user", said + 1, 0)
<1>3. PICK fate \in IF IOFaults THEN {"saved", "lost", "unsynced"} ELSE {"saved"},
           inbox \in Maybe("inbox"), session \in Maybe("session"), recall \in Maybe("recall") :
        LET list == msgs \o inbox \o <<line>>
        IN /\ log' = IF fate = "lost" THEN log ELSE Append(log, line)
           /\ written' = IF fate = "lost" THEN written ELSE written + 1
           /\ saved' = (fate = "saved")
           /\ before' = IF fate = "saved" THEN Len(list) ELSE Len(list) - 1
           /\ msgs' = list \o session \o recall
  BY Zenon DEF StartTurn
<1> DEFINE base == msgs \o inbox
           list == base \o <<line>>
<1>4. /\ line \in Utterance /\ line \in Text /\ line \in Line
      /\ line.kind = "user" /\ line.id = said + 1 /\ IsSaid(line) /\ ~IsPersisted(line)
  <2>1. said + 1 \in 1..MaxSaid /\ 0 \in 0..MaxCalls
    BY <1>1, <1>2
  <2>2. line \in Utterance /\ line.kind = "user" /\ line.id = said + 1
    BY <2>1, NoteFacts
  <2> HIDE DEF line
  <2> QED
    BY <2>2, Kinds DEF Text, Line, IsSaid, IsPersisted
<1> HIDE DEF line
<1>5. /\ inbox \in Seq(Text) /\ Answered(inbox) /\ NoOrphans(inbox) /\ Verbatim(inbox) = {}
      /\ session \in Seq(Text) /\ Answered(session) /\ NoOrphans(session) /\ Verbatim(session) = {}
      /\ recall \in Seq(Text) /\ Answered(recall) /\ NoOrphans(recall) /\ Verbatim(recall) = {}
      /\ \A i \in DOMAIN session : ~IsPersisted(session[i])
      /\ \A i \in DOMAIN recall : ~IsPersisted(recall[i])
  BY MaybeFacts
<1>6. /\ <<line>> \in Seq(Text) /\ Len(<<line>>) = 1 /\ Answered(<<line>>) /\ NoOrphans(<<line>>)
      /\ Verbatim(<<line>>) \subseteq {line}
      /\ \A i \in DOMAIN <<line>> : ~IsPersisted(<<line>>[i])
  <2>1. line.kind \notin {"assistant", "tool"}
    BY <1>4
  <2>2. /\ <<line>> \in Seq(Text) /\ Len(<<line>>) = 1 /\ <<line>>[1] = line
        /\ Answered(<<line>>) /\ NoOrphans(<<line>>) /\ Verbatim(<<line>>) \subseteq {line}
    BY <1>4, <2>1, OneMessage
  <2>3. \A i \in DOMAIN <<line>> : <<line>>[i] = line
    OBVIOUS
  <2> QED
    BY <1>4, <2>2, <2>3
<1>7. LogWhole \in BOOLEAN /\ Answered(msgs) /\ (LogWhole => NoOrphans(msgs))
  BY <1>1 DEF ContextPaired, LogWhole
<1>8. /\ base \in Seq(Text) /\ Verbatim(base) \subseteq Verbatim(msgs)
      /\ Answered(base) /\ (LogWhole => NoOrphans(base))
  <2>1. /\ base \in Seq(Text) /\ Verbatim(base) \subseteq Verbatim(msgs) \cup Verbatim(inbox)
        /\ Answered(base) /\ (LogWhole => NoOrphans(base))
    BY <1>1, <1>5, <1>7, GrowingList
  <2> QED
    BY <1>5, <2>1
<1>9. /\ list \in Seq(Text) /\ Verbatim(list) \subseteq Verbatim(msgs) \cup {line}
      /\ Answered(list) /\ (LogWhole => NoOrphans(list))
      /\ Len(base) \in Nat /\ Len(list) = Len(base) + 1
  <2> HIDE DEF base
  <2>1. /\ list \in Seq(Text) /\ Verbatim(list) \subseteq Verbatim(base) \cup Verbatim(<<line>>)
        /\ Answered(list) /\ (LogWhole => NoOrphans(list))
    BY <1>6, <1>7, <1>8, GrowingList
  <2>2. Len(base) \in Nat /\ Len(list) = Len(base) + Len(<<line>>)
    BY <1>6, <1>8, ConcatPlaces
  <2> QED
    BY <1>6, <1>8, <2>1, <2>2
<1>10. /\ log' = IF fate = "lost" THEN log ELSE Append(log, line)
       /\ written' = IF fate = "lost" THEN written ELSE written + 1
       /\ saved' = (fate = "saved")
       /\ before' = IF fate = "saved" THEN Len(list) ELSE Len(list) - 1
       /\ msgs' = list \o session \o recall
  BY <1>3
<1>11. before' \in Nat /\ before' >= Len(base)
  BY <1>9, <1>10
<1>12. Pending(base, before', log')
  <2>1. DOMAIN base = 1..Len(base)
    BY <1>8, LenProperties
  <2> HIDE DEF base
  <2>2. Fresh(base, before') = {}
    BY <1>9, <1>11, <2>1 DEF Fresh
  <2> QED
    BY <2>2 DEF Pending, Ordered
<1> HIDE DEF base
<1>13. Pending(list, before', log')
  BY <1>6, <1>8, <1>11, <1>12, PendingConcat
<1> HIDE DEF list
<1>14. /\ list \o session \in Seq(Text) /\ Verbatim(list \o session) \subseteq Verbatim(list)
       /\ Answered(list \o session) /\ (LogWhole => NoOrphans(list \o session))
       /\ Pending(list \o session, before', log')
  <2>1. /\ list \o session \in Seq(Text)
        /\ Verbatim(list \o session) \subseteq Verbatim(list) \cup Verbatim(session)
        /\ Answered(list \o session) /\ (LogWhole => NoOrphans(list \o session))
    BY <1>5, <1>7, <1>9, GrowingList
  <2>2. Pending(list \o session, before', log')
    BY <1>5, <1>9, <1>11, <1>13, PendingConcat
  <2> QED
    BY <1>5, <2>1, <2>2
<1> DEFINE most == list \o session
<1> HIDE DEF most
<1>15. /\ most \o recall \in Seq(Text) /\ Verbatim(most \o recall) \subseteq Verbatim(list)
       /\ Answered(most \o recall) /\ (LogWhole => NoOrphans(most \o recall))
       /\ Pending(most \o recall, before', log')
  <2>0. /\ most \in Seq(Text) /\ Verbatim(most) \subseteq Verbatim(list)
        /\ Answered(most) /\ (LogWhole => NoOrphans(most)) /\ Pending(most, before', log')
    BY <1>14 DEF most
  <2>1. /\ most \o recall \in Seq(Text)
        /\ Verbatim(most \o recall) \subseteq Verbatim(most) \cup Verbatim(recall)
        /\ Answered(most \o recall) /\ (LogWhole => NoOrphans(most \o recall))
    BY <1>5, <1>7, <2>0, GrowingList
  <2>2. Pending(most \o recall, before', log')
    BY <1>5, <1>11, <2>0, PendingConcat
  <2> QED
    BY <1>5, <2>0, <2>1, <2>2
<1>16. msgs' = most \o recall
  BY <1>10 DEF most
<1>17. After(log, line)
  <2>1. \A i \in SaidAt(log) : log[i] \in Verbatim(log)
    BY DEF SaidAt, Verbatim
  <2>2. \A m \in Verbatim(log) : m.id <= said /\ m.id \in Nat
    BY <1>1, AllUtterances, Kinds DEF Numbered, AllSaid
  <2>3. \A i \in SaidAt(log) : log[i].id < line.id
    BY <1>1, <1>4, <2>1, <2>2
  <2> QED
    BY <2>3 DEF After, Earlier
<1>18. /\ log' \in Seq(Line) /\ written' = Len(log') /\ Ordered(log', SaidAt(log'))
       /\ Verbatim(log') \subseteq Verbatim(log) \cup {line}
       /\ LogWhole' => LogWhole
  <2>1. LogWhole = WholeLog(log) /\ LogWhole' = WholeLog(log')
    BY DEF LogWhole, WholeLog
  <2>2. CASE log' = log /\ written' = written
    BY <1>1, <2>1, <2>2
  <2>3. CASE log' = Append(log, line) /\ written' = written + 1
    <3>1. log' \in Seq(Line) /\ Len(log') = Len(log) + 1
      BY <1>1, <1>4, <2>3, AppendProperties
    <3>2. Ordered(log', SaidAt(log'))
      BY <1>1, <1>4, <1>17, <2>3, OrderOfAppend
    <3>3. Verbatim(log') \subseteq Verbatim(log) \cup {line}
      BY <1>1, <1>4, <2>3, VerbatimOfAppend
    <3>4. LogWhole' => LogWhole
      BY <1>1, <1>4, <2>1, <2>3, WholeBefore
    <3> QED
      BY <1>1, <2>3, <3>1, <3>2, <3>3, <3>4
  <2> QED
    BY <1>10, <2>2, <2>3
<1>19. Types'
  <2>1. said + 1 \in 0..MaxSaid /\ saved' \in BOOLEAN
    BY <1>1, <1>2, <1>10
  <2> QED
    BY <1>1, <1>2, <1>11, <1>15, <1>16, <1>18, <2>1 DEF Types
<1>20. Numbered(AllSaid', said')
  <2>1. AllSaid' \in SUBSET (AllSaid \cup {line})
    BY <1>2, <1>9, <1>15, <1>16, <1>18 DEF AllSaid
  <2>2. AllSaid \in SUBSET Utterance
    BY <1>1, AllUtterances
  <2> QED
    BY <1>1, <1>2, <1>4, <2>1, <2>2, NumberedUser
<1>21. QueueFits'
  <2>1. queue' = <<>> /\ DOMAIN <<>> = {}
    BY <1>1, <1>2, EmptyList DEF QueueFits
  <2>2. Ordered(queue', DOMAIN queue') /\ \A i \in DOMAIN queue' : After(log', queue'[i])
    BY <2>1 DEF Ordered
  <2> QED
    BY <1>2, <2>1, <2>2 DEF QueueFits
<1>22. TurnFits'
  BY <1>15, <1>16 DEF TurnFits
<1>23. ContextPaired'
  BY <1>15, <1>16, <1>18 DEF ContextPaired
<1> QED
  BY <1>18, <1>19, <1>20, <1>21, <1>22, <1>23 DEF IInv

\* Dropping messages that are neither calls nor answers cuts no block.
LEMMA StripFacts ==
  ASSUME NEW s \in Seq(Text), NEW S \in SUBSET (DOMAIN s),
         \A i \in DOMAIN s : IsPersisted(s[i]) => i \in S,
         Answered(s), Matched(Verbatim(s))
  PROVE  /\ Kept(s, S) \in Seq(Text) /\ Verbatim(Kept(s, S)) \subseteq Verbatim(s)
         /\ Answered(Kept(s, S)) /\ (NoOrphans(s) => NoOrphans(Kept(s, S)))
<1>1. DOMAIN s = 1..Len(s) /\ Len(s) \in Nat
  BY LenProperties
<1>2. Kept(s, S) \in Seq(Text) /\ Verbatim(Kept(s, S)) \subseteq Verbatim(s)
  BY KeptFacts, VerbatimOfKept
<1>3. Answered(Kept(s, S))
  <2>1. ASSUME NEW i \in S, HasCalls(s[i]), NEW k \in 1..s[i].n
        PROVE  i + k \in S /\ s[i + k] = Said("tool", s[i].id, k)
    <3>1. i + k <= Len(s) /\ s[i + k] = Said("tool", s[i].id, k)
      BY <2>1 DEF Answered
    <3>2. IsPersisted(s[i + k])
      BY <3>1 DEF Said, IsPersisted
    <3>3. s[i].n \in Nat
      <4>1. IsSaid(s[i])
        BY <2>1 DEF HasCalls, IsSaid
      <4> QED
        BY <4>1, SaidIsUtterance, Kinds
    <3>4. i + k \in DOMAIN s
      BY <1>1, <3>1, <3>3
    <3> QED
      BY <3>1, <3>2, <3>4
  <2> QED
    BY <2>1, AnsweredKept
<1>4. ASSUME NoOrphans(s) PROVE NoOrphans(Kept(s, S))
  <2>1. ASSUME NEW i \in S, s[i].kind = "tool"
        PROVE  /\ i - s[i].n \in S /\ s[i - s[i].n].kind = "assistant" /\ s[i - s[i].n].id = s[i].id
               /\ \A k \in 1..s[i].n : i - s[i].n + k \in S
    <3>1. /\ s[i].n \in Nat \ {0} /\ i - s[i].n \in DOMAIN s
          /\ s[i - s[i].n].kind = "assistant" /\ s[i - s[i].n].id = s[i].id
          /\ \A k \in 1..s[i].n : /\ i - s[i].n + k \in DOMAIN s
                                  /\ s[i - s[i].n + k].kind = "tool"
      BY <1>4, <2>1, BlockOfResult
    <3>2. i - s[i].n \in S
      BY <3>1 DEF IsPersisted
    <3>3. ASSUME NEW k \in 1..s[i].n PROVE i - s[i].n + k \in S
      BY <3>1 DEF IsPersisted
    <3> QED
      BY <3>1, <3>2, <3>3
  <2> QED
    BY <2>1, OrphansKept
<1> QED
  BY <1>2, <1>3, <1>4

LEMMA PrepareRoundStep ==
  ASSUME IInv, PrepareRound
  PROVE  IInv'
<1> DEFINE list == DropConsumedNudges(msgs)
<1>1. /\ Types /\ Numbered(AllSaid, said) /\ TurnFits /\ ContextPaired
      /\ msgs \in Seq(Text) /\ before \in Nat
  BY DEF IInv, Types
<1>2. /\ pc = "top" /\ pc' = "model" /\ AutoCompact(list, before, TRUE)
      /\ UNCHANGED <<saved, queue, said>>
  BY DEF PrepareRound
<1>3. PICK S \in SUBSET (DOMAIN msgs) :
        list = Kept(msgs, S) /\ \A i \in DOMAIN msgs : IsPersisted(msgs[i]) => i \in S
  <2> DEFINE assistants == {i \in DOMAIN msgs : IsAssistant(msgs[i])}
             last == IF assistants = {} THEN 0 ELSE Max(assistants)
             S == {i \in DOMAIN msgs : ~(i < last /\ IsEphemeralNudge(msgs[i]))}
  <2>1. list = Kept(msgs, S)
    BY DEF DropConsumedNudges
  <2>2. \A i \in DOMAIN msgs : IsPersisted(msgs[i]) => i \in S
    BY DEF IsPersisted, IsEphemeralNudge
  <2>3. S \in SUBSET (DOMAIN msgs)
    OBVIOUS
  <2> HIDE DEF S
  <2> QED
    BY <2>1, <2>2, <2>3
<1>4. Matched(Verbatim(msgs))
  BY <1>1 DEF Numbered, Matched, AllSaid
<1>5. Answered(msgs) /\ (LogWhole => NoOrphans(msgs))
  BY <1>1 DEF ContextPaired
<1> HIDE DEF list
<1>6. /\ list \in Seq(Text) /\ Verbatim(list) \subseteq Verbatim(msgs)
      /\ Answered(list) /\ (LogWhole => NoOrphans(list))
  BY <1>1, <1>3, <1>4, <1>5, StripFacts
<1>7. Pending(list, before, log)
  <2>1. Pending(msgs, before, log)
    BY <1>1, <1>2 DEF TurnFits
  <2> QED
    BY <1>1, <1>3, <2>1, PendingKept
<1> QED
  BY <1>1, <1>2, <1>6, <1>7, CompactStep

LEMMA CompressToolStep ==
  ASSUME IInv, CompressTool
  PROVE  IInv'
<1>1. /\ TurnFits /\ ContextPaired /\ msgs \in Seq(Text) /\ before \in Nat
  BY DEF IInv, Types
<1>2. /\ pc = "compress" /\ pc' \in {"top", "end"} /\ AutoCompact(msgs, before, TRUE)
      /\ UNCHANGED <<saved, queue, said>>
  BY DEF CompressTool
<1>3. Answered(msgs) /\ (LogWhole => NoOrphans(msgs)) /\ Pending(msgs, before, log)
  BY <1>1, <1>2 DEF ContextPaired, TurnFits
<1> QED
  BY <1>1, <1>2, <1>3, CompactStep

LEMMA ManualCompactStep ==
  ASSUME IInv, ManualCompact
  PROVE  IInv'
<1>1. ContextPaired /\ msgs \in Seq(Text) /\ Len(msgs) \in Nat
  BY LenProperties DEF IInv, Types
<1>2. /\ pc = "idle" /\ pc' = "idle" /\ AutoCompact(msgs, Len(msgs), FALSE)
      /\ UNCHANGED <<saved, queue, said>>
  BY DEF ManualCompact
<1>3. Answered(msgs) /\ (LogWhole => NoOrphans(msgs))
  BY <1>1 DEF ContextPaired
<1> QED
  BY <1>1, <1>2, <1>3, CompactStep

LEMMA NudgeStep ==
  ASSUME IInv, Nudge
  PROVE  IInv'
<1> DEFINE t == <<Note("nudge")>>
<1>1. /\ Types /\ Ordered(log, SaidAt(log)) /\ Numbered(AllSaid, said) /\ QueueFits /\ TurnFits
      /\ ContextPaired /\ msgs \in Seq(Text) /\ before \in Nat
  BY DEF IInv, Types
<1>2. /\ pc = "model" /\ msgs' = msgs \o t
      /\ UNCHANGED <<log, written, pc, before, saved, queue, said>>
  BY DEF Nudge
<1>3. /\ t \in Seq(Text) /\ Answered(t) /\ NoOrphans(t) /\ Verbatim(t) = {}
      /\ \A i \in DOMAIN t : ~IsPersisted(t[i])
  <2>1. "nudge" \in Extras
    BY DEF Nudge
  <2>2. t \in Maybe("nudge")
    BY <2>1 DEF Maybe
  <2> HIDE DEF t
  <2> QED
    BY <2>2, MaybeFacts
<1> HIDE DEF t
<1>4. LogWhole' = LogWhole /\ LogWhole \in BOOLEAN
  BY <1>2 DEF LogWhole
<1>5. Answered(msgs) /\ (LogWhole => NoOrphans(msgs)) /\ Pending(msgs, before, log)
  BY <1>1, <1>2 DEF ContextPaired, TurnFits
<1>6. /\ msgs \o t \in Seq(Text) /\ Verbatim(msgs \o t) \subseteq Verbatim(msgs) \cup Verbatim(t)
      /\ Answered(msgs \o t) /\ (LogWhole => NoOrphans(msgs \o t))
  BY <1>1, <1>3, <1>4, <1>5, GrowingList
<1>7. Pending(msgs \o t, before, log)
  BY <1>1, <1>3, <1>5, PendingConcat
<1>8. Types'
  BY <1>1, <1>2, <1>6 DEF Types
<1>9. Numbered(AllSaid', said')
  <2>1. AllSaid' \in SUBSET AllSaid
    BY <1>2, <1>3, <1>6 DEF AllSaid
  <2>2. AllSaid \in SUBSET Utterance /\ said \in Nat
    BY <1>1, AllUtterances DEF Types
  <2>3. said <= said
    BY <2>2
  <2> QED
    BY <1>1, <1>2, <2>1, <2>2, <2>3, NumberedLess
<1>10. QueueFits' /\ Ordered(log', SaidAt(log'))
  BY <1>1, <1>2 DEF QueueFits
<1>11. TurnFits' /\ ContextPaired'
  BY <1>2, <1>4, <1>6, <1>7 DEF TurnFits, ContextPaired
<1> QED
  BY <1>8, <1>9, <1>10, <1>11 DEF IInv

LEMMA CallModelStep ==
  ASSUME IInv, CallModel
  PROVE  IInv'
<1>1. /\ Types /\ Ordered(log, SaidAt(log)) /\ Numbered(AllSaid, said) /\ QueueFits /\ TurnFits
      /\ ContextPaired /\ msgs \in Seq(Text) /\ log \in Seq(Line) /\ before \in Nat /\ said \in Nat
  BY DEF IInv, Types
<1>2. /\ pc = "model" /\ said < MaxSaid /\ said' = said + 1
      /\ UNCHANGED <<log, written, before, saved, queue>>
      /\ said + 1 \in 1..MaxSaid
  BY <1>1 DEF CallModel
<1>3. PICK n \in 0..MaxCalls, nudge \in Maybe("nudge") :
        /\ msgs' = msgs \o Block(said + 1, n) \o nudge
        /\ pc' \in {"top", "compress", "end"}
  BY DEF CallModel, Block
<1> DEFINE b == Block(said + 1, n)
           list == msgs \o b
<1>4. /\ nudge \in Seq(Text) /\ Answered(nudge) /\ NoOrphans(nudge) /\ Verbatim(nudge) = {}
      /\ \A i \in DOMAIN nudge : ~IsPersisted(nudge[i])
  BY MaybeFacts
<1>5. b \in Seq(Text) /\ Answered(b) /\ NoOrphans(b)
  BY <1>2, BlockFacts, BlockIsWhole
<1>6. LogWhole' = LogWhole /\ LogWhole \in BOOLEAN
  BY <1>2 DEF LogWhole
<1>7. Answered(msgs) /\ (LogWhole => NoOrphans(msgs)) /\ Pending(msgs, before, log)
  BY <1>1, <1>2 DEF ContextPaired, TurnFits
<1>8. Pending(list, before, log)
  <2>1. \A m \in Verbatim(msgs) \cup Verbatim(log) : m.id < said + 1
    <3>1. \A m \in Verbatim(msgs) \cup Verbatim(log) : m.id <= said /\ m.id \in Nat
      BY <1>1, AllUtterances, Kinds DEF Numbered, AllSaid
    <3> QED
      BY <1>1, <3>1
  <2> QED
    BY <1>1, <1>2, <1>7, <2>1, PendingBlock
<1> HIDE DEF b
<1>9. /\ list \in Seq(Text) /\ Verbatim(list) \subseteq Verbatim(msgs) \cup Verbatim(b)
      /\ Answered(list) /\ (LogWhole => NoOrphans(list))
  BY <1>1, <1>5, <1>6, <1>7, GrowingList
<1>10. msgs' = list \o nudge
  BY <1>3 DEF b
<1> HIDE DEF list
<1>11. /\ msgs' \in Seq(Text) /\ Verbatim(msgs') \subseteq Verbatim(msgs) \cup Verbatim(b)
       /\ Answered(msgs') /\ (LogWhole => NoOrphans(msgs'))
  <2>1. /\ list \o nudge \in Seq(Text)
        /\ Verbatim(list \o nudge) \subseteq Verbatim(list) \cup Verbatim(nudge)
        /\ Answered(list \o nudge) /\ (LogWhole => NoOrphans(list \o nudge))
    BY <1>4, <1>6, <1>9, GrowingList
  <2> QED
    BY <1>4, <1>9, <1>10, <2>1
<1>12. Pending(msgs', before', log')
  <2>1. Pending(list \o nudge, before, log)
    BY <1>1, <1>4, <1>8, <1>9, PendingConcat
  <2> QED
    BY <1>2, <1>10, <2>1
<1>13. Types'
  <2>1. said + 1 \in 0..MaxSaid
    BY <1>1, <1>2
  <2> QED
    BY <1>1, <1>2, <1>3, <1>11, <2>1 DEF Types
<1>14. Numbered(AllSaid', said')
  <2>1. AllSaid' \in SUBSET (AllSaid \cup Verbatim(b))
    BY <1>2, <1>11 DEF AllSaid
  <2>2. AllSaid \in SUBSET Utterance
    BY <1>1, AllUtterances
  <2>3. AllSaid' \in SUBSET (AllSaid \cup Verbatim(Block(said + 1, n)))
    BY <2>1 DEF b
  <2> QED
    BY <1>1, <1>2, <2>2, <2>3, NumberedBlock
<1>15. QueueFits' /\ Ordered(log', SaidAt(log'))
  BY <1>1, <1>2, <1>3 DEF QueueFits
<1>16. TurnFits' /\ ContextPaired'
  BY <1>2, <1>6, <1>11, <1>12 DEF TurnFits, ContextPaired
<1> QED
  BY <1>13, <1>14, <1>15, <1>16 DEF IInv

LEMMA TurnFailsStep ==
  ASSUME IInv, TurnFails
  PROVE  IInv'
<1>1. /\ Types /\ Ordered(log, SaidAt(log)) /\ Numbered(AllSaid, said) /\ QueueFits /\ TurnFits
      /\ ContextPaired
  BY DEF IInv
<1>2. /\ pc \in {"top", "model"} /\ pc' = "end"
      /\ UNCHANGED <<msgs, log, written, before, saved, queue, said>>
  BY DEF TurnFails
<1>3. Types' /\ QueueFits' /\ TurnFits'
  BY <1>1, <1>2 DEF Types, QueueFits, TurnFits
<1>4. Ordered(log', SaidAt(log')) /\ Numbered(AllSaid', said') /\ ContextPaired'
  BY <1>1, <1>2 DEF AllSaid, ContextPaired, LogWhole
<1> QED
  BY <1>3, <1>4 DEF IInv

LEMMA EndTurnStep ==
  ASSUME IInv, EndTurn
  PROVE  IInv'
<1> DEFINE S == {i \in DOMAIN msgs : ~IsInjectedTurnContext(msgs[i])}
           Q == {i \in (before + 1)..Len(msgs') : IsPersisted(msgs'[i])}
<1>1. /\ Types /\ Ordered(log, SaidAt(log)) /\ Numbered(AllSaid, said) /\ QueueFits /\ TurnFits
      /\ ContextPaired /\ msgs \in Seq(Text) /\ log \in Seq(Line) /\ before \in Nat /\ said \in Nat
  BY DEF IInv, Types
<1>2. /\ pc = "end" /\ msgs' = Kept(msgs, S)
      /\ queue' = IF saved THEN Kept(msgs', Q) ELSE <<>>
      /\ pc' = IF queue' = <<>> THEN "idle" ELSE "save"
      /\ before' = 0 /\ saved' = TRUE
      /\ UNCHANGED <<log, written, said>>
  BY DEF EndTurn, StripInjectedTurnContext
<1>3. /\ S \in SUBSET (DOMAIN msgs)
      /\ \A i \in DOMAIN msgs : IsPersisted(msgs[i]) => i \in S
  BY DEF IsPersisted, IsInjectedTurnContext
<1>4. Matched(Verbatim(msgs)) /\ Answered(msgs) /\ (LogWhole => NoOrphans(msgs))
  BY <1>1 DEF Numbered, Matched, AllSaid, ContextPaired
<1> HIDE DEF S
<1>5. /\ msgs' \in Seq(Text) /\ Verbatim(msgs') \subseteq Verbatim(msgs)
      /\ Answered(msgs') /\ (LogWhole => NoOrphans(msgs'))
  BY <1>1, <1>2, <1>3, <1>4, StripFacts
<1>6. Pending(msgs', before, log)
  <2>1. Pending(msgs, before, log)
    BY <1>1, <1>2 DEF TurnFits
  <2> QED
    BY <1>1, <1>2, <1>3, <2>1, PendingKept
<1>7. /\ DOMAIN msgs' = 1..Len(msgs') /\ Len(msgs') \in Nat
  BY <1>5, LenProperties
<1>8. Q = Fresh(msgs', before) /\ Q \in SUBSET (DOMAIN msgs')
  BY <1>1, <1>7 DEF Fresh
<1> DEFINE q == Kept(msgs', Q)
<1> HIDE DEF Q
<1>9. /\ DOMAIN q = 1..Cardinality(Q) /\ Cardinality(Q) \in Nat
      /\ \A k \in DOMAIN q : Place(Q, k) \in Q /\ q[k] = msgs'[Place(Q, k)]
      /\ \A k, l \in 1..Cardinality(Q) : k < l => Place(Q, k) < Place(Q, l)
  BY <1>5, <1>8, PlaceInList, KeptFacts, PlaceFacts
<1>10. Verbatim(q) \subseteq Verbatim(msgs')
  BY <1>5, <1>8, VerbatimOfKept
<1>11. \A i \in Q : msgs'[i] \in Utterance
  <2> SUFFICES ASSUME NEW i \in Q PROVE msgs'[i] \in Utterance
    OBVIOUS
  <2>1. i \in DOMAIN msgs' /\ IsSaid(msgs'[i])
    BY <1>8 DEF Fresh, IsSaid, IsPersisted
  <2> QED
    BY <1>5, <2>1, SaidIsUtterance
<1>12. q \in Seq(Utterance)
  <2>1. q = [k \in 1..Cardinality(Q) |-> msgs'[Place(Q, k)]]
    BY DEF Kept, Place
  <2>2. \A k \in 1..Cardinality(Q) : msgs'[Place(Q, k)] \in Utterance
    BY <1>9, <1>11
  <2> HIDE DEF q
  <2> QED
    BY <1>9, <2>1, <2>2, IsASeq
<1>13. Ordered(q, DOMAIN q) /\ \A k \in DOMAIN q : After(log, q[k])
  <2> HIDE DEF q
  <2> QED
    BY <1>6, <1>8, <1>9 DEF Pending, Ordered
<1>14. /\ queue' \in Seq(Utterance) /\ Verbatim(queue') \subseteq Verbatim(msgs')
       /\ Ordered(queue', DOMAIN queue') /\ \A k \in DOMAIN queue' : After(log, queue'[k])
  <2> HIDE DEF q
  <2>1. CASE saved
    <3>1. queue' = q
      BY <1>2, <2>1 DEF q
    <3> QED
      BY <1>10, <1>12, <1>13, <3>1
  <2>2. CASE ~saved
    <3>1. queue' = <<>> /\ DOMAIN <<>> = {} /\ Verbatim(<<>>) = {} /\ <<>> \in Seq(Utterance)
      BY <1>2, <2>2, EmptyList, EmptySeq
    <3>2. Ordered(queue', DOMAIN queue') /\ \A k \in DOMAIN queue' : After(log, queue'[k])
      BY <3>1 DEF Ordered
    <3> QED
      BY <3>1, <3>2
  <2> QED
    BY <2>1, <2>2
<1> HIDE DEF q
<1>15. Types'
  <2>1. pc' \in {"idle", "save"} /\ saved' \in BOOLEAN /\ before' \in Nat
    BY <1>2
  <2> QED
    BY <1>1, <1>2, <1>5, <1>14, <2>1 DEF Types
<1>16. Numbered(AllSaid', said')
  <2>1. AllSaid' \in SUBSET AllSaid
    BY <1>2, <1>5, <1>14 DEF AllSaid
  <2>2. AllSaid \in SUBSET Utterance
    BY <1>1, AllUtterances
  <2>3. said <= said
    BY <1>1
  <2> QED
    BY <1>1, <1>2, <2>1, <2>2, <2>3, NumberedLess
<1>17. QueueFits'
  BY <1>2, <1>14 DEF QueueFits
<1>18. TurnFits'
  BY <1>2 DEF TurnFits
<1>19. ContextPaired'
  <2>1. LogWhole' = LogWhole
    BY <1>2 DEF LogWhole
  <2> QED
    BY <1>5, <2>1 DEF ContextPaired
<1> QED
  BY <1>1, <1>2, <1>15, <1>16, <1>17, <1>18, <1>19 DEF IInv

LEMMA PersistAgentHistoryStep ==
  ASSUME IInv, PersistAgentHistory
  PROVE  IInv'
<1>1. /\ Types /\ Ordered(log, SaidAt(log)) /\ Numbered(AllSaid, said) /\ QueueFits
      /\ ContextPaired /\ log \in Seq(Line) /\ written = Len(log) /\ said \in Nat
      /\ queue \in Seq(Utterance) /\ Len(queue) \in Nat /\ DOMAIN queue = 1..Len(queue)
  BY LenProperties DEF IInv, Types
<1>2. /\ pc = "save" /\ pc' = IF queue' = <<>> THEN "idle" ELSE "save"
      /\ UNCHANGED <<msgs, before, saved, said>>
  BY DEF PersistAgentHistory
<1>3. AllSaid \in SUBSET Utterance /\ \A i \in DOMAIN queue : queue[i] \in Verbatim(queue)
  BY <1>1, AllUtterances
<1>4. LogWhole = WholeLog(log) /\ LogWhole' = WholeLog(log')
  BY DEF LogWhole, WholeLog
<1>5. /\ log' \in Seq(Line) /\ written' = Len(log') /\ queue' \in Seq(Utterance)
      /\ Verbatim(log') \cup Verbatim(queue') \subseteq Verbatim(log) \cup Verbatim(queue)
      /\ Ordered(log', SaidAt(log')) /\ (LogWhole' => LogWhole)
      /\ Ordered(queue', DOMAIN queue') /\ \A i \in DOMAIN queue' : After(log', queue'[i])
  <2>1. CASE queue' = <<>> /\ UNCHANGED <<log, written>>
    <3>1. DOMAIN <<>> = {} /\ Verbatim(<<>>) = {} /\ <<>> \in Seq(Utterance)
      BY EmptyList, EmptySeq
    <3>2. Ordered(queue', DOMAIN queue') /\ \A i \in DOMAIN queue' : After(log', queue'[i])
      BY <2>1, <3>1 DEF Ordered
    <3> QED
      BY <1>1, <1>4, <2>1, <3>1, <3>2
  <2>2. CASE log' = Append(log, Head(queue)) /\ written' = written + 1 /\ queue' = Tail(queue)
    <3> DEFINE e == Head(queue)
    <3>1. queue # <<>>
      BY <1>1, <1>2 DEF QueueFits
    <3>2. /\ queue' \in Seq(Utterance) /\ Len(queue') = Len(queue) - 1 /\ Len(queue) > 0
          /\ \A i \in 1..Len(queue') : queue'[i] = queue[i + 1]
          /\ DOMAIN queue' = 1..Len(queue')
      <4>1. /\ Tail(queue) \in Seq(Utterance) /\ Len(Tail(queue)) = Len(queue) - 1
            /\ \A i \in 1..Len(Tail(queue)) : Tail(queue)[i] = queue[i + 1]
        BY <1>1, <3>1, HeadTailProperties
      <4>2. Len(queue) > 0
        BY <1>1, <3>1, EmptySeq
      <4> QED
        BY <2>2, <4>1, <4>2, LenProperties
    <3>3. e = queue[1] /\ 1 \in DOMAIN queue
      BY <1>1, <3>2
    <3> HIDE DEF e
    <3>4. e \in Utterance /\ e \in Line /\ IsSaid(e) /\ e \in Verbatim(queue) /\ After(log, e)
      <4>1. e \in Verbatim(queue) /\ After(log, e)
        BY <1>1, <1>3, <3>3 DEF QueueFits
      <4>2. e \in Utterance
        BY <1>3, <4>1 DEF AllSaid
      <4> QED
        BY <4>1, <4>2, Kinds DEF Line
    <3>5. log' = Append(log, e)
      BY <2>2 DEF e
    <3>6. /\ log' \in Seq(Line) /\ Len(log') = Len(log) + 1
      BY <1>1, <3>4, <3>5, AppendProperties
    <3>7. Verbatim(log') \subseteq Verbatim(log) \cup {e}
      BY <1>1, <3>4, <3>5, VerbatimOfAppend
    <3>8. Ordered(log', SaidAt(log'))
      BY <1>1, <3>4, <3>5, OrderOfAppend
    <3>9. LogWhole' => LogWhole
      BY <1>1, <1>4, <3>4, <3>5, WholeBefore
    <3>10. \A i \in DOMAIN queue' : /\ i + 1 \in DOMAIN queue /\ queue'[i] = queue[i + 1]
                                    /\ 1 < i + 1
      BY <1>1, <3>2
    <3>11. Verbatim(queue') \subseteq Verbatim(queue)
      BY <3>10 DEF Verbatim
    <3>12. Ordered(queue', DOMAIN queue')
      <4> SUFFICES ASSUME NEW i \in DOMAIN queue', NEW j \in DOMAIN queue', i < j
                   PROVE  Earlier(queue'[i], queue'[j])
        BY DEF Ordered
      <4>1. i + 1 < j + 1
        BY <3>2
      <4> QED
        BY <1>1, <3>10, <4>1 DEF QueueFits, Ordered
    <3>13. ASSUME NEW i \in DOMAIN queue' PROVE After(log', queue'[i])
      <4>1. After(log, queue[i + 1]) /\ Earlier(e, queue[i + 1])
        BY <1>1, <3>3, <3>10 DEF QueueFits, Ordered
      <4>2. After(log', queue[i + 1])
        BY <1>1, <3>4, <3>5, <4>1, AfterAppend
      <4> QED
        BY <3>10, <4>2
    <3> QED
      BY <1>1, <2>2, <3>2, <3>4, <3>6, <3>7, <3>8, <3>9, <3>11, <3>12, <3>13
  <2> QED
    BY <2>1, <2>2 DEF PersistAgentHistory
<1>6. Types'
  <2>1. pc' \in {"idle", "save"}
    BY <1>2
  <2> QED
    BY <1>1, <1>2, <1>5, <2>1 DEF Types
<1>7. Numbered(AllSaid', said')
  <2>1. AllSaid' \in SUBSET AllSaid
    BY <1>2, <1>5 DEF AllSaid
  <2>2. said <= said
    BY <1>1
  <2> QED
    BY <1>1, <1>2, <1>3, <2>1, <2>2, NumberedLess
<1>8. QueueFits'
  BY <1>2, <1>5 DEF QueueFits
<1>9. TurnFits'
  BY <1>2 DEF TurnFits
<1>10. ContextPaired'
  BY <1>1, <1>2, <1>5 DEF ContextPaired
<1> QED
  BY <1>5, <1>6, <1>7, <1>8, <1>9, <1>10 DEF IInv

LEMMA RestartStep ==
  ASSUME IInv, Restart
  PROVE  IInv'
<1>1. /\ Types /\ Ordered(log, SaidAt(log)) /\ Numbered(AllSaid, said)
      /\ log \in Seq(Line) /\ said \in Nat
  BY DEF IInv, Types
<1>2. /\ msgs' = LoadRuntime /\ written' = Len(log)
      /\ pc' = "idle" /\ before' = 0 /\ saved' = TRUE /\ queue' = <<>>
      /\ UNCHANGED <<log, said>>
  BY DEF Restart
<1>3. Matched(Verbatim(log))
  BY <1>1 DEF Numbered, Matched, AllSaid
<1>4. /\ LoadRuntime \in Seq(Text) /\ Verbatim(LoadRuntime) \subseteq Verbatim(log)
      /\ Answered(LoadRuntime) /\ (LogWhole => NoOrphans(LoadRuntime))
  BY <1>1, <1>3, LoadRuntimeFacts
<1>5. DOMAIN <<>> = {} /\ Verbatim(<<>>) = {} /\ <<>> \in Seq(Utterance)
  BY EmptyList, EmptySeq
<1>6. Types'
  <2>1. saved' \in BOOLEAN /\ before' \in Nat
    BY <1>2
  <2> QED
    BY <1>1, <1>2, <1>4, <1>5, <2>1 DEF Types
<1>7. Numbered(AllSaid', said')
  <2>1. AllSaid' \in SUBSET AllSaid
    BY <1>2, <1>4, <1>5 DEF AllSaid
  <2>2. AllSaid \in SUBSET Utterance /\ said <= said
    BY <1>1, AllUtterances
  <2> QED
    BY <1>1, <1>2, <2>1, <2>2, NumberedLess
<1>8. QueueFits'
  BY <1>2, <1>5 DEF QueueFits, Ordered
<1>9. TurnFits'
  BY <1>2 DEF TurnFits
<1>10. ContextPaired'
  <2>1. LogWhole' = LogWhole
    BY <1>2 DEF LogWhole
  <2> QED
    BY <1>2, <1>4, <2>1 DEF ContextPaired
<1> QED
  BY <1>1, <1>2, <1>6, <1>7, <1>8, <1>9, <1>10 DEF IInv

LEMMA InitIInv ==
  ASSUME Init
  PROVE  IInv
<1>1. /\ msgs = <<System>> /\ log = <<>> /\ written = 0
      /\ pc = "idle" /\ before = 0 /\ saved = TRUE /\ queue = <<>> /\ said = 0
  BY DEF Init
<1>2. System \in Text /\ System.kind = "system" /\ ~IsSaid(System)
  BY NoteFacts DEF System, IsSaid
<1>3. /\ <<System>> \in Seq(Text) /\ Answered(<<System>>)
      /\ NoOrphans(<<System>>) /\ Verbatim(<<System>>) = {}
  BY <1>2, OneMessage
<1>4. /\ DOMAIN <<>> = {} /\ Verbatim(<<>>) = {} /\ Len(<<>>) = 0
      /\ <<>> \in Seq(Utterance) /\ <<>> \in Seq(Line)
  BY EmptyList, EmptySeq
<1>5. Types
  <2>1. 0 \in 0..MaxSaid /\ saved \in BOOLEAN
    BY <1>1
  <2> QED
    BY <1>1, <1>3, <1>4, <2>1 DEF Types
<1>6. AllSaid = {}
  BY <1>1, <1>3, <1>4 DEF AllSaid
<1>7. Numbered(AllSaid, said)
  BY <1>6 DEF Numbered, Matched
<1>8. Ordered(log, SaidAt(log)) /\ QueueFits
  BY <1>1, <1>4 DEF Ordered, SaidAt, QueueFits
<1>9. TurnFits /\ ContextPaired
  BY <1>1, <1>3 DEF TurnFits, ContextPaired
<1> QED
  BY <1>5, <1>7, <1>8, <1>9 DEF IInv

\* The invariant holds in every state.
THEOREM InvHolds == Spec => []IInv
<1>1. Init => IInv
  BY InitIInv
<1>2. IInv /\ [Next]_vars => IInv'
  <2> SUFFICES ASSUME IInv, [Next]_vars PROVE IInv'
    OBVIOUS
  <2>1. CASE UNCHANGED vars
    <3>1. /\ Types /\ Ordered(log, SaidAt(log)) /\ Numbered(AllSaid, said) /\ QueueFits /\ TurnFits
          /\ ContextPaired
      BY DEF IInv
    <3>2. UNCHANGED <<msgs, log, written, pc, before, saved, queue, said>>
      BY <2>1 DEF vars
    <3>3. Types' /\ QueueFits' /\ TurnFits'
      BY <3>1, <3>2 DEF Types, QueueFits, TurnFits
    <3>4. Ordered(log', SaidAt(log')) /\ Numbered(AllSaid', said') /\ ContextPaired'
      BY <3>1, <3>2 DEF AllSaid, ContextPaired, LogWhole
    <3> QED
      BY <3>3, <3>4 DEF IInv
  <2>2. CASE Next
    BY <2>2, StartTurnStep, PrepareRoundStep, NudgeStep, CallModelStep, CompressToolStep,
       TurnFailsStep, EndTurnStep, PersistAgentHistoryStep, ManualCompactStep, RestartStep
       DEF Next, TurnStep
  <2> QED
    BY <2>1, <2>2
<1> QED
  BY <1>1, <1>2, PTL DEF Spec

\* The history file holds every message at most once and in the order it was
\* said (Store.Append as persistAgentHistory and runUserTurn call it), for any
\* compactions, failing writes and restarts.
THEOREM LogInOrderHolds == Spec => []LogInOrder
<1>1. IInv => LogInOrder
  <2> SUFFICES ASSUME IInv PROVE LogInOrder
    OBVIOUS
  <2>1. /\ Types /\ Ordered(log, SaidAt(log)) /\ msgs \in Seq(Text) /\ log \in Seq(Line)
    BY DEF IInv, Types
  <2>2. /\ \A i \in DOMAIN msgs : IsMessage(msgs[i])
        /\ \A i \in DOMAIN log : IsEntry(log[i])
    BY <2>1, Kinds, ElementOfSeq, LenProperties
  <2>3. \A i \in DOMAIN queue : queue[i] \in Message
    BY <2>1, AllUtterances, Kinds
  <2>4. TypeOK
    BY <2>1, <2>2, <2>3 DEF TypeOK, Types
  <2>5. \A i, j \in DOMAIN log :
          i < j /\ IsSaid(log[i]) /\ IsSaid(log[j]) => Earlier(log[i], log[j])
    BY <2>1 DEF Ordered, SaidAt
  <2> QED
    BY <2>4, <2>5 DEF LogInOrder
<1> QED
  BY <1>1, InvHolds, PTL

\* No list that AutoCompact, trimDanglingToolCalls or a turn leaves behind has a
\* call without its results behind it, nor a result without its call where the
\* history file has them both.
THEOREM ContextPairedHolds == Spec => []ContextPaired
<1>1. IInv => ContextPaired
  BY DEF IInv
<1> QED
  BY <1>1, InvHolds, PTL
=============================================================================
