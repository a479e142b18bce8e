--------------------------- MODULE GatewayProofs ---------------------------
(***************************************************************************)
(* Proofs about Gateway for any set of callers, any providers, chains of   *)
(* fallbacks, buckets and number of retries.                               *)
(*                                                                         *)
(* Callers share nothing but the buckets.  The invariant is therefore a    *)
(* predicate on what one caller owns (its context, station, locals,        *)
(* messages and what its user saw), stated of five values, and one on the  *)
(* buckets: they hold exactly the callers in an attempt.                   *)
(***************************************************************************)
EXTENDS Gateway, TLAPS, FiniteSetTheorems, WellFoundedInduction

USE GatewayAssumption

Marks == (Range(InstanceID) \ {NoInstance}) \X Models
CallType == [req : AllRequests, idx : Nat, attempt : 0..MaxRetries,
             bucket : Buckets \cup {NoBucket}, emitted : BOOLEAN,
             err : {"none", "transient", "permanent"}, sent : SUBSET (Range(InstanceID) \X Models)]
ScreenType == SUBSET (Nat \X Nat)
SeenType == [shown : ScreenType, thought : Nat \X Nat, done : Nat, late : Nat]

\* The five values of a caller: context x, station p, locals l, messages k, history s.
Typed(x, p, l, k, s) ==
  /\ x \in {"live", "canceled"} /\ p \in Stations /\ l \in CallType
  /\ k \in SUBSET Marks /\ s \in SeenType
  /\ l.idx \in 1..Len(Chain(l.req.role))

ProviderOf(l) == Chain(l.req.role)[l.idx]

\* A call under way has a usable provider, from Acquire on a bucket, and in a backoff a
\* retry left.
Served(p, l) ==
  /\ p # "idle" => Eligible(ProviderOf(l), l.req.structured)
  /\ p = "backoff" => l.attempt < MaxRetries
  /\ p \in {"acquire", "attempt"} => l.bucket # NoBucket

Before(t, l) == t[1] < l.idx \/ (t[1] = l.idx /\ t[2] < l.attempt)

\* The next attempt starts from a blank screen: what was shown is this attempt's, and
\* the sink knows of it.
Screened(p, l, s) ==
  /\ s.shown \subseteq {<<l.idx, l.attempt>>}
  /\ ~l.emitted /\ p # "returned" => s.shown = {}
  /\ p \in {"idle", "bucket", "create", "acquire", "backoff"} => ~l.emitted
  /\ ~l.req.stream => s.shown = {}
  /\ p = "returned" /\ s.shown # {} => s.done = 1
  /\ s.done <= (IF p = "returned" THEN 1 ELSE 0)

\* Thinking comes from the attempts so far, none of it before the call.
Thinking(p, l, s) ==
  /\ s.thought = <<l.idx, l.attempt>> \/ Before(s.thought, l)
  /\ p = "idle" => s.thought = NoAttempt

\* An attempt begun after the cancellation is the last one.
Stopped(x, p, s) ==
  /\ s.late <= 1
  /\ s.late = 1 => x = "canceled" /\ p \in {"attempt", "classify", "returned"}

\* During an attempt the request carries the provider's own state and no other.
Filtered(p, l, k) == p = "attempt" => l.sent = Prepared(ProviderOf(l), l.req.model, k)

CallerOK(x, p, l, k, s) ==
  /\ Typed(x, p, l, k, s) /\ Served(p, l) /\ Screened(p, l, s) /\ Thinking(p, l, s)
  /\ Stopped(x, p, s) /\ Filtered(p, l, k)

CallersOK ==
  /\ ctx \in [Callers -> {"live", "canceled"}] /\ pc \in [Callers -> Stations]
  /\ call \in [Callers -> CallType] /\ carried \in [Callers -> SUBSET Marks]
  /\ seen \in [Callers -> SeenType]
  /\ \A c \in Callers : CallerOK(ctx[c], pc[c], call[c], carried[c], seen[c])

HoldersOf(b) == {c \in Callers : pc[c] = "attempt" /\ call[c].bucket = b}
SlotsOK ==
  /\ slots \in [Buckets -> SUBSET Callers]
  /\ \A b \in Buckets : slots[b] = HoldersOf(b) /\ Cardinality(slots[b]) <= Capacity(b)
DefaultOK == default \in Callers \cup {NoBucket}

Inv == CallersOK /\ SlotsOK /\ DefaultOK

-----------------------------------------------------------------------------
(* Chains, buckets and what a provider is sent. *)

LEMMA ChainType ==
  ASSUME NEW r \in AllRequests
  PROVE  Chain(r.role) \in Seq(Providers \cup {NoProvider}) /\ Len(Chain(r.role)) >= 1
<1>1. ProviderFor(r.role) \in Providers \cup {NoProvider}
  BY DEF ProviderFor
<1>2. CASE r.role \in DOMAIN Fallbacks
  BY <1>1, <1>2 DEF Chain
<1>3. CASE r.role \notin DOMAIN Fallbacks
  BY <1>1, <1>3 DEF Chain
<1> QED
  BY <1>2, <1>3

LEMMA RequestType ==
  ASSUME NEW c \in Callers, NEW r \in Requests[c]
  PROVE  r \in AllRequests
  BY DEF AllRequests

\* A set of natural numbers that is not empty has a least element.
LEMMA LeastNat ==
  ASSUME NEW S \in SUBSET Nat, S # {}
  PROVE  \E n \in S : \A j \in S : n <= j
<1> DEFINE R == OpToRel(<, Nat)
<1>1. \A p, q \in Nat : p < q => <<p, q>> \in R
  BY DEF OpToRel
<1>2. \E x \in S : \A y \in S : <<y, x>> \notin R
  <2> HIDE DEF R
  <2> QED
    BY NatLessThanWellFounded, WFMin DEF R
<1> HIDE DEF R
<1>3. PICK n \in S : \A j \in S : <<j, n>> \notin R
  BY <1>2
<1>4. \A j \in S : j \in Nat /\ n \in Nat /\ ~(j < n)
  BY <1>1, <1>3
<1> QED
  BY <1>3, <1>4

\* The next provider is none, or a usable one of the chain from start on.
LEMMA NextEligibleFits ==
  ASSUME NEW r \in AllRequests, NEW start \in Nat \ {0}, NextEligible(r, start) # 0
  PROVE  /\ NextEligible(r, start) \in start..Len(Chain(r.role))
         /\ Eligible(Chain(r.role)[NextEligible(r, start)], r.structured)
<1> DEFINE ok == {i \in start..Len(Chain(r.role)) : Eligible(Chain(r.role)[i], r.structured)}
<1>1. NextEligible(r, start) = IF ok = {} THEN 0 ELSE CHOOSE i \in ok : \A j \in ok : i <= j
  BY DEF NextEligible
<1>2. ok # {}
  BY <1>1
<1>3. ok \in SUBSET Nat
  BY ChainType
<1>4. NextEligible(r, start) \in ok
  <2> HIDE DEF ok
  <2> QED
    BY <1>1, <1>2, <1>3, LeastNat
<1> QED
  BY <1>4

LEMMA ModelType == \A r \in AllRequests : r.model \in Models
  BY DEF Models

\* What an attempt leaves behind.
LEMMA FinishedType ==
  ASSUME NEW l \in CallType
  PROVE  /\ Finished(l) \in CallType /\ Finished(l).req = l.req /\ Finished(l).idx = l.idx
         /\ Finished(l).attempt = l.attempt /\ Finished(l).emitted = l.emitted
  BY DEF CallType, Finished

LEMMA IdleType == Idle \in CallType /\ Idle.idx \in 1..Len(Chain(Idle.req.role))
<1>1. (CHOOSE r \in AllRequests : TRUE) \in AllRequests
  OBVIOUS
<1> QED
  BY <1>1, ChainType DEF Idle, CallType

LEMMA UnseenThinking == Thinking("idle", Idle, Unseen)
<1>1. Idle.idx \in Nat \ {0}
  BY IdleType, ChainType DEF CallType
<1>2. Unseen.thought = NoAttempt
  BY DEF Unseen
<1> QED
  BY <1>1, <1>2 DEF Thinking, Before, NoAttempt

\* Thinking looks only at the attempt and at what was shown.
LEMMA ThinkingStays ==
  ASSUME NEW p, NEW q, NEW l, NEW m, NEW s, NEW u, Thinking(p, l, s), q # "idle",
         m.idx = l.idx, m.attempt = l.attempt, u.thought = s.thought
  PROVE  Thinking(q, m, u)
  BY DEF Thinking, Before

LEMMA CapacityType == \A b \in Buckets : Capacity(b) \in Nat
  BY DEF Capacity, Buckets, KnownRoles, Share

LEMMA ProviderType ==
  ASSUME NEW l \in CallType, l.idx \in 1..Len(Chain(l.req.role)),
         NEW structured, Eligible(ProviderOf(l), structured)
  PROVE  ProviderOf(l) \in Providers
  BY ChainType DEF CallType, ProviderOf, Eligible

LEMMA PreparedFits ==
  ASSUME NEW p \in Providers, NEW m \in Models, NEW k \in SUBSET Marks
  PROVE  /\ Prepared(p, m, k) \in SUBSET (Range(InstanceID) \X Models)
         /\ Prepared(p, m, k) = {s \in k : p \in Reasons /\ s = <<InstanceID[p], m>>}
  BY DEF Prepared, Marks

LEMMA ContinuationFits ==
  ASSUME NEW p \in Providers, NEW m \in Models PROVE Continuation(p, m) \in SUBSET Marks
  BY DEF Continuation, Marks, Range

-----------------------------------------------------------------------------
LEMMA InvImplies ==
  Inv => SlotsMatchAttempts /\ ShownIsTheAnswer /\ CanceledStops /\ OpaqueStateStaysHome
<1> SUFFICES ASSUME Inv
             PROVE  SlotsMatchAttempts /\ ShownIsTheAnswer /\ CanceledStops
                      /\ OpaqueStateStaysHome
  OBVIOUS
<1>1. TypeOK
  BY DEF Inv, CallersOK, CallerOK, Typed, SlotsOK, DefaultOK, CallType, TypeOK
<1>2. SlotsMatchAttempts
  BY <1>1 DEF Inv, SlotsOK, HoldersOf, SlotsMatchAttempts
<1>3. ShownIsTheAnswer
  BY DEF Inv, CallersOK, CallerOK, Typed, SeenType, Screened, Thinking, Before, Earlier,
         ShownIsTheAnswer, Here
<1>4. CanceledStops
  BY DEF Inv, CallersOK, CallerOK, Stopped, CanceledStops
<1>5. OpaqueStateStaysHome
  <2> SUFFICES ASSUME NEW c \in Callers, pc[c] = "attempt"
               PROVE  call[c].sent = {s \in carried[c] : Provider(c) \in Reasons
                        /\ s = <<InstanceID[Provider(c)], call[c].req.model>>}
    BY DEF OpaqueStateStaysHome
  <2>1. /\ call[c] \in CallType /\ call[c].idx \in 1..Len(Chain(call[c].req.role))
        /\ Eligible(ProviderOf(call[c]), call[c].req.structured)
        /\ carried[c] \in SUBSET Marks
        /\ call[c].sent = Prepared(ProviderOf(call[c]), call[c].req.model, carried[c])
        /\ call[c].req.model \in Models
    BY ModelType DEF Inv, CallersOK, CallerOK, Typed, Served, Filtered, CallType
  <2>2. ProviderOf(call[c]) = Provider(c)
    BY DEF ProviderOf, Provider
  <2> QED
    BY <2>1, <2>2, ProviderType, PreparedFits
<1> QED
  BY <1>2, <1>3, <1>4, <1>5

-----------------------------------------------------------------------------
(* What a step of one caller does to its own values, and to the buckets. *)

Becomes(c, x, p, l, k, s) ==
  /\ ctx' = [ctx EXCEPT ![c] = x] /\ pc' = [pc EXCEPT ![c] = p]
  /\ call' = [call EXCEPT ![c] = l] /\ carried' = [carried EXCEPT ![c] = k]
  /\ seen' = [seen EXCEPT ![c] = s]

LEMMA CallersMove ==
  ASSUME CallersOK, NEW c \in Callers, NEW x, NEW p, NEW l, NEW k, NEW s,
         Becomes(c, x, p, l, k, s), CallerOK(x, p, l, k, s)
  PROVE  CallersOK'
<1>1. /\ x \in {"live", "canceled"} /\ p \in Stations /\ l \in CallType
      /\ k \in SUBSET Marks /\ s \in SeenType
  BY DEF CallerOK, Typed
<1>2. /\ ctx' \in [Callers -> {"live", "canceled"}] /\ pc' \in [Callers -> Stations]
      /\ call' \in [Callers -> CallType] /\ carried' \in [Callers -> SUBSET Marks]
      /\ seen' \in [Callers -> SeenType]
  BY <1>1 DEF CallersOK, Becomes
<1>3. ASSUME NEW d \in Callers
      PROVE  CallerOK(ctx'[d], pc'[d], call'[d], carried'[d], seen'[d])
  <2>1. CASE d = c
    <3>1. ctx'[d] = x /\ pc'[d] = p /\ call'[d] = l /\ carried'[d] = k /\ seen'[d] = s
      BY <2>1 DEF CallersOK, Becomes
    <3> QED
      BY <3>1
  <2>2. CASE d # c
    <3>1. /\ ctx'[d] = ctx[d] /\ pc'[d] = pc[d] /\ call'[d] = call[d]
          /\ carried'[d] = carried[d] /\ seen'[d] = seen[d]
      BY <2>2 DEF CallersOK, Becomes
    <3>2. CallerOK(ctx[d], pc[d], call[d], carried[d], seen[d])
      BY DEF CallersOK
    <3> QED
      BY <3>1, <3>2
  <2> QED
    BY <2>1, <2>2
<1> QED
  BY <1>2, <1>3 DEF CallersOK

\* Where a caller is, and with which bucket, decides which bucket it is in.
LEMMA HoldersMove ==
  ASSUME CallersOK, NEW c \in Callers, NEW x, NEW p, NEW l, NEW k, NEW s,
         Becomes(c, x, p, l, k, s), NEW b \in Buckets
  PROVE  HoldersOf(b)' = {d \in Callers : IF d = c THEN p = "attempt" /\ l.bucket = b
                                          ELSE d \in HoldersOf(b)}
  BY DEF CallersOK, Becomes, HoldersOf

LEMMA SlotsStay ==
  ASSUME CallersOK, SlotsOK, NEW c \in Callers, NEW x, NEW p, NEW l, NEW k, NEW s,
         Becomes(c, x, p, l, k, s), slots' = slots,
         IF pc[c] = "attempt" THEN p = "attempt" /\ l.bucket = call[c].bucket
         ELSE p # "attempt"
  PROVE  SlotsOK'
<1>1. ASSUME NEW b \in Buckets PROVE HoldersOf(b)' = HoldersOf(b)
  BY HoldersMove DEF HoldersOf
<1> QED
  BY <1>1 DEF SlotsOK

LEMMA SlotTaken ==
  ASSUME CallersOK, SlotsOK, NEW c \in Callers, NEW x, NEW p, NEW l, NEW k, NEW s,
         Becomes(c, x, p, l, k, s), pc[c] # "attempt", p = "attempt", l.bucket \in Buckets,
         Cardinality(slots[l.bucket]) < Capacity(l.bucket),
         slots' = [slots EXCEPT ![l.bucket] = @ \cup {c}]
  PROVE  SlotsOK'
<1>1. slots' \in [Buckets -> SUBSET Callers]
  BY DEF SlotsOK
<1>2. ASSUME NEW b \in Buckets
      PROVE  slots'[b] = HoldersOf(b)' /\ Cardinality(slots'[b]) <= Capacity(b)
  <2>1. CASE b = l.bucket
    <3>1. slots'[b] = slots[b] \cup {c} /\ slots[b] = HoldersOf(b) /\ c \notin slots[b]
      BY <2>1 DEF SlotsOK, HoldersOf
    <3>2. IsFiniteSet(slots[b])
      BY FS_Subset DEF SlotsOK
    <3>3. Cardinality(slots'[b]) = Cardinality(slots[b]) + 1 /\ Cardinality(slots[b]) \in Nat
      BY <3>1, <3>2, FS_AddElement, FS_CardinalityType
    <3>4. HoldersOf(b)' = HoldersOf(b) \cup {c}
      BY <2>1, HoldersMove DEF HoldersOf
    <3> QED
      BY <2>1, <3>1, <3>3, <3>4, CapacityType
  <2>2. CASE b # l.bucket
    <3>1. slots'[b] = slots[b]
      BY <2>2 DEF SlotsOK
    <3>2. HoldersOf(b)' = HoldersOf(b)
      BY <2>2, HoldersMove DEF HoldersOf
    <3> QED
      BY <3>1, <3>2 DEF SlotsOK
  <2> QED
    BY <2>1, <2>2
<1> QED
  BY <1>1, <1>2 DEF SlotsOK

LEMMA SlotReturned ==
  ASSUME CallersOK, SlotsOK, NEW c \in Callers, NEW x, NEW p, NEW l, NEW k, NEW s,
         Becomes(c, x, p, l, k, s), pc[c] = "attempt", p # "attempt", Release(c)
  PROVE  SlotsOK'
<1>1. slots' \in [Buckets -> SUBSET Callers]
  BY DEF SlotsOK, Release
<1>2. ASSUME NEW b \in Buckets
      PROVE  slots'[b] = HoldersOf(b)' /\ Cardinality(slots'[b]) <= Capacity(b)
  <2>1. HoldersOf(b)' = HoldersOf(b) \ {c}
    BY HoldersMove DEF HoldersOf
  <2>2. slots'[b] = HoldersOf(b) \ {c} /\ slots[b] = HoldersOf(b)
    <3>1. CASE b = call[c].bucket
      BY <3>1 DEF SlotsOK, Release
    <3>2. CASE b # call[c].bucket
      BY <3>2 DEF SlotsOK, Release, HoldersOf
    <3> QED
      BY <3>1, <3>2
  <2>3. Cardinality(slots'[b]) <= Cardinality(slots[b]) /\ Cardinality(slots[b]) \in Nat
        /\ Cardinality(slots'[b]) \in Nat
    <3>1. slots'[b] \subseteq slots[b] /\ slots[b] \subseteq Callers
      BY <2>2 DEF HoldersOf
    <3> QED
      BY <3>1, FS_Subset, FS_CardinalityType
  <2>4. Cardinality(slots[b]) <= Capacity(b)
    BY DEF SlotsOK
  <2> QED
    BY <2>1, <2>2, <2>3, <2>4, CapacityType
<1> QED
  BY <1>1, <1>2 DEF SlotsOK

\* Only CreateBucket sets the default bucket.
LEMMA DefaultStays == ASSUME DefaultOK, UNCHANGED default PROVE DefaultOK'
  BY DEF DefaultOK

\* A step that touches neither the caller's messages nor its slot.
LEMMA LocalStep ==
  ASSUME Inv, NEW c \in Callers, NEW x, NEW p, NEW l, NEW s,
         Becomes(c, x, p, l, carried[c], s), slots' = slots, default' = default,
         pc[c] # "attempt", p # "attempt", CallerOK(x, p, l, carried[c], s)
  PROVE  Inv'
  BY CallersMove, SlotsStay, DefaultStays DEF Inv

\* One that only moves the caller on.
LEMMA MoveOn ==
  ASSUME Inv, NEW c \in Callers, NEW p, Goto(c, p),
         UNCHANGED <<ctx, call, slots, default, carried, seen>>,
         pc[c] # "attempt", p # "attempt",
         CallerOK(ctx[c], p, call[c], carried[c], seen[c])
  PROVE  Inv'
<1>1. Becomes(c, ctx[c], p, call[c], carried[c], seen[c])
  BY DEF Inv, CallersOK, Becomes, Goto
<1> QED
  BY <1>1, LocalStep

-----------------------------------------------------------------------------
(* The actions. *)

LEMMA BeginKeeps ==
  ASSUME Inv, NEW c \in Callers, NEW r \in Requests[c], Begin(c, r)
  PROVE  Inv'
<1> DEFINE n == NextEligible(r, 1)
           l == [call[c] EXCEPT !.req = r, !.idx = n]
<1>1. CallerOK(ctx[c], pc[c], call[c], carried[c], seen[c]) /\ pc[c] = "idle"
  BY DEF Inv, CallersOK, Begin
<1>2. /\ r \in AllRequests /\ n \in 1..Len(Chain(r.role))
      /\ Eligible(Chain(r.role)[n], r.structured)
  BY RequestType, NextEligibleFits DEF Begin
<1>3. Becomes(c, ctx[c], "bucket", l, carried[c], seen[c])
  BY DEF Inv, CallersOK, Begin, Becomes, Goto
<1>4. /\ l \in CallType /\ l.req = r /\ l.idx = n
      /\ l.emitted = call[c].emitted /\ l.attempt = call[c].attempt
  <2>1. n \in Nat /\ r \in AllRequests /\ call[c] \in CallType
    BY <1>1, <1>2, ChainType DEF CallerOK, Typed
  <2> HIDE DEF n
  <2> QED
    BY <2>1 DEF CallType
<1> HIDE DEF l, n
<1>5. CallerOK(ctx[c], "bucket", l, carried[c], seen[c])
  <2>1. Typed(ctx[c], "bucket", l, carried[c], seen[c])
    BY <1>1, <1>2, <1>4 DEF CallerOK, Typed, Stations
  <2>2. Served("bucket", l)
    BY <1>2, <1>4 DEF Served, ProviderOf
  <2>3. ~call[c].emitted /\ seen[c].shown = {}
    BY <1>1 DEF CallerOK, Screened
  <2>4. Screened("bucket", l, seen[c])
    BY <1>1, <1>4, <2>3 DEF CallerOK, Screened
  <2>5. Stopped(ctx[c], "bucket", seen[c])
    BY <1>1 DEF CallerOK, Stopped
  <2>6. Thinking("bucket", l, seen[c])
    BY <1>1, <1>2, <1>4, ChainType DEF CallerOK, Thinking, Before, NoAttempt
  <2> QED
    BY <2>1, <2>2, <2>4, <2>5, <2>6 DEF CallerOK, Filtered
<1> QED
  BY <1>1, <1>3, <1>5, LocalStep DEF Begin

LEMMA CancelKeeps ==
  ASSUME Inv, NEW c \in Callers, Cancel(c) PROVE Inv'
<1>1. CallerOK(ctx[c], pc[c], call[c], carried[c], seen[c]) /\ ctx[c] = "live"
  BY DEF Inv, CallersOK, Cancel
<1>2. Becomes(c, "canceled", pc[c], call[c], carried[c], seen[c])
  BY DEF Inv, CallersOK, Cancel, Becomes
<1>3. CallerOK("canceled", pc[c], call[c], carried[c], seen[c])
  BY <1>1 DEF CallerOK, Typed, Stopped
<1> QED
  BY <1>2, <1>3, CallersMove, SlotsStay, DefaultStays DEF Inv, Cancel

LEMMA LeaveKeeps ==
  ASSUME Inv, NEW c \in Callers, Leave(c) PROVE Inv'
<1>1. CallerOK(ctx[c], pc[c], call[c], carried[c], seen[c]) /\ pc[c] = "returned"
  BY DEF Inv, CallersOK, Leave
<1>2. Becomes(c, "live", "idle", Idle, carried[c], Unseen)
  BY DEF Inv, CallersOK, Leave, Becomes, Goto
<1>3. CallerOK("live", "idle", Idle, carried[c], Unseen)
  <2>1. ~Idle.emitted /\ Unseen \in SeenType
        /\ Unseen.shown = {} /\ Unseen.done = 0 /\ Unseen.late = 0
    BY DEF Idle, Unseen, SeenType, ScreenType, NoAttempt
  <2>2. Typed("live", "idle", Idle, carried[c], Unseen)
    BY <1>1, <2>1, IdleType DEF CallerOK, Typed, Stations
  <2>3. Screened("idle", Idle, Unseen) /\ Stopped("live", "idle", Unseen)
    BY <2>1 DEF Screened, Stopped
  <2>4. Thinking("idle", Idle, Unseen)
    BY UnseenThinking
  <2> QED
    BY <2>2, <2>3, <2>4 DEF CallerOK, Served, Filtered
<1> QED
  BY <1>1, <1>2, <1>3, LocalStep DEF Leave

LEMMA FindBucketKeeps ==
  ASSUME Inv, NEW c \in Callers, FindBucket(c) PROVE Inv'
<1> DEFINE role == call[c].req.role
           found == IF role \in KnownRoles THEN role ELSE default
           p == IF found = NoBucket THEN "create" ELSE "acquire"
           l == [call[c] EXCEPT !.bucket = found]
<1>1. CallerOK(ctx[c], pc[c], call[c], carried[c], seen[c]) /\ pc[c] = "bucket"
  BY DEF Inv, CallersOK, FindBucket
<1>2. found \in Buckets \cup {NoBucket}
  BY DEF Inv, DefaultOK, Buckets
<1>3. Becomes(c, ctx[c], p, l, carried[c], seen[c])
  BY DEF Inv, CallersOK, FindBucket, Becomes, Goto
<1>4. /\ l \in CallType /\ l.bucket = found /\ l.req = call[c].req /\ l.idx = call[c].idx
      /\ l.attempt = call[c].attempt /\ l.emitted = call[c].emitted
  BY <1>1, <1>2 DEF CallerOK, Typed, CallType
<1>5. p \in {"create", "acquire"} /\ (p = "acquire" => found # NoBucket)
  OBVIOUS
<1> HIDE DEF role, found, p, l
<1>6. CallerOK(ctx[c], p, l, carried[c], seen[c])
  BY <1>1, <1>4, <1>5
     DEF CallerOK, Typed, Served, Screened, Thinking, Before, Stopped, Filtered, Stations,
         ProviderOf
<1> QED
  BY <1>1, <1>3, <1>5, <1>6, LocalStep DEF FindBucket

LEMMA CreateBucketKeeps ==
  ASSUME Inv, NEW c \in Callers, CreateBucket(c) PROVE Inv'
<1> DEFINE l == [call[c] EXCEPT !.bucket = c]
<1>1. CallerOK(ctx[c], pc[c], call[c], carried[c], seen[c]) /\ pc[c] = "create"
  BY DEF Inv, CallersOK, CreateBucket
<1>2. Becomes(c, ctx[c], "acquire", l, carried[c], seen[c])
  BY DEF Inv, CallersOK, CreateBucket, Becomes, Goto
<1>3. /\ l \in CallType /\ l.bucket = c /\ l.req = call[c].req /\ l.idx = call[c].idx
      /\ l.attempt = call[c].attempt /\ l.emitted = call[c].emitted
  BY <1>1 DEF CallerOK, Typed, CallType, Buckets
<1> HIDE DEF l
<1>4. CallerOK(ctx[c], "acquire", l, carried[c], seen[c])
  BY <1>1, <1>3
     DEF CallerOK, Typed, Served, Screened, Thinking, Before, Stopped, Filtered, Stations,
         ProviderOf
<1>5. DefaultOK'
  BY DEF DefaultOK, CreateBucket
<1> QED
  BY <1>1, <1>2, <1>4, <1>5, CallersMove, SlotsStay DEF Inv, CreateBucket

LEMMA AcquireKeeps ==
  ASSUME Inv, NEW c \in Callers, Acquire(c) PROVE Inv'
<1> DEFINE l == [call[c] EXCEPT !.sent = Prepared(Provider(c), call[c].req.model, carried[c])]
           n == IF ctx[c] = "live" THEN seen[c].late ELSE seen[c].late + 1
           s == [seen[c] EXCEPT !.late = n]
<1>1. CallerOK(ctx[c], pc[c], call[c], carried[c], seen[c]) /\ pc[c] = "acquire"
  BY DEF Inv, CallersOK, Acquire
<1>2. Becomes(c, ctx[c], "attempt", l, carried[c], s)
  BY DEF Inv, CallersOK, Acquire, Becomes, Goto
<1>3. Provider(c) = ProviderOf(call[c]) /\ ProviderOf(call[c]) \in Providers
  BY <1>1, ProviderType DEF CallerOK, Typed, Served, ProviderOf, Provider
<1>4. Prepared(Provider(c), call[c].req.model, carried[c])
        \in SUBSET (Range(InstanceID) \X Models)
  BY <1>1, <1>3, PreparedFits, ModelType DEF CallerOK, Typed, CallType
<1>5. /\ l \in CallType /\ l.req = call[c].req /\ l.idx = call[c].idx
      /\ l.attempt = call[c].attempt /\ l.emitted = call[c].emitted
      /\ l.bucket = call[c].bucket /\ l.sent = Prepared(Provider(c), l.req.model, carried[c])
  BY <1>1, <1>4 DEF CallerOK, Typed, CallType
<1>6. n \in {0, 1} /\ (n = 1 => ctx[c] = "canceled")
  BY <1>1 DEF CallerOK, Typed, Stopped, SeenType
<1> HIDE DEF l, n
<1>7. /\ s \in SeenType /\ s.late = n /\ s.shown = seen[c].shown /\ s.done = seen[c].done
      /\ s.thought = seen[c].thought
  BY <1>1, <1>6 DEF CallerOK, Typed, SeenType
<1> HIDE DEF s
<1>8. CallerOK(ctx[c], "attempt", l, carried[c], s)
  <2>1. Typed(ctx[c], "attempt", l, carried[c], s) /\ Served("attempt", l)
    BY <1>1, <1>5, <1>7 DEF CallerOK, Typed, Served, Stations, ProviderOf
  <2>2. Screened("attempt", l, s) /\ Stopped(ctx[c], "attempt", s)
    BY <1>1, <1>5, <1>6, <1>7 DEF CallerOK, Screened, Stopped
  <2>3. Filtered("attempt", l, carried[c])
    BY <1>3, <1>5 DEF Filtered, ProviderOf
  <2>4. Thinking("attempt", l, s)
    BY <1>1, <1>5, <1>7, ThinkingStays DEF CallerOK
  <2> QED
    BY <2>1, <2>2, <2>3, <2>4 DEF CallerOK
<1>9. l.bucket \in Buckets
  BY <1>1, <1>5 DEF CallerOK, Served, Typed, CallType
<1>10. SlotsOK'
  BY <1>1, <1>2, <1>5, <1>9, SlotTaken DEF Inv, Acquire
<1> QED
  BY <1>2, <1>8, <1>10, CallersMove, DefaultStays DEF Inv, Acquire

\* Text on the screen belongs to the attempt that runs.
LEMMA TextDeltaKeeps ==
  ASSUME Inv, NEW c \in Callers, TextDelta(c) PROVE Inv'
<1>1. CallerOK(ctx[c], pc[c], call[c], carried[c], seen[c]) /\ pc[c] = "attempt"
  BY DEF Inv, CallersOK, TextDelta
<1>2. ASSUME NEW e \in BOOLEAN
      PROVE  LET l == [call[c] EXCEPT !.emitted = e]
             IN /\ l \in CallType /\ l.req = call[c].req /\ l.idx = call[c].idx
                /\ l.attempt = call[c].attempt /\ l.emitted = e
                /\ l.bucket = call[c].bucket /\ l.sent = call[c].sent
  BY <1>1 DEF CallerOK, Typed, CallType
<1> DEFINE l == [call[c] EXCEPT !.emitted = TRUE]
           s == [seen[c] EXCEPT !.shown = @ \cup {Here(c)}]
<1>3. /\ l \in CallType /\ l.req = call[c].req /\ l.idx = call[c].idx
      /\ l.attempt = call[c].attempt /\ l.emitted
      /\ l.bucket = call[c].bucket /\ l.sent = call[c].sent
  <2>1. TRUE \in BOOLEAN
    OBVIOUS
  <2> QED
    BY ONLY <1>2, <2>1, Zenon
<1>4. Becomes(c, ctx[c], pc[c], l, carried[c], s)
  <2>1. seen' = [seen EXCEPT ![c] = s] /\ call' = [call EXCEPT ![c] = l]
    BY Zenon DEF TextDelta
  <2> HIDE DEF l, s
  <2> QED
    BY <2>1 DEF Inv, CallersOK, TextDelta, Becomes
<1> HIDE DEF l
<1>5. /\ s \in SeenType /\ s.shown = seen[c].shown \cup {Here(c)}
      /\ s.done = seen[c].done /\ s.late = seen[c].late /\ s.thought = seen[c].thought
  <2>1. Here(c) \in Nat \X Nat
    BY <1>1 DEF CallerOK, Typed, CallType, Here
  <2> QED
    BY <1>1, <2>1 DEF CallerOK, Typed, SeenType, ScreenType
<1> HIDE DEF s
<1>6. CallerOK(ctx[c], pc[c], l, carried[c], s)
  <2>1. Typed(ctx[c], pc[c], l, carried[c], s) /\ Served(pc[c], l)
    BY <1>1, <1>3, <1>5 DEF CallerOK, Typed, Served, ProviderOf
  <2>2. Screened(pc[c], l, s)
    <3>1. s.shown \subseteq {<<l.idx, l.attempt>>} /\ l.req.stream
      BY <1>1, <1>3, <1>5 DEF CallerOK, Screened, Here, TextDelta
    <3> QED
      BY <1>1, <1>3, <1>5, <3>1 DEF CallerOK, Screened
  <2>3. Stopped(ctx[c], pc[c], s) /\ Filtered(pc[c], l, carried[c])
    BY <1>1, <1>3, <1>5 DEF CallerOK, Stopped, Filtered, ProviderOf
  <2>4. Thinking(pc[c], l, s)
    BY <1>1, <1>3, <1>5, ThinkingStays DEF CallerOK
  <2> QED
    BY <2>1, <2>2, <2>3, <2>4 DEF CallerOK
<1>7. SlotsOK'
  BY <1>1, <1>3, <1>4, SlotsStay DEF Inv, TextDelta
<1> QED
  BY <1>4, <1>6, <1>7, CallersMove, DefaultStays DEF Inv, TextDelta

\* Thinking on the screen changes nothing else.
LEMMA ReasoningDeltaKeeps ==
  ASSUME Inv, NEW c \in Callers, ReasoningDelta(c) PROVE Inv'
<1> DEFINE s == [seen[c] EXCEPT !.thought = Here(c)]
<1>1. CallerOK(ctx[c], pc[c], call[c], carried[c], seen[c]) /\ pc[c] = "attempt"
  BY DEF Inv, CallersOK, ReasoningDelta
<1>2. Becomes(c, ctx[c], pc[c], call[c], carried[c], s)
  BY DEF Inv, CallersOK, ReasoningDelta, Becomes
<1>3. /\ s \in SeenType /\ s.shown = seen[c].shown /\ s.thought = Here(c)
      /\ s.done = seen[c].done /\ s.late = seen[c].late
  <2>1. Here(c) \in Nat \X Nat
    BY <1>1 DEF CallerOK, Typed, CallType, Here
  <2> QED
    BY <1>1, <2>1 DEF CallerOK, Typed, SeenType
<1> HIDE DEF s
<1>4. CallerOK(ctx[c], pc[c], call[c], carried[c], s)
  <2>1. Typed(ctx[c], pc[c], call[c], carried[c], s) /\ Served(pc[c], call[c])
    BY <1>1, <1>3 DEF CallerOK, Typed
  <2>2. Screened(pc[c], call[c], s) /\ Stopped(ctx[c], pc[c], s)
    BY <1>1, <1>3 DEF CallerOK, Screened, Stopped
  <2>3. Thinking(pc[c], call[c], s)
    BY <1>1, <1>3 DEF Thinking, Here
  <2> QED
    BY <1>1, <2>1, <2>2, <2>3 DEF CallerOK
<1> QED
  BY <1>2, <1>4, CallersMove, SlotsStay, DefaultStays DEF Inv, ReasoningDelta

LEMMA AnsweredKeeps ==
  ASSUME Inv, NEW c \in Callers, Answered(c) PROVE Inv'
<1> DEFINE t == IF Provider(c) \in Streaming THEN {} ELSE {Here(c)}
           s == IF call[c].req.stream
                THEN [seen[c] EXCEPT !.done = @ + 1, !.shown = @ \cup t] ELSE seen[c]
<1>1. CallerOK(ctx[c], pc[c], call[c], carried[c], seen[c]) /\ pc[c] = "attempt"
  BY DEF Inv, CallersOK, Answered
<1>2. Provider(c) \in Providers
  BY <1>1, ProviderType DEF CallerOK, Typed, Served, ProviderOf, Provider
<1>3. PICK k \in SUBSET Marks : carried' = [carried EXCEPT ![c] = k]
  <2>1. CASE UNCHANGED carried
    <3>1. carried[c] \in SUBSET Marks /\ carried' = [carried EXCEPT ![c] = carried[c]]
      BY <2>1 DEF Inv, CallersOK
    <3> QED
      BY <3>1
  <2>2. CASE carried' = [carried EXCEPT ![c] = @ \cup Continuation(Provider(c), call[c].req.model)]
    <3>1. carried[c] \cup Continuation(Provider(c), call[c].req.model) \in SUBSET Marks
      BY <1>1, <1>2, ContinuationFits, ModelType DEF CallerOK, Typed, CallType
    <3> QED
      BY <2>2, <3>1
  <2> QED
    BY <2>1, <2>2 DEF Answered
<1>4. seen' = [seen EXCEPT ![c] = s]
  <2>1. CASE call[c].req.stream
    BY <2>1 DEF Answered
  <2>2. CASE ~call[c].req.stream
    BY <2>2 DEF Answered, Inv, CallersOK
  <2> QED
    BY <2>1, <2>2
<1>5. /\ s \in SeenType /\ s.late = seen[c].late /\ s.thought = seen[c].thought
      /\ s.shown \subseteq {Here(c)} /\ s.done \in {0, 1} /\ (s.shown # {} => s.done = 1)
      /\ ~call[c].req.stream => s.shown = {}
  <2>1. Here(c) \in Nat \X Nat /\ t \in SUBSET {Here(c)}
    BY <1>1 DEF CallerOK, Typed, CallType, Here
  <2>2. /\ seen[c] \in SeenType /\ seen[c].shown \subseteq {Here(c)} /\ seen[c].done = 0
        /\ ~call[c].req.stream => seen[c].shown = {}
    BY <1>1 DEF CallerOK, Typed, SeenType, Screened, Here
  <2>3. CASE ~call[c].req.stream
    BY <2>2, <2>3 DEF SeenType
  <2>4. CASE call[c].req.stream
    <3> DEFINE e == [seen[c] EXCEPT !.done = @ + 1, !.shown = @ \cup t]
    <3> HIDE DEF t
    <3>1. s = e
      BY <2>4
    <3>2. /\ e \in SeenType /\ e.late = seen[c].late /\ e.done = 1
          /\ e.shown = seen[c].shown \cup t /\ e.thought = seen[c].thought
      <4>1. seen[c].shown \cup t \in ScreenType /\ seen[c].done + 1 = 1 /\ 1 \in Nat
        BY <2>1, <2>2 DEF SeenType, ScreenType
      <4>2. PICK u \in ScreenType, n \in Nat : u = seen[c].shown \cup t /\ n = seen[c].done + 1
        BY <4>1
      <4>3. e = [seen[c] EXCEPT !.done = n, !.shown = u]
        BY <4>2
      <4>4. LET f == [seen[c] EXCEPT !.done = n, !.shown = u]
            IN f \in SeenType /\ f.late = seen[c].late /\ f.done = n /\ f.shown = u
                 /\ f.thought = seen[c].thought
        BY <2>2 DEF SeenType
      <4> HIDE DEF e
      <4> QED
        BY <4>1, <4>2, <4>3, <4>4
    <3> QED
      BY <2>1, <2>2, <2>4, <3>1, <3>2
  <2> QED
    BY <2>3, <2>4
<1> HIDE DEF s, t
<1> DEFINE l == Finished(call[c])
<1>6. Becomes(c, ctx[c], "returned", l, k, s)
  BY <1>3, <1>4 DEF Inv, CallersOK, Answered, Becomes, Goto
<1>7. CallerOK(ctx[c], "returned", l, k, s)
  <2>1. /\ l \in CallType /\ l.req = call[c].req /\ l.idx = call[c].idx
        /\ l.attempt = call[c].attempt
    BY <1>1, FinishedType DEF CallerOK, Typed
  <2> HIDE DEF l
  <2>2. Typed(ctx[c], "returned", l, k, s) /\ Served("returned", l)
    BY <1>1, <1>5, <2>1 DEF CallerOK, Typed, Served, Stations, ProviderOf
  <2>3. Screened("returned", l, s) /\ Stopped(ctx[c], "returned", s)
    BY <1>1, <1>5, <2>1 DEF CallerOK, Screened, Stopped, Here
  <2>4. Thinking("returned", l, s)
    BY <1>1, <1>5, <2>1, ThinkingStays DEF CallerOK
  <2> QED
    BY <2>2, <2>3, <2>4 DEF CallerOK, Filtered
<1>8. SlotsOK'
  BY <1>1, <1>6, SlotReturned DEF Inv, Answered
<1> QED
  BY <1>6, <1>7, <1>8, CallersMove, DefaultStays DEF Inv, Answered

LEMMA FailedKeeps ==
  ASSUME Inv, NEW c \in Callers, NEW class \in {ClassOf(f) : f \in Failures}, Failed(c, class)
  PROVE  Inv'
<1> DEFINE l == [Finished(call[c]) EXCEPT !.err = class]
<1>1. CallerOK(ctx[c], pc[c], call[c], carried[c], seen[c]) /\ pc[c] = "attempt"
  BY DEF Inv, CallersOK, Failed
<1>2. class \in {"transient", "permanent"}
  BY DEF ClassOf
<1>3. /\ l \in CallType /\ l.req = call[c].req /\ l.idx = call[c].idx
      /\ l.attempt = call[c].attempt /\ l.emitted = call[c].emitted
  BY <1>1, <1>2, FinishedType DEF CallerOK, Typed, CallType
<1>4. Becomes(c, ctx[c], "classify", l, carried[c], seen[c])
  BY DEF Inv, CallersOK, Failed, Becomes, Goto
<1> HIDE DEF l
<1>5. CallerOK(ctx[c], "classify", l, carried[c], seen[c])
  <2>1. Typed(ctx[c], "classify", l, carried[c], seen[c]) /\ Served("classify", l)
    BY <1>1, <1>3 DEF CallerOK, Typed, Served, Stations, ProviderOf
  <2>2. Screened("classify", l, seen[c]) /\ Stopped(ctx[c], "classify", seen[c])
    BY <1>1, <1>3 DEF CallerOK, Screened, Stopped
  <2>3. Thinking("classify", l, seen[c])
    BY <1>1, <1>3, ThinkingStays DEF CallerOK
  <2> QED
    BY <2>1, <2>2, <2>3 DEF CallerOK, Filtered
<1>6. SlotsOK'
  BY <1>1, <1>4, SlotReturned DEF Inv, Failed
<1> QED
  BY <1>4, <1>5, <1>6, CallersMove, DefaultStays DEF Inv, Failed

LEMMA EndPartialKeeps ==
  ASSUME Inv, NEW c \in Callers, EndPartial(c) PROVE Inv'
<1> DEFINE s == [seen[c] EXCEPT !.done = @ + 1]
           l == Finished(call[c])
<1>1. CallerOK(ctx[c], pc[c], call[c], carried[c], seen[c]) /\ pc[c] = "classify"
  BY DEF Inv, CallersOK, EndPartial
<1>2. Becomes(c, ctx[c], "returned", l, carried[c], s)
  BY DEF Inv, CallersOK, EndPartial, Becomes, Goto
<1>3. seen[c] \in SeenType /\ seen[c].done = 0
  BY <1>1 DEF CallerOK, Typed, SeenType, Screened
<1>4. s \in SeenType /\ s.late = seen[c].late /\ s.done = 1 /\ s.shown = seen[c].shown
      /\ s.thought = seen[c].thought
  BY <1>3 DEF SeenType
<1> HIDE DEF s
<1>5. CallerOK(ctx[c], "returned", l, carried[c], s)
  <2>1. /\ l \in CallType /\ l.req = call[c].req /\ l.idx = call[c].idx
        /\ l.attempt = call[c].attempt
    BY <1>1, FinishedType DEF CallerOK, Typed
  <2> HIDE DEF l
  <2>2. Typed(ctx[c], "returned", l, carried[c], s) /\ Served("returned", l)
    BY <1>1, <1>4, <2>1 DEF CallerOK, Typed, Served, Stations, ProviderOf
  <2>3. Screened("returned", l, s) /\ Stopped(ctx[c], "returned", s)
    BY <1>1, <1>4, <2>1 DEF CallerOK, Screened, Stopped
  <2>4. Thinking("returned", l, s)
    BY <1>1, <1>4, <2>1, ThinkingStays DEF CallerOK
  <2> QED
    BY <2>2, <2>3, <2>4 DEF CallerOK, Filtered
<1> QED
  BY <1>1, <1>2, <1>5, LocalStep DEF EndPartial

\* An error return from anywhere, as long as the screen is blank.
LEMMA ReturnKeeps ==
  ASSUME Inv, NEW c \in Callers, Return(c),
         pc[c] \in {"acquire", "backoff"} \/ Classifying(c)
  PROVE  Inv'
<1> DEFINE l == Finished(call[c])
<1>1. CallerOK(ctx[c], pc[c], call[c], carried[c], seen[c])
  BY DEF Inv, CallersOK
<1>2. pc[c] \in {"acquire", "backoff", "classify"} /\ ~call[c].emitted
  BY <1>1 DEF CallerOK, Screened, Classifying
<1>3. Becomes(c, ctx[c], "returned", l, carried[c], seen[c])
  BY DEF Inv, CallersOK, Return, Becomes, Goto
<1>4. /\ l \in CallType /\ l.req = call[c].req /\ l.idx = call[c].idx
      /\ l.attempt = call[c].attempt
  BY <1>1, FinishedType DEF CallerOK, Typed
<1> HIDE DEF l
<1>5. CallerOK(ctx[c], "returned", l, carried[c], seen[c])
  <2>1. Typed(ctx[c], "returned", l, carried[c], seen[c]) /\ Served("returned", l)
    BY <1>1, <1>2, <1>4 DEF CallerOK, Typed, Served, Stations, ProviderOf
  <2>2. seen[c].shown = {} /\ seen[c].done \in Nat
    BY <1>1, <1>2 DEF CallerOK, Typed, SeenType, Screened
  <2>3. Screened("returned", l, seen[c])
    BY <1>1, <1>2, <2>2 DEF CallerOK, Screened
  <2>4. Stopped(ctx[c], "returned", seen[c])
    BY <1>1 DEF CallerOK, Stopped
  <2>5. Thinking("returned", l, seen[c])
    BY <1>1, <1>4, ThinkingStays DEF CallerOK
  <2> QED
    BY <2>1, <2>3, <2>4, <2>5 DEF CallerOK, Filtered
<1> QED
  BY <1>2, <1>3, <1>5, LocalStep DEF Return

\* Only a request that was not canceled waits for another attempt.
LEMMA BackoffKeeps ==
  ASSUME Inv, NEW c \in Callers, Backoff(c) PROVE Inv'
<1>1. CallerOK(ctx[c], pc[c], call[c], carried[c], seen[c]) /\ pc[c] = "classify"
  BY DEF Inv, CallersOK, Backoff, Classifying
<1>2. ctx[c] = "live" /\ ~call[c].emitted /\ call[c].attempt # MaxRetries
  BY <1>1 DEF CallerOK, Typed, Backoff, Aborts, GivesUp, Classifying
<1>3. CallerOK(ctx[c], "backoff", call[c], carried[c], seen[c])
  <2>1. call[c].attempt < MaxRetries
    BY <1>1, <1>2 DEF CallerOK, Typed, CallType
  <2>2. Typed(ctx[c], "backoff", call[c], carried[c], seen[c]) /\ Served("backoff", call[c])
    BY <1>1, <2>1 DEF CallerOK, Typed, Served, Stations
  <2>3. Screened("backoff", call[c], seen[c]) /\ Stopped(ctx[c], "backoff", seen[c])
    BY <1>1, <1>2 DEF CallerOK, Screened, Stopped
  <2>4. Thinking("backoff", call[c], seen[c])
    BY <1>1, ThinkingStays DEF CallerOK
  <2> QED
    BY <2>2, <2>3, <2>4 DEF CallerOK, Filtered
<1> QED
  BY <1>1, <1>3, MoveOn DEF Backoff

\* A new provider or a new attempt starts with a blank screen and an attempt to spare.
LEMMA AgainOK ==
  ASSUME NEW c \in Callers, CallerOK(ctx[c], pc[c], call[c], carried[c], seen[c]),
         pc[c] \in {"classify", "backoff"}, ~call[c].emitted, seen[c].late = 0,
         NEW l \in CallType, l.req = call[c].req, ~l.emitted,
         l.idx \in 1..Len(Chain(l.req.role)), Eligible(ProviderOf(l), l.req.structured),
         \/ l.idx = call[c].idx /\ l.attempt = call[c].attempt + 1
         \/ l.idx > call[c].idx
  PROVE  CallerOK(ctx[c], "bucket", l, carried[c], seen[c])
<1>1. seen[c].shown = {}
  BY DEF CallerOK, Screened
<1>2. Typed(ctx[c], "bucket", l, carried[c], seen[c]) /\ Served("bucket", l)
  BY DEF CallerOK, Typed, Served, Stations
<1>3. Screened("bucket", l, seen[c]) /\ Stopped(ctx[c], "bucket", seen[c])
  BY <1>1 DEF CallerOK, Screened, Stopped
<1>4. Thinking("bucket", l, seen[c])
  BY DEF CallerOK, Typed, CallType, SeenType, Thinking, Before
<1> QED
  BY <1>2, <1>3, <1>4 DEF CallerOK, Filtered

LEMMA NotLate ==
  ASSUME NEW c \in Callers, CallerOK(ctx[c], pc[c], call[c], carried[c], seen[c]),
         ctx[c] = "live" \/ pc[c] = "backoff"
  PROVE  seen[c].late = 0
  BY DEF CallerOK, Typed, SeenType, Stopped

LEMMA RetryKeeps ==
  ASSUME Inv, NEW c \in Callers, Retry(c) PROVE Inv'
<1>1. CallerOK(ctx[c], pc[c], call[c], carried[c], seen[c]) /\ pc[c] = "backoff"
  BY DEF Inv, CallersOK, Retry
<1>2. call[c].attempt + 1 \in 0..MaxRetries /\ ~call[c].emitted
  BY <1>1 DEF CallerOK, Typed, CallType, Served, Screened
<1>3. ASSUME NEW e \in BOOLEAN
      PROVE  LET l == [call[c] EXCEPT !.attempt = @ + 1, !.emitted = e, !.err = "none"]
             IN /\ l \in CallType /\ l.req = call[c].req /\ l.idx = call[c].idx
                /\ l.attempt = call[c].attempt + 1 /\ l.emitted = e
  BY <1>1, <1>2 DEF CallerOK, Typed, CallType
<1> DEFINE l == [call[c] EXCEPT !.attempt = @ + 1, !.emitted = FALSE, !.err = "none"]
<1>4. /\ l \in CallType /\ l.req = call[c].req /\ l.idx = call[c].idx
      /\ l.attempt = call[c].attempt + 1 /\ l.emitted = FALSE
  <2>1. FALSE \in BOOLEAN
    OBVIOUS
  <2> QED
    BY ONLY <1>3, <2>1, Zenon
<1>5. Becomes(c, ctx[c], "bucket", l, carried[c], seen[c])
  <2>1. call' = [call EXCEPT ![c] = l]
    BY Zenon DEF Retry
  <2> HIDE DEF l
  <2> QED
    BY <2>1 DEF Inv, CallersOK, Retry, Becomes, Goto
<1> HIDE DEF l
<1>6. /\ l.idx \in 1..Len(Chain(l.req.role))
      /\ Eligible(ProviderOf(l), l.req.structured)
  BY <1>1, <1>4 DEF CallerOK, Typed, Served, ProviderOf
<1>7. CallerOK(ctx[c], "bucket", l, carried[c], seen[c])
  BY <1>1, <1>2, <1>4, <1>6, NotLate, AgainOK
<1> QED
  BY <1>1, <1>5, <1>7, LocalStep DEF Retry

LEMMA FallbackKeeps ==
  ASSUME Inv, NEW c \in Callers, Fallback(c) PROVE Inv'
<1> DEFINE next == NextEligible(call[c].req, call[c].idx + 1)
           l == [Idle EXCEPT !.req = call[c].req, !.idx = next]
<1>1. CallerOK(ctx[c], pc[c], call[c], carried[c], seen[c]) /\ pc[c] = "classify"
  BY DEF Inv, CallersOK, Fallback, Classifying
<1>2. ctx[c] = "live" /\ ~call[c].emitted
  BY <1>1 DEF CallerOK, Typed, Fallback, Aborts, Classifying
<1>3. CASE next = 0
  BY <1>3, ReturnKeeps DEF Fallback
<1>4. CASE next # 0
  <2>1. /\ call[c].req \in AllRequests /\ call[c].idx \in Nat
        /\ next \in 1..Len(Chain(call[c].req.role)) /\ next > call[c].idx
        /\ Eligible(Chain(call[c].req.role)[next], call[c].req.structured)
    <3>1. call[c].req \in AllRequests /\ call[c].idx \in Nat /\ call[c].idx + 1 \in Nat \ {0}
      BY <1>1 DEF CallerOK, Typed, CallType
    <3>2. /\ next \in (call[c].idx + 1)..Len(Chain(call[c].req.role))
          /\ Eligible(Chain(call[c].req.role)[next], call[c].req.structured)
      BY <1>4, <3>1, NextEligibleFits
    <3>3. Len(Chain(call[c].req.role)) \in Nat
      BY <3>1, ChainType
    <3> HIDE DEF next
    <3> QED
      BY <3>1, <3>2, <3>3
  <2>2. l \in CallType /\ l.req = call[c].req /\ l.idx = next /\ l.emitted = Idle.emitted
    <3>1. Idle \in CallType /\ next \in Nat
      BY <2>1, IdleType, ChainType
    <3> HIDE DEF next
    <3> QED
      BY <2>1, <3>1 DEF CallType
  <2>3. ~Idle.emitted
    BY DEF Idle
  <2>4. Becomes(c, ctx[c], "bucket", l, carried[c], seen[c])
    BY <1>4 DEF Inv, CallersOK, Fallback, Becomes, Goto
  <2> HIDE DEF l, next
  <2>5. /\ l.idx \in 1..Len(Chain(l.req.role))
        /\ Eligible(ProviderOf(l), l.req.structured) /\ l.idx > call[c].idx
    BY <2>1, <2>2 DEF ProviderOf
  <2>6. CallerOK(ctx[c], "bucket", l, carried[c], seen[c])
    BY <1>1, <1>2, <2>2, <2>3, <2>5, NotLate, AgainOK
  <2> QED
    BY <1>1, <1>4, <2>4, <2>6, LocalStep DEF Fallback, next
<1> QED
  BY <1>3, <1>4

-----------------------------------------------------------------------------
LEMMA InitOK == Init => Inv
<1> SUFFICES ASSUME Init PROVE Inv
  OBVIOUS
<1>1. ~Idle.emitted /\ Unseen \in SeenType
      /\ Unseen.shown = {} /\ Unseen.done = 0 /\ Unseen.late = 0
  BY DEF Idle, Unseen, SeenType, ScreenType, NoAttempt
<1>2. CallerOK("live", "idle", Idle, {}, Unseen)
  <2>1. Typed("live", "idle", Idle, {}, Unseen)
    BY <1>1, IdleType DEF Typed, Stations
  <2>2. Screened("idle", Idle, Unseen) /\ Stopped("live", "idle", Unseen)
    BY <1>1 DEF Screened, Stopped
  <2> QED
    BY <2>1, <2>2, UnseenThinking DEF CallerOK, Served, Filtered
<1>3. CallersOK
  <2>1. "idle" \in Stations /\ Idle \in CallType /\ Unseen \in SeenType
    BY <1>1, IdleType DEF Stations
  <2>2. \A c \in Callers : /\ ctx[c] = "live" /\ pc[c] = "idle" /\ call[c] = Idle
                           /\ carried[c] = {} /\ seen[c] = Unseen
    BY DEF Init
  <2>3. \A c \in Callers : CallerOK(ctx[c], pc[c], call[c], carried[c], seen[c])
    BY <1>2, <2>2
  <2> QED
    BY <2>1, <2>3 DEF Init, CallersOK
<1>4. SlotsOK
  <2>1. \A b \in Buckets : slots[b] = {} /\ HoldersOf(b) = {}
    BY DEF Init, HoldersOf
  <2> QED
    BY <2>1, FS_EmptySet, CapacityType DEF Init, SlotsOK
<1> QED
  BY <1>3, <1>4 DEF Inv, DefaultOK, Init

LEMMA NextKeeps == Inv /\ [Next]_vars => Inv'
<1> SUFFICES ASSUME Inv, [Next]_vars PROVE Inv'
  OBVIOUS
<1>1. CASE UNCHANGED vars
  BY <1>1 DEF vars, Inv, CallersOK, SlotsOK, HoldersOf, DefaultOK
<1>2. ASSUME NEW c \in Callers, Step(c) PROVE Inv'
  BY <1>2, FindBucketKeeps, CreateBucketKeeps, AnsweredKeeps, FailedKeeps, EndPartialKeeps,
     BackoffKeeps, FallbackKeeps, RetryKeeps, LeaveKeeps, ReturnKeeps
     DEF Step, AcquireCanceled, AbortCanceled, WaitCanceled
<1> QED
  BY <1>1, <1>2, BeginKeeps, CancelKeeps, AcquireKeeps, TextDeltaKeeps,
     ReasoningDeltaKeeps DEF Next

\* The invariant holds in every state of the gateway.
THEOREM InvHolds == Spec => []Inv
  BY InitOK, NextKeeps, PTL DEF Spec

\* A slot of the throttle is held exactly while its attempt runs, whichever way the
\* attempt ends and whoever replaces the default bucket meanwhile, and no bucket is
\* overfull.
THEOREM SlotsMatchAttemptsHolds == Spec => []SlotsMatchAttempts
  BY InvHolds, InvImplies, PTL

\* The answer text the user has seen of a call is its answer's: no retry and no fallback
\* after text was shown, thinking only of attempts up to that one, and the end of the
\* stream announced once if text was shown.
THEOREM ShownIsTheAnswerHolds == Spec => []ShownIsTheAnswer
  BY InvHolds, InvImplies, PTL

\* A canceled request begins at most one more attempt.
THEOREM CanceledStopsHolds == Spec => []CanceledStops
  BY InvHolds, InvImplies, PTL

\* Reasoning state is sent to the endpoint and the model that made it and to no other.
THEOREM OpaqueStateStaysHomeHolds == Spec => []OpaqueStateStaysHome
  BY InvHolds, InvImplies, PTL
=============================================================================
