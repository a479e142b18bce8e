------------------------------ MODULE Gateway ------------------------------
(***************************************************************************)
(* The model gateway (internal/gateway): every model call of the lead, of  *)
(* explore subagents, of teammates and of the helpers (judge, lesson,      *)
(* compression) passes the throttle of its role, is retried with backoff   *)
(* on the same provider and moves to the next provider of the chain when   *)
(* that one fails for good.  A streamed call shows text to the user while  *)
(* it runs, and a reasoning provider its thinking before the answer.       *)
(*                                                                         *)
(* A caller is a goroutine with its own request context; callers share the *)
(* throttle.  Each channel operation and each moment at which the context  *)
(* is looked at is a step; what happens between two of them is local.      *)
(***************************************************************************)
EXTENDS Integers, Sequences, FiniteSets, Functions

CONSTANTS
  Callers,     \* goroutines that call a model
  Providers,
  NoProvider,  \* a nil Provider
  Primary,     \* Gateway.provider
  Dedicated,   \* role -> provider: judgeProv, subagentProv, teamProv where set
  Fallbacks,   \* role -> sequence of providers
  Structured,  \* the providers with the StructuredOutput capability
  Streaming,   \* the providers that show text before the answer is complete
  Reasons,     \* the providers with the Reasoning capability
  InstanceID,  \* provider -> identity of its endpoint, NoInstance for none
  NoInstance,
  NoBucket,    \* a nil channel
  Requests,    \* caller -> the requests it makes: [role, stream, structured, model]
  Total,       \* LLMMaxConcurrency
  DefaultCap,  \* capacity of the bucket for roles without one of their own
  MaxRetries   \* config.LlmMaxRetries

\* NewRoleThrottle: the share of each role in percent.
Share == [lead |-> 40, explore |-> 30, teammate |-> 20, judge |-> 10]
KnownRoles == DOMAIN Share
Request == [role : STRING, stream : BOOLEAN, structured : BOOLEAN, model : STRING]
AllRequests == UNION {Requests[c] : c \in Callers}
Roles == {r.role : r \in AllRequests}
Models == {r.model : r \in AllRequests}

ASSUME GatewayAssumption ==
  /\ Total \in Nat /\ MaxRetries \in Nat /\ DefaultCap \in Nat \ {0}
  /\ Callers \cap KnownRoles = {} /\ IsFiniteSet(Callers)
  /\ NoBucket \notin Callers \cup KnownRoles
  /\ Requests \in [Callers -> SUBSET Request] /\ AllRequests # {}
  /\ NoProvider \notin Providers /\ Primary \in Providers
  /\ DOMAIN Dedicated \subseteq {"judge", "subagent", "teammate"}
  /\ \A r \in DOMAIN Dedicated : Dedicated[r] \in Providers
  /\ DOMAIN Fallbacks \subseteq Roles
  /\ \A r \in DOMAIN Fallbacks : Fallbacks[r] \in Seq(Providers \cup {NoProvider})
  /\ DOMAIN InstanceID = Providers

\* Buckets: one of each known role; the one a caller made for the other roles.
Buckets == KnownRoles \cup Callers
Capacity(b) ==
  IF b \notin KnownRoles THEN DefaultCap
  ELSE LET n == (Total * Share[b]) \div 100 IN IF n < 1 THEN 1 ELSE n

\* providersFor: the role's primary provider, then its fallbacks.
ProviderFor(role) == IF role \in DOMAIN Dedicated THEN Dedicated[role] ELSE Primary
Chain(role) ==
  <<ProviderFor(role)>> \o (IF role \in DOMAIN Fallbacks THEN Fallbacks[role] ELSE <<>>)

\* pickProvider and nextEligibleProvider: the first usable place from start on,
\* 0 if there is none.
Eligible(p, structured) == p # NoProvider /\ (structured => p \in Structured)
NextEligible(r, start) ==
  LET chain == Chain(r.role)
      ok == {i \in start..Len(chain) : Eligible(chain[i], r.structured)}
  IN IF ok = {} THEN 0 ELSE CHOOSE i \in ok : \A j \in ok : i <= j

\* Mutant of Prepared: the capability alone opens the request to all state.
PreparedByCapability(p, model, states) == IF p \in Reasons THEN states ELSE {}

\* prepareParamsFor: of the reasoning state the messages carry (identified by the
\* endpoint and the model that made it) what a provider is sent.
Prepared(p, model, states) ==
  IF p \in Reasons /\ InstanceID[p] # NoInstance
  THEN states \cap {<<InstanceID[p], model>>} ELSE {}

\* The answer's own state: kept for tool calls, never without an identity.
Continuation(p, model) == ({InstanceID[i] : i \in {p} \cap Reasons} \ {NoInstance}) \X {model}

Idle == [req |-> CHOOSE r \in AllRequests : TRUE, idx |-> 1, attempt |-> 0,
         bucket |-> NoBucket, emitted |-> FALSE, err |-> "none", sent |-> {}]
NoAttempt == <<0, 0>>
Unseen == [shown |-> {}, thought |-> NoAttempt, done |-> 0, late |-> 0]

VARIABLES
  ctx,      \* request context: "live" or "canceled"
  pc,       \* where the caller is
  call,     \* locals of Call, Stream and the retry loop: the request, the place of the
            \* provider in the chain, the attempt, the bucket Acquire chose,
            \* trackingSink.emitted, the class of the error, the state in the request
  slots,    \* the buckets: bucket -> callers whose tokens it holds
  default,  \* RoleThrottle.tokens["default"], NoBucket for nil
  carried,  \* <<endpoint, model>> of the reasoning state in the caller's messages
  seen      \* history of the call: <<idx, attempt>> of all answer text shown to the user and
            \* of the last thinking shown, how often OnDone reached the user, attempts begun
            \* after the cancellation

vars == <<ctx, pc, call, slots, default, carried, seen>>

Stations ==
  {"idle", "bucket", "create", "acquire", "attempt", "classify", "backoff", "returned"}
Provider(c) == Chain(call[c].req.role)[call[c].idx]
Here(c) == <<call[c].idx, call[c].attempt>>
Earlier(t, c) ==  \* attempt t came before the present one
  t[1] < call[c].idx \/ (t[1] = call[c].idx /\ t[2] < call[c].attempt)
Finished(l) == [l EXCEPT !.bucket = NoBucket, !.sent = {}, !.err = "none"]
Goto(c, station) == pc' = [pc EXCEPT ![c] = station]

Init ==
  /\ ctx = [c \in Callers |-> "live"]
  /\ pc = [c \in Callers |-> "idle"]
  /\ call = [c \in Callers |-> Idle]
  /\ slots = [b \in Buckets |-> {}]
  /\ default = NoBucket
  /\ carried = [c \in Callers |-> {}]
  /\ seen = [c \in Callers |-> Unseen]

(***************************************************************************)
(* Call and Stream                                                         *)
(***************************************************************************)
\* A call begins; without an eligible provider it would fail at once and change
\* nothing (ErrStructuredOutputUnsupported).
Begin(c, r) ==
  /\ pc[c] = "idle"
  /\ NextEligible(r, 1) # 0
  /\ Goto(c, "bucket")
  /\ call' = [call EXCEPT ![c].req = r, ![c].idx = NextEligible(r, 1)]
  /\ UNCHANGED <<ctx, slots, default, carried, seen>>

\* The user interrupts, a session closes, a turn's deadline passes.
Cancel(c) ==
  /\ pc[c] \notin {"idle", "returned"} /\ ctx[c] = "live"
  /\ ctx' = [ctx EXCEPT ![c] = "canceled"]
  /\ UNCHANGED <<pc, call, slots, default, carried, seen>>

\* The call returns an error and shows nothing more: thinking already shown stays, and
\* no OnDone follows it.
Return(c) ==
  /\ Goto(c, "returned")
  /\ call' = [call EXCEPT ![c] = Finished(@)]
  /\ UNCHANGED <<ctx, slots, default, carried, seen>>

\* The caller has its result; the call's locals and its context are gone.
Leave(c) ==
  /\ pc[c] = "returned"
  /\ Goto(c, "idle")
  /\ ctx' = [ctx EXCEPT ![c] = "live"]
  /\ call' = [call EXCEPT ![c] = Idle]
  /\ seen' = [seen EXCEPT ![c] = Unseen]
  /\ UNCHANGED <<slots, default, carried>>

(***************************************************************************)
(* RoleThrottle.Acquire                                                    *)
(***************************************************************************)
\* The map is read without the mutex.  (That read may meet CreateBucket's write, and
\* then the Go runtime may end the whole process: this is not modelled.)
FindBucket(c) ==
  /\ pc[c] = "bucket"
  /\ LET role == call[c].req.role
         found == IF role \in KnownRoles THEN role ELSE default
     IN /\ Goto(c, IF found = NoBucket THEN "create" ELSE "acquire")
        /\ call' = [call EXCEPT ![c].bucket = found]
  /\ UNCHANGED <<ctx, slots, default, carried, seen>>

\* Nor is it read again under the mutex: whoever comes last replaces the bucket.
CreateBucket(c) ==
  /\ pc[c] = "create"
  /\ default' = c
  /\ call' = [call EXCEPT ![c].bucket = c]
  /\ Goto(c, "acquire")
  /\ UNCHANGED <<ctx, slots, carried, seen>>

\* The select takes either branch when both are ready: a canceled request may
\* still get a slot.
Acquire(c) ==
  /\ pc[c] = "acquire"
  /\ Cardinality(slots[call[c].bucket]) < Capacity(call[c].bucket)
  /\ slots' = [slots EXCEPT ![call[c].bucket] = @ \cup {c}]
  /\ Goto(c, "attempt")
  /\ call' = [call EXCEPT ![c].sent = Prepared(Provider(c), call[c].req.model, carried[c])]
  /\ seen' = [seen EXCEPT ![c].late = IF ctx[c] = "live" THEN @ ELSE @ + 1]
  /\ UNCHANGED <<ctx, default, carried>>

AcquireCanceled(c) ==
  /\ pc[c] = "acquire" /\ ctx[c] = "canceled"
  /\ Return(c)

(***************************************************************************)
(* One attempt: callWithRetry and streamWithRetry                          *)
(***************************************************************************)
TextDelta(c) ==
  /\ pc[c] = "attempt" /\ call[c].req.stream /\ Provider(c) \in Streaming
  /\ call' = [call EXCEPT ![c].emitted = TRUE]
  /\ seen' = [seen EXCEPT ![c].shown = @ \cup {Here(c)}]
  /\ UNCHANGED <<ctx, pc, slots, default, carried>>

\* trackingSink.OnReasoningDelta: thinking is shown too, and emitted does not tell of it.
ReasoningDelta(c) ==
  /\ pc[c] = "attempt" /\ call[c].req.stream /\ Provider(c) \in Streaming \cap Reasons
  /\ seen' = [seen EXCEPT ![c].thought = Here(c)]
  /\ UNCHANGED <<ctx, pc, call, slots, default, carried>>

\* Mutant of Release: the bucket is looked up again when the slot is returned.
ReleaseByRole(c) ==
  LET role == call[c].req.role
  IN slots' = [slots EXCEPT ![IF role \in KnownRoles THEN role ELSE default] = @ \ {c}]

Release(c) == slots' = [slots EXCEPT ![call[c].bucket] = @ \ {c}]

\* An answer: a stream's text is complete and OnDone reaches the user once.  A
\* provider that does not stream shows its text now.  An answer with tool calls
\* leaves the endpoint's reasoning state in the messages.
Answered(c) ==
  /\ pc[c] = "attempt"
  /\ Release(c)
  /\ Goto(c, "returned")
  /\ IF call[c].req.stream
     THEN seen' = [seen EXCEPT ![c].done = @ + 1,
                     ![c].shown = @ \cup (IF Provider(c) \in Streaming THEN {} ELSE {Here(c)})]
     ELSE UNCHANGED seen
  /\ \/ UNCHANGED carried
     \/ carried' = [carried EXCEPT ![c] = @ \cup Continuation(Provider(c), call[c].req.model)]
  /\ call' = [call EXCEPT ![c] = Finished(@)]
  /\ UNCHANGED <<ctx, default>>

\* A provider's failure by its HTTP status and code.
Retryable(f) ==
  /\ f.code # "fatal"
  /\ IF f.status >= 400 THEN f.status \in {408, 409, 425, 429} \/ f.status >= 500
     ELSE f.code = "retry" \/ (f.status = 0 /\ f.code = "none")

\* What ends an attempt without an answer: an API error, a lost connection, an
\* answer with neither text nor tool calls (a fatal code), the attempt's timeout.
Failures == [status : {0, 400, 429, 500}, code : {"none", "fatal", "retry"}, timeout : BOOLEAN]
ClassOf(f) == IF f.timeout \/ Retryable(f) THEN "transient" ELSE "permanent"

\* Mutant of Failed: the slot is returned only with an answer.
FailedHolding(c, class) ==
  /\ pc[c] = "attempt"
  /\ call' = [call EXCEPT ![c] = [Finished(@) EXCEPT !.err = class]]
  /\ Goto(c, "classify")
  /\ UNCHANGED <<ctx, slots, default, carried, seen>>

Failed(c, class) ==
  /\ pc[c] = "attempt"
  /\ Release(c)
  /\ call' = [call EXCEPT ![c] = [Finished(@) EXCEPT !.err = class]]
  /\ Goto(c, "classify")
  /\ UNCHANGED <<ctx, default, carried, seen>>

(***************************************************************************)
(* After a failed attempt                                                  *)
(***************************************************************************)
\* Part of an answer is on the screen: no other attempt, no other provider.
EndPartial(c) ==
  /\ pc[c] = "classify" /\ call[c].emitted
  /\ Goto(c, "returned")
  /\ seen' = [seen EXCEPT ![c].done = @ + 1]
  /\ call' = [call EXCEPT ![c] = Finished(@)]
  /\ UNCHANGED <<ctx, slots, default, carried>>

\* Mutant of Classifying: what was shown does not matter.
ClassifyingAnyway(c) == pc[c] = "classify"

Classifying(c) == pc[c] = "classify" /\ ~call[c].emitted

\* Mutant of Aborts: the attempt's own error decides, and a cancellation is transient.
AbortsNever(c) == FALSE

\* classifyAttemptError: only the request's own context ends the request.
Aborts(c) == ctx[c] = "canceled"

AbortCanceled(c) ==
  /\ Classifying(c) /\ Aborts(c)
  /\ Return(c)

GivesUp(c) == call[c].err = "permanent" \/ call[c].attempt = MaxRetries

Backoff(c) ==
  /\ Classifying(c) /\ ~Aborts(c) /\ ~GivesUp(c)
  /\ Goto(c, "backoff")
  /\ UNCHANGED <<ctx, call, slots, default, carried, seen>>

\* shouldFallback, nextEligibleProvider, and the tracking sink is reset.
Fallback(c) ==
  /\ Classifying(c) /\ ~Aborts(c) /\ GivesUp(c)
  /\ LET next == NextEligible(call[c].req, call[c].idx + 1)
     IN IF next = 0 THEN Return(c)
        ELSE /\ call' = [call EXCEPT ![c] = [Idle EXCEPT !.req = call[c].req, !.idx = next]]
             /\ Goto(c, "bucket")
             /\ UNCHANGED <<ctx, slots, default, carried, seen>>

\* waitForRetry: the timer or, if the request is canceled, either of the two.
Retry(c) ==
  /\ pc[c] = "backoff"
  /\ call' = [call EXCEPT ![c].attempt = @ + 1, ![c].emitted = FALSE, ![c].err = "none"]
  /\ Goto(c, "bucket")
  /\ UNCHANGED <<ctx, slots, default, carried, seen>>

WaitCanceled(c) ==
  /\ pc[c] = "backoff" /\ ctx[c] = "canceled"
  /\ Return(c)

(***************************************************************************)
(* The system                                                              *)
(***************************************************************************)
Step(c) ==
  \/ FindBucket(c) \/ CreateBucket(c) \/ AcquireCanceled(c)
  \/ Answered(c) \/ \E class \in {ClassOf(f) : f \in Failures} : Failed(c, class)
  \/ EndPartial(c) \/ AbortCanceled(c) \/ Backoff(c) \/ Fallback(c)
  \/ Retry(c) \/ WaitCanceled(c) \/ Leave(c)

Next == \E c \in Callers :
  \/ \E r \in Requests[c] : Begin(c, r)
  \/ Cancel(c) \/ Acquire(c) \/ TextDelta(c) \/ ReasoningDelta(c) \/ Step(c)

\* An attempt has a timeout and so has a backoff; a channel serves its waiting
\* senders in order, so a slot that keeps becoming free reaches everyone.
Fairness == \A c \in Callers : WF_vars(Step(c)) /\ SF_vars(Acquire(c))

Spec == Init /\ [][Next]_vars /\ Fairness

(***************************************************************************)
(* Properties                                                              *)
(***************************************************************************)
\* Types.  Retries stay within MaxRetries and the chain is not left.
TypeOK ==
  /\ ctx \in [Callers -> {"live", "canceled"}]
  /\ pc \in [Callers -> Stations]
  /\ call \in [Callers -> [req : AllRequests, idx : Nat, attempt : 0..MaxRetries,
                           bucket : Buckets \cup {NoBucket}, emitted : BOOLEAN,
                           err : {"none", "transient", "permanent"},
                           sent : SUBSET (Range(InstanceID) \X Models)]]
  /\ slots \in [Buckets -> SUBSET Callers]
  /\ default \in Callers \cup {NoBucket}
  /\ \A c \in Callers : call[c].idx \in 1..Len(Chain(call[c].req.role))

\* A slot is held exactly while an attempt runs: nobody sleeps in a backoff,
\* classifies an error or returns with a slot in hand, also not when the default
\* bucket was replaced between taking and returning it; and no bucket is overfull.
SlotsMatchAttempts ==
  /\ TypeOK
  /\ \A b \in Buckets : slots[b] = {c \in Callers : pc[c] = "attempt" /\ call[c].bucket = b}
  /\ \A b \in Buckets : Cardinality(slots[b]) <= Capacity(b)

\* The answer text the user has seen of a call belongs to the attempt that is running or
\* that gave the answer: no retry and no fallback after text was shown.  Thinking
\* promises less: that of attempts which failed before they showed any text may stand
\* above the answer, and none comes from an attempt after the answer's.  The end of the
\* stream is announced at most once, and always when text was shown.
ShownIsTheAnswer ==
  \A c \in Callers :
    /\ seen[c].shown \subseteq {Here(c)}
    /\ seen[c].thought = Here(c) \/ Earlier(seen[c].thought, c)
    /\ pc[c] = "returned" /\ seen[c].shown # {} => seen[c].done = 1
    /\ seen[c].done <= (IF pc[c] = "returned" THEN 1 ELSE 0)

\* Once the request is canceled at most one more attempt begins (the one whose
\* slot and cancellation are both ready), through retries and fallbacks.
CanceledStops == \A c \in Callers : seen[c].late <= 1

\* Opaque reasoning state reaches no endpoint and no model but those that made it, and
\* they get it back even after other providers were tried in between.
OpaqueStateStaysHome ==
  \A c \in Callers : pc[c] = "attempt" =>
    call[c].sent = {s \in carried[c] :
      Provider(c) \in Reasons /\ s = <<InstanceID[Provider(c)], call[c].req.model>>}

\* Every model call ends, also when others call without pause and the provider
\* fails or hangs each time.
CallsReturn == \A c \in Callers : pc[c] # "idle" ~> pc[c] = "idle"

=============================================================================
