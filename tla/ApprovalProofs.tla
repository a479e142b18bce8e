--------------------------- MODULE ApprovalProofs ---------------------------
(***************************************************************************)
(* Proofs about Approval for any agents, tool calls, rules and modes, and  *)
(* any number of calls and slash commands.                                 *)
(*                                                                         *)
(* Three things carry the argument.  Locks: the holder of the reviewer is  *)
(* the one whose question is on the screen, and the terminal is read by it *)
(* or by the REPL.  Memory: what a call remembers of the modes and rules   *)
(* in force only grows, so that a reason to let it pass stays one.  And    *)
(* the partition of a change reviewed chunk by chunk: what is left,        *)
(* accepted and refused never overlap.                                     *)
(***************************************************************************)
EXTENDS Approval, TLAPS, FiniteSetTheorems

USE ApprovalAssumption

Content == {NoFile} \cup SUBSET Edits
PlanType == [original : Content, content : Content]
Questions == {"none", "mutation", "general", "chunk", "whole", "feedback", "failed"}
CallType == [k : Calls, plan : PlanType, showDiff : BOOLEAN, severity : Severities,
             question : Questions, left : SUBSET Edits, accepted : SUBSET Edits,
             yes : BOOLEAN, result : Results]
Stages == {"run", "write"} \cup Finished
JobType == [c : Callers, n : Nat, k : Calls, plan : PlanType, yes : BOOLEAN,
            seen : History, stage : Stages, raced : BOOLEAN]

PostureOK ==
  /\ mode \in Modes /\ autoAll \in BOOLEAN /\ rules \in RuleSets /\ registered \subseteq Calls
  /\ repl \in {"read", "typing", "turn", "preset"}
  /\ file \in Content

\* Who holds the reviewer and the terminal, and whose question is on the screen.
LocksOK ==
  /\ term \in Callers \cup {"repl", Nobody} /\ reviewer \in Callers \cup {Nobody}
  /\ screen \in Callers \cup {Nobody}
  /\ term = "repl" <=> repl = "typing"
  /\ \A c \in Callers :
       /\ reviewer = c <=> pc[c] \in {"request", "panel", "asked"}
       /\ term = c <=> pc[c] = "asked"
       /\ pc[c] \in {"panel", "asked"} => screen = c

(***************************************************************************)
(* One caller, of its station p, its locals l and its history s, in the    *)
(* posture m (mode), r (rules), reg (registered).                          *)
(***************************************************************************)
\* The history of a call holds the posture in force.
Aware(p, l, s, m, r, reg) ==
  p \in Working => m \in s.modes /\ r[l.k] \in s.levels /\ (l.k \in reg \/ s.unlisted)

\* What lets a call pass; the hypothesis of the theorem keeps the fallback for a missing
\* terminal out of it.
Passed(k, s) ==
  \E level \in s.levels :
    /\ level # "block"
    /\ \/ ~Dangerous(k, level) \/ s.agreed \/ s.unlisted
       \/ s.modes \cap {"auto-approve", "notify-only"} # {}
       \/ ~IsTTY /\ NonTTYFallback = "approve"

\* What puts it to review.
Judged(l, s) ==
  \E level \in s.levels :
    /\ level # "block"
    /\ s.unlisted \/ l.severity = RequestSeverity(l.k, level, TRUE)

Weighed(p, l, s) ==
  /\ p \in {"queue", "request", "panel", "asked"} => Judged(l, s)
  /\ p \in {"network", "invoked"} => Passed(l.k, s)
  /\ l.yes \/ l.accepted # {} => s.agreed

\* A review hunk by hunk: what is left, accepted and refused are apart.
Apart(l, s) ==
  /\ l.left # {} /\ l.plan.original # NoFile
  /\ l.left \cap l.accepted = {}
  /\ s.refused \cap (l.left \cup l.accepted) = {}

\* None of the refused hunks is in the change.
Spares(plan, refused) == Chunks(plan.original, plan.content) \cap refused = {}

Sorted(p, l, s) ==
  /\ p \in {"panel", "asked"} =>
       /\ l.question \in {"general", "whole", "chunk", "feedback", "failed"}
       /\ l.question = "chunk" => Apart(l, s)
       /\ l.question \in {"general", "whole", "feedback"} => s.refused = {}
  /\ p \in {"diff", "decide", "queue", "request"} => s.refused = {} /\ l.accepted = {}
  /\ p = "queue" => l.question \in {"mutation", "general"}
  /\ p = "request" => l.question = "general"
  /\ p \in {"network", "invoked"} => Spares(l.plan, s.refused)

CallerOK(p, l, s, m, r, reg) ==
  Aware(p, l, s, m, r, reg) /\ Weighed(p, l, s) /\ Sorted(p, l, s)

CallersOK ==
  /\ pc \in [Callers -> Working \cup {"idle"}]
  /\ call \in [Callers -> CallType] /\ seen \in [Callers -> History]
  /\ \A c \in Callers : CallerOK(pc[c], call[c], seen[c], mode, rules, registered)

UsedOK ==
  /\ used \in [Callers \cup {"repl"} -> Nat]
  /\ \A c \in Callers : used[c] <= MaxCalls
  /\ used["repl"] <= MaxCommands

\* A handler's call is the caller's last or an earlier one; its result waits only for a
\* caller that waits; it has passed, and until it writes the file is as planned.
JobOK(j) ==
  /\ j.n <= used[j.c]
  /\ pc[j.c] \in Working \ {"invoked"} => j.n < used[j.c]
  /\ j.stage \in Finished => pc[j.c] = "invoked" /\ used[j.c] = j.n
  /\ Passed(j.k, j.seen)
  /\ Spares(j.plan, j.seen.refused)
  /\ j.stage = "write" => file = j.plan.original \/ j.raced

JobsOK ==
  /\ jobs \subseteq JobType
  /\ \A j \in jobs : JobOK(j)
  /\ \A i, j \in jobs : i.c = j.c /\ i.n = j.n => i = j

Inv == PostureOK /\ LocksOK /\ CallersOK /\ UsedOK /\ JobsOK

-----------------------------------------------------------------------------
(* The records the actions build. *)

Fresh(k, plan) == [Blank EXCEPT !.k = k, !.plan = plan]
Ended(result) == [Blank EXCEPT !.result = result]
WithDiff(l, d) == [l EXCEPT !.showDiff = d]
WithQuestion(l, q, sev) == [l EXCEPT !.question = q, !.severity = sev]
WithChunks(l, q, chunks) == [l EXCEPT !.question = q, !.left = chunks]
WithConsent(l, y, x) == [l EXCEPT !.yes = y, !.plan.content = x]
WithReply(l, left, accepted) == [l EXCEPT !.left = left, !.accepted = accepted]
Asking(l, q) == [l EXCEPT !.question = q]

LEMMA BlankType == Blank \in CallType /\ Blank.yes = FALSE /\ Blank.accepted = {}
<1>1. (CHOOSE k \in Calls : TRUE) \in Calls
  OBVIOUS
<1>2. NoPlan \in PlanType
  BY DEF NoPlan, PlanType, Content
<1> QED
  BY <1>1, <1>2 DEF Blank, CallType, Severities, Questions, Results

LEMMA EndedType ==
  ASSUME NEW result \in Results
  PROVE  Ended(result) \in CallType /\ ~Ended(result).yes /\ Ended(result).accepted = {}
  BY BlankType DEF Ended, CallType

LEMMA FreshType ==
  ASSUME NEW k \in Calls, NEW plan \in PlanType
  PROVE  LET n == Fresh(k, plan)
         IN n \in CallType /\ ~n.yes /\ n.accepted = {} /\ n.k = k /\ n.plan = plan
  BY BlankType DEF Fresh, CallType

LEMMA WithDiffType ==
  ASSUME NEW l \in CallType, NEW d \in BOOLEAN
  PROVE  LET n == WithDiff(l, d)
         IN /\ n \in CallType /\ n.yes = l.yes /\ n.accepted = l.accepted /\ n.k = l.k
            /\ n.plan = l.plan
  BY DEF WithDiff, CallType

LEMMA WithQuestionType ==
  ASSUME NEW l \in CallType, NEW q \in Questions, NEW sev \in Severities
  PROVE  LET n == WithQuestion(l, q, sev)
         IN /\ n \in CallType /\ n.yes = l.yes /\ n.accepted = l.accepted /\ n.k = l.k
            /\ n.plan = l.plan /\ n.question = q /\ n.severity = sev
  BY DEF WithQuestion, CallType

LEMMA WithChunksType ==
  ASSUME NEW l \in CallType, NEW q \in Questions, NEW chunks \in SUBSET Edits
  PROVE  LET n == WithChunks(l, q, chunks)
         IN /\ n \in CallType /\ n.yes = l.yes /\ n.accepted = l.accepted /\ n.k = l.k
            /\ n.plan = l.plan /\ n.question = q /\ n.left = chunks /\ n.severity = l.severity
  BY DEF WithChunks, CallType

LEMMA AskingType ==
  ASSUME NEW l \in CallType, NEW q \in Questions
  PROVE  LET n == Asking(l, q)
         IN /\ n \in CallType /\ n.yes = l.yes /\ n.accepted = l.accepted /\ n.k = l.k
            /\ n.plan = l.plan /\ n.question = q /\ n.left = l.left /\ n.severity = l.severity
  BY DEF Asking, CallType

LEMMA WithConsentType ==
  ASSUME NEW l \in CallType, NEW y \in BOOLEAN, NEW x \in Content
  PROVE  LET n == WithConsent(l, y, x)
         IN /\ n \in CallType /\ n.accepted = l.accepted /\ n.k = l.k
            /\ n.plan.content = x /\ n.plan.original = l.plan.original
  BY DEF WithConsent, CallType, PlanType

LEMMA WithReplyType ==
  ASSUME NEW l \in CallType, NEW left \in SUBSET Edits, NEW accepted \in SUBSET Edits
  PROVE  LET n == WithReply(l, left, accepted)
         IN /\ n \in CallType /\ n.yes = l.yes /\ n.accepted = accepted /\ n.k = l.k
            /\ n.plan = l.plan /\ n.question = l.question /\ n.left = left
            /\ n.severity = l.severity
  BY DEF WithReply, CallType

\* The histories.
Begun(modes, levels) == [Unseen EXCEPT !.modes = modes, !.levels = levels]
WithPosture(s, m, level) == [s EXCEPT !.modes = @ \cup {m}, !.levels = @ \cup {level}]
WithListing(s, u) == [s EXCEPT !.unlisted = u]
WithWord(s, a, refused) == [s EXCEPT !.agreed = a, !.refused = refused]

LEMMA UnseenType ==
  /\ Unseen \in History /\ Unseen.refused = {}
  /\ Unseen.agreed = FALSE /\ Unseen.unlisted = FALSE
  BY DEF Unseen, History

LEMMA BegunType ==
  ASSUME NEW modes \in SUBSET Modes, NEW levels \in SUBSET Levels
  PROVE  LET n == Begun(modes, levels)
         IN /\ n \in History /\ n.modes = modes /\ n.levels = levels /\ n.refused = {}
  BY UnseenType DEF Begun, History

LEMMA WithPostureType ==
  ASSUME NEW s \in History, NEW m \in Modes, NEW level \in Levels
  PROVE  LET n == WithPosture(s, m, level)
         IN /\ n \in History /\ n.modes = s.modes \cup {m} /\ n.levels = s.levels \cup {level}
            /\ n.unlisted = s.unlisted /\ n.agreed = s.agreed /\ n.refused = s.refused
  BY DEF WithPosture, History

LEMMA WithListingType ==
  ASSUME NEW s \in History, NEW u \in BOOLEAN
  PROVE  LET n == WithListing(s, u)
         IN /\ n \in History /\ n.modes = s.modes /\ n.levels = s.levels
            /\ n.unlisted = u /\ n.agreed = s.agreed /\ n.refused = s.refused
  BY DEF WithListing, History

LEMMA WithWordType ==
  ASSUME NEW s \in History, NEW a \in BOOLEAN, NEW refused \in SUBSET Edits
  PROVE  LET n == WithWord(s, a, refused)
         IN /\ n \in History /\ n.modes = s.modes /\ n.levels = s.levels
            /\ n.unlisted = s.unlisted /\ n.agreed = a /\ n.refused = refused
  BY DEF WithWord, History

-----------------------------------------------------------------------------
(* The policy. *)

LEMMA SeverityType ==
  ASSUME NEW k \in Calls, NEW level \in Levels, NEW d \in BOOLEAN
  PROVE  /\ Severity(k, level, d) \in Severities
         /\ RequestSeverity(k, level, d) \in Severities
<1>1. Tool[k] \in ToolRecord
  OBVIOUS
<1>2. IntrinsicSeverity(k) \in Severities
  BY DEF IntrinsicSeverity, Severities
<1>3. DefinitionSeverity(k) \in Severities
  <2>1. Tool[k].classified \in BOOLEAN
    BY <1>1 DEF ToolRecord
  <2> QED
    BY <2>1 DEF DefinitionSeverity, Severities
<1>4. Severity(k, level, d) \in Severities
  <2>1. "high" \in Severities /\ (level = "confirm" \/ level # "confirm")
    BY DEF Severities
  <2> QED
    BY <1>2, <1>3, <2>1 DEF Severity
<1> QED
  BY <1>4 DEF RequestSeverity, Severities

\* A call that is let pass without review is not dangerous, as far as the catalog knows it.
LEMMA AllowPasses ==
  ASSUME NEW k \in Calls, NEW plan, NEW snap, NEW level \in Levels, NEW d \in BOOLEAN
  PROVE  /\ Decision(k, plan, snap, level, d) \in {"reject", "mutation", "general", "allow"}
         /\ Decision(k, plan, snap, level, d) # "reject" => level # "block"
         /\ Decision(k, plan, snap, level, d) = "allow" => ~NeedsReview(Severity(k, level, d))
  BY Zenon DEF Decision

\* A request that is granted without a question is not dangerous or the mode grants all.
LEMMA GrantedPasses ==
  ASSUME NEW l \in CallType, NEW s \in History, Judged(l, s), mode \in s.modes,
         RequestOutcome(mode, l.severity) = "approve"
  PROVE  Passed(l.k, s)
<1>1. PICK level \in s.levels :
        level # "block" /\ (s.unlisted \/ l.severity = RequestSeverity(l.k, level, TRUE))
  BY DEF Judged
<1>2. CASE s.unlisted
  BY <1>1, <1>2 DEF Passed
<1>3. CASE mode \in {"auto-approve", "notify-only"}
  BY <1>1, <1>3 DEF Passed
<1>4. CASE ~s.unlisted /\ mode = "safe-auto" /\ l.severity \notin {"high", "danger"}
  <2>1. l.severity = RequestSeverity(l.k, level, TRUE)
    BY <1>1, <1>4
  <2>2. ~Dangerous(l.k, level)
    BY <1>4, <2>1 DEF Dangerous, RequestSeverity, NeedsReview
  <2> QED
    BY <1>1, <2>2 DEF Passed
<1>5. CASE ~(mode \in {"auto-approve", "notify-only"})
           /\ ~(mode = "safe-auto" /\ l.severity \notin {"high", "danger"})
  <2>1. ~IsTTY /\ NonTTYFallback = "approve"
    BY <1>5 DEF RequestOutcome
  <2> QED
    BY <1>1, <2>1 DEF Passed
<1> QED
  BY <1>2, <1>3, <1>4, <1>5

\* What the operator agreed to passes.
LEMMA AgreedPasses ==
  ASSUME NEW l \in CallType, NEW s \in History, Judged(l, s), s.agreed
  PROVE  Passed(l.k, s)
  BY DEF Judged, Passed

\* What a call remembers only grows, and what lets it pass stays.
Grows(s, t) ==
  /\ s.modes \subseteq t.modes /\ s.levels \subseteq t.levels
  /\ s.unlisted => t.unlisted
  /\ s.agreed => t.agreed

LEMMA GrowthKeeps ==
  ASSUME NEW k, NEW l, NEW s, NEW t, Grows(s, t)
  PROVE  (Passed(k, s) => Passed(k, t)) /\ (Judged(l, s) => Judged(l, t))
  BY DEF Grows, Passed, Judged

LEMMA PlansType ==
  ASSUME NEW k \in Calls, NEW x \in Content, NEW plan \in Plans(k, x)
  PROVE  plan \in PlanType
<1>1. Tool[k].hunks \in SUBSET Edits
  BY DEF ToolRecord
<1>2. CASE Tool[k].kind = "write"
  <2>1. plan = [original |-> x, content |-> Tool[k].hunks]
    BY <1>2, Zenon DEF Plans
  <2> QED
    BY <1>1, <1>2, <2>1 DEF PlanType, Content
<1>3. CASE Tool[k].kind = "edit"
  <2>1. /\ plan \in IF x = NoFile \/ Tool[k].hunks \subseteq x THEN {}
                    ELSE {[original |-> x, content |-> x \cup Tool[k].hunks]}
    BY <1>3 DEF Plans
  <2>2. x # NoFile /\ plan = [original |-> x, content |-> x \cup Tool[k].hunks]
    BY <2>1
  <2> QED
    BY <1>1, <2>2 DEF PlanType, Content
<1>4. CASE Tool[k].kind = "delete"
  <2>1. plan = [original |-> x, content |-> NoFile]
    BY <1>4 DEF Plans
  <2> QED
    BY <1>4, <2>1 DEF PlanType, Content
<1>5. CASE Tool[k].kind \notin Mutations
  <2>1. plan = [original |-> x, content |-> x]
    BY <1>5, Zenon DEF Plans, Mutations
  <2> QED
    BY <1>5, <2>1 DEF PlanType, Content, Mutations
<1> QED
  BY <1>2, <1>3, <1>4, <1>5 DEF Mutations

LEMMA ChunksFacts ==
  ASSUME NEW x \in Content, NEW y \in Content
  PROVE  /\ Chunks(x, y) \in SUBSET Edits
         /\ Chunks(x, y) # {} => x # NoFile
  BY DEF Chunks, Content

-----------------------------------------------------------------------------
(* What a step of one caller does to the callers, the locks and the jobs. *)

Becomes(c, p, l, s) ==
  /\ pc' = [pc EXCEPT ![c] = p] /\ call' = [call EXCEPT ![c] = l]
  /\ seen' = [seen EXCEPT ![c] = s]

LEMMA CallersMove ==
  ASSUME CallersOK, NEW c \in Callers, NEW p \in Working \cup {"idle"}, NEW l \in CallType,
         NEW s \in History, Becomes(c, p, l, s), UNCHANGED posture,
         CallerOK(p, l, s, mode, rules, registered)
  PROVE  CallersOK'
<1>1. mode' = mode /\ rules' = rules /\ registered' = registered
  BY DEF posture
<1>2. /\ pc' \in [Callers -> Working \cup {"idle"}] /\ call' \in [Callers -> CallType]
      /\ seen' \in [Callers -> History]
  BY DEF CallersOK, Becomes
<1>3. ASSUME NEW d \in Callers
      PROVE  CallerOK(pc'[d], call'[d], seen'[d], mode', rules', registered')
  <2>1. CASE d = c
    <3>1. pc'[d] = p /\ call'[d] = l /\ seen'[d] = s
      BY <2>1 DEF CallersOK, Becomes
    <3> QED
      BY <1>1, <3>1
  <2>2. CASE d # c
    <3>1. pc'[d] = pc[d] /\ call'[d] = call[d] /\ seen'[d] = seen[d]
      BY <2>2 DEF CallersOK, Becomes
    <3>2. CallerOK(pc[d], call[d], seen[d], mode, rules, registered)
      BY DEF CallersOK
    <3> QED
      BY <1>1, <3>1, <3>2
  <2> QED
    BY <2>1, <2>2
<1> QED
  BY <1>2, <1>3 DEF CallersOK

Reviewing == {"request", "panel", "asked"}

\* A step outside of a review, while others may be in one.
LEMMA LocksStay ==
  ASSUME LocksOK, CallersOK, NEW c \in Callers, NEW p, NEW l, NEW s, Becomes(c, p, l, s),
         UNCHANGED <<repl, term, reviewer, screen>>,
         pc[c] \notin Reviewing, p \notin Reviewing
  PROVE  LocksOK'
  BY DEF LocksOK, CallersOK, Becomes, Reviewing

\* A step of a review, or into one, or out of it.
LEMMA LocksMove ==
  ASSUME LocksOK, CallersOK, NEW c \in Callers, NEW p, NEW l, NEW s, Becomes(c, p, l, s),
         repl' = repl, reviewer \in {c, Nobody}, reviewer' \in {c, Nobody},
         reviewer' = c <=> p \in Reviewing,
         term' = c <=> p = "asked",
         term' = term \/ (term' \in {c, Nobody} /\ term \in {c, Nobody}),
         screen' \in {c, screen}, p \in {"panel", "asked"} => screen' = c
  PROVE  LocksOK'
<1>1. \A d \in Callers \ {c} : pc'[d] = pc[d] /\ pc[d] \notin Reviewing /\ reviewer' # d
  BY DEF LocksOK, CallersOK, Becomes, Reviewing
<1>2. \A d \in Callers \ {c} : term # d /\ term' # d
  BY <1>1 DEF LocksOK, Reviewing
<1>3. pc'[c] = p
  BY DEF CallersOK, Becomes
<1>4. term' = "repl" <=> repl' = "typing"
  BY DEF LocksOK
<1>5. \A d \in Callers :
        /\ reviewer' = d <=> pc'[d] \in {"request", "panel", "asked"}
        /\ term' = d <=> pc'[d] = "asked"
        /\ pc'[d] \in {"panel", "asked"} => screen' = d
  BY <1>1, <1>2, <1>3 DEF Reviewing
<1>6. /\ term' \in Callers \cup {"repl", Nobody} /\ reviewer' \in Callers \cup {Nobody}
      /\ screen' \in Callers \cup {Nobody}
  BY DEF LocksOK
<1> QED
  BY <1>4, <1>5, <1>6 DEF LocksOK

\* No handler of the caller's call runs yet, and the caller starts none.
LEMMA JobsStay ==
  ASSUME JobsOK, CallersOK, NEW c \in Callers, NEW p, NEW l, NEW s, Becomes(c, p, l, s),
         UNCHANGED <<jobs, file, used>>,
         pc[c] \in Working \ {"invoked"}, p \in (Working \ {"invoked"}) \cup {"idle"}
  PROVE  JobsOK'
<1>1. ASSUME NEW j \in jobs PROVE JobOK(j)'
  <2>1. j \in JobType /\ JobOK(j) /\ j.c \in Callers
    BY DEF JobsOK, JobType
  <2>2. CASE j.c = c
    <3>1. pc'[j.c] = p
      BY <2>2 DEF CallersOK, Becomes
    <3> QED
      BY <2>1, <2>2, <3>1 DEF JobOK
  <2>3. CASE j.c # c
    <3>1. pc'[j.c] = pc[j.c]
      BY <2>1, <2>3 DEF CallersOK, Becomes
    <3> QED
      BY <2>1, <3>1 DEF JobOK
  <2> QED
    BY <2>2, <2>3
<1> QED
  BY <1>1 DEF JobsOK

\* A step within the pipeline, before the handler runs.
LEMMA PipelineStep ==
  ASSUME Inv, NEW c \in Callers, NEW p \in (Working \ {"invoked"}) \cup {"idle"},
         NEW l \in CallType, NEW s \in History,
         Becomes(c, p, l, s), UNCHANGED <<posture, repl, jobs, file, used>>,
         pc[c] \in Working \ {"invoked"}, CallerOK(p, l, s, mode, rules, registered),
         LocksOK'
  PROVE  Inv'
<1>1. CallersOK'
  BY CallersMove DEF Inv
<1>2. JobsOK'
  BY JobsStay DEF Inv
<1>3. PostureOK' /\ UsedOK'
  BY DEF Inv, PostureOK, UsedOK, posture
<1> QED
  BY <1>1, <1>2, <1>3 DEF Inv

LEMMA CallerFacts ==
  ASSUME Inv, NEW c \in Callers
  PROVE  /\ CallerOK(pc[c], call[c], seen[c], mode, rules, registered)
         /\ pc[c] \in Working \cup {"idle"} /\ call[c] \in CallType /\ seen[c] \in History
         /\ call[c].k \in Calls /\ call[c].plan \in PlanType
         /\ mode \in Modes /\ rules[call[c].k] \in Levels
<1>1. call[c] \in CallType
  BY DEF Inv, CallersOK
<1>2. call[c].k \in Calls /\ call[c].plan \in PlanType
  BY <1>1 DEF CallType
<1>3. rules[call[c].k] \in Levels /\ mode \in Modes
  BY <1>2 DEF Inv, PostureOK
<1> QED
  BY <1>1, <1>2, <1>3 DEF Inv, CallersOK

LEMMA FinishIs ==
  ASSUME NEW c, NEW result, Finish(c, result)
  PROVE  Becomes(c, "idle", Ended(result), Unseen)
  BY DEF Finish, Goto, Becomes, Ended

LEMMA EndedOK ==
  ASSUME NEW result \in Results
  PROVE  /\ Ended(result) \in CallType /\ Unseen \in History
         /\ CallerOK("idle", Ended(result), Unseen, mode, rules, registered)
  BY EndedType, UnseenType DEF CallerOK, Aware, Weighed, Sorted, Working

LEMMA WorkingSplits ==
  /\ Working = {"diff", "decide", "queue", "request", "panel", "asked", "network", "invoked"}
  /\ "idle" \notin Working
  BY DEF Working

-----------------------------------------------------------------------------
(* prepare and authorize. *)

LEMMA ExecuteKeeps ==
  ASSUME Inv, NEW c \in Callers, NEW k \in Calls, Execute(c, k) PROVE Inv'
<1> DEFINE refused == CASE k \notin registered -> "unavailable"
                        [] k \in registered /\ ~(Tool[k].effects \subseteq Caps[c]) -> "denied"
                        [] OTHER -> IF Plans(k, file) = {} THEN "denied" ELSE "none"
<1>1. pc[c] = "idle" /\ used[c] < MaxCalls
  BY DEF Execute
<1>2. refused \in Results /\ (refused = "none" => k \in registered)
  BY Zenon DEF Results
<1>3. \E p \in {"idle", "diff"} : \E l \in CallType : \E s \in History :
        Becomes(c, p, l, s) /\ CallerOK(p, l, s, mode, rules, registered)
  <2>1. CASE refused # "none"
    <3>1. Finish(c, refused)
      BY <2>1 DEF Execute
    <3> HIDE DEF refused
    <3> QED
      BY <1>2, <3>1, FinishIs, EndedOK
  <2>2. CASE refused = "none"
    <3>1. PICK plan \in Plans(k, file) :
            /\ Goto(c, "diff")
            /\ seen' = [seen EXCEPT ![c] =
                         [Unseen EXCEPT !.modes = {mode}, !.levels = {rules[k]}]]
            /\ call' = [call EXCEPT ![c] = [Blank EXCEPT !.k = k, !.plan = plan]]
      BY <2>2, Zenon DEF Execute
    <3> DEFINE l == Fresh(k, plan)
               s == Begun({mode}, {rules[k]})
    <3>2. Becomes(c, "diff", l, s)
      BY <3>1 DEF Becomes, Goto, Fresh, Begun
    <3>3. plan \in PlanType
      BY PlansType DEF Inv, PostureOK
    <3>4. mode \in Modes /\ rules[k] \in Levels
      BY DEF Inv, PostureOK
    <3>5. /\ l \in CallType /\ ~l.yes /\ l.accepted = {} /\ l.k = k /\ l.plan = plan
          /\ s \in History /\ s.modes = {mode} /\ s.levels = {rules[k]} /\ s.refused = {}
      <4>1. {mode} \in SUBSET Modes /\ {rules[k]} \in SUBSET Levels
        BY <3>4
      <4>2. l \in CallType /\ ~l.yes /\ l.accepted = {} /\ l.k = k /\ l.plan = plan
        BY <3>3, FreshType
      <4>3. /\ s \in History /\ s.modes = {mode} /\ s.levels = {rules[k]}
            /\ s.refused = {}
        BY <4>1, BegunType, Zenon
      <4> QED
        BY <4>2, <4>3
    <3>6. k \in registered
      BY <1>2, <2>2
    <3> HIDE DEF l, s
    <3>7. CallerOK("diff", l, s, mode, rules, registered)
      BY <3>3, <3>5, <3>6 DEF CallerOK, Aware, Weighed, Sorted
    <3> QED
      BY <3>2, <3>5, <3>7
  <2> QED
    BY <2>1, <2>2
<1> HIDE DEF refused
<1>4. PICK p \in {"idle", "diff"}, l \in CallType, s \in History :
        Becomes(c, p, l, s) /\ CallerOK(p, l, s, mode, rules, registered)
  BY <1>3
<1>5. CallersOK'
  BY <1>4, CallersMove DEF Inv, Execute, Working
<1>6. LocksOK'
  BY <1>1, <1>4, LocksStay DEF Inv, Execute, Reviewing
<1>7. used' = [used EXCEPT ![c] = @ + 1] /\ used[c] \in Nat
  BY DEF Inv, UsedOK, Execute
<1>8. UsedOK'
  <2>1. c # "repl"
    OBVIOUS
  <2> QED
    BY <1>1, <1>7, <2>1 DEF Inv, UsedOK
<1>9. JobsOK'
  <2>1. ASSUME NEW j \in jobs PROVE JobOK(j)'
    <3>1. /\ j \in JobType /\ JobOK(j) /\ j.c \in Callers /\ j.n \in Nat
          /\ file' = file /\ used[j.c] \in Nat
      BY DEF Inv, JobsOK, JobType, Execute, UsedOK
    <3>2. CASE j.c = c
      <4>1. pc'[j.c] = p /\ used'[j.c] = used[j.c] + 1 /\ pc[j.c] = "idle"
        BY <1>1, <1>4, <1>7, <3>2 DEF Inv, CallersOK, UsedOK, Becomes
      <4> QED
        BY <1>4, <3>1, <3>2, <4>1 DEF JobOK, Finished
    <3>3. CASE j.c # c
      <4>1. pc'[j.c] = pc[j.c] /\ used'[j.c] = used[j.c]
        BY <1>4, <1>7, <3>1, <3>3 DEF Inv, CallersOK, UsedOK, Becomes
      <4> QED
        BY <3>1, <4>1 DEF JobOK
    <3> QED
      BY <3>2, <3>3
  <2> QED
    BY <2>1 DEF Inv, JobsOK, Execute
<1>10. PostureOK'
  BY DEF Inv, PostureOK, Execute, posture
<1> QED
  BY <1>5, <1>6, <1>8, <1>9, <1>10 DEF Inv

LEMMA SnapDiffKeeps ==
  ASSUME Inv, NEW c \in Callers, SnapDiff(c) PROVE Inv'
<1>1. PICK d \in BOOLEAN : d = ~autoAll
  OBVIOUS
<1> DEFINE l == WithDiff(call[c], d)
<1>2. CallerOK(pc[c], call[c], seen[c], mode, rules, registered) /\ pc[c] = "diff"
      /\ call[c] \in CallType /\ seen[c] \in History
  BY CallerFacts DEF SnapDiff
<1>3. Becomes(c, "decide", l, seen[c])
  BY <1>1 DEF Inv, CallersOK, SnapDiff, Becomes, Goto, WithDiff
<1>4. /\ l \in CallType /\ l.yes = call[c].yes /\ l.accepted = call[c].accepted
      /\ l.k = call[c].k /\ l.plan = call[c].plan
  BY <1>2, WithDiffType
<1> HIDE DEF l
<1>5. CallerOK("decide", l, seen[c], mode, rules, registered)
  BY <1>2, <1>4 DEF CallerOK, Aware, Weighed, Sorted, Working
<1>6. LocksOK'
  BY <1>2, <1>3, LocksStay DEF Inv, SnapDiff, Reviewing
<1> QED
  BY <1>2, <1>3, <1>4, <1>5, <1>6, PipelineStep, WorkingSplits DEF SnapDiff

LEMMA DecideKeeps ==
  ASSUME Inv, NEW c \in Callers, Decide(c) PROVE Inv'
<1> DEFINE k == call[c].k
           level == rules[k]
           defined == k \in registered
           snap == [showDiff |-> call[c].showDiff, mode |-> mode]
           decision == Decision(k, call[c].plan, snap, level, defined)
<1>1. /\ CallerOK(pc[c], call[c], seen[c], mode, rules, registered) /\ pc[c] = "decide"
      /\ call[c] \in CallType /\ seen[c] \in History /\ k \in Calls /\ level \in Levels
  BY CallerFacts DEF Decide
<1>2. PICK d \in BOOLEAN : d = defined
  <2>1. defined \in BOOLEAN
    OBVIOUS
  <2> QED
    BY <2>1, Zenon
<1>3. /\ decision \in {"reject", "mutation", "general", "allow"}
      /\ decision # "reject" => level # "block"
      /\ decision = "allow" => ~NeedsReview(Severity(k, level, d))
  <2>1. decision = Decision(k, call[c].plan, snap, level, d)
    BY <1>2, Zenon
  <2>2. k \in Calls /\ level \in Levels
    BY <1>1
  <2> DEFINE D == Decision(k, call[c].plan, snap, level, d)
  <2> HIDE DEF k, level, defined, snap
  <2>3. /\ D \in {"reject", "mutation", "general", "allow"}
        /\ D # "reject" => level # "block"
        /\ D = "allow" => ~NeedsReview(Severity(k, level, d))
    BY <2>2, AllowPasses
  <2> HIDE DEF decision, D
  <2>4. decision = D
    BY <2>1 DEF D
  <2> QED
    BY <2>3, <2>4
<1>4. level \in seen[c].levels /\ (d = TRUE \/ seen[c].unlisted)
  BY <1>1, <1>2 DEF CallerOK, Aware, Working
<1>5. UNCHANGED <<posture, repl, term, reviewer, screen, file, jobs, used>>
  BY DEF Decide
<1>6. CASE decision = "allow" /\ Goto(c, "network") /\ UNCHANGED <<call, seen>>
  <2>1. Becomes(c, "network", call[c], seen[c])
    BY <1>6 DEF Inv, CallersOK, Becomes, Goto
  <2>2. Passed(k, seen[c])
    <3>1. CASE seen[c].unlisted
      BY <1>3, <1>4, <1>6, <3>1 DEF Passed
    <3>2. CASE d = TRUE
      <4>1. ~Dangerous(k, level)
        BY <1>3, <1>6, <3>2 DEF NeedsReview, Dangerous
      <4> QED
        BY <1>3, <1>4, <1>6, <4>1 DEF Passed
    <3> QED
      BY <1>4, <3>1, <3>2
  <2> HIDE DEF k, level, defined, snap, decision
  <2>3. CallerOK("network", call[c], seen[c], mode, rules, registered)
    BY <1>1, <2>2 DEF CallerOK, Aware, Weighed, Sorted, Spares, Working, k
  <2>4. LocksOK'
    BY <1>1, <1>5, <2>1, LocksStay DEF Inv, Reviewing
  <2> QED
    BY <1>1, <1>5, <2>1, <2>3, <2>4, PipelineStep, WorkingSplits
<1>7. CASE Finish(c, "rejected")
  <2>1. Becomes(c, "idle", Ended("rejected"), Unseen)
    BY <1>7, FinishIs
  <2>2. "rejected" \in Results
    BY DEF Results
  <2>3. LocksOK'
    BY <1>1, <1>5, <2>1, LocksStay DEF Inv, Reviewing
  <2> QED
    BY <1>1, <1>5, <2>1, <2>2, <2>3, EndedOK, PipelineStep, WorkingSplits
<1>8. CASE /\ decision \in {"mutation", "general"} /\ Goto(c, "queue")
           /\ call' = [call EXCEPT ![c].question = decision,
                                   ![c].severity = RequestSeverity(k, level, defined)]
           /\ UNCHANGED seen
  <2> DEFINE sev == RequestSeverity(k, level, d)
             l == WithQuestion(call[c], decision, sev)
  <2>1. Becomes(c, "queue", l, seen[c])
    <3>1. call' = [call EXCEPT ![c] = l]
      BY <1>2, <1>8 DEF WithQuestion
    <3> HIDE DEF l
    <3> QED
      BY <1>8, <3>1 DEF Inv, CallersOK, Becomes, Goto
  <2>2. sev \in Severities /\ decision \in Questions
    BY <1>1, <1>8, SeverityType DEF Questions
  <2> HIDE DEF k, level, defined, snap, decision, sev
  <2>3. /\ l \in CallType /\ l.yes = call[c].yes /\ l.accepted = call[c].accepted
        /\ l.k = call[c].k /\ l.plan = call[c].plan /\ l.question = decision
        /\ l.severity = sev
    BY <1>1, <2>2, WithQuestionType
  <2> HIDE DEF l
  <2>4. Judged(l, seen[c])
    <3>1. level # "block"
      BY <1>3, <1>8
    <3>2. CASE seen[c].unlisted
      BY <1>4, <3>1, <3>2 DEF Judged
    <3>3. CASE d = TRUE
      <4>1. sev = RequestSeverity(l.k, level, TRUE)
        BY <2>3, <3>3 DEF sev, k
      <4> QED
        BY <1>4, <2>3, <3>1, <4>1 DEF Judged
    <3> QED
      BY <1>4, <3>2, <3>3
  <2>5. CallerOK("queue", l, seen[c], mode, rules, registered)
    BY <1>1, <1>8, <2>3, <2>4 DEF CallerOK, Aware, Weighed, Sorted, Working
  <2>6. LocksOK'
    BY <1>1, <1>5, <2>1, LocksStay DEF Inv, Reviewing
  <2> QED
    BY <1>1, <1>5, <2>1, <2>3, <2>5, <2>6, PipelineStep, WorkingSplits
<1> QED
  BY <1>6, <1>7, <1>8, Zenon DEF Decide

-----------------------------------------------------------------------------
(* The review. *)

LEMMA OpenDiffKeeps ==
  ASSUME Inv, NEW c \in Callers, OpenDiff(c) PROVE Inv'
<1> DEFINE chunks == Chunks(call[c].plan.original, call[c].plan.content)
           q == IF Cardinality(chunks) > 1 THEN "chunk" ELSE "whole"
           l == WithChunks(call[c], q, chunks)
<1>1. /\ CallerOK(pc[c], call[c], seen[c], mode, rules, registered) /\ pc[c] = "queue"
      /\ call[c] \in CallType /\ seen[c] \in History
      /\ call[c].k \in Calls /\ call[c].plan \in PlanType
  BY CallerFacts DEF OpenDiff
<1>2. Becomes(c, "panel", l, seen[c])
  <2>1. call' = [call EXCEPT ![c] = l]
    BY DEF OpenDiff, WithChunks
  <2> HIDE DEF l
  <2> QED
    BY <2>1 DEF Inv, CallersOK, OpenDiff, Becomes, Goto
<1>3. seen[c].refused = {} /\ call[c].accepted = {}
  BY <1>1 DEF CallerOK, Sorted
<1>4. chunks \in SUBSET Edits /\ (chunks # {} => call[c].plan.original # NoFile)
  BY <1>1, ChunksFacts DEF PlanType
<1>5. q \in {"chunk", "whole"} /\ (q = "chunk" => chunks # {})
  <2> HIDE DEF chunks
  <2>1. chunks = {} => Cardinality(chunks) = 0
    BY FS_EmptySet
  <2> QED
    BY <2>1
<1> HIDE DEF chunks, q
<1>6. /\ l \in CallType /\ l.yes = call[c].yes /\ l.accepted = call[c].accepted
      /\ l.k = call[c].k /\ l.plan = call[c].plan /\ l.question = q /\ l.left = chunks
      /\ l.severity = call[c].severity
  BY <1>1, <1>4, <1>5, WithChunksType DEF Questions
<1> HIDE DEF l
<1>7. CallerOK("panel", l, seen[c], mode, rules, registered)
  <2>1. Aware("panel", l, seen[c], mode, rules, registered)
    BY <1>1, <1>6 DEF CallerOK, Aware, Working
  <2>2. Weighed("panel", l, seen[c])
    BY <1>1, <1>6 DEF CallerOK, Weighed, Judged
  <2>3. q = "chunk" => Apart(l, seen[c])
    BY <1>3, <1>4, <1>5, <1>6 DEF Apart
  <2>4. Sorted("panel", l, seen[c])
    BY <1>3, <1>5, <1>6, <2>3 DEF Sorted
  <2> QED
    BY <2>1, <2>2, <2>4 DEF CallerOK
<1>8. LocksOK'
  <2>1. term # c
    BY <1>1 DEF Inv, LocksOK
  <2> QED
    BY <1>2, <2>1, LocksMove DEF Inv, OpenDiff, TakeReviewer, Reviewing
<1> QED
  BY <1>1, <1>2, <1>6, <1>7, <1>8, PipelineStep, WorkingSplits DEF OpenDiff

LEMMA LockGeneralKeeps ==
  ASSUME Inv, NEW c \in Callers, LockGeneral(c) PROVE Inv'
<1>1. /\ CallerOK(pc[c], call[c], seen[c], mode, rules, registered) /\ pc[c] = "queue"
      /\ call[c] \in CallType /\ seen[c] \in History /\ call[c].question = "general"
  BY CallerFacts DEF LockGeneral
<1>2. Becomes(c, "request", call[c], seen[c])
  BY DEF Inv, CallersOK, LockGeneral, Becomes, Goto
<1>3. CallerOK("request", call[c], seen[c], mode, rules, registered)
  BY <1>1 DEF CallerOK, Aware, Weighed, Sorted, Working
<1>4. LocksOK'
  <2>1. term # c
    BY <1>1 DEF Inv, LocksOK
  <2> QED
    BY <1>2, <2>1, LocksMove DEF Inv, LockGeneral, TakeReviewer, Reviewing
<1> QED
  BY <1>1, <1>2, <1>3, <1>4, PipelineStep, WorkingSplits DEF LockGeneral

LEMMA RequestKeeps ==
  ASSUME Inv, NEW c \in Callers, Request(c) PROVE Inv'
<1>1. /\ CallerOK(pc[c], call[c], seen[c], mode, rules, registered) /\ pc[c] = "request"
      /\ call[c] \in CallType /\ seen[c] \in History
  BY CallerFacts DEF Request
<1>2. reviewer = c /\ term # c /\ mode \in seen[c].modes /\ Judged(call[c], seen[c])
  BY <1>1 DEF Inv, LocksOK, CallerOK, Aware, Weighed, Working
<1>3. UNCHANGED <<posture, repl, term, file, jobs, used>>
  BY DEF Request
<1> DEFINE outcome == RequestOutcome(mode, call[c].severity)
<1>4. CASE outcome = "approve" /\ LeaveReviewer(c) /\ Goto(c, "network")
           /\ UNCHANGED <<call, screen, seen>>
  <2>1. Becomes(c, "network", call[c], seen[c])
    BY <1>4 DEF Inv, CallersOK, Becomes, Goto
  <2>2. Passed(call[c].k, seen[c])
    BY <1>1, <1>2, <1>4, GrantedPasses
  <2>3. CallerOK("network", call[c], seen[c], mode, rules, registered)
    BY <1>1, <2>2 DEF CallerOK, Aware, Weighed, Sorted, Spares, Working
  <2>4. LocksOK'
    BY <1>2, <1>3, <1>4, <2>1, LocksMove DEF Inv, LeaveReviewer, Reviewing
  <2> QED
    BY <1>1, <1>3, <1>4, <2>1, <2>3, <2>4, PipelineStep, WorkingSplits
<1>5. CASE LeaveReviewer(c) /\ Finish(c, "rejected") /\ UNCHANGED screen
  <2>1. Becomes(c, "idle", Ended("rejected"), Unseen)
    BY <1>5, FinishIs
  <2>2. "rejected" \in Results
    BY DEF Results
  <2>3. LocksOK'
    BY <1>2, <1>3, <1>5, <2>1, LocksMove DEF Inv, LeaveReviewer, Reviewing
  <2> QED
    BY <1>1, <1>3, <2>1, <2>2, <2>3, EndedOK, PipelineStep, WorkingSplits
<1>6. CASE screen' = c /\ Goto(c, "panel") /\ UNCHANGED <<call, reviewer, seen>>
  <2>1. Becomes(c, "panel", call[c], seen[c])
    BY <1>6 DEF Inv, CallersOK, Becomes, Goto
  <2>2. CallerOK("panel", call[c], seen[c], mode, rules, registered)
    BY <1>1 DEF CallerOK, Aware, Weighed, Sorted, Working
  <2>3. LocksOK'
    BY <1>2, <1>3, <1>6, <2>1, LocksMove DEF Inv, Reviewing
  <2> QED
    BY <1>1, <1>3, <1>6, <2>1, <2>2, <2>3, PipelineStep, WorkingSplits
<1> QED
  BY <1>4, <1>5, <1>6 DEF Request

LEMMA ReadLineKeeps ==
  ASSUME Inv, NEW c \in Callers, ReadLine(c) PROVE Inv'
<1>1. /\ CallerOK(pc[c], call[c], seen[c], mode, rules, registered) /\ pc[c] = "panel"
      /\ call[c] \in CallType /\ seen[c] \in History
  BY CallerFacts DEF ReadLine
<1>2. Becomes(c, "asked", call[c], seen[c])
  BY DEF Inv, CallersOK, ReadLine, Becomes, Goto
<1>3. CallerOK("asked", call[c], seen[c], mode, rules, registered)
  BY <1>1 DEF CallerOK, Aware, Weighed, Sorted, Working
<1>4. LocksOK'
  <2>1. reviewer = c /\ screen = c
    BY <1>1 DEF Inv, LocksOK
  <2> QED
    BY <1>2, <2>1, LocksMove DEF Inv, ReadLine, Reviewing
<1> QED
  BY <1>1, <1>2, <1>3, <1>4, PipelineStep, WorkingSplits DEF ReadLine

\* What holds while the operator types an answer, and where an answer may lead.
LEMMA AskedFacts ==
  ASSUME Inv, NEW c \in Callers, pc[c] = "asked"
  PROVE  /\ CallerOK(pc[c], call[c], seen[c], mode, rules, registered)
         /\ call[c] \in CallType /\ seen[c] \in History
         /\ call[c].k \in Calls /\ call[c].plan \in PlanType
         /\ term = c /\ reviewer = c /\ screen = c
         /\ Judged(call[c], seen[c])
<1>1. CallerOK(pc[c], call[c], seen[c], mode, rules, registered)
  BY CallerFacts
<1> QED
  BY <1>1, CallerFacts DEF Inv, LocksOK, CallerOK, Weighed

LEMMA AnswerStep ==
  ASSUME Inv, NEW c \in Callers, pc[c] = "asked",
         UNCHANGED <<posture, repl, jobs, file, used>>, term' = Nobody,
         NEW p \in {"idle", "panel", "network"}, NEW l \in CallType, NEW s \in History,
         Becomes(c, p, l, s), CallerOK(p, l, s, mode, rules, registered),
         IF p = "panel" THEN reviewer' = reviewer /\ screen' = c
         ELSE LeaveReviewer(c) /\ screen' = screen
  PROVE  Inv'
<1>1. term = c /\ reviewer = c /\ screen = c
  BY AskedFacts
<1>2. LocksOK'
  BY <1>1, LocksMove DEF Inv, LeaveReviewer, Reviewing
<1> QED
  BY <1>2, PipelineStep, WorkingSplits

LEMMA AskAgainKeeps ==
  ASSUME Inv, NEW c \in Callers, AskAgain(c) PROVE Inv'
<1>1. pc[c] = "asked"
  BY DEF AskAgain
<1>2. Becomes(c, "panel", call[c], seen[c])
  BY DEF Inv, CallersOK, AskAgain, Becomes, Goto
<1>3. CallerOK("panel", call[c], seen[c], mode, rules, registered)
  BY <1>1, AskedFacts DEF CallerOK, Aware, Weighed, Sorted, Working
<1> QED
  BY <1>1, <1>2, <1>3, AskedFacts, AnswerStep DEF AskAgain

\* A refusal ends the call.
LEMMA RefuseKeeps ==
  ASSUME Inv, NEW c \in Callers, pc[c] = "asked", NEW result \in Results, Refuse(c, result),
         UNCHANGED <<posture, repl, jobs, file, used>>
  PROVE  Inv'
<1>1. Becomes(c, "idle", Ended(result), Unseen)
  BY FinishIs DEF Refuse
<1> QED
  BY <1>1, EndedOK, AnswerStep DEF Refuse

\* What the operator says is remembered by the call on the screen.
Heard(s, t, yes, refused) ==
  /\ t \in History /\ t.modes = s.modes /\ t.levels = s.levels /\ t.unlisted = s.unlisted
  /\ t.agreed <=> s.agreed \/ yes
  /\ t.refused = s.refused \cup refused

LEMMA SaidIs ==
  ASSUME Inv, NEW c \in Callers, screen = c, NEW yes,
         NEW refused \in SUBSET Edits, Said(yes, refused)
  PROVE  \E t \in History : Heard(seen[c], t, yes, refused) /\ seen' = [seen EXCEPT ![c] = t]
<1>1. seen \in [Callers -> History]
  BY DEF Inv, CallersOK
<1>2. PICK a \in BOOLEAN : a = (seen[c].agreed \/ yes)
  <2>1. (seen[c].agreed \/ yes) \in BOOLEAN
    OBVIOUS
  <2> QED
    BY <2>1, Zenon
<1>3. seen[c].refused \cup refused \in SUBSET Edits
  BY <1>1 DEF History
<1> DEFINE t == WithWord(seen[c], a, seen[c].refused \cup refused)
<1>4. /\ t \in History /\ t.modes = seen[c].modes /\ t.levels = seen[c].levels
      /\ t.unlisted = seen[c].unlisted /\ t.agreed = a
      /\ t.refused = seen[c].refused \cup refused
  BY <1>1, <1>3, WithWordType
<1>5. seen' = [seen EXCEPT ![c] = t]
  BY <1>1, <1>2 DEF Said, WithWord
<1> HIDE DEF t
<1> QED
  BY <1>2, <1>4, <1>5 DEF Heard

\* Consent: agreed, and what is to be written spares the refused hunks.
LEMMA ConsentKeeps ==
  ASSUME Inv, NEW c \in Callers, pc[c] = "asked", NEW content \in Content,
         Consent(c, content), UNCHANGED <<posture, repl, jobs, file, used>>,
         NEW t \in History, seen' = [seen EXCEPT ![c] = t], Grows(seen[c], t), t.agreed,
         Chunks(call[c].plan.original, content) \cap t.refused = {}
  PROVE  Inv'
<1>1. /\ CallerOK(pc[c], call[c], seen[c], mode, rules, registered)
      /\ call[c] \in CallType /\ Judged(call[c], seen[c])
  BY AskedFacts
<1>0. PICK y \in BOOLEAN : y = TRUE
  BY Zenon
<1> DEFINE l == WithConsent(call[c], y, content)
<1>2. l \in CallType /\ l.accepted = call[c].accepted /\ l.k = call[c].k
      /\ l.plan.content = content /\ l.plan.original = call[c].plan.original
  BY <1>1, WithConsentType
<1>3. Becomes(c, "network", l, t)
  <2>1. call' = [call EXCEPT ![c] = l]
    <3>1. call' = [call EXCEPT ![c] = WithConsent(call[c], TRUE, content)]
      BY Zenon DEF Consent, WithConsent
    <3> QED
      BY <1>0, <3>1, Zenon
  <2> HIDE DEF l
  <2> QED
    BY <2>1 DEF Consent, Becomes, Goto
<1> HIDE DEF l
<1>4. Passed(l.k, t)
  <2>1. Judged(call[c], t)
    BY <1>1, GrowthKeeps
  <2> QED
    BY <1>1, <1>2, <2>1, AgreedPasses
<1>5. CallerOK("network", l, t, mode, rules, registered)
  BY <1>1, <1>2, <1>4 DEF CallerOK, Aware, Weighed, Sorted, Spares, Working, Grows
<1> QED
  BY <1>2, <1>3, <1>5, AnswerStep DEF Consent

LEMMA AnswerOnceKeeps ==
  ASSUME Inv, NEW c \in Callers, AnswerOnce(c) PROVE Inv'
<1>1. pc[c] = "asked" /\ UNCHANGED <<posture, repl, jobs, file, used>>
  BY DEF AnswerOnce
<1>2. /\ CallerOK(pc[c], call[c], seen[c], mode, rules, registered)
      /\ call[c] \in CallType /\ seen[c] \in History /\ screen = c
      /\ call[c].plan.content \in Content /\ Judged(call[c], seen[c])
  BY <1>1, AskedFacts DEF PlanType
<1>3. {} \in SUBSET Edits
  OBVIOUS
<1>4. CASE call[c].question \in {"general", "whole"}
           /\ Consent(c, call[c].plan.content) /\ Said(TRUE, {})
  <2>1. \E t \in History : Heard(seen[c], t, TRUE, {}) /\ seen' = [seen EXCEPT ![c] = t]
    BY <1>2, <1>3, <1>4, SaidIs, Zenon
  <2>2. PICK t \in History : Heard(seen[c], t, TRUE, {}) /\ seen' = [seen EXCEPT ![c] = t]
    BY <2>1, Zenon
  <2>3. t.agreed
    BY <2>2, Zenon DEF Heard
  <2>4. /\ t.modes = seen[c].modes /\ t.levels = seen[c].levels
        /\ t.unlisted = seen[c].unlisted /\ t.refused = seen[c].refused \cup {}
    BY <2>2, Zenon DEF Heard
  <2>5. seen[c].refused = {}
    BY <1>1, <1>2, <1>4 DEF CallerOK, Sorted
  <2>6. Grows(seen[c], t)
    BY <2>3, <2>4 DEF Grows
  <2>7. Chunks(call[c].plan.original, call[c].plan.content) \cap t.refused = {}
    BY <2>4, <2>5
  <2> QED
    BY <1>1, <1>2, <1>4, <2>2, <2>3, <2>6, <2>7, ConsentKeeps
<1>5. CASE Refuse(c, "rejected")
  <2>1. "rejected" \in Results
    BY DEF Results
  <2> QED
    BY <1>1, <1>5, <2>1, RefuseKeeps
<1>6. CASE /\ call[c].question = "general"
           /\ NextQuestion(c, [call[c] EXCEPT !.question = "feedback"]) /\ Said(FALSE, {})
  <2>1. \E t \in History : Heard(seen[c], t, FALSE, {}) /\ seen' = [seen EXCEPT ![c] = t]
    BY <1>2, <1>3, <1>6, SaidIs, Zenon
  <2>2. PICK t \in History : Heard(seen[c], t, FALSE, {}) /\ seen' = [seen EXCEPT ![c] = t]
    BY <2>1, Zenon
  <2>3. seen[c].agreed => t.agreed
    BY <2>2, Zenon DEF Heard
  <2>4. /\ t.modes = seen[c].modes /\ t.levels = seen[c].levels
        /\ t.unlisted = seen[c].unlisted /\ t.refused = seen[c].refused \cup {}
    BY <2>2, Zenon DEF Heard
  <2> DEFINE l == Asking(call[c], "feedback")
  <2>5. Becomes(c, "panel", l, t)
    BY <1>6, <2>2 DEF NextQuestion, Becomes, Goto, Asking
  <2>6. /\ l \in CallType /\ l.yes = call[c].yes /\ l.accepted = call[c].accepted
        /\ l.k = call[c].k /\ l.question = "feedback" /\ l.severity = call[c].severity
    BY <1>2, AskingType DEF Questions
  <2> HIDE DEF l
  <2>7. seen[c].refused = {}
    BY <1>1, <1>2, <1>6 DEF CallerOK, Sorted
  <2>8. Judged(l, t)
    BY <1>2, <2>4, <2>6 DEF Judged
  <2>9. CallerOK("panel", l, t, mode, rules, registered)
    BY <1>1, <1>2, <2>3, <2>4, <2>6, <2>7, <2>8
       DEF CallerOK, Aware, Weighed, Sorted, Working
  <2> QED
    BY <1>1, <1>6, <2>5, <2>6, <2>9, AnswerStep DEF NextQuestion
<1>7. CASE \E result \in {"modified", "rejected"} : Refuse(c, result)
  <2>1. {"modified", "rejected"} \subseteq Results
    BY DEF Results
  <2> QED
    BY <1>1, <1>7, <2>1, RefuseKeeps
<1>8. CASE /\ call[c].question = "failed" /\ Consent(c, call[c].plan.content)
           /\ seen' = [seen EXCEPT ![screen] = [@ EXCEPT !.agreed = TRUE, !.refused = {}]]
  <2>1. PICK y \in BOOLEAN : y = TRUE
    BY Zenon
  <2> DEFINE t == WithWord(seen[c], y, {})
  <2>2. /\ t \in History /\ t.modes = seen[c].modes /\ t.levels = seen[c].levels
        /\ t.unlisted = seen[c].unlisted /\ t.agreed = y /\ t.refused = {}
    BY <1>2, <1>3, WithWordType
  <2>3. seen' = [seen EXCEPT ![c] = t]
    <3>1. seen' = [seen EXCEPT ![c] = [@ EXCEPT !.agreed = TRUE, !.refused = {}]]
      BY <1>2, <1>8, Zenon
    <3>2. seen' = [seen EXCEPT ![c] = WithWord(seen[c], TRUE, {})]
      BY <3>1, Zenon DEF WithWord
    <3> QED
      BY <2>1, <3>2, Zenon
  <2> HIDE DEF t
  <2>4. t.agreed
    BY <2>1, <2>2
  <2>5. Grows(seen[c], t)
    BY <2>2, <2>4 DEF Grows
  <2>6. Consent(c, call[c].plan.content)
    BY <1>8, Zenon
  <2>7. Chunks(call[c].plan.original, call[c].plan.content) \cap t.refused = {}
    BY <2>2
  <2> QED
    BY <1>1, <1>2, <2>2, <2>3, <2>4, <2>5, <2>6, <2>7, ConsentKeeps
<1> QED
  BY <1>4, <1>5, <1>6, <1>7, <1>8, Zenon DEF AnswerOnce

LEMMA AnswerChunkKeeps ==
  ASSUME Inv, NEW c \in Callers, AnswerChunk(c) PROVE Inv'
<1> DEFINE l == call[c]
           shown == CHOOSE h \in l.left : TRUE
<1>1. pc[c] = "asked" /\ UNCHANGED <<posture, repl, jobs, file, used>> /\ l.question = "chunk"
  BY DEF AnswerChunk
<1>2. /\ CallerOK(pc[c], l, seen[c], mode, rules, registered)
      /\ l \in CallType /\ seen[c] \in History /\ screen = c /\ l.plan \in PlanType
      /\ Judged(l, seen[c])
  BY <1>1, AskedFacts
<1>3. Apart(l, seen[c])
  BY <1>1, <1>2 DEF CallerOK, Sorted
<1>4. "rejected" \in Results
  BY DEF Results
<1>5. CASE Refuse(c, "rejected")
  BY <1>1, <1>4, <1>5, RefuseKeeps
<1>6. ASSUME NEW here \in {{shown}, l.left}, NEW yes \in BOOLEAN
      PROVE  LET after == [l EXCEPT !.left = @ \ here,
                                    !.accepted = IF yes THEN @ \cup here ELSE @]
                 said == Said(yes, IF yes THEN {} ELSE here)
             IN (\/ after.left # {} /\ NextQuestion(c, after) /\ said
                 \/ after.left = {} /\ after.accepted = {} /\ Refuse(c, "rejected")
                 \/ after.left = {} /\ after.accepted # {} /\ Consent(c, Applied(after)) /\ said
                 \/ /\ after.left = {} /\ after.accepted # {}
                    /\ Applied(after) # l.plan.content
                    /\ NextQuestion(c, [after EXCEPT !.question = "failed"]) /\ said)
                => Inv'
  <2> DEFINE acc == IF yes THEN l.accepted \cup here ELSE l.accepted
             rf == IF yes THEN {} ELSE here
             after == WithReply(l, l.left \ here, acc)
             again == Asking(after, "failed")
  <2>1. here \subseteq l.left /\ here # {}
    BY <1>3 DEF Apart
  <2>2. l.left \in SUBSET Edits /\ l.accepted \in SUBSET Edits
    BY <1>2 DEF CallType
  <2>3. l.left \ here \in SUBSET Edits /\ acc \in SUBSET Edits /\ rf \in SUBSET Edits
    BY <2>1, <2>2
  <2>4. /\ after \in CallType /\ after.yes = l.yes /\ after.accepted = acc
        /\ after.k = l.k /\ after.plan = l.plan /\ after.question = "chunk"
        /\ after.left = l.left \ here /\ after.severity = l.severity
    BY <1>1, <1>2, <2>3, WithReplyType
  <2>5. /\ again \in CallType /\ again.yes = l.yes /\ again.accepted = acc
        /\ again.k = l.k /\ again.plan = l.plan /\ again.question = "failed"
        /\ again.severity = l.severity
    <3> HIDE DEF after
    <3> QED
      BY <2>4, AskingType DEF Questions
  <2> SUFFICES
        ASSUME \/ after.left # {} /\ NextQuestion(c, after) /\ Said(yes, rf)
               \/ after.left = {} /\ after.accepted = {} /\ Refuse(c, "rejected")
               \/ /\ after.left = {} /\ after.accepted # {}
                  /\ Consent(c, Applied(after)) /\ Said(yes, rf)
               \/ /\ after.left = {} /\ after.accepted # {}
                  /\ NextQuestion(c, again) /\ Said(yes, rf)
        PROVE  Inv'
    BY Zenon DEF WithReply, Asking
  <2>6. CASE Refuse(c, "rejected")
    BY <1>1, <1>4, <2>6, RefuseKeeps
  <2>7. CASE Said(yes, rf)
    <3>1. PICK t \in History : Heard(seen[c], t, yes, rf) /\ seen' = [seen EXCEPT ![c] = t]
      BY <1>2, <2>3, <2>7, SaidIs
    <3> HIDE DEF l, shown, acc, rf, after, again
    <3>2. Grows(seen[c], t)
      BY <3>1 DEF Grows, Heard
    <3>3. acc # {} \/ l.yes => t.agreed
      BY <1>2, <3>1 DEF CallerOK, Weighed, Heard, acc, l
    <3>4. /\ t.refused = seen[c].refused \cup rf
          /\ (acc = l.accepted /\ rf = here) \/ (acc = l.accepted \cup here /\ rf = {})
      BY <3>1 DEF Heard, acc, rf
    <3>5. t.refused \cap acc = {} /\ l.plan.original # NoFile
      BY <1>3, <2>1, <3>4 DEF Apart
    <3>6. /\ Aware("panel", after, t, mode, rules, registered)
          /\ Aware("panel", again, t, mode, rules, registered)
      BY <1>1, <1>2, <2>4, <2>5, <3>1 DEF CallerOK, Aware, Working, Heard
    <3>7. Judged(after, t) /\ Judged(again, t)
      BY <1>2, <2>4, <2>5, <3>1 DEF Judged, Heard
    <3>8. CASE after.left # {} /\ NextQuestion(c, after)
      <4>1. Apart(after, t)
        BY <1>3, <2>1, <2>4, <3>4, <3>5, <3>8 DEF Apart
      <4>2. CallerOK("panel", after, t, mode, rules, registered)
        BY <2>4, <3>3, <3>6, <3>7, <4>1 DEF CallerOK, Weighed, Sorted
      <4>3. Becomes(c, "panel", after, t)
        BY <3>1, <3>8 DEF NextQuestion, Becomes, Goto
      <4> QED
        BY <1>1, <2>4, <3>8, <4>2, <4>3, AnswerStep DEF NextQuestion
    <3>9. CASE after.accepted # {} /\ Consent(c, Applied(after))
      <4>1. /\ Applied(after) = (l.plan.original \ acc) \cup (acc \ l.plan.original)
            /\ Applied(after) \in Content
        BY <1>2, <2>3, <2>4, <3>5 DEF Applied, PlanType, Content
      <4>3. Chunks(l.plan.original, Applied(after)) \subseteq acc
        BY <4>1 DEF Chunks
      <4>2. Chunks(call[c].plan.original, Applied(after)) \cap t.refused = {}
        BY <3>5, <4>3 DEF l
      <4> QED
        BY <1>1, <2>4, <3>1, <3>2, <3>3, <3>9, <4>1, <4>2, ConsentKeeps
    <3>10. CASE NextQuestion(c, again)
      <4>1. CallerOK("panel", again, t, mode, rules, registered)
        BY <2>5, <3>3, <3>6, <3>7 DEF CallerOK, Weighed, Sorted
      <4>2. Becomes(c, "panel", again, t)
        BY <3>1, <3>10 DEF NextQuestion, Becomes, Goto
      <4> QED
        BY <1>1, <2>5, <3>10, <4>1, <4>2, AnswerStep DEF NextQuestion
    <3> QED
      BY <2>6, <3>8, <3>9, <3>10
  <2> QED
    BY <2>6, <2>7
<1> QED
  BY <1>5, <1>6, Zenon DEF AnswerChunk

-----------------------------------------------------------------------------
(* invoke. *)

LEMMA JobFacts ==
  ASSUME Inv, NEW j \in jobs
  PROVE  /\ j \in JobType /\ JobOK(j) /\ j.c \in Callers /\ j.n \in Nat /\ used[j.c] \in Nat
         /\ j.seen \in History /\ j.plan \in PlanType
  BY DEF Inv, JobsOK, JobType, UsedOK

\* A caller's jobs are not those of the others.
LEMMA OthersJobs ==
  ASSUME Inv, NEW c \in Callers, NEW p, NEW l, NEW s, Becomes(c, p, l, s),
         UNCHANGED <<file, used>>, NEW j \in jobs, j.c # c
  PROVE  JobOK(j)'
<1>1. j \in JobType /\ JobOK(j) /\ j.c \in Callers
  BY JobFacts
<1>2. pc'[j.c] = pc[j.c]
  BY <1>1 DEF Inv, CallersOK, Becomes
<1> QED
  BY <1>1, <1>2 DEF JobOK

LEMMA InvokeKeeps ==
  ASSUME Inv, NEW c \in Callers, Invoke(c) PROVE Inv'
<1>1. /\ CallerOK(pc[c], call[c], seen[c], mode, rules, registered) /\ pc[c] = "network"
      /\ call[c] \in CallType /\ seen[c] \in History /\ call[c].k \in Calls
      /\ call[c].plan \in PlanType /\ call[c].yes \in BOOLEAN
  BY CallerFacts DEF Invoke, CallType
<1>2. UNCHANGED <<posture, repl, term, reviewer, screen, file, used>>
  BY DEF Invoke
<1>3. CASE Finish(c, "denied") /\ UNCHANGED jobs
  <2>1. Becomes(c, "idle", Ended("denied"), Unseen)
    BY <1>3, FinishIs
  <2>2. "denied" \in Results
    BY DEF Results
  <2>3. LocksOK'
    BY <1>1, <1>2, <2>1, LocksStay DEF Inv, Reviewing
  <2> QED
    BY <1>1, <1>2, <1>3, <2>1, <2>2, <2>3, EndedOK, PipelineStep, WorkingSplits
<1>4. CASE /\ Goto(c, "invoked")
           /\ jobs' = jobs \cup
                {[c |-> c, n |-> used[c], k |-> call[c].k, plan |-> call[c].plan,
                  yes |-> call[c].yes, seen |-> seen[c], stage |-> "run", raced |-> FALSE]}
           /\ UNCHANGED <<call, seen>>
  <2>1. Becomes(c, "invoked", call[c], seen[c])
    BY <1>4, Zenon DEF Inv, CallersOK, Becomes, Goto
  <2>2. PICK f \in BOOLEAN : f = FALSE
    BY Zenon
  <2> DEFINE j == [c |-> c, n |-> used[c], k |-> call[c].k, plan |-> call[c].plan,
                   yes |-> call[c].yes, seen |-> seen[c], stage |-> "run", raced |-> f]
  <2>3. /\ jobs' = jobs \cup {j}
    BY <1>4, <2>2, Zenon
  <2>4. /\ j \in JobType /\ j.c = c /\ j.n = used[c] /\ j.k = call[c].k
        /\ j.plan = call[c].plan /\ j.seen = seen[c] /\ j.stage = "run"
    BY <1>1 DEF Inv, UsedOK, JobType, Stages, Finished
  <2> HIDE DEF j
  <2>5. CallerOK("invoked", call[c], seen[c], mode, rules, registered)
    BY <1>1 DEF CallerOK, Aware, Weighed, Sorted, Working
  <2>6. CallersOK'
    BY <1>1, <1>2, <2>1, <2>5, CallersMove, WorkingSplits DEF Inv
  <2>7. LocksOK'
    BY <1>1, <1>2, <2>1, LocksStay DEF Inv, Reviewing
  <2>8. pc'[c] = "invoked"
    BY <2>1 DEF Inv, CallersOK, Becomes
  <2>9. \A i \in jobs : i.c = c => i.n < used[c]
    BY <1>1, JobFacts, WorkingSplits DEF JobOK
  <2>10. ASSUME NEW i \in jobs' PROVE JobOK(i)'
    <3>1. CASE i = j
      <4>1. Passed(call[c].k, seen[c])
        BY <1>1 DEF CallerOK, Weighed
      <4>2. Spares(call[c].plan, seen[c].refused)
        BY <1>1 DEF CallerOK, Sorted
      <4>3. used'[c] = used[c] /\ used[c] \in Nat
        BY <1>2 DEF Inv, UsedOK
      <4> QED
        BY <2>4, <2>8, <3>1, <4>1, <4>2, <4>3 DEF JobOK, Finished
    <3>2. CASE i \in jobs /\ i.c = c
      <4>1. JobOK(i) /\ i.n \in Nat /\ used[c] \in Nat /\ i.n < used[c]
        BY <2>9, <3>2, JobFacts
      <4> QED
        BY <1>1, <1>2, <2>8, <3>2, <4>1 DEF JobOK
    <3>3. CASE i \in jobs /\ i.c # c
      BY <1>2, <2>1, <3>3, OthersJobs
    <3> QED
      BY <2>3, <3>1, <3>2, <3>3
  <2>11. JobsOK'
    <3>1. jobs' \subseteq JobType
      BY <2>3, <2>4 DEF Inv, JobsOK
    <3>2. \A i, k \in jobs' : i.c = k.c /\ i.n = k.n => i = k
      <4>1. \A i, k \in jobs : i.c = k.c /\ i.n = k.n => i = k
        BY DEF Inv, JobsOK
      <4>2. \A i \in jobs : i.c = c => i.n # used[c]
        BY <2>9, JobFacts
      <4> QED
        BY <2>3, <2>4, <4>1, <4>2
    <3> QED
      BY <2>10, <3>1, <3>2 DEF JobsOK
  <2>12. PostureOK' /\ UsedOK'
    BY <1>2 DEF Inv, PostureOK, UsedOK, posture
  <2> QED
    BY <2>6, <2>7, <2>11, <2>12 DEF Inv
<1> QED
  BY <1>3, <1>4, Zenon DEF Invoke

\* A call that returns takes its result with it.
LEMMA ReturnKeeps ==
  ASSUME Inv, NEW c \in Callers, pc[c] = "invoked", NEW result \in Results,
         Finish(c, result), UNCHANGED <<posture, repl, term, reviewer, screen, file, used>>,
         jobs' \subseteq jobs,
         \A j \in jobs' : j.c = c /\ j.n = used[c] => j.stage \notin Finished
  PROVE  Inv'
<1>1. Becomes(c, "idle", Ended(result), Unseen)
  BY FinishIs
<1>2. CallersOK'
  BY <1>1, EndedOK, CallersMove DEF Inv
<1>3. LocksOK'
  BY <1>1, LocksStay DEF Inv, Reviewing
<1>4. ASSUME NEW j \in jobs' PROVE JobOK(j)'
  <2>1. CASE j.c = c
    <3>1. JobOK(j) /\ pc'[c] = "idle"
      BY <1>1, JobFacts DEF Inv, CallersOK, Becomes
    <3> QED
      BY <2>1, <3>1, WorkingSplits DEF JobOK
  <2>2. CASE j.c # c
    BY <1>1, <2>2, OthersJobs
  <2> QED
    BY <2>1, <2>2
<1>5. JobsOK'
  BY <1>4 DEF Inv, JobsOK
<1>6. PostureOK' /\ UsedOK'
  BY DEF Inv, PostureOK, UsedOK, posture
<1> QED
  BY <1>2, <1>3, <1>5, <1>6 DEF Inv

LEMMA ReceiveKeeps ==
  ASSUME Inv, NEW c \in Callers, Receive(c) PROVE Inv'
<1>1. PICK j \in jobs : /\ j.c = c /\ j.n = used[c] /\ j.stage \in Finished
                        /\ jobs' = jobs \ {j} /\ Finish(c, j.stage)
  BY DEF Receive, Finished
<1>2. j.stage \in Results
  BY <1>1 DEF Results, Finished
<1>3. \A i \in jobs' : ~(i.c = c /\ i.n = used[c])
  BY <1>1 DEF Inv, JobsOK
<1> QED
  BY <1>1, <1>2, <1>3, ReturnKeeps DEF Receive

LEMMA AbandonKeeps ==
  ASSUME Inv, NEW c \in Callers, Abandon(c) PROVE Inv'
<1>1. PICK result \in {"timeout", "cancelled"} : Finish(c, result)
  BY DEF Abandon
<1>2. result \in Results
  BY DEF Results
<1>3. jobs' \subseteq jobs /\ \A j \in jobs' : j.c = c /\ j.n = used[c] => j.stage \notin Finished
  BY DEF Abandon, Finished
<1> QED
  BY <1>1, <1>2, <1>3, ReturnKeeps DEF Abandon

-----------------------------------------------------------------------------
(* The handlers. *)

Staged(j, stage) == [j EXCEPT !.stage = stage]
Overtaken(j, r) == [j EXCEPT !.raced = r]
SameCall(i, j) == i.c = j.c /\ i.n = j.n /\ i.k = j.k /\ i.plan = j.plan /\ i.seen = j.seen

LEMMA StagedType ==
  ASSUME NEW j \in JobType, NEW stage \in Stages
  PROVE  LET i == Staged(j, stage)
         IN i \in JobType /\ SameCall(i, j) /\ i.stage = stage /\ i.raced = j.raced
  BY DEF Staged, JobType, SameCall

LEMMA OvertakenType ==
  ASSUME NEW j \in JobType, NEW r \in BOOLEAN
  PROVE  LET i == Overtaken(j, r)
         IN i \in JobType /\ SameCall(i, j) /\ i.stage = j.stage /\ i.raced = r
  BY DEF Overtaken, JobType, SameCall

\* A handler that takes its own next step.
LEMMA HandlerStep ==
  ASSUME Inv, NEW j \in jobs, NEW i \in JobType, SameCall(i, j),
         jobs' \subseteq (jobs \ {j}) \cup {i}, JobOK(i),
         UNCHANGED <<posture, repl, term, reviewer, screen, pc, call, file, used, seen>>
  PROVE  Inv'
<1>1. \A x \in jobs' : x \in JobType /\ JobOK(x)'
  BY DEF Inv, JobsOK, JobOK
<1>2. \A x, y \in jobs' : x.c = y.c /\ x.n = y.n => x = y
  <2>1. \A x, y \in jobs : x.c = y.c /\ x.n = y.n => x = y
    BY DEF Inv, JobsOK
  <2> QED
    BY <2>1 DEF SameCall
<1>3. JobsOK'
  BY <1>1, <1>2 DEF JobsOK
<1>4. PostureOK' /\ UsedOK' /\ LocksOK' /\ CallersOK'
  BY DEF Inv, PostureOK, UsedOK, LocksOK, CallersOK, posture
<1> QED
  BY <1>3, <1>4 DEF Inv

LEMMA DeliverKeeps ==
  ASSUME Inv, NEW j \in jobs, NEW result \in Finished, Deliver(j, result),
         UNCHANGED <<posture, repl, term, reviewer, screen, pc, call, file, used, seen>>
  PROVE  Inv'
<1> DEFINE i == Staged(j, result)
<1>1. j \in JobType /\ JobOK(j)
  BY JobFacts
<1>2. i \in JobType /\ SameCall(i, j) /\ i.stage = result
  BY <1>1, StagedType DEF Stages
<1>3. CASE pc[j.c] = "invoked" /\ used[j.c] = j.n
  <2>1. jobs' = (jobs \ {j}) \cup {i}
    BY <1>3 DEF Deliver, Staged
  <2> HIDE DEF i
  <2>2. JobOK(i)
    BY <1>1, <1>2, <1>3 DEF JobOK, SameCall, Finished
  <2> QED
    BY <1>2, <2>1, <2>2, HandlerStep
<1>4. CASE ~(pc[j.c] = "invoked" /\ used[j.c] = j.n)
  <2>1. jobs' = jobs \ {j} /\ SameCall(j, j)
    BY <1>4 DEF Deliver, SameCall
  <2> QED
    BY <1>1, <2>1, HandlerStep
<1> QED
  BY <1>3, <1>4

LEMMA VerifyKeeps ==
  ASSUME Inv, NEW j \in jobs, Verify(j) PROVE Inv'
<1> DEFINE i == Staged(j, "write")
<1>1. j \in JobType /\ JobOK(j) /\ j.stage = "run"
  BY JobFacts DEF Verify
<1>2. i \in JobType /\ SameCall(i, j) /\ i.stage = "write"
  BY <1>1, StagedType DEF Stages
<1>3. CASE Unchanged(j)
  <2>1. jobs' = (jobs \ {j}) \cup {i}
    BY <1>3 DEF Verify, Staged
  <2> HIDE DEF i
  <2>2. JobOK(i)
    <3>1. file = i.plan.original
      BY <1>2, <1>3 DEF Unchanged, SameCall
    <3> QED
      BY <1>1, <1>2, <3>1 DEF JobOK, SameCall, Finished
  <2> QED
    BY <1>2, <2>1, <2>2, HandlerStep DEF Verify
<1>4. CASE ~Unchanged(j)
  <2>1. Deliver(j, "failed") /\ "failed" \in Finished
    BY <1>4 DEF Verify, Finished
  <2> QED
    BY <2>1, DeliverKeeps DEF Verify
<1> QED
  BY <1>3, <1>4

LEMMA RunKeeps ==
  ASSUME Inv, NEW j \in jobs, Run(j) PROVE Inv'
<1>1. \E result \in Finished : Deliver(j, result)
  BY Zenon DEF Run, Finished
<1> QED
  BY <1>1, DeliverKeeps DEF Run

\* A file that was written overtakes the handlers that have looked at it already.
LEMMA WriteKeeps ==
  ASSUME Inv, NEW j \in jobs, Write(j) PROVE Inv'
<1>1. UNCHANGED <<posture, repl, term, reviewer, screen, pc, call, used, seen>>
      /\ j.stage = "write" /\ j \in JobType /\ JobOK(j)
  BY JobFacts DEF Write
<1>2. CASE Deliver(j, "failed") /\ UNCHANGED file
  BY <1>1, <1>2, DeliverKeeps DEF Finished
<1>3. CASE file' = j.plan.content /\
           LET raced == {[i EXCEPT !.raced = TRUE] : i \in {i \in jobs \ {j} : i.stage = "write"}}
               rest == {i \in jobs \ {j} : i.stage # "write"}
               waits == pc[j.c] = "invoked" /\ used[j.c] = j.n
           IN jobs' = rest \cup raced \cup
                      (IF waits THEN {[j EXCEPT !.stage = "succeeded"]} ELSE {})
  <2>1. PICK r \in BOOLEAN : r = TRUE
    BY Zenon
  <2> DEFINE raced == {Overtaken(i, r) : i \in {i \in jobs \ {j} : i.stage = "write"}}
             rest == {i \in jobs \ {j} : i.stage # "write"}
             done == Staged(j, "succeeded")
             waits == pc[j.c] = "invoked" /\ used[j.c] = j.n
  <2>2. jobs' = rest \cup raced \cup (IF waits THEN {done} ELSE {})
    <3>1. raced = {[i EXCEPT !.raced = TRUE] : i \in {i \in jobs \ {j} : i.stage = "write"}}
      BY <2>1, Zenon DEF Overtaken
    <3> QED
      BY <1>3, <3>1, Zenon DEF Staged
  <2> DEFINE After(x, i) ==
               \/ i # j /\ i.stage # "write" /\ x = i
               \/ i # j /\ i.stage = "write" /\ x = Overtaken(i, r)
               \/ i = j /\ waits /\ x = done
  <2>3. \A x \in jobs' : \E i \in jobs : After(x, i)
    <3> HIDE DEF done, waits
    <3> QED
      BY <2>2
  <2>4. /\ done \in JobType /\ SameCall(done, j) /\ done.stage = "succeeded"
    BY <1>1, StagedType DEF Stages, Finished
  <2>5. ASSUME NEW x, NEW i \in jobs, After(x, i)
        PROVE  x \in JobType /\ SameCall(x, i) /\ JobOK(x)'
    <3>1. i \in JobType /\ JobOK(i)
      BY JobFacts
    <3>2. CASE i # j /\ i.stage # "write" /\ x = i
      BY <1>1, <3>1, <3>2 DEF JobOK, SameCall
    <3>3. CASE i # j /\ i.stage = "write" /\ x = Overtaken(i, r)
      <4>1. /\ x \in JobType /\ SameCall(x, i) /\ x.stage = "write" /\ x.raced
        BY <2>1, <3>1, <3>3, OvertakenType
      <4> QED
        BY <1>1, <3>1, <4>1 DEF JobOK, SameCall, Finished
    <3>4. CASE i = j /\ waits /\ x = done
      <4> HIDE DEF done
      <4> QED
        BY <1>1, <2>4, <3>1, <3>4 DEF JobOK, SameCall, Finished
    <3> HIDE DEF done, waits
    <3> QED
      BY <2>5, <3>2, <3>3, <3>4
  <2>6. ASSUME NEW i \in jobs, NEW x, NEW y, After(x, i), After(y, i) PROVE x = y
    <3> HIDE DEF done, waits
    <3> QED
      BY <2>6
  <2> HIDE DEF After
  <2>7. JobsOK'
    <3>1. \A x \in jobs' : x \in JobType /\ JobOK(x)'
      BY <2>3, <2>5
    <3>2. ASSUME NEW x \in jobs', NEW y \in jobs', x.c = y.c, x.n = y.n PROVE x = y
      <4>1. PICK i \in jobs : After(x, i)
        BY <2>3
      <4>2. PICK k \in jobs : After(y, k)
        BY <2>3
      <4>3. i.c = k.c /\ i.n = k.n
        BY <2>5, <3>2, <4>1, <4>2 DEF SameCall
      <4>4. i = k
        BY <4>3 DEF Inv, JobsOK
      <4> QED
        BY <2>6, <4>1, <4>2, <4>4
    <3> QED
      BY <3>1, <3>2 DEF JobsOK
  <2>8. file' \in Content
    BY <1>1, <1>3 DEF JobType, PlanType
  <2>9. PostureOK' /\ UsedOK' /\ LocksOK' /\ CallersOK'
    BY <1>1, <2>8 DEF Inv, PostureOK, UsedOK, LocksOK, CallersOK, posture
  <2> QED
    BY <2>7, <2>9 DEF Inv
<1> QED
  BY <1>2, <1>3, Zenon DEF Write

-----------------------------------------------------------------------------
(* The REPL. *)

LEMMA ReplLocks ==
  ASSUME LocksOK, UNCHANGED <<reviewer, screen, pc>>, term' = "repl" <=> repl' = "typing",
         term' = term \/ {term, term'} \subseteq {"repl", Nobody}
  PROVE  LocksOK'
  BY DEF LocksOK

\* A step of the REPL that changes neither the posture nor the callers.
LEMMA ReplStep ==
  ASSUME Inv, UNCHANGED <<mode, rules, registered, reviewer, screen, pc, call, file, jobs,
                          used, seen>>,
         autoAll' \in BOOLEAN, repl' \in {"read", "typing", "turn", "preset"},
         term' = "repl" <=> repl' = "typing",
         term' = term \/ {term, term'} \subseteq {"repl", Nobody}
  PROVE  Inv'
<1>1. LocksOK'
  BY ReplLocks DEF Inv
<1>2. PostureOK' /\ CallersOK' /\ UsedOK' /\ JobsOK'
  BY DEF Inv, PostureOK, CallersOK, UsedOK, JobsOK, JobOK
<1> QED
  BY <1>1, <1>2 DEF Inv

LEMMA QuietReplKeeps ==
  ASSUME Inv, Prompt \/ UserTurn \/ EmptyLine \/ EndTurn \/ ApplyPreset PROVE Inv'
<1>1. PostureOK /\ (term = "repl" <=> repl = "typing")
  BY DEF Inv, LocksOK
<1>2. CASE Prompt
  BY <1>1, <1>2, ReplStep DEF Prompt, PostureOK, posture
<1>3. CASE UserTurn
  BY <1>1, <1>3, ReplStep DEF UserTurn, PostureOK, posture
<1>4. CASE EmptyLine
  BY <1>1, <1>4, ReplStep DEF EmptyLine, PostureOK, posture
<1>5. CASE EndTurn
  BY <1>1, <1>5, ReplStep DEF EndTurn, PostureOK, posture
<1>6. CASE ApplyPreset
  <2>1. autoAll' \in BOOLEAN
    BY <1>6 DEF ApplyPreset
  <2> QED
    BY <1>1, <1>6, <2>1, ReplStep DEF ApplyPreset, PostureOK
<1> QED
  BY <1>2, <1>3, <1>4, <1>5, <1>6

\* A slash command changes the posture under the calls: each remembers it.
LEMMA CommandKeeps ==
  ASSUME Inv, Command, UNCHANGED <<reviewer, screen, pc, call, file, jobs>>,
         mode' \in Modes, autoAll' \in BOOLEAN, rules' \in RuleSets, registered' \subseteq Calls,
         repl' \in {"read", "preset"}, seen' \in [Callers -> History],
         \A c \in Callers :
           /\ Grows(seen[c], seen'[c]) /\ seen'[c].refused = seen[c].refused
           /\ Aware(pc[c], call[c], seen'[c], mode', rules', registered')
  PROVE  Inv'
<1>1. term = "repl" /\ term' = Nobody
  BY DEF Inv, LocksOK, Command
<1>2. LocksOK'
  BY <1>1, ReplLocks DEF Inv
<1>3. ASSUME NEW c \in Callers
      PROVE  CallerOK(pc[c], call[c], seen'[c], mode', rules', registered')
  <2>1. CallerOK(pc[c], call[c], seen[c], mode, rules, registered)
    BY DEF Inv, CallersOK
  <2>2. Weighed(pc[c], call[c], seen'[c])
    BY <2>1, GrowthKeeps DEF CallerOK, Weighed, Grows
  <2>3. Sorted(pc[c], call[c], seen'[c])
    BY <2>1 DEF CallerOK, Sorted, Apart
  <2> QED
    BY <2>2, <2>3 DEF CallerOK
<1>4. CallersOK'
  BY <1>3 DEF Inv, CallersOK
<1>5. /\ used' = [used EXCEPT !["repl"] = @ + 1] /\ used["repl"] < MaxCommands
      /\ \A c \in Callers : used'[c] = used[c]
  BY DEF Command, Inv, UsedOK
<1>6. UsedOK'
  BY <1>5 DEF Inv, UsedOK
<1>7. JobsOK'
  <2>1. \A j \in jobs : j.c \in Callers /\ JobOK(j)
    BY DEF Inv, JobsOK, JobType
  <2>2. \A j \in jobs : JobOK(j)'
    BY <1>5, <2>1 DEF JobOK
  <2> QED
    BY <2>2 DEF Inv, JobsOK
<1>8. PostureOK'
  BY DEF Inv, PostureOK
<1> QED
  BY <1>2, <1>4, <1>6, <1>7, <1>8 DEF Inv

LEMMA WitnessKeeps ==
  ASSUME Inv, NEW m \in Modes, NEW r \in RuleSets, Witness(m, r)
  PROVE  /\ seen' \in [Callers -> History]
         /\ \A c \in Callers :
              /\ Grows(seen[c], seen'[c]) /\ seen'[c].refused = seen[c].refused
              /\ Aware(pc[c], call[c], seen'[c], m, r, registered)
<1>1. seen' = [c \in Callers |-> IF pc[c] \in Working
                                THEN WithPosture(seen[c], m, r[call[c].k]) ELSE seen[c]]
  BY DEF Witness, WithPosture
<1>2. ASSUME NEW c \in Callers
      PROVE  /\ seen'[c] \in History
             /\ Grows(seen[c], seen'[c]) /\ seen'[c].refused = seen[c].refused
             /\ Aware(pc[c], call[c], seen'[c], m, r, registered)
  <2>1. /\ seen[c] \in History /\ call[c].k \in Calls
        /\ Aware(pc[c], call[c], seen[c], mode, rules, registered)
    BY CallerFacts DEF CallerOK
  <2>2. r[call[c].k] \in Levels
    BY <2>1
  <2>3. CASE pc[c] \in Working
    <3>1. seen'[c] = WithPosture(seen[c], m, r[call[c].k])
      BY <1>1, <2>3
    <3>2. /\ seen'[c] \in History /\ seen'[c].modes = seen[c].modes \cup {m}
          /\ seen'[c].levels = seen[c].levels \cup {r[call[c].k]}
          /\ seen'[c].unlisted = seen[c].unlisted /\ seen'[c].agreed = seen[c].agreed
          /\ seen'[c].refused = seen[c].refused
      BY <2>1, <2>2, <3>1, WithPostureType
    <3> QED
      BY <2>1, <2>3, <3>2 DEF Aware, Grows
  <2>4. CASE pc[c] \notin Working
    <3>1. seen'[c] = seen[c]
      BY <1>1, <2>4
    <3> QED
      BY <2>1, <2>4, <3>1 DEF Aware, Grows
  <2> QED
    BY <2>3, <2>4
<1>3. seen' \in [Callers -> History]
  BY <1>1, <1>2
<1> QED
  BY <1>2, <1>3

LEMMA SetModeKeeps ==
  ASSUME Inv, SetMode PROVE Inv'
<1>1. PICK m \in Modes : mode' = m /\ Witness(m, rules)
  BY DEF SetMode
<1>2. PostureOK
  BY DEF Inv
<1>3. /\ seen' \in [Callers -> History]
      /\ \A c \in Callers :
           /\ Grows(seen[c], seen'[c]) /\ seen'[c].refused = seen[c].refused
           /\ Aware(pc[c], call[c], seen'[c], m, rules, registered)
  BY <1>1, <1>2, WitnessKeeps DEF PostureOK
<1> QED
  BY <1>1, <1>2, <1>3, CommandKeeps DEF SetMode, PostureOK

LEMMA ReloadPermissionsKeeps ==
  ASSUME Inv, ReloadPermissions PROVE Inv'
<1>1. PICK r \in RuleSets : rules' = r /\ Witness(mode, r)
  BY DEF ReloadPermissions
<1>2. PostureOK
  BY DEF Inv
<1>3. /\ seen' \in [Callers -> History]
      /\ \A c \in Callers :
           /\ Grows(seen[c], seen'[c]) /\ seen'[c].refused = seen[c].refused
           /\ Aware(pc[c], call[c], seen'[c], mode, r, registered)
  BY <1>1, <1>2, WitnessKeeps DEF PostureOK
<1> QED
  BY <1>1, <1>2, <1>3, CommandKeeps DEF ReloadPermissions, PostureOK

LEMMA ToggleServerKeeps ==
  ASSUME Inv, ToggleServer PROVE Inv'
<1>1. PostureOK
  BY DEF Inv
<1>2. registered' \subseteq Calls
  BY <1>1 DEF ToggleServer, PostureOK
<1>3. PICK y \in BOOLEAN : y = TRUE
  BY Zenon
<1>4. seen' = [c \in Callers |-> IF pc[c] \in Working /\ call[c].k \notin registered'
                                THEN WithListing(seen[c], y) ELSE seen[c]]
  BY <1>3, Zenon DEF ToggleServer, WithListing
<1>5. ASSUME NEW c \in Callers
      PROVE  /\ seen'[c] \in History
             /\ Grows(seen[c], seen'[c]) /\ seen'[c].refused = seen[c].refused
             /\ Aware(pc[c], call[c], seen'[c], mode, rules, registered')
  <2>1. /\ seen[c] \in History
        /\ Aware(pc[c], call[c], seen[c], mode, rules, registered)
    BY CallerFacts DEF CallerOK
  <2>2. CASE pc[c] \in Working /\ call[c].k \notin registered'
    <3>1. seen'[c] = WithListing(seen[c], y)
      BY <1>4, <2>2
    <3>2. /\ seen'[c] \in History /\ seen'[c].modes = seen[c].modes
          /\ seen'[c].levels = seen[c].levels
          /\ seen'[c].unlisted = y /\ seen'[c].agreed = seen[c].agreed
          /\ seen'[c].refused = seen[c].refused
      BY <2>1, <3>1, WithListingType
    <3>3. seen'[c].unlisted
      BY <1>3, <3>2
    <3> QED
      BY <2>1, <3>2, <3>3 DEF Aware, Grows
  <2>3. CASE ~(pc[c] \in Working /\ call[c].k \notin registered')
    <3>1. seen'[c] = seen[c]
      BY <1>4, <2>3
    <3> QED
      BY <2>1, <2>3, <3>1 DEF Aware, Grows
  <2> QED
    BY <2>2, <2>3
<1>6. seen' \in [Callers -> History]
  BY <1>4, <1>5
<1>7. /\ Command /\ repl' = "read"
      /\ UNCHANGED <<mode, autoAll, rules, reviewer, screen, pc, call, file, jobs>>
  BY DEF ToggleServer
<1> QED
  BY <1>1, <1>2, <1>5, <1>6, <1>7, CommandKeeps DEF PostureOK

-----------------------------------------------------------------------------
(* The invariant. *)

LEMMA InitOK == Init => Inv
<1> SUFFICES ASSUME Init PROVE Inv
  OBVIOUS
<1>1. PostureOK
  <2>1. autoAll \in BOOLEAN
    BY DEF Init
  <2> QED
    BY <2>1 DEF Init, PostureOK, Content
<1>2. LocksOK
  BY DEF Init, LocksOK
<1>3. CallersOK
  <2>1. /\ \A c \in Callers : pc[c] = "idle" /\ call[c] = Blank /\ seen[c] = Unseen
        /\ pc \in [Callers -> Working \cup {"idle"}] /\ call \in [Callers -> CallType]
        /\ seen \in [Callers -> History]
    BY BlankType, UnseenType DEF Init
  <2>2. CallerOK("idle", Blank, Unseen, mode, rules, registered)
    BY BlankType, WorkingSplits DEF CallerOK, Aware, Weighed, Sorted
  <2> QED
    BY <2>1, <2>2 DEF CallersOK
<1>4. UsedOK /\ JobsOK
  BY DEF Init, UsedOK, JobsOK
<1> QED
  BY <1>1, <1>2, <1>3, <1>4 DEF Inv

LEMMA NextKeeps == Inv /\ [Next]_vars => Inv'
<1> SUFFICES ASSUME Inv, [Next]_vars PROVE Inv'
  OBVIOUS
<1>1. CASE UNCHANGED vars
  BY <1>1 DEF vars, Inv, PostureOK, LocksOK, CallersOK, UsedOK, JobsOK, JobOK
<1>2. ASSUME NEW c \in Callers, NEW k \in Calls, Execute(c, k) PROVE Inv'
  BY <1>2, ExecuteKeeps
<1>3. ASSUME NEW c \in Callers, Pipeline(c) PROVE Inv'
  BY <1>3, SnapDiffKeeps, DecideKeeps, RequestKeeps, InvokeKeeps, ReceiveKeeps DEF Pipeline
<1>4. ASSUME NEW c \in Callers, Review(c) PROVE Inv'
  BY <1>4, OpenDiffKeeps, LockGeneralKeeps DEF Review
<1>5. ASSUME NEW c \in Callers, ReadLine(c) \/ AskAgain(c) PROVE Inv'
  BY <1>5, ReadLineKeeps, AskAgainKeeps
<1>6. ASSUME NEW c \in Callers, Answer(c) PROVE Inv'
  BY <1>6, AnswerOnceKeeps, AnswerChunkKeeps DEF Answer
<1>7. ASSUME NEW c \in Callers, Abandon(c) PROVE Inv'
  BY <1>7, AbandonKeeps
<1>8. ASSUME NEW j \in jobs, Handler(j) PROVE Inv'
  BY <1>8, VerifyKeeps, WriteKeeps, RunKeeps DEF Handler
<1>9. CASE Operator
  BY <1>9, QuietReplKeeps, SetModeKeeps, ReloadPermissionsKeeps, ToggleServerKeeps
     DEF Operator
<1>10. CASE Prompt \/ EndTurn \/ ApplyPreset
  BY <1>10, QuietReplKeeps
<1> QED
  BY <1>1, <1>2, <1>3, <1>4, <1>5, <1>6, <1>7, <1>8, <1>9, <1>10, Zenon DEF Next

\* The invariant that carries the others, over all the actions of the callers, the
\* handlers and the REPL.
THEOREM InvHolds == Spec => []Inv
  BY InitOK, NextKeeps, PTL DEF Spec

-----------------------------------------------------------------------------
(* What it says of the properties. *)

LEMMA InvTypes == Inv => TypeOK
<1> SUFFICES ASSUME Inv PROVE TypeOK
  OBVIOUS
<1>1. ASSUME NEW c \in Callers
      PROVE  /\ call[c].k \in Calls /\ IsContent(call[c].plan.original)
             /\ IsContent(call[c].plan.content)
             /\ call[c].severity \in Severities /\ call[c].showDiff \in BOOLEAN
             /\ call[c].left \subseteq Edits /\ call[c].accepted \subseteq Edits
             /\ call[c].yes \in BOOLEAN /\ call[c].result \in Results
  <2>1. call[c] \in CallType
    BY CallerFacts
  <2> QED
    BY <2>1 DEF CallType, PlanType, Content, IsContent
<1>2. used \in [Callers \cup {"repl"} -> 0..(MaxCalls + MaxCommands)]
  <2>1. \A x \in Callers \cup {"repl"} : used[x] \in 0..(MaxCalls + MaxCommands)
    BY DEF Inv, UsedOK
  <2> QED
    BY <2>1 DEF Inv, UsedOK
<1>3. \A j \in jobs : j.stage \in Finished => pc[j.c] = "invoked" /\ used[j.c] = j.n
  BY DEF Inv, JobsOK, JobOK
<1>4. IsContent(file)
  BY DEF Inv, PostureOK, Content, IsContent
<1>5. /\ mode \in Modes /\ autoAll \in BOOLEAN /\ rules \in RuleSets
      /\ registered \subseteq Calls
      /\ repl \in {"read", "typing", "turn", "preset"}
      /\ term \in Callers \cup {"repl", Nobody} /\ reviewer \in Callers \cup {Nobody}
      /\ screen \in Callers \cup {Nobody}
      /\ pc \in [Callers -> Working \cup {"idle"}]
      /\ seen \in [Callers -> History]
  BY DEF Inv, PostureOK, LocksOK, CallersOK
<1> QED
  BY <1>1, <1>2, <1>3, <1>4, <1>5 DEF TypeOK

\* The reviewer's lock and the terminal are held by the callers that are at work with
\* them, whatever way their reviews end: no exit of a review keeps a lock.
THEOREM HoldersAreAskingHolds == Spec => []HoldersAreAsking
<1>1. Inv => HoldersAreAsking
  <2> SUFFICES ASSUME Inv PROVE HoldersAreAsking
    OBVIOUS
  <2>1. TypeOK
    BY InvTypes
  <2>2. LocksOK
    BY DEF Inv
  <2> QED
    BY <2>1, <2>2 DEF LocksOK, HoldersAreAsking
<1> QED
  BY <1>1, InvHolds, PTL

\* A consent belongs to the call whose question the operator saw last, whoever else waits
\* for the reviewer or the terminal.
THEOREM AnswersMatchHolds == Spec => []AnswersMatch
<1>1. Inv => AnswersMatch
  BY DEF Inv, CallersOK, CallerOK, Weighed, AnswersMatch
<1> QED
  BY <1>1, InvHolds, PTL

\* No handler of a dangerous call runs without the consent of the operator or a mode that
\* lets such calls pass, however the posture changes under it.  HITL_NON_TTY_FALLBACK set
\* to "approve" gives that consent in advance where there is no terminal.
THEOREM ConsentHoldsHolds ==
  ASSUME IsTTY \/ NonTTYFallback = "reject"
  PROVE  Spec => []ConsentHolds
<1>1. Inv => ConsentHolds
  <2>1. ~(~IsTTY /\ NonTTYFallback = "approve")
    OBVIOUS
  <2> QED
    BY <2>1 DEF Inv, JobsOK, JobOK, Passed, ConsentHolds
<1> QED
  BY <1>1, InvHolds, PTL

Reviewed ==
  \E j \in jobs :
    /\ j.stage = "write" /\ file' = j.plan.content
    /\ Chunks(j.plan.original, file') \cap j.seen.refused = {}
    /\ file = j.plan.original \/ j.raced

LEMMA OnlyWriteChanges ==
  ASSUME [Next]_vars, file' # file PROVE \E j \in jobs : Write(j)
<1>1. ASSUME NEW c \in Callers,
             \/ \E k \in Calls : Execute(c, k)
             \/ Pipeline(c) \/ Review(c) \/ ReadLine(c) \/ AskAgain(c) \/ Answer(c)
             \/ Abandon(c)
      PROVE  UNCHANGED file
  BY <1>1 DEF Execute, Pipeline, SnapDiff, Decide, Request, Invoke, Receive, Review, OpenDiff,
     LockGeneral, ReadLine, AskAgain, Answer, AnswerOnce, AnswerChunk, Abandon
<1>2. ASSUME NEW j \in jobs, Verify(j) \/ Run(j) PROVE UNCHANGED file
  BY <1>2 DEF Verify, Run
<1>3. CASE Prompt \/ Operator \/ EndTurn \/ ApplyPreset
  BY <1>3 DEF Prompt, Operator, UserTurn, EmptyLine, SetMode, ReloadPermissions, ToggleServer,
     EndTurn, ApplyPreset
<1>4. CASE UNCHANGED vars
  BY <1>4 DEF vars
<1> QED
  BY <1>1, <1>2, <1>3, <1>4 DEF Next, Handler

LEMMA WriteIsReviewed ==
  ASSUME Inv, NEW j \in jobs, Write(j), file' # file PROVE Reviewed
<1>1. j.stage = "write" /\ file' = j.plan.content
  BY DEF Write
<1>2. JobOK(j)
  BY JobFacts
<1> QED
  BY <1>1, <1>2 DEF JobOK, Spares, Reviewed

\* What reaches the file was reviewed: it changes by no refused hunk, and it overwrites what the
\* diff was made from, unless another handler wrote in between its look and its rename.
THEOREM WritesAsReviewedHolds == Spec => WritesAsReviewed
<1>1. Inv /\ [Next]_vars => (file' # file => Reviewed)
  BY OnlyWriteChanges, WriteIsReviewed
<1>2. Inv /\ [Next]_vars => [file' # file => Reviewed]_vars
  BY <1>1
<1> QED
  BY <1>2, InvHolds, PTL DEF Spec, WritesAsReviewed, Reviewed
=============================================================================
