----------------------------- MODULE MCGateway -----------------------------
(***************************************************************************)
(* A bounded instance of Gateway: a streaming and reasoning primary        *)
(* provider, a fallback that answers in one piece, and the judge's         *)
(* provider, which has no identity and alone can do structured output.     *)
(***************************************************************************)
EXTENDS Gateway, TLC

CONSTANTS p1, p2, pj, c1, c2

MCDedicated == [judge |-> pj]
MCFallbacks == [explore |-> <<NoProvider, p2>>, judge |-> <<p1>>, compress |-> <<>>]
MCInstanceID == [p \in {p1, p2, pj} |-> IF p = pj THEN NoInstance ELSE p]
MCRequest(role, stream, model) ==
  [role |-> role, stream |-> stream, structured |-> role = "judge", model |-> model]
MCRequests ==
  (c1 :> {MCRequest("explore", TRUE, "m1"), MCRequest("compress", FALSE, "m1")}) @@
  (c2 :> {MCRequest("judge", FALSE, "m2"), MCRequest("compress", FALSE, "m1")})
=============================================================================
