----------------------------- MODULE MCApproval -----------------------------
(***************************************************************************)
(* Instance of Approval: the lead and one teammate in the same working     *)
(* tree, whose calls are about one file that exists.                       *)
(***************************************************************************)
EXTENDS Approval, TLC

CONSTANTS lead, mate, editTwo, overwrite, remove, shell, remote, e1, e2, e3

Base == [kind |-> "other", hunks |-> {}, effects |-> {}, classified |-> TRUE,
         dynamic |-> FALSE, risk |-> "danger", always |-> FALSE, verdict |-> "safe",
         blockedURL |-> FALSE]
MCTool ==
  (editTwo :> [Base EXCEPT !.kind = "edit", !.hunks = {e1, e2}, !.effects = {"write"}])
  @@ (overwrite :> [Base EXCEPT !.kind = "write", !.hunks = {e3}, !.effects = {"write"}])
  @@ (remove :> [Base EXCEPT !.kind = "delete", !.effects = {"delete"}, !.always = TRUE])
  @@ (shell :> [Base EXCEPT !.kind = "shell", !.effects = {"execute"}, !.verdict = "caution"])
  @@ (remote :> [Base EXCEPT !.dynamic = TRUE, !.effects = {"network"}, !.classified = FALSE])
MCMenu == (lead :> {editTwo, shell}) @@ (mate :> {overwrite, remove, remote})
MCCaps == [c \in {lead, mate} |-> {"write", "delete", "execute", "network"}]
MCRuleSets == {[k \in Calls |-> ""], [k \in Calls |-> IF k = shell THEN "block" ELSE "allow"]}

\* The session begins in safe-auto, with the file there.
AskingInit == Init /\ file = {} /\ mode = "safe-auto"
AskingSpec == AskingInit /\ [][Next]_vars /\ Fairness
=============================================================================
