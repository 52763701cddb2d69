---------------------------- MODULE MCHandoff ----------------------------
(* Instances of Handoff for TLC. *)
EXTENDS Handoff, TLC

CONSTANTS ann, bob, cat, s1, s2

Ask(p, second, dual, sentTo) ==
    [assignee |-> p, second |-> second, dual |-> dual, version |-> 2,
     approval |-> {"chat"}, sentTo |-> sentTo]

(* Ann alone, Ann with Bob, and the two slips issue lets through: dual      *)
(* control with no second approver, and with one person twice.              *)
Plain == Ask(ann, None, FALSE, {ann, cat})
Dual == Ask(ann, bob, TRUE, {ann, bob})
Orphan == Ask(ann, None, TRUE, {ann})
Same == Ask(ann, ann, TRUE, {ann})
AllQuestions == {Plain, Dual, Orphan, Same, [Dual EXCEPT !.approval = {"voice"}]}

Body(p, move, hash, reason) ==
    [actor |-> p, move |-> move, version |-> 2, hash |-> hash, diff |-> TRUE,
     materiality |-> FALSE, reason |-> reason]

(* Well-formed and ill-formed bodies from all three, one of a stale bundle. *)
AllRequests ==
    {Body(p, m, h, ~ h) : p \in {ann, bob, cat}, h \in BOOLEAN,
                          m \in {"approve", "reject_with_reason"}}
    \cup {Body(ann, "edit_and_approve", TRUE, FALSE), Body(bob, "reassign", FALSE, FALSE)}
    \cup {[Body(ann, "approve", TRUE, FALSE) EXCEPT !.version = 1]}
=============================================================================
