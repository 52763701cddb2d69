------------------------ MODULE MCWorkflowExecutor ------------------------
(* Instances of WorkflowExecutor for TLC. *)
EXTENDS WorkflowExecutor, TLC

CONSTANTS a, b, p, q

Activity(n, c) == [kind |-> "activity", maxAttempts |-> n, compensates |-> c]
Wait(k) == [kind |-> k, maxAttempts |-> 1, compensates |-> FALSE]

(* Prepare, wait for the reviewer, then deliver with a compensation. *)
Handoff == <<Activity(2, TRUE), Wait("signal"), Activity(1, TRUE)>>
Sleeper == <<Wait("marker"), Wait("signal"), Activity(1, TRUE), Wait("timer")>>
Nightly == <<Activity(2, TRUE), Wait("timer"), Wait("marker"), Wait("signal"), Activity(1, FALSE)>>

OwnProcess == a :> p @@ b :> q
SharedProcess == a :> p @@ b :> p
OneProcess == a :> p

AllRegistered == [x \in Processes |-> 1..Len(Program)]
(* q still runs a build that lacks the last activity. *)
RollingDeploy == [x \in Processes |-> IF x = p THEN 1..Len(Program) ELSE 1..(Len(Program) - 1)]
=============================================================================
