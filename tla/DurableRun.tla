----------------------------- MODULE DurableRun -----------------------------
(***************************************************************************)
(* What the durable executor promises a workflow function, with no         *)
(* history, lease or loop in it: its call sites are answered one after the *)
(* other and for good, an activity is executed only while it is the next   *)
(* one, what succeeded and can be undone is stacked in the order it        *)
(* happened, and the run completes when there is nothing left to ask.      *)
(***************************************************************************)
EXTENDS Naturals, Sequences

CONSTANTS Calls,        \* the call sites, numbered in call order
          Activities,   \* those that execute something, and may fail
          Undoable      \* the activities that declare a compensation

VARIABLES phase,        \* absent, open, completed or failed
          answer,       \* what each call site was answered
          executions,   \* how often each activity was begun
          undo          \* the compensations to run if the run fails, last first

runVars == <<phase, answer, executions, undo>>

RunInit ==
  /\ phase = "absent"
  /\ answer = [i \in Calls |-> "none"]
  /\ executions = [i \in Calls |-> 0]
  /\ undo = <<>>

\* The call site an open run stops at.
IsNext(i) ==
  /\ phase = "open" /\ answer[i] = "none"
  /\ \A j \in Calls : j < i => answer[j] = "passed"

Begin ==
  /\ phase = "absent" /\ phase' = "open"
  /\ UNCHANGED <<answer, executions, undo>>

Execute(i) ==
  /\ IsNext(i) /\ i \in Activities
  /\ executions' = [executions EXCEPT ![i] = @ + 1]
  /\ UNCHANGED <<phase, answer, undo>>

\* A result is that of an execution; an activity nobody has a function for
\* fails without one.
Answer(i, outcome) ==
  /\ IsNext(i)
  /\ outcome = "failed" => i \in Activities
  /\ outcome = "passed" /\ i \in Activities => executions[i] > 0
  /\ answer' = [answer EXCEPT ![i] = outcome]
  /\ UNCHANGED <<phase, executions, undo>>

\* Stacked before anything else is asked, so above all that came before it.
Stack(i) ==
  /\ phase = "open" /\ i \in Undoable /\ answer[i] = "passed"
  /\ \A j \in Calls : j > i => answer[j] = "none" /\ executions[j] = 0
  /\ \A n \in 1..Len(undo) : undo[n] < i
  /\ undo' = Append(undo, i)
  /\ UNCHANGED <<phase, answer, executions>>

Complete ==
  /\ phase = "open" /\ \A i \in Calls : answer[i] = "passed"
  /\ phase' = "completed"
  /\ UNCHANGED <<answer, executions, undo>>

\* A database error, or the step budget, fails a run at any point; a database
\* error after it completed as well, since what runs a turn emits its outcome.
Fail ==
  /\ phase # "absent" /\ phase' = "failed"
  /\ UNCHANGED <<answer, executions, undo>>

RunNext ==
  \/ Begin \/ Complete \/ Fail
  \/ \E i \in Calls : \/ Execute(i) \/ Stack(i)
                      \/ \E outcome \in {"passed", "failed"} : Answer(i, outcome)

RunSpec == RunInit /\ [][RunNext]_runVars
=============================================================================
