----------------------------- MODULE TaskGraph -----------------------------
(***************************************************************************)
(* The task-graph workflow of the worker (apps/worker workflows.ts): a     *)
(* pure function of the results the executor recorded, and the activities  *)
(* it asks for.  An activity takes effect when it runs and counts when its *)
(* result is recorded: a process that stops in between runs it again, at a *)
(* later time and perhaps with another result.  What invoke-skill answers  *)
(* is a choice; the one registered now answers that it is not ok.          *)
(***************************************************************************)
EXTENDS PolicyRules, Sequences

CONSTANTS GraphInputs,  \* what a run is started with: see GraphInit
          Hours,        \* the clock: 1 to the last
          MaxTries,     \* attempts of a retry class; a policy gate has one
          MaxStops      \* bound: processes that stop with an effect unrecorded

ASSUME GraphConstants ==
  Hours \subseteq Nat /\ 1 \in Hours /\ MaxTries \in Nat /\ MaxStops \in Nat

VARIABLES runInput, pinned, \* of the run; pinned: its row in contexts
          record,         \* what is recorded of each step
          flight,         \* the activity that ran and is not recorded yet
          tries,          \* failed attempts of the step the run is at
          stops, hour,
          effects         \* audit events of deliver-refusal and deliver-output

graphVars == <<runInput, pinned, record, flight, tries, stops, hour, effects>>

GraphSteps == {"resolve", "gate", "refusal", "invoke", "halt", "authorise", "handoff",
          "wait", "recheck", "approved", "deliver"}
Verdicts == {"allow", "dual_control", "escalate", "refuse"}
ReviewMoves == {"approve", "edit_and_approve", "reassign", "reject_with_reason"}
\* yes: usable, ok or may_issue; said: a verdict or a move.
Unrecorded == [done |-> FALSE, yes |-> FALSE, said |-> "none", engaged |-> 0, hour |-> 0,
               downgraded |-> FALSE, passed |-> FALSE]
Nothing == [step |-> "none", result |-> Unrecorded]

GraphInit ==
  /\ runInput \in GraphInputs
  /\ pinned \in [status : {"resolved", "refused"}, expires : Hours]
  /\ record = [s \in GraphSteps |-> Unrecorded]
  /\ flight = Nothing
  /\ tries = 0 /\ stops = 0 /\ hour = 1
  /\ effects = <<>>

\* run, after the reviewer's approval: the context once more.
Bug_OnceResolved(r) == IF r["approved"].done THEN "delivered" ELSE "approved"
AfterApproval(r) ==
  IF ~r["recheck"].done THEN "recheck"
  ELSE IF ~r["recheck"].yes THEN "halted"
  ELSE IF ~r["approved"].done THEN "approved" ELSE "delivered"

\* run: the step the function stops at, or its outcome.  Of the verdicts it
\* knows "refuse", of the moves "reject_with_reason".
Reaches(r) ==
  CASE ~r["resolve"].done -> "resolve"
    [] r["resolve"].done /\ ~r["resolve"].yes -> "refused"
    [] r["resolve"].yes /\ ~r["gate"].done -> "gate"
    [] r["gate"].said = "refuse" -> IF r["refusal"].done THEN "refused" ELSE "refusal"
    [] r["gate"].done /\ r["gate"].said # "refuse" /\ ~r["invoke"].done -> "invoke"
    [] r["invoke"].done /\ ~r["invoke"].yes -> IF r["halt"].done THEN "halted" ELSE "halt"
    [] r["invoke"].yes /\ ~r["authorise"].done -> "authorise"
    [] r["authorise"].yes -> IF r["deliver"].done THEN "delivered" ELSE "deliver"
    [] r["authorise"].done /\ ~r["authorise"].yes /\ ~r["wait"].done ->
         IF r["handoff"].done THEN "wait" ELSE "handoff"
    [] r["wait"].said = "reject_with_reason" -> "refused"
    [] r["wait"].done /\ r["wait"].said # "reject_with_reason" -> AfterApproval(r)

Stopped(step) == Reaches(record) = step /\ flight = Nothing /\ tries < MaxTries

\* An activity runs; its result is recorded later or not at all.
Ran(step, result, events) ==
  /\ flight' = [step |-> step, result |-> [result EXCEPT !.done = TRUE, !.hour = hour]]
  /\ effects' = effects \o events
  /\ UNCHANGED <<runInput, pinned, record, tries, stops, hour>>
Quietly(step, result) == Ran(step, result, <<>>)

\* resolve-context: an expired context is resolved anew with neither date nor
\* rule, and such a request is refused.
ResolveContext(step) ==
  /\ Stopped(step)
  /\ Quietly(step, [Unrecorded EXCEPT !.yes = pinned.status = "resolved"
                                              /\ hour < pinned.expires])

\* policy-gate: the immutable rules with every record taken to be in order;
\* past them the configured rules decide.
InOrderContext == [named |-> TRUE, active |-> TRUE, raised |-> TRUE, parallel |-> TRUE,
                   accountable |-> TRUE, stale |-> FALSE]
SubjectOf(in) == [class |-> in.class, words |-> in.words, scope |-> "none", redirects |-> FALSE,
                  external |-> FALSE, autonomy |-> in.autonomy]
AskGate ==
  /\ Stopped("gate") /\ tries = 0
  /\ LET n == Engaged(SubjectOf(runInput), InOrderContext)
     IN  \E verdict \in (IF n # 0 THEN {"refuse"} ELSE Verdicts) :
           Quietly("gate", [Unrecorded EXCEPT !.said = verdict, !.engaged = n])

InvokeSkill ==
  /\ Stopped("invoke")
  /\ \E ok, downgraded, passed \in BOOLEAN :
       Quietly("invoke", [Unrecorded EXCEPT !.yes = ok, !.downgraded = downgraded,
                                            !.passed = passed])

\* authorise, at the autonomy a fallback of the model lowers.
Authorise ==
  /\ Stopped("authorise")
  /\ LET level == IF record["invoke"].downgraded THEN "draft" ELSE runInput.autonomy
     IN  Quietly("authorise",
                 [Unrecorded EXCEPT !.yes = MayIssue(runInput.class, level, record["gate"].engaged,
                                                     record["invoke"].passed)])
IssueHandoff == Stopped("handoff") /\ Quietly("handoff", Unrecorded)

\* deliver-refusal and deliver-output: an audit event each.
DeliverRefusal(step) == Stopped(step) /\ Ran(step, Unrecorded, <<"refusal">>)
DeliverOutput(step) == Stopped(step) /\ Ran(step, Unrecorded, <<"output">>)

\* The executor records the result, in a transaction after the activity's.
Record ==
  /\ flight # Nothing
  /\ record' = [record EXCEPT ![flight.step] = flight.result]
  /\ flight' = Nothing /\ tries' = 0
  /\ UNCHANGED <<runInput, pinned, stops, hour, effects>>
\* The attempt throws: it is counted, and the last one fails the run.
AttemptFails(step) ==
  /\ Stopped(step) /\ step # "wait"
  /\ tries' = tries + 1
  /\ UNCHANGED <<runInput, pinned, record, flight, stops, hour, effects>>
\* The process stops with the effect done and nothing recorded.
StopUnrecorded ==
  /\ flight # Nothing /\ stops < MaxStops
  /\ flight' = Nothing /\ stops' = stops + 1
  /\ UNCHANGED <<runInput, pinned, record, tries, hour, effects>>

\* The signal the run waits for, days later perhaps.
ReviewerActs(move) ==
  /\ Stopped("wait")
  /\ record' = [record EXCEPT !["wait"] = [Unrecorded EXCEPT !.done = TRUE, !.said = move,
                                                             !.hour = hour]]
  /\ UNCHANGED <<runInput, pinned, flight, tries, stops, hour, effects>>
HourPasses ==
  /\ hour + 1 \in Hours
  /\ hour' = hour + 1
  /\ UNCHANGED <<runInput, pinned, record, flight, tries, stops, effects>>

GraphNext ==
  \/ \E step \in {"resolve", "recheck"} : ResolveContext(step)
  \/ AskGate \/ InvokeSkill \/ Authorise \/ IssueHandoff
  \/ \E step \in {"refusal", "halt"} : DeliverRefusal(step)
  \/ \E step \in {"approved", "deliver"} : DeliverOutput(step)
  \/ Record \/ StopUnrecorded \/ (\E step \in GraphSteps : AttemptFails(step))
  \/ (\E move \in ReviewMoves : ReviewerActs(move)) \/ HourPasses

GraphSpec == GraphInit /\ [][GraphNext]_graphVars

GraphTypeOK ==
  /\ runInput \in GraphInputs /\ hour \in Hours /\ stops \in 0..MaxStops /\ tries \in 0..MaxTries
  /\ flight.step \in GraphSteps \union {"none"}
  /\ \A s \in GraphSteps : record[s].said \in Verdicts \union ReviewMoves \union {"none"}
  /\ \A k \in DOMAIN effects : effects[k] \in {"refusal", "output"}

\* However often an activity is repeated after a stop, a run delivers its
\* output or a refusal and never both; and output that needed a human left
\* only on a context found live after the approval, as late as that came
\* (workflows.ts: "re-resolve before resuming. The wait may have been
\* long").
DeliveredAsDecided ==
  LET happened == {effects[k] : k \in DOMAIN effects}
  IN  "output" \in happened =>
        /\ "refusal" \notin happened
        /\ record["gate"].said # "refuse" /\ record["invoke"].yes
        /\ ~record["authorise"].yes =>
             /\ record["wait"].done /\ record["wait"].said # "reject_with_reason"
             /\ record["recheck"].yes /\ record["recheck"].hour >= record["wait"].hour
             /\ record["recheck"].hour < pinned.expires
=============================================================================
