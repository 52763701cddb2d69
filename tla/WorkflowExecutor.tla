-------------------------- MODULE WorkflowExecutor --------------------------
(***************************************************************************)
(* C7, the durable workflow executor: one workflow run, the poll loops     *)
(* that lease and advance it, its sweepers and the reviewers who signal    *)
(* it. Every database transaction of the code is one action; a loop keeps  *)
(* what it read in its local variables until the next one.                 *)
(***************************************************************************)
EXTENDS Integers, Sequences, FiniteSets

CONSTANTS
    Loops,          \* poll loops, over all worker processes
    Processes,      \* worker processes, each with one workerId
    ProcessOf,      \* the process a loop belongs to: loops share its workerId
    Program,        \* the call sites of the workflow function, in call order
    Registered,     \* the activity sites each process has a function for
    MaxSteps,       \* maxStepsPerTurn
    EarlySignals,   \* may a signal arrive while the run is not parked on it?
    SlowTurns,      \* may a turn outlast the lease it runs under?
    None,
    MaxSignals, MaxCrashes, MaxFaults, MaxExpiries   \* bounds

Kinds == {"activity", "marker", "timer", "signal"}
CallSite == [kind : Kinds, maxAttempts : Nat \ {0}, compensates : BOOLEAN]

ASSUME ProgramAssumption == Program \in Seq(CallSite) /\ Len(Program) > 0
ASSUME ProcessAssumption ==
    /\ ProcessOf \in [Loops -> Processes] /\ None \notin Processes
    /\ Registered \in [Processes -> SUBSET (1..Len(Program))]
ASSUME BoundAssumption ==
    /\ MaxSteps \in Nat /\ MaxSignals \in Nat /\ MaxCrashes \in Nat
    /\ MaxFaults \in Nat /\ MaxExpiries \in Nat
    /\ EarlySignals \in BOOLEAN /\ SlowTurns \in BOOLEAN

Sites == 1..Len(Program)
Kind(i) == Program[i].kind
Timers == {i \in Sites : Kind(i) = "timer"}
Signals == {i \in Sites : Kind(i) = "signal"}

VARIABLES
    state,          \* workflow_runs.state
    leasedBy,       \* workflow_runs.leased_by
    leaseExpired,   \* leased_until < now()
    runnableAt,     \* workflow_runs.runnable_at, see When
    history,        \* workflow_events, in sequence_number order
    timers,         \* workflow_timers: absent, armed, due or fired
    stack,          \* compensation_stack, by stack_position
    loop,           \* the locals of each poll loop
    signals, crashes, faults, expiries                   \* what the bounds count

row == <<state, leasedBy, leaseExpired, runnableAt>>
db == <<row, history, timers, stack>>
counts == <<signals, crashes, faults, expiries>>
vars == <<db, loop, counts>>

Terminal == {"completed", "failed"}
States == {"absent", "running", "awaiting_signal", "awaiting_timer"} \cup Terminal

(* runnable_at: in the past, when the back-off ends, in a hundred years,   *)
(* or the due time of the timer at the given call site.                    *)
Now == 0
Backoff == -1
Never == -2
When == {Now, Backoff, Never} \cup Timers

EventTypes == {"workflow_started", "workflow_completed", "workflow_failed",
               "activity_scheduled", "activity_completed", "activity_failed",
               "attempt_failed",   \* activity_failed under the id "...::attempt-n"
               "timer_fired", "signal_received", "marker_recorded"}
Event == [type : EventTypes, site : {0} \cup Sites, attempt : Nat]
Ev(type, i, n) == [type |-> type, site |-> i, attempt |-> n]

PCs == {"idle", "sweep", "replay", "marker", "unregistered", "count",
        "schedule", "executing", "caught", "backoff", "readStack", "pushStack",
        "timer", "signal", "finish", "close", "emit", "release"}

Local == [pc : PCs, site : {0} \cup Sites, attempt : Nat, turn : Nat,
          position : Nat, verdict : {"none", "completed", "failed", "aborted"},
          batch : SUBSET Timers]

(* A loop between two iterations holds nothing.                            *)
AtHome == [pc |-> "idle", site |-> 0, attempt |-> 0, turn |-> 0,
           position |-> 0, verdict |-> "none", batch |-> {}]

TypeOK ==
    /\ state \in States
    /\ leasedBy \in Processes \cup {None}
    /\ leaseExpired \in BOOLEAN
    /\ runnableAt \in When
    /\ history \in Seq(Event)
    /\ timers \in [Timers -> {"absent", "armed", "due", "fired"}]
    /\ stack \in Seq(Sites)
    /\ loop \in [Loops -> Local]
    /\ signals \in [Signals -> Nat]
    /\ crashes \in Nat /\ faults \in Nat /\ expiries \in Nat

Init ==
    /\ state = "absent" /\ runnableAt = Now
    /\ leasedBy = None /\ leaseExpired = FALSE
    /\ history = <<>> /\ stack = <<>>
    /\ timers = [i \in Timers |-> "absent"]
    /\ loop = [l \in Loops |-> AtHome]
    /\ signals = [i \in Signals |-> 0]
    /\ crashes = 0 /\ faults = 0 /\ expiries = 0

-----------------------------------------------------------------------------
(* Replay: what the workflow function finds in a history.                  *)

Has(h, type, i) == \E k \in 1..Len(h) : h[k].type = type /\ h[k].site = i

(* activity(), marker(), sleepUntil() and waitForSignal() return.          *)
Passed(h, i) ==
    \/ Kind(i) = "activity" /\ Has(h, "activity_completed", i)
    \/ Kind(i) = "marker" /\ Has(h, "marker_recorded", i)
    \/ Kind(i) = "timer" /\ Has(h, "timer_fired", i)
    \/ Kind(i) = "signal" /\ Has(h, "signal_received", i)

(* activity() throws the recorded ActivityFailure.                         *)
Throws(h, i) ==
    /\ Kind(i) = "activity"
    /\ ~ Has(h, "activity_completed", i)
    /\ Has(h, "activity_failed", i)

PassedBefore(h, i) == \A j \in 1..(i - 1) : Passed(h, j)
PassedAll(h) == \A j \in Sites : Passed(h, j)

(* Mutation: only the call before is looked at.                            *)
Bug_ReachedAfterOne(h, i) == (i > 1 => Passed(h, i - 1)) /\ ~ Passed(h, i)

(* The call site at which a replay of h stops.                             *)
Reached(h, i) == PassedBefore(h, i) /\ ~ Passed(h, i)

Scheduled(h, i) == {k \in 1..Len(h) : h[k].type = "activity_scheduled" /\ h[k].site = i}

-----------------------------------------------------------------------------
(* Shorthands for the steps below.                                         *)

At(l, label) == loop[l].pc = label
Goto(l, label) == loop' = [loop EXCEPT ![l].pc = label]
(* An iteration of #advance ends and the next one reloads the history.     *)
NextTurn(l) == loop' = [loop EXCEPT ![l].pc = "replay", ![l].turn = @ + 1]
Record(type, i, n) == history' = Append(history, Ev(type, i, n))
ClearLease == leasedBy' = None /\ leaseExpired' = FALSE

Runnable ==
    \/ runnableAt = Now
    \/ runnableAt \in Timers /\ timers[runnableAt] \in {"due", "fired"}

-----------------------------------------------------------------------------
(* The world outside the loops.                                            *)

Start ==
    /\ state = "absent"
    /\ state' = "running"
    /\ Record("workflow_started", 0, 1)
    /\ UNCHANGED <<leasedBy, leaseExpired, runnableAt, timers, stack, loop, counts>>

(* Mutations: the signal changes the state but leaves runnable_at a hundred *)
(* years away; the signal is recorded and the row is left alone.           *)
Bug_SignalStaysParked(i) ==
    /\ signals[i] < MaxSignals
    /\ state = "awaiting_signal" /\ Reached(history, i)
    /\ Record("signal_received", i, 1)
    /\ state' = "running"
    /\ ClearLease
    /\ signals' = [signals EXCEPT ![i] = @ + 1]
    /\ UNCHANGED <<runnableAt, timers, stack, loop, crashes, faults, expiries>>

Bug_SignalOnlyRecorded(i) ==
    /\ signals[i] < MaxSignals
    /\ state = "awaiting_signal" /\ Reached(history, i)
    /\ Record("signal_received", i, 1)
    /\ signals' = [signals EXCEPT ![i] = @ + 1]
    /\ UNCHANGED <<row, timers, stack, loop, crashes, faults, expiries>>

(* signal(): the event and the wake-up commit together, whoever holds the  *)
(* lease and whatever state the run is in.                                 *)
Signal(i) ==
    /\ signals[i] < MaxSignals
    /\ state # "absent"
    /\ EarlySignals \/ (state = "awaiting_signal" /\ Reached(history, i))
    /\ Record("signal_received", i, 1)
    /\ state' = IF state \in {"awaiting_signal", "awaiting_timer"} THEN "running" ELSE state
    /\ runnableAt' = Now
    /\ ClearLease
    /\ signals' = [signals EXCEPT ![i] = @ + 1]
    /\ UNCHANGED <<timers, stack, loop, crashes, faults, expiries>>

TimerComesDue(i) ==
    /\ timers[i] = "armed"
    /\ timers' = [timers EXCEPT ![i] = "due"]
    /\ UNCHANGED <<row, history, stack, loop, counts>>

BackoffElapses ==
    /\ runnableAt = Backoff
    /\ runnableAt' = Now
    /\ UNCHANGED <<state, leasedBy, leaseExpired, history, timers, stack, loop, counts>>

(* Nothing renews a lease: it runs out leaseSeconds after #leaseNext.      *)
LeaseExpires ==
    /\ leasedBy # None /\ ~ leaseExpired
    /\ expiries < MaxExpiries
    /\ SlowTurns \/ \A l \in Loops : ProcessOf[l] = leasedBy => loop[l].pc \in {"idle", "sweep"}
    /\ leaseExpired' = TRUE
    /\ expiries' = expiries + 1
    /\ UNCHANGED <<state, leasedBy, runnableAt, history, timers, stack, loop,
                   signals, crashes, faults>>

(* A process dies and restarts: its loops forget everything they read.     *)
Crash(p) ==
    /\ crashes < MaxCrashes
    /\ \E l \in Loops : ProcessOf[l] = p /\ loop[l] # AtHome
    /\ loop' = [l \in Loops |-> IF ProcessOf[l] = p THEN AtHome ELSE loop[l]]
    /\ crashes' = crashes + 1
    /\ UNCHANGED <<db, signals, faults, expiries>>

-----------------------------------------------------------------------------
(* The sweeper, which every loop runs between two polls.                   *)

ReadDueTimers(l) ==
    /\ At(l, "idle")
    /\ \E i \in Timers : timers[i] = "due"
    /\ loop' = [loop EXCEPT ![l].pc = "sweep", ![l].batch = {i \in Timers : timers[i] = "due"}]
    /\ UNCHANGED <<db, counts>>

(* One transaction per timer read; fired_at is not looked at again.        *)
FireTimer(l, i) ==
    /\ At(l, "sweep") /\ i \in loop[l].batch
    /\ Record("timer_fired", i, 1)
    /\ timers' = [timers EXCEPT ![i] = "fired"]
    /\ state' = IF state = "awaiting_timer" THEN "running" ELSE state
    /\ runnableAt' = Now
    /\ ClearLease
    /\ loop' = [loop EXCEPT ![l].batch = @ \ {i},
                            ![l].pc = IF loop[l].batch = {i} THEN "idle" ELSE "sweep"]
    /\ UNCHANGED <<stack, counts>>

ReclaimExpiredLeases ==
    /\ leaseExpired /\ state \in {"running", "awaiting_timer"}
    /\ \E l \in Loops : At(l, "idle")
    /\ ClearLease
    /\ UNCHANGED <<state, runnableAt, history, timers, stack, loop, counts>>

-----------------------------------------------------------------------------
(* One turn of a poll loop.                                                *)

(* Mutations: the dispatch query forgets the lease, or the state.          *)
Bug_LeaseIgnoringLease(l) ==
    /\ At(l, "idle")
    /\ state \in {"running", "awaiting_timer"} /\ Runnable
    /\ leasedBy' = ProcessOf[l] /\ leaseExpired' = FALSE
    /\ Goto(l, "replay")
    /\ UNCHANGED <<state, runnableAt, history, timers, stack, counts>>

Bug_LeaseIgnoringState(l) ==
    /\ At(l, "idle")
    /\ Runnable
    /\ leasedBy = None \/ leaseExpired
    /\ leasedBy' = ProcessOf[l] /\ leaseExpired' = FALSE
    /\ Goto(l, "replay")
    /\ UNCHANGED <<state, runnableAt, history, timers, stack, counts>>

LeaseNext(l) ==
    /\ At(l, "idle")
    /\ state \in {"running", "awaiting_timer"}
    /\ Runnable
    /\ leasedBy = None \/ leaseExpired
    /\ leasedBy' = ProcessOf[l] /\ leaseExpired' = FALSE
    /\ Goto(l, "replay")
    /\ UNCHANGED <<state, runnableAt, history, timers, stack, counts>>

(* Load the history, run the function, suspend at the first call site the  *)
(* history does not answer. A loop remembers the call site and nothing else *)
(* of what it read.                                                        *)
Suspend(l) ==
    /\ At(l, "replay") /\ loop[l].turn < MaxSteps
    /\ \E i \in Sites :
        /\ Reached(history, i) /\ ~ Throws(history, i)
        /\ loop' = [loop EXCEPT ![l].site = i,
                       ![l].pc = IF Kind(i) # "activity" THEN Kind(i)
                                 ELSE IF i \in Registered[ProcessOf[l]] THEN "count"
                                 ELSE "unregistered"]
    /\ UNCHANGED <<db, counts>>

(* The recorded failure escapes the workflow function.                     *)
FailurePropagates(l) ==
    /\ At(l, "replay") /\ loop[l].turn < MaxSteps
    /\ \E i \in Sites : Reached(history, i) /\ Throws(history, i)
    /\ loop' = [loop EXCEPT ![l].pc = "finish", ![l].verdict = "failed"]
    /\ UNCHANGED <<db, counts>>

FunctionReturns(l) ==
    /\ At(l, "replay") /\ loop[l].turn < MaxSteps
    /\ PassedAll(history)
    /\ loop' = [loop EXCEPT ![l].pc = "finish", ![l].verdict = "completed"]
    /\ UNCHANGED <<db, counts>>

(* Mutation: the loop falls out of its step budget and closes the run.     *)
Bug_BudgetCompletes(l) ==
    /\ At(l, "replay") /\ loop[l].turn >= MaxSteps
    /\ loop' = [loop EXCEPT ![l].pc = "finish", ![l].verdict = "completed"]
    /\ UNCHANGED <<db, counts>>

StepBudgetExhausted(l) ==
    /\ At(l, "replay") /\ loop[l].turn >= MaxSteps
    /\ loop' = [loop EXCEPT ![l].pc = "finish", ![l].verdict = "aborted"]
    /\ UNCHANGED <<db, counts>>

RecordMarker(l) ==
    /\ At(l, "marker")
    /\ Record("marker_recorded", loop[l].site, 1)
    /\ NextTurn(l)
    /\ UNCHANGED <<row, timers, stack, counts>>

RefuseUnregistered(l) ==
    /\ At(l, "unregistered")
    /\ Record("activity_failed", loop[l].site, 1)
    /\ NextTurn(l)
    /\ UNCHANGED <<row, timers, stack, counts>>

CountAttempts(l) ==
    /\ At(l, "count")
    /\ loop' = [loop EXCEPT ![l].pc = "schedule",
                 ![l].attempt = Cardinality(Scheduled(history, loop[l].site)) + 1]
    /\ UNCHANGED <<db, counts>>

ScheduleActivity(l) ==
    /\ At(l, "schedule")
    /\ Record("activity_scheduled", loop[l].site, loop[l].attempt)
    /\ Goto(l, "executing")
    /\ UNCHANGED <<row, timers, stack, counts>>

(* The activity function returns, and its result is recorded.              *)
ActivityCompletes(l) ==
    /\ At(l, "executing")
    /\ Record("activity_completed", loop[l].site, loop[l].attempt)
    /\ IF Program[loop[l].site].compensates THEN Goto(l, "readStack") ELSE NextTurn(l)
    /\ UNCHANGED <<row, timers, stack, counts>>

(* Mutation: <= for < in the test of the attempts left.                    *)
Bug_RetryOnceMore(l) ==
    /\ At(l, "executing")
    /\ loop[l].attempt <= Program[loop[l].site].maxAttempts
    /\ Record("attempt_failed", loop[l].site, loop[l].attempt)
    /\ Goto(l, "backoff")
    /\ UNCHANGED <<row, timers, stack, counts>>

(* It throws a retryable error and has attempts left. The failure is       *)
(* recorded under an id no call site asks for.                             *)
ActivityWillRetry(l) ==
    /\ At(l, "executing")
    /\ loop[l].attempt < Program[loop[l].site].maxAttempts
    /\ Record("attempt_failed", loop[l].site, loop[l].attempt)
    /\ Goto(l, "backoff")
    /\ UNCHANGED <<row, timers, stack, counts>>

(* Mutation: the compensation is pushed in a finally block.                *)
Bug_CompensateFailures(l) ==
    /\ loop[l].pc \in {"executing", "caught"}
    /\ Record("activity_failed", loop[l].site, loop[l].attempt)
    /\ IF Program[loop[l].site].compensates THEN Goto(l, "readStack") ELSE NextTurn(l)
    /\ UNCHANGED <<row, timers, stack, counts>>

(* It throws a permanent error, or its last attempt fails; or recording    *)
(* its success failed, which the same catch block turns into a failure.    *)
ActivityFails(l) ==
    /\ loop[l].pc \in {"executing", "caught"}
    /\ Record("activity_failed", loop[l].site, loop[l].attempt)
    /\ NextTurn(l)
    /\ UNCHANGED <<row, timers, stack, counts>>

ScheduleRetry(l) ==
    /\ At(l, "backoff")
    /\ runnableAt' = Backoff
    /\ ClearLease
    /\ Goto(l, "release")
    /\ UNCHANGED <<state, history, timers, stack, counts>>

(* max(stack_position) + 1, then an insert that gives way to a conflict.   *)
(* Mutation: max(stack_position), without the + 1.                         *)
Bug_ReadStackTop(l) ==
    /\ At(l, "readStack")
    /\ loop' = [loop EXCEPT ![l].pc = "pushStack", ![l].position = Len(stack)]
    /\ UNCHANGED <<db, counts>>

ReadStack(l) ==
    /\ At(l, "readStack")
    /\ loop' = [loop EXCEPT ![l].pc = "pushStack", ![l].position = Len(stack) + 1]
    /\ UNCHANGED <<db, counts>>

(* Mutation: the newest compensation goes to the bottom.                   *)
Bug_PushAtTheBottom(l) ==
    /\ At(l, "pushStack")
    /\ stack' = IF loop[l].position = Len(stack) + 1 THEN <<loop[l].site>> \o stack ELSE stack
    /\ NextTurn(l)
    /\ UNCHANGED <<row, history, timers, counts>>

PushCompensation(l) ==
    /\ At(l, "pushStack")
    /\ stack' = IF loop[l].position = Len(stack) + 1 THEN Append(stack, loop[l].site) ELSE stack
    /\ NextTurn(l)
    /\ UNCHANGED <<row, history, timers, counts>>

ScheduleTimer(l) ==
    /\ At(l, "timer")
    /\ LET i == loop[l].site IN
        /\ timers' = [timers EXCEPT ![i] = IF @ = "absent" THEN "armed" ELSE @]
        /\ runnableAt' = i
    /\ state' = "awaiting_timer"
    /\ ClearLease
    /\ Goto(l, "release")
    /\ UNCHANGED <<history, stack, counts>>

(* The row is parked without looking at the history again.                 *)
AwaitSignal(l) ==
    /\ At(l, "signal")
    /\ state' = "awaiting_signal"
    /\ runnableAt' = Never
    /\ ClearLease
    /\ Goto(l, "release")
    /\ UNCHANGED <<history, timers, stack, counts>>

(* #completeRun: the event, then the row, then the audit event.            *)
RecordOutcome(l) ==
    /\ At(l, "finish")
    /\ Record(IF loop[l].verdict = "completed" THEN "workflow_completed" ELSE "workflow_failed", 0, 1)
    /\ Goto(l, "close")
    /\ UNCHANGED <<row, timers, stack, counts>>

CloseRun(l) ==
    /\ At(l, "close")
    /\ state' = IF loop[l].verdict = "completed" THEN "completed" ELSE "failed"
    /\ ClearLease
    /\ Goto(l, "emit")
    /\ UNCHANGED <<runnableAt, history, timers, stack, counts>>

EmitStateChanged(l) ==
    /\ At(l, "emit")
    /\ Goto(l, "release")
    /\ UNCHANGED <<db, counts>>

(* The release names the workerId, which every loop of the process shares. *)
(* Mutation: the release does not name a holder.                           *)
Bug_ReleaseAnyLease(l) ==
    /\ At(l, "release")
    /\ ClearLease
    /\ loop' = [loop EXCEPT ![l] = AtHome]
    /\ UNCHANGED <<state, runnableAt, history, timers, stack, counts>>

ReleaseLease(l) ==
    /\ At(l, "release")
    /\ IF leasedBy = ProcessOf[l] THEN ClearLease ELSE UNCHANGED <<leasedBy, leaseExpired>>
    /\ loop' = [loop EXCEPT ![l] = AtHome]
    /\ UNCHANGED <<state, runnableAt, history, timers, stack, counts>>

-----------------------------------------------------------------------------
(* A database call of a loop throws and its transaction rolls back.        *)

Faulted == faults < MaxFaults /\ faults' = faults + 1

(* The try block of #runActivity covers the recording of a success and the *)
(* push of its compensation.                                               *)
FaultInTry(l) ==
    /\ Faulted
    /\ loop[l].pc \in {"executing", "readStack", "pushStack"}
    /\ Goto(l, "caught")
    /\ UNCHANGED <<db, signals, crashes, expiries>>

(* Elsewhere pollOnce catches it and fails the run, unless that is what it *)
(* was doing; outside the try of pollOnce, runPollLoop logs it.            *)
FaultInTurn(l) ==
    /\ Faulted
    /\ loop[l].pc \notin {"idle", "sweep", "release", "readStack", "pushStack"}
    /\ loop' = [loop EXCEPT ![l].verdict = "aborted",
                  ![l].pc = IF loop[l].verdict = "aborted" THEN "release" ELSE "finish"]
    /\ UNCHANGED <<db, signals, crashes, expiries>>

FaultInLoop(l) ==
    /\ Faulted
    /\ loop[l].pc \in {"sweep", "release"}
    /\ loop' = [loop EXCEPT ![l] = AtHome]
    /\ UNCHANGED <<db, signals, crashes, expiries>>

Fault(l) == FaultInTry(l) \/ FaultInTurn(l) \/ FaultInLoop(l)

-----------------------------------------------------------------------------
Turn(l) ==
    \/ LeaseNext(l) \/ Suspend(l) \/ FailurePropagates(l) \/ FunctionReturns(l)
    \/ StepBudgetExhausted(l) \/ RecordMarker(l) \/ RefuseUnregistered(l)
    \/ CountAttempts(l) \/ ScheduleActivity(l) \/ ActivityCompletes(l)
    \/ ActivityWillRetry(l) \/ ActivityFails(l) \/ ScheduleRetry(l)
    \/ ReadStack(l) \/ PushCompensation(l) \/ ScheduleTimer(l) \/ AwaitSignal(l)
    \/ RecordOutcome(l) \/ CloseRun(l) \/ EmitStateChanged(l) \/ ReleaseLease(l)

Sweep(l) == ReadDueTimers(l) \/ \E i \in Timers : FireTimer(l, i)

Next ==
    \/ Start
    \/ \E i \in Signals : Signal(i)
    \/ \E i \in Timers : TimerComesDue(i)
    \/ BackoffElapses \/ LeaseExpires \/ ReclaimExpiredLeases
    \/ \E p \in Processes : Crash(p)
    \/ \E l \in Loops : Turn(l) \/ Sweep(l) \/ Fault(l)

Spec == Init /\ [][Next]_vars

(* Every poll loop keeps polling; a sweep is due whenever sweeperIntervalMs *)
(* has gone by, so it cannot be put off forever by polls that find work.   *)
(* Time passes, activities return, and a reviewer answers a parked run.    *)
Fairness ==
    /\ WF_vars(Start)
    /\ \A l \in Loops : WF_vars(Turn(l)) /\ SF_vars(Sweep(l))
    /\ WF_vars(LeaseExpires) /\ WF_vars(BackoffElapses)
    /\ \A i \in Timers : WF_vars(TimerComesDue(i))
    /\ \A i \in Signals : WF_vars(Signal(i))

FairSpec == Spec /\ Fairness

-----------------------------------------------------------------------------
(* What holds however turns overlap.                                       *)

(* Replay keeps the order of the function: an activity is scheduled only   *)
(* after every call site before it has its answer in the history.          *)
CallOrder ==
    \A k \in 1..Len(history) :
        history[k].type = "activity_scheduled" =>
            PassedBefore(SubSeq(history, 1, k - 1), history[k].site)

(* A result is only ever recorded for an attempt whose start was recorded  *)
(* first, so the history accounts for every execution that left a result.  *)
CompletionWasScheduled ==
    \A k \in 1..Len(history) :
        history[k].type = "activity_completed" =>
            \E j \in 1..(k - 1) : /\ history[j].type = "activity_scheduled"
                                  /\ history[j].site = history[k].site
                                  /\ history[j].attempt = history[k].attempt

(* Nothing on the compensation stack undoes an activity that did not       *)
(* succeed, or one that declared no compensation.                          *)
CompensationFollowsCompletion ==
    \A p \in 1..Len(stack) :
        /\ Program[stack[p]].compensates
        /\ Has(history, "activity_completed", stack[p])

(* A run is closed as completed only when every call site has its answer.  *)
CompletedMeansDone ==
    state = "completed" \/ Has(history, "workflow_completed", 0) => PassedAll(history)

-----------------------------------------------------------------------------
(* What holds when a turn never outlasts its lease, reviewers answer only  *)
(* parked runs, no sweeper clears a lease and every loop has a workerId of *)
(* its own.                                                                *)

Working(l) == loop[l].pc \notin {"idle", "sweep", "release", "emit"}

(* The lease keeps a second loop out of the run until the first is done.   *)
OneTurnAtATime == \A l, m \in Loops : Working(l) /\ Working(m) => l = m

(* s.9.2: an activity whose outcome is in the history is served from there *)
(* and never scheduled again.                                              *)
ServedFromHistory ==
    [][ Len(history') > Len(history) =>
          LET e == history'[Len(history')] IN
            e.type = "activity_scheduled" =>
              ~ Passed(history, e.site) /\ ~ Throws(history, e.site) ]_vars

(* Retries stop at maxAttempts. What buys an execution more is a crash, or *)
(* two database errors in a turn: the second keeps the run from being      *)
(* failed for the first, and the attempt from being accounted for.         *)
Lost == crashes + faults \div 2
AttemptsBounded ==
    \A i \in Sites : Cardinality(Scheduled(history, i)) <= Program[i].maxAttempts + Lost

(* s.9.4: every activity that succeeded has its compensation on the stack  *)
(* once no loop is about to push it, unless a crash or a database error    *)
(* came between the two transactions.                                      *)
CompensationLostOnlyByFailure ==
    crashes = 0 /\ faults = 0 =>
        \A i \in Sites :
            /\ Kind(i) = "activity" /\ Passed(history, i) /\ Program[i].compensates
            /\ \A l \in Loops : loop[l].pc \in {"readStack", "pushStack"} => loop[l].site # i
            => \E n \in 1..Len(stack) : stack[n] = i

(* No loop reopens or re-parks a run another loop has closed.              *)
TerminalStaysTerminal == [][(state \in Terminal) => (state' \in Terminal)]_vars

(* signal(): a run is never parked on a signal that has already arrived.   *)
NotAsleepOnArrivedSignal ==
    state = "awaiting_signal" =>
        \E i \in Signals : Reached(history, i)

(* For the function that is replayed the run is a DurableRun: whatever dies *)
(* or fails in between, it never sees an answer change, nothing it asked    *)
(* for is executed once it is answered, and what can be undone is stacked   *)
(* in the order in which it succeeded (s.9.2, s.9.4).                       *)
AnswerTo(h, i) == IF Passed(h, i) THEN "passed" ELSE IF Throws(h, i) THEN "failed" ELSE "none"
Durable == INSTANCE DurableRun WITH
    Calls <- Sites, Activities <- {i \in Sites : Kind(i) = "activity"},
    Undoable <- {i \in Sites : Kind(i) = "activity" /\ Program[i].compensates},
    phase <- IF state \in {"absent", "completed", "failed"} THEN state ELSE "open",
    answer <- [i \in Sites |-> AnswerTo(history, i)],
    executions <- [i \in Sites |-> Cardinality(Scheduled(history, i))],
    undo <- stack
ImplementsDurableRun == Durable!RunSpec

(* Every started run ends, whatever crashes and timers it goes through.    *)
Terminates == state = "running" ~> state \in Terminal
=============================================================================
