---------------------- MODULE WorkflowExecutorProofs ----------------------
(***************************************************************************)
(* What holds of WorkflowExecutor, for every program, every number of      *)
(* loops and processes and every bound: first however its turns overlap,   *)
(* then, under conditions on the deployment, what its lease achieves: one  *)
(* turn at a time, no closed run reopened, retries that stop, and a run    *)
(* that is a DurableRun for the function replayed.                         *)
(***************************************************************************)
EXTENDS WorkflowExecutor, SequenceTheorems, FiniteSetTheorems, TLAPS

-----------------------------------------------------------------------------
(* A history only grows at its end, and replay never loses an answer.      *)

(* #appendEvent adds one event at the end and moves none.                  *)
LEMMA AppendedHistory ==
    ASSUME NEW h \in Seq(Event), NEW e \in Event
    PROVE  /\ Append(h, e) \in Seq(Event)
           /\ Len(Append(h, e)) = Len(h) + 1
           /\ \A k \in 1..Len(h) : Append(h, e)[k] = h[k]
           /\ Append(h, e)[Len(h) + 1] = e
    OBVIOUS

(* What came before an event is the same after an append.                  *)
LEMMA PrefixOfAppend ==
    ASSUME NEW h \in Seq(Event), NEW e \in Event, NEW k \in 1..(Len(h) + 1)
    PROVE  SubSeq(Append(h, e), 1, k - 1) = SubSeq(h, 1, k - 1)
<1>1. 1 \in 1..(Len(h) + 1) /\ k - 1 \in 0..Len(h)
    OBVIOUS
<1>2. \A j \in 1..(k - 1) : Append(h, e)[j] = h[j]
    OBVIOUS
<1>. QED
    BY <1>1, <1>2

(* A history is a prefix of itself.                                        *)
LEMMA WholePrefix ==
    ASSUME NEW h \in Seq(Event)
    PROVE  SubSeq(h, 1, Len(h)) = h
    OBVIOUS

(* An event in the history stays there.                                    *)
LEMMA HasGrows ==
    ASSUME NEW h \in Seq(Event), NEW e \in Event, NEW t, NEW i, Has(h, t, i)
    PROVE  Has(Append(h, e), t, i)
<1>1. PICK k \in 1..Len(h) : h[k].type = t /\ h[k].site = i
    BY DEF Has
<1>2. k \in 1..Len(Append(h, e)) /\ Append(h, e)[k] = h[k]
    BY AppendedHistory
<1>. QED
    BY <1>1, <1>2 DEF Has

(* The event just appended is found by the next replay.                    *)
LEMMA HasAppended ==
    ASSUME NEW h \in Seq(Event), NEW e \in Event
    PROVE  Has(Append(h, e), e.type, e.site)
    BY AppendedHistory DEF Has

(* What Append adds is the only new event.                                 *)
LEMMA HasOnlyNew ==
    ASSUME NEW h \in Seq(Event), NEW e \in Event, NEW t, NEW i,
           Has(Append(h, e), t, i), ~ (e.type = t /\ e.site = i)
    PROVE  Has(h, t, i)
<1>1. PICK k \in 1..Len(Append(h, e)) : Append(h, e)[k].type = t /\ Append(h, e)[k].site = i
    BY DEF Has
<1>2. k # Len(h) + 1
    BY <1>1, AppendedHistory
<1>3. k \in 1..Len(h)
    BY <1>1, <1>2, AppendedHistory
<1>. QED
    BY <1>1, <1>3, AppendedHistory DEF Has

(* A call site that has its answer keeps it: replay never unlearns.        *)
LEMMA PassedGrows ==
    ASSUME NEW h \in Seq(Event), NEW e \in Event, NEW i, Passed(h, i)
    PROVE  Passed(Append(h, e), i)
    BY HasGrows DEF Passed

(* A call site once reached stays reached.                                 *)
LEMMA PassedBeforeGrows ==
    ASSUME NEW h \in Seq(Event), NEW e \in Event, NEW i, PassedBefore(h, i)
    PROVE  PassedBefore(Append(h, e), i)
    BY PassedGrows DEF PassedBefore

(* A function that once replays to its end always does.                    *)
LEMMA PassedAllGrows ==
    ASSUME NEW h \in Seq(Event), NEW e \in Event, PassedAll(h)
    PROVE  PassedAll(Append(h, e))
    BY PassedGrows DEF PassedAll

-----------------------------------------------------------------------------
(* The inductive invariant. A property of the history alone is stated for  *)
(* any history, so that it can be carried over an Append.                  *)

StartedBy(h, n, i, a) ==
    \E j \in 1..n : h[j].type = "activity_scheduled" /\ h[j].site = i /\ h[j].attempt = a

HistoryInv(h) ==
    /\ \A k \in 1..Len(h) : h[k].type = "activity_scheduled" =>
            PassedBefore(SubSeq(h, 1, k - 1), h[k].site)
    /\ \A k \in 1..Len(h) : h[k].type = "activity_completed" =>
            StartedBy(h, k - 1, h[k].site, h[k].attempt)
    /\ Has(h, "workflow_completed", 0) => PassedAll(h)

(* What a loop may rely on between two transactions, whatever the others   *)
(* did in between: its locals r describe the history h it once read.       *)
AtCallSite == {"marker", "unregistered", "count", "schedule", "executing",
               "caught", "backoff", "readStack", "pushStack", "timer", "signal"}

LocalInv(r, h) ==
    /\ r.pc \in AtCallSite => r.site \in Sites /\ PassedBefore(h, r.site)
    /\ r.pc = "timer" => r.site \in Timers
    /\ r.pc = "executing" => StartedBy(h, Len(h), r.site, r.attempt)
    /\ r.pc \in {"readStack", "pushStack"} =>
            Program[r.site].compensates /\ Has(h, "activity_completed", r.site)
    /\ r.verdict = "completed" => PassedAll(h)

IInv ==
    /\ TypeOK
    /\ HistoryInv(history)
    /\ \A l \in Loops : LocalInv(loop[l], history)
    /\ CompensationFollowsCompletion
    /\ state = "completed" => PassedAll(history)

(* A recorded start of an attempt stays where it was recorded.             *)
LEMMA StartedByGrows ==
    ASSUME NEW h \in Seq(Event), NEW e \in Event, NEW n \in Nat, n <= Len(h),
           NEW i, NEW a, StartedBy(h, n, i, a)
    PROVE  StartedBy(Append(h, e), n, i, a)
<1>1. \A j \in 1..n : Append(h, e)[j] = h[j]
    BY AppendedHistory
<1>. QED
    BY <1>1 DEF StartedBy

(* Scheduling an activity records the start of that attempt.               *)
LEMMA StartedByAppended ==
    ASSUME NEW h \in Seq(Event), NEW i \in Sites, NEW a \in Nat
    PROVE  StartedBy(Append(h, Ev("activity_scheduled", i, a)), Len(h) + 1, i, a)
<1>1. Ev("activity_scheduled", i, a) \in Event
    BY DEF Ev, Event, EventTypes
<1>2. Append(h, Ev("activity_scheduled", i, a))[Len(h) + 1] = Ev("activity_scheduled", i, a)
    BY <1>1, AppendedHistory
<1>. QED
    BY <1>2 DEF StartedBy, Ev

(* What the locals of a loop rely on survives every step of the others.    *)
LEMMA LocalInvGrows ==
    ASSUME NEW h \in Seq(Event), NEW e \in Event, NEW r, LocalInv(r, h)
    PROVE  LocalInv(r, Append(h, e))
<1>1. r.pc \in AtCallSite => r.site \in Sites /\ PassedBefore(Append(h, e), r.site)
    BY PassedBeforeGrows DEF LocalInv
<1>2. r.pc = "executing" => StartedBy(Append(h, e), Len(Append(h, e)), r.site, r.attempt)
    <2>1. SUFFICES ASSUME r.pc = "executing"
          PROVE  StartedBy(Append(h, e), Len(Append(h, e)), r.site, r.attempt)
        OBVIOUS
    <2>2. StartedBy(Append(h, e), Len(h), r.site, r.attempt)
        BY <2>1, StartedByGrows DEF LocalInv
    <2>. QED
        BY <2>2, AppendedHistory DEF StartedBy
<1>3. r.pc \in {"readStack", "pushStack"} =>
            Program[r.site].compensates /\ Has(Append(h, e), "activity_completed", r.site)
    BY HasGrows DEF LocalInv
<1>4. r.verdict = "completed" => PassedAll(Append(h, e))
    BY PassedAllGrows DEF LocalInv
<1>. QED
    BY <1>1, <1>2, <1>3, <1>4 DEF LocalInv

(* The three kinds of events that HistoryInv speaks of, and their price.   *)
LEMMA HistoryInvGrows ==
    ASSUME NEW h \in Seq(Event), NEW e \in Event, HistoryInv(h),
           e.type = "activity_scheduled" => PassedBefore(h, e.site),
           e.type = "activity_completed" => StartedBy(h, Len(h), e.site, e.attempt),
           e.type = "workflow_completed" => PassedAll(h)
    PROVE  HistoryInv(Append(h, e))
<1>. DEFINE g == Append(h, e)
<1>1. ASSUME NEW k \in 1..Len(g), g[k].type = "activity_scheduled"
      PROVE  PassedBefore(SubSeq(g, 1, k - 1), g[k].site)
    <2>1. SubSeq(g, 1, k - 1) = SubSeq(h, 1, k - 1)
        BY AppendedHistory, PrefixOfAppend
    <2>2. CASE k \in 1..Len(h)
        <3>1. g[k] = h[k]
            BY <2>2, AppendedHistory
        <3>. QED
            BY <1>1, <2>1, <2>2, <3>1 DEF HistoryInv
    <2>3. CASE k = Len(h) + 1
        <3>1. g[k] = e /\ SubSeq(h, 1, k - 1) = h
            BY <2>3, AppendedHistory, WholePrefix
        <3>. QED
            BY <1>1, <2>1, <3>1
    <2>. QED
        BY <2>2, <2>3, AppendedHistory
<1>2. ASSUME NEW k \in 1..Len(g), g[k].type = "activity_completed"
      PROVE  StartedBy(g, k - 1, g[k].site, g[k].attempt)
    <2>1. CASE k \in 1..Len(h)
        <3>1. g[k] = h[k]
            BY <2>1, AppendedHistory
        <3>2. StartedBy(h, k - 1, h[k].site, h[k].attempt)
            BY <1>2, <2>1, <3>1 DEF HistoryInv
        <3>. QED
            BY <2>1, <3>1, <3>2, StartedByGrows
    <2>2. CASE k = Len(h) + 1
        <3>1. g[k] = e /\ k - 1 = Len(h)
            BY <2>2, AppendedHistory
        <3>2. StartedBy(h, k - 1, e.site, e.attempt)
            BY <1>2, <3>1
        <3>. QED
            BY <3>1, <3>2, StartedByGrows
    <2>. QED
        BY <2>1, <2>2, AppendedHistory
<1>3. Has(g, "workflow_completed", 0) => PassedAll(g)
    <2>1. CASE e.type = "workflow_completed"
        BY <2>1, PassedAllGrows
    <2>2. CASE e.type # "workflow_completed"
        BY <2>2, HasOnlyNew, PassedAllGrows DEF HistoryInv
    <2>. QED
        BY <2>1, <2>2
<1>. QED
    BY <1>1, <1>2, <1>3 DEF HistoryInv
-----------------------------------------------------------------------------
(* Type correctness. It needs the rest of IInv: a loop at the timer step   *)
(* stands at a timer, a loop at an activity at one of the call sites.      *)

USE DEF row, db, counts, vars

(* An event built from its three parts is an event.                        *)
LEMMA EventTypesOK ==
    ASSUME NEW t \in EventTypes, NEW i \in {0} \cup Sites, NEW n \in Nat
    PROVE  Ev(t, i, n) \in Event /\ Ev(t, i, n).type = t /\ Ev(t, i, n).site = i
           /\ Ev(t, i, n).attempt = n
    BY DEF Ev, Event

(* Recording an event keeps the history a sequence of events.              *)
LEMMA RecordTypeOK ==
    ASSUME history \in Seq(Event), NEW t \in EventTypes, NEW i \in {0} \cup Sites,
           NEW n \in Nat, Record(t, i, n)
    PROVE  history' \in Seq(Event)
    BY EventTypesOK, AppendedHistory DEF Record

(* The fresh row, with every loop at home, is well typed.                  *)
LEMMA TypeInit == Init => TypeOK
<1>1. AtHome \in Local
    BY DEF AtHome, Local, PCs
<1>2. Init => history \in Seq(Event) /\ stack \in Seq(Sites)
    BY DEF Init
<1>3. Init => loop \in [Loops -> Local] /\ signals \in [Signals -> Nat]
    BY <1>1 DEF Init
<1>4. Init => timers \in [Timers -> {"absent", "armed", "due", "fired"}]
    BY DEF Init
<1>5. Init => state \in States /\ runnableAt \in When
    BY DEF Init, States, When
<1>6. Init => crashes \in Nat /\ faults \in Nat /\ expiries \in Nat
    BY DEF Init
<1>7. Init => leasedBy \in Processes \cup {None} /\ leaseExpired \in BOOLEAN
    BY DEF Init
<1>. QED
    BY <1>2, <1>3, <1>4, <1>5, <1>6, <1>7 DEF TypeOK

(* Moving a loop to another step keeps its locals typed.                   *)
LEMMA GotoOK ==
    ASSUME loop \in [Loops -> Local], NEW l \in Loops, NEW label \in PCs, Goto(l, label)
    PROVE  loop' \in [Loops -> Local]
    BY DEF Goto, Local

(* So does starting its next iteration.                                    *)
LEMMA NextTurnOK ==
    ASSUME loop \in [Loops -> Local], NEW l \in Loops, NextTurn(l)
    PROVE  loop' \in [Loops -> Local]
<1>1. loop[l] \in Local /\ loop[l].turn + 1 \in Nat /\ "replay" \in PCs
    BY DEF Local, PCs
<1>2. [loop[l] EXCEPT !.pc = "replay", !.turn = @ + 1] \in Local
    BY <1>1 DEF Local
<1>. QED
    BY <1>2 DEF NextTurn

(* Any other change of one loop's locals: it is enough to type the result. *)
LEMMA LocalOK ==
    ASSUME loop \in [Loops -> Local], NEW l \in Loops, NEW r \in Local,
           loop' = [loop EXCEPT ![l] = r]
    PROVE  loop' \in [Loops -> Local]
    OBVIOUS

(* Every call site is of one of the four kinds.                            *)
LEMMA KindOK == ASSUME NEW i \in Sites PROVE Kind(i) \in Kinds
<1>1. Program[i] \in CallSite
    BY ProgramAssumption DEF Sites
<1>. QED
    BY <1>1 DEF Kind, CallSite

(* The steps of the world outside the loops.                               *)
LEMMA TypeOutside ==
    ASSUME IInv,
           \/ Start \/ BackoffElapses \/ LeaseExpires \/ ReclaimExpiredLeases
           \/ \E i \in Signals : Signal(i)
           \/ \E i \in Timers : TimerComesDue(i)
           \/ \E p \in Processes : Crash(p)
    PROVE  TypeOK'
<1>. USE DEF TypeOK, States, Terminal, When, Now, Signals, Timers, ClearLease
<1>1. CASE Start
    <2>1. history' \in Seq(Event)
        BY <1>1, RecordTypeOK DEF Start, IInv, EventTypes
    <2>. QED
        BY <1>1, <2>1 DEF Start, IInv
<1>2. CASE BackoffElapses
    BY <1>2 DEF BackoffElapses, IInv
<1>3. CASE LeaseExpires
    BY <1>3 DEF LeaseExpires, IInv
<1>4. CASE ReclaimExpiredLeases
    BY <1>4 DEF ReclaimExpiredLeases, IInv
<1>5. ASSUME NEW i \in Signals, Signal(i)
      PROVE  TypeOK'
    <2>1. history' \in Seq(Event)
        BY <1>5, RecordTypeOK DEF Signal, IInv, EventTypes
    <2>2. signals' \in [Signals -> Nat]
        BY <1>5 DEF Signal, IInv
    <2>. QED
        BY <1>5, <2>1, <2>2 DEF Signal, IInv
<1>6. ASSUME NEW i \in Timers, TimerComesDue(i)
      PROVE  TypeOK'
    BY <1>6 DEF TimerComesDue, IInv
<1>7. ASSUME NEW p \in Processes, Crash(p)
      PROVE  TypeOK'
    <2>1. AtHome \in Local
        BY DEF AtHome, Local, PCs
    <2>. QED
        BY <1>7, <2>1 DEF Crash, IInv
<1>. QED
    BY <1>1, <1>2, <1>3, <1>4, <1>5, <1>6, <1>7

(* The steps of a loop.                                                    *)
LEMMA TypeLoop ==
    ASSUME IInv, NEW l \in Loops, Turn(l) \/ Sweep(l) \/ Fault(l)
    PROVE  TypeOK'
<1>. USE DEF TypeOK
<1>0. /\ TypeOK /\ loop[l] \in Local
      /\ loop[l].attempt \in Nat /\ loop[l].site \in {0} \cup Sites
      /\ loop[l].pc \in AtCallSite => loop[l].site \in Sites
      /\ loop[l].pc = "timer" => loop[l].site \in Timers
    BY DEF IInv, LocalInv, Local
<1>. USE DEF At
<1>1. CASE LeaseNext(l)
    <2>1. loop' \in [Loops -> Local]
        BY <1>0, <1>1, GotoOK DEF LeaseNext, PCs
    <2>. QED
        BY <1>0, <1>1, <2>1, ProcessAssumption DEF LeaseNext
<1>2. CASE Suspend(l)
    <2>1. PICK i \in Sites : loop' = [loop EXCEPT ![l].site = i,
                       ![l].pc = IF Kind(i) # "activity" THEN Kind(i)
                                 ELSE IF i \in Registered[ProcessOf[l]] THEN "count"
                                 ELSE "unregistered"]
        BY <1>2 DEF Suspend
    <2>2. ASSUME NEW label \in PCs, loop' = [loop EXCEPT ![l].site = i, ![l].pc = label]
          PROVE  loop' \in [Loops -> Local]
        BY <1>0, <2>2 DEF Local
    <2>3. loop' \in [Loops -> Local]
        BY <2>1, <2>2, KindOK DEF Kinds, PCs
    <2>. QED
        BY <1>0, <1>2, <2>3 DEF Suspend
<1>3. CASE FailurePropagates(l)
    <2>. DEFINE r == [loop[l] EXCEPT !.pc = "finish", !.verdict = "failed"]
    <2>1. r \in Local
        BY <1>0 DEF Local, PCs
    <2>2. loop' \in [Loops -> Local]
        BY <1>0, <1>3, <2>1, LocalOK DEF FailurePropagates
    <2>. QED
        BY <1>0, <1>3, <2>2 DEF FailurePropagates
<1>4. CASE FunctionReturns(l)
    <2>. DEFINE r == [loop[l] EXCEPT !.pc = "finish", !.verdict = "completed"]
    <2>1. r \in Local
        BY <1>0 DEF Local, PCs
    <2>2. loop' \in [Loops -> Local]
        BY <1>0, <1>4, <2>1, LocalOK DEF FunctionReturns
    <2>. QED
        BY <1>0, <1>4, <2>2 DEF FunctionReturns
<1>5. CASE StepBudgetExhausted(l)
    <2>. DEFINE r == [loop[l] EXCEPT !.pc = "finish", !.verdict = "aborted"]
    <2>1. r \in Local
        BY <1>0 DEF Local, PCs
    <2>2. loop' \in [Loops -> Local]
        BY <1>0, <1>5, <2>1, LocalOK DEF StepBudgetExhausted
    <2>. QED
        BY <1>0, <1>5, <2>2 DEF StepBudgetExhausted
<1>6. CASE RecordMarker(l)
    <2>1. history' \in Seq(Event)
        BY <1>0, <1>6, RecordTypeOK DEF RecordMarker, EventTypes, AtCallSite
    <2>2. loop' \in [Loops -> Local]
        BY <1>0, <1>6, NextTurnOK DEF RecordMarker
    <2>. QED
        BY <1>0, <1>6, <2>1, <2>2 DEF RecordMarker, ClearLease
<1>7. CASE RefuseUnregistered(l)
    <2>1. history' \in Seq(Event)
        BY <1>0, <1>7, RecordTypeOK DEF RefuseUnregistered, EventTypes, AtCallSite
    <2>2. loop' \in [Loops -> Local]
        BY <1>0, <1>7, NextTurnOK DEF RefuseUnregistered
    <2>. QED
        BY <1>0, <1>7, <2>1, <2>2 DEF RefuseUnregistered, ClearLease
<1>8. CASE CountAttempts(l)
    <2>. DEFINE r == [loop[l] EXCEPT !.pc = "schedule",
                        !.attempt = Cardinality(Scheduled(history, loop[l].site)) + 1]
    <2>1. Cardinality(Scheduled(history, loop[l].site)) \in Nat
        <3>1. IsFiniteSet(1..Len(history))
            BY <1>0, FS_Interval
        <3>2. Scheduled(history, loop[l].site) \subseteq 1..Len(history)
            BY DEF Scheduled
        <3>. QED
            BY <3>1, <3>2, FS_Subset, FS_CardinalityType
    <2>2. ASSUME NEW n \in Nat
          PROVE  [loop[l] EXCEPT !.pc = "schedule", !.attempt = n] \in Local
        BY <1>0 DEF Local, PCs
    <2>3. Cardinality(Scheduled(history, loop[l].site)) + 1 \in Nat
        BY <2>1
    <2>4. r \in Local
        BY <2>2, <2>3
    <2>5. loop' \in [Loops -> Local]
        BY <1>0, <1>8, <2>4, LocalOK DEF CountAttempts
    <2>. QED
        BY <1>0, <1>8, <2>5 DEF CountAttempts
<1>9. CASE ScheduleActivity(l)
    <2>1. history' \in Seq(Event)
        BY <1>0, <1>9, RecordTypeOK DEF ScheduleActivity, EventTypes, AtCallSite
    <2>2. loop' \in [Loops -> Local]
        BY <1>0, <1>9, GotoOK DEF ScheduleActivity, PCs
    <2>. QED
        BY <1>0, <1>9, <2>1, <2>2 DEF ScheduleActivity, ClearLease
<1>10. CASE ActivityCompletes(l)
    <2>1. history' \in Seq(Event)
        BY <1>0, <1>10, RecordTypeOK DEF ActivityCompletes, EventTypes, AtCallSite
    <2>2. loop' \in [Loops -> Local]
        BY <1>0, <1>10, GotoOK, NextTurnOK DEF ActivityCompletes, PCs
    <2>. QED
        BY <1>0, <1>10, <2>1, <2>2 DEF ActivityCompletes, ClearLease
<1>11. CASE ActivityWillRetry(l)
    <2>1. history' \in Seq(Event)
        BY <1>0, <1>11, RecordTypeOK DEF ActivityWillRetry, EventTypes, AtCallSite
    <2>2. loop' \in [Loops -> Local]
        BY <1>0, <1>11, GotoOK DEF ActivityWillRetry, PCs
    <2>. QED
        BY <1>0, <1>11, <2>1, <2>2 DEF ActivityWillRetry, ClearLease
<1>12. CASE ActivityFails(l)
    <2>1. history' \in Seq(Event)
        BY <1>0, <1>12, RecordTypeOK DEF ActivityFails, EventTypes, AtCallSite
    <2>2. loop' \in [Loops -> Local]
        BY <1>0, <1>12, NextTurnOK DEF ActivityFails
    <2>. QED
        BY <1>0, <1>12, <2>1, <2>2 DEF ActivityFails, ClearLease
<1>13. CASE ScheduleRetry(l)
    <2>1. loop' \in [Loops -> Local]
        BY <1>0, <1>13, GotoOK DEF ScheduleRetry, PCs
    <2>. QED
        BY <1>0, <1>13, <2>1 DEF ScheduleRetry, ClearLease, When
<1>14. CASE ReadStack(l)
    <2>. DEFINE r == [loop[l] EXCEPT !.pc = "pushStack", !.position = Len(stack) + 1]
    <2>1. r \in Local
        <3>1. Len(stack) + 1 \in Nat
            BY <1>0
        <3>2. ASSUME NEW n \in Nat
              PROVE  [loop[l] EXCEPT !.pc = "pushStack", !.position = n] \in Local
            BY <1>0 DEF Local, PCs
        <3>. QED
            BY <3>1, <3>2
    <2>2. loop' \in [Loops -> Local]
        BY <1>0, <1>14, <2>1, LocalOK DEF ReadStack
    <2>. QED
        BY <1>0, <1>14, <2>2 DEF ReadStack
<1>15. CASE PushCompensation(l)
    <2>1. stack' \in Seq(Sites)
        BY <1>0, <1>15 DEF PushCompensation, AtCallSite
    <2>2. loop' \in [Loops -> Local]
        BY <1>0, <1>15, NextTurnOK DEF PushCompensation
    <2>. QED
        BY <1>0, <1>15, <2>1, <2>2 DEF PushCompensation
<1>16. CASE ScheduleTimer(l)
    <2>1. loop' \in [Loops -> Local]
        BY <1>0, <1>16, GotoOK DEF ScheduleTimer, PCs
    <2>. QED
        BY <1>0, <1>16, <2>1 DEF ScheduleTimer, ClearLease, When, States
<1>17. CASE AwaitSignal(l)
    <2>1. loop' \in [Loops -> Local]
        BY <1>0, <1>17, GotoOK DEF AwaitSignal, PCs
    <2>. QED
        BY <1>0, <1>17, <2>1 DEF AwaitSignal, ClearLease, When, States
<1>18. CASE RecordOutcome(l)
    <2>1. history' \in Seq(Event)
        BY <1>0, <1>18, RecordTypeOK DEF RecordOutcome, EventTypes, AtCallSite
    <2>2. loop' \in [Loops -> Local]
        BY <1>0, <1>18, GotoOK DEF RecordOutcome, PCs
    <2>. QED
        BY <1>0, <1>18, <2>1, <2>2 DEF RecordOutcome, ClearLease
<1>19. CASE CloseRun(l)
    <2>1. loop' \in [Loops -> Local]
        BY <1>0, <1>19, GotoOK DEF CloseRun, PCs
    <2>. QED
        BY <1>0, <1>19, <2>1 DEF CloseRun, ClearLease, States, Terminal
<1>20. CASE EmitStateChanged(l)
    <2>1. loop' \in [Loops -> Local]
        BY <1>0, <1>20, GotoOK DEF EmitStateChanged, PCs
    <2>. QED
        BY <1>0, <1>20, <2>1 DEF EmitStateChanged
<1>21. CASE ReleaseLease(l)
    <2>. DEFINE r == AtHome
    <2>1. r \in Local
        BY DEF AtHome, Local, PCs
    <2>2. loop' \in [Loops -> Local]
        BY <1>0, <1>21, <2>1, LocalOK DEF ReleaseLease
    <2>. QED
        BY <1>0, <1>21, <2>2 DEF ReleaseLease, ClearLease
<1>22. CASE ReadDueTimers(l)
    <2>. DEFINE r == [loop[l] EXCEPT !.pc = "sweep", !.batch = {i \in Timers : timers[i] = "due"}]
    <2>1. r \in Local
        BY <1>0 DEF Local, PCs
    <2>2. loop' \in [Loops -> Local]
        BY <1>0, <1>22, <2>1, LocalOK DEF ReadDueTimers
    <2>. QED
        BY <1>0, <1>22, <2>2 DEF ReadDueTimers
<1>23. ASSUME NEW i \in Timers, FireTimer(l, i)
       PROVE  TypeOK'
    <2>. DEFINE r == [loop[l] EXCEPT !.batch = @ \ {i},
                        !.pc = IF loop[l].batch = {i} THEN "idle" ELSE "sweep"]
    <2>1. history' \in Seq(Event)
        BY <1>0, <1>23, RecordTypeOK DEF FireTimer, EventTypes, Timers
    <2>2. r \in Local
        BY <1>0 DEF Local, PCs
    <2>3. loop' \in [Loops -> Local]
        BY <1>0, <1>23, <2>2, LocalOK DEF FireTimer
    <2>. QED
        BY <1>0, <1>23, <2>1, <2>3 DEF FireTimer, States, When, Terminal, ClearLease
<1>24. CASE FaultInTry(l)
    <2>1. loop' \in [Loops -> Local]
        BY <1>0, <1>24, GotoOK DEF FaultInTry, PCs
    <2>. QED
        BY <1>0, <1>24, <2>1 DEF FaultInTry, Faulted
<1>25. CASE FaultInTurn(l)
    <2>. DEFINE r == [loop[l] EXCEPT !.verdict = "aborted",
                        !.pc = IF loop[l].verdict = "aborted" THEN "release" ELSE "finish"]
    <2>1. r \in Local
        BY <1>0 DEF Local, PCs
    <2>2. loop' \in [Loops -> Local]
        BY <1>0, <1>25, <2>1, LocalOK DEF FaultInTurn
    <2>. QED
        BY <1>0, <1>25, <2>2 DEF FaultInTurn, Faulted
<1>26. CASE FaultInLoop(l)
    <2>1. AtHome \in Local
        BY DEF AtHome, Local, PCs
    <2>2. loop' \in [Loops -> Local]
        BY <1>0, <1>26, <2>1, LocalOK DEF FaultInLoop
    <2>. QED
        BY <1>0, <1>26, <2>2 DEF FaultInLoop, Faulted
<1>. QED
    BY <1>1, <1>2, <1>3, <1>4, <1>5, <1>6, <1>7, <1>8, <1>9, <1>10, <1>11, <1>12,
       <1>13, <1>14, <1>15, <1>16, <1>17, <1>18, <1>19, <1>20, <1>21, <1>22, <1>23,
       <1>24, <1>25, <1>26
       DEF Turn, Sweep, Fault

(* Every step of the system keeps the types.                               *)
LEMMA TypeStep ==
    ASSUME IInv, [Next]_vars
    PROVE  TypeOK'
<1>1. CASE UNCHANGED vars
    BY <1>1 DEF TypeOK, IInv
<1>2. CASE Next
    BY <1>2, TypeOutside, TypeLoop DEF Next
<1>. QED
    BY <1>1, <1>2
-----------------------------------------------------------------------------
(* The rest of IInv. A step of loop l either leaves the history alone or   *)
(* appends one event; in both cases it is enough to look at l's new locals *)
(* and at the event.                                                       *)

Moves(l) == \A m \in Loops \ {l} : loop'[m] = loop[m]

Rest == /\ HistoryInv(history)
        /\ \A l \in Loops : LocalInv(loop[l], history)
        /\ CompensationFollowsCompletion
        /\ state = "completed" => PassedAll(history)

(* A step that records nothing keeps what is said of the history.          *)
LEMMA QuietStep ==
    ASSUME Rest, NEW l \in Loops, Moves(l), LocalInv(loop'[l], history),
           UNCHANGED <<history, stack>>,
           state' = "completed" => PassedAll(history)
    PROVE  Rest'
<1>1. \A m \in Loops : LocalInv(loop'[m], history)
    BY DEF Rest, Moves
<1>. QED
    BY <1>1 DEF Rest, CompensationFollowsCompletion

(* A step that records one event keeps it if the event is justified.       *)
LEMMA RecordStep ==
    ASSUME history \in Seq(Event), Rest, NEW l \in Loops, Moves(l),
           NEW t \in EventTypes, NEW i \in {0} \cup Sites, NEW n \in Nat,
           Record(t, i, n), UNCHANGED stack, state' = "completed" => state = "completed",
           LocalInv(loop'[l], history'),
           t = "activity_scheduled" => PassedBefore(history, i),
           t = "activity_completed" => StartedBy(history, Len(history), i, n),
           t = "workflow_completed" => PassedAll(history)
    PROVE  Rest'
<1>. DEFINE e == Ev(t, i, n)
<1>1. /\ e \in Event /\ e.type = t /\ e.site = i /\ e.attempt = n
      /\ history' = Append(history, e)
    BY EventTypesOK DEF Record
<1>2. HistoryInv(history')
    BY <1>1, HistoryInvGrows DEF Rest
<1>3. ASSUME NEW m \in Loops
      PROVE  LocalInv(loop'[m], history')
    <2>1. CASE m = l
        BY <2>1
    <2>2. CASE m # l
        <3>1. LocalInv(loop'[m], history)
            BY <2>2 DEF Moves, Rest
        <3>. QED
            BY <1>1, <3>1, LocalInvGrows
    <2>. QED
        BY <2>1, <2>2
<1>4. CompensationFollowsCompletion'
    <2>1. SUFFICES ASSUME NEW p \in 1..Len(stack)
          PROVE  Program[stack[p]].compensates /\ Has(history', "activity_completed", stack[p])
        BY DEF CompensationFollowsCompletion
    <2>2. Program[stack[p]].compensates /\ Has(history, "activity_completed", stack[p])
        BY DEF Rest, CompensationFollowsCompletion
    <2>. QED
        BY <1>1, <2>2, HasGrows
<1>5. state' = "completed" => PassedAll(history')
    BY <1>1, PassedAllGrows DEF Rest
<1>. QED
    BY <1>2, <1>3, <1>4, <1>5 DEF Rest

(* A loop that forgot everything relies on nothing.                        *)
LEMMA AtHomeInv == ASSUME NEW h PROVE LocalInv(AtHome, h)
    BY DEF LocalInv, AtHome, AtCallSite

(* What a running loop keeps when it only moves on to another label.       *)
LEMMA SameSite ==
    ASSUME NEW r, NEW h, LocalInv(r, h), r.pc \in AtCallSite
    PROVE  /\ r.site \in Sites /\ PassedBefore(h, r.site)
           /\ r.verdict = "completed" => PassedAll(h)
    BY DEF LocalInv

(* The other parts of the invariant hold of a fresh run.                   *)
LEMMA RestInit == Init => Rest
<1>1. Init => HistoryInv(history)
    BY DEF Init, HistoryInv, Has
<1>2. Init => \A l \in Loops : LocalInv(loop[l], history)
    BY AtHomeInv DEF Init
<1>3. Init => CompensationFollowsCompletion /\ state # "completed"
    BY DEF Init, CompensationFollowsCompletion
<1>. QED
    BY <1>1, <1>2, <1>3 DEF Rest

(* The steps of the world outside the loops append events nobody's order   *)
(* depends on, or change the row alone.                                    *)
LEMMA RestOutside ==
    ASSUME IInv,
           \/ Start \/ BackoffElapses \/ LeaseExpires \/ ReclaimExpiredLeases
           \/ \E i \in Signals : Signal(i)
           \/ \E i \in Timers : TimerComesDue(i)
           \/ \E p \in Processes : Crash(p)
    PROVE  Rest'
<1>0. Rest /\ history \in Seq(Event)
    BY DEF IInv, Rest, TypeOK
<1>1. ASSUME UNCHANGED <<history, stack, loop>>, state' = "completed" => state = "completed"
      PROVE  Rest'
    BY <1>0, <1>1 DEF Rest, CompensationFollowsCompletion
<1>2. ASSUME NEW t \in {"workflow_started", "signal_received"}, NEW i \in {0} \cup Sites,
             Record(t, i, 1), UNCHANGED <<stack, loop>>,
             state' = "completed" => state = "completed"
      PROVE  Rest'
    <2>. DEFINE e == Ev(t, i, 1)
    <2>1. /\ e \in Event /\ e.type = t /\ history' = Append(history, e)
        BY <1>2, EventTypesOK DEF Record, EventTypes
    <2>2. HistoryInv(history')
        BY <1>0, <2>1, HistoryInvGrows DEF Rest
    <2>3. \A l \in Loops : LocalInv(loop'[l], history')
        BY <1>0, <1>2, <2>1, LocalInvGrows DEF Rest
    <2>4. CompensationFollowsCompletion'
        BY <1>0, <1>2, <2>1, HasGrows DEF Rest, CompensationFollowsCompletion
    <2>5. state' = "completed" => PassedAll(history')
        BY <1>0, <1>2, <2>1, PassedAllGrows DEF Rest
    <2>. QED
        BY <2>2, <2>3, <2>4, <2>5 DEF Rest
<1>3. CASE Start
    BY <1>2, <1>3 DEF Start
<1>4. CASE BackoffElapses \/ LeaseExpires \/ ReclaimExpiredLeases
    BY <1>1, <1>4 DEF BackoffElapses, LeaseExpires, ReclaimExpiredLeases
<1>5. ASSUME NEW i \in Signals, Signal(i)
      PROVE  Rest'
    BY <1>2, <1>5 DEF Signal, Signals
<1>6. ASSUME NEW i \in Timers, TimerComesDue(i)
      PROVE  Rest'
    BY <1>1, <1>6 DEF TimerComesDue
<1>7. ASSUME NEW p \in Processes, Crash(p)
      PROVE  Rest'
    <2>1. \A l \in Loops : LocalInv(loop'[l], history)
        BY <1>0, <1>7, AtHomeInv DEF Crash, Rest
    <2>. QED
        BY <1>0, <1>7, <2>1 DEF Crash, Rest, CompensationFollowsCompletion
<1>. QED
    BY <1>3, <1>4, <1>5, <1>6, <1>7

(* Every step of a poll loop keeps the rest of the invariant.              *)
LEMMA RestLoop ==
    ASSUME IInv, NEW l \in Loops, Turn(l) \/ Sweep(l) \/ Fault(l)
    PROVE  Rest'
<1>0. /\ Rest /\ history \in Seq(Event) /\ stack \in Seq(Sites)
      /\ LocalInv(loop[l], history)
      /\ loop \in [Loops -> Local] /\ loop[l] \in Local /\ loop[l].attempt \in Nat
      /\ loop[l].pc \in AtCallSite => loop[l].site \in Sites
    BY DEF IInv, Rest, TypeOK, LocalInv, Local
<1>. USE DEF At, Local
<1>1. CASE LeaseNext(l)
    <2>1. Moves(l) /\ loop'[l] = [loop[l] EXCEPT !.pc = "replay"]
        BY <1>0, <1>1 DEF LeaseNext, Moves, Goto
    <2>2. LocalInv(loop'[l], history)
        BY <1>0, <2>1 DEF LocalInv, AtCallSite
    <2>. QED
        BY <1>0, <1>1, <2>1, <2>2, QuietStep DEF LeaseNext, Rest
<1>2. CASE Suspend(l)
    <2>1. PICK i \in Sites :
            /\ Reached(history, i)
            /\ loop' = [loop EXCEPT ![l].site = i,
                       ![l].pc = IF Kind(i) # "activity" THEN Kind(i)
                                 ELSE IF i \in Registered[ProcessOf[l]] THEN "count"
                                 ELSE "unregistered"]
        BY <1>2 DEF Suspend
    <2>2. Kind(i) \in {"activity", "marker", "timer", "signal"}
        BY KindOK DEF Kinds
    <2>3. /\ Moves(l) /\ loop'[l].site = i /\ loop'[l].verdict = loop[l].verdict
          /\ loop'[l].pc \in {"count", "unregistered", "marker", "timer", "signal"}
          /\ loop'[l].pc = "timer" => Kind(i) = "timer"
        BY <1>0, <2>1, <2>2 DEF Moves
    <2>4. PassedBefore(history, i)
        BY <2>1 DEF Reached
    <2>5. LocalInv(loop'[l], history)
        BY <1>0, <2>3, <2>4 DEF LocalInv, Timers
    <2>. QED
        BY <1>0, <1>2, <2>3, <2>5, QuietStep DEF Suspend, Rest
<1>3. CASE FailurePropagates(l)
    <2>1. Moves(l) /\ loop'[l] = [loop[l] EXCEPT !.pc = "finish", !.verdict = "failed"]
        BY <1>0, <1>3 DEF FailurePropagates, Moves, Goto
    <2>2. LocalInv(loop'[l], history)
        BY <1>0, <1>3, <2>1 DEF FailurePropagates, LocalInv, AtCallSite
    <2>. QED
        BY <1>0, <1>3, <2>1, <2>2, QuietStep DEF FailurePropagates, Rest
<1>4. CASE FunctionReturns(l)
    <2>1. Moves(l) /\ loop'[l] = [loop[l] EXCEPT !.pc = "finish", !.verdict = "completed"]
        BY <1>0, <1>4 DEF FunctionReturns, Moves, Goto
    <2>2. LocalInv(loop'[l], history)
        BY <1>0, <1>4, <2>1 DEF FunctionReturns, LocalInv, AtCallSite
    <2>. QED
        BY <1>0, <1>4, <2>1, <2>2, QuietStep DEF FunctionReturns, Rest
<1>5. CASE StepBudgetExhausted(l)
    <2>1. Moves(l) /\ loop'[l] = [loop[l] EXCEPT !.pc = "finish", !.verdict = "aborted"]
        BY <1>0, <1>5 DEF StepBudgetExhausted, Moves, Goto
    <2>2. LocalInv(loop'[l], history)
        BY <1>0, <1>5, <2>1 DEF StepBudgetExhausted, LocalInv, AtCallSite
    <2>. QED
        BY <1>0, <1>5, <2>1, <2>2, QuietStep DEF StepBudgetExhausted, Rest
<1>6. CASE RecordMarker(l)
    <2>1. /\ Moves(l) /\ loop'[l] = [loop[l] EXCEPT !.pc = "replay", !.turn = @ + 1]
          /\ Record("marker_recorded", loop[l].site, 1)
        BY <1>0, <1>6 DEF RecordMarker, Moves, Goto, NextTurn
    <2>2. LocalInv(loop[l], history')
        <3>1. Ev("marker_recorded", loop[l].site, 1) \in Event
            BY <1>0, <1>6, EventTypesOK DEF EventTypes, AtCallSite, RecordMarker
        <3>. QED
            BY <1>0, <2>1, <3>1, LocalInvGrows DEF Record
    <2>3. LocalInv(loop'[l], history')
        BY <1>0, <2>1, <2>2 DEF LocalInv, AtCallSite
    <2>4. "marker_recorded" \in EventTypes /\ loop[l].site \in {0} \cup Sites
        BY <1>0, <1>6 DEF RecordMarker, EventTypes, AtCallSite
    <2>5. UNCHANGED <<stack, state>>
        BY <1>6 DEF RecordMarker
    <2>. QED
        BY <1>0, <2>1, <2>3, <2>4, <2>5, RecordStep
<1>7. CASE RefuseUnregistered(l)
    <2>1. /\ Moves(l) /\ loop'[l] = [loop[l] EXCEPT !.pc = "replay", !.turn = @ + 1]
          /\ Record("activity_failed", loop[l].site, 1)
        BY <1>0, <1>7 DEF RefuseUnregistered, Moves, Goto, NextTurn
    <2>2. LocalInv(loop[l], history')
        <3>1. Ev("activity_failed", loop[l].site, 1) \in Event
            BY <1>0, <1>7, EventTypesOK DEF EventTypes, AtCallSite, RefuseUnregistered
        <3>. QED
            BY <1>0, <2>1, <3>1, LocalInvGrows DEF Record
    <2>3. LocalInv(loop'[l], history')
        BY <1>0, <2>1, <2>2 DEF LocalInv, AtCallSite
    <2>. QED
        BY <1>0, <1>7, <2>1, <2>3, RecordStep DEF RefuseUnregistered, EventTypes, AtCallSite, LocalInv
<1>8. CASE CountAttempts(l)
    <2>1. Moves(l) /\ loop'[l] = [loop[l] EXCEPT !.pc = "schedule",
                        !.attempt = Cardinality(Scheduled(history, loop[l].site)) + 1]
        BY <1>0, <1>8 DEF CountAttempts, Moves, Goto
    <2>2. LocalInv(loop'[l], history)
        BY <1>0, <1>8, <2>1 DEF CountAttempts, LocalInv, AtCallSite
    <2>. QED
        BY <1>0, <1>8, <2>1, <2>2, QuietStep DEF CountAttempts, Rest
<1>9. CASE ScheduleActivity(l)
    <2>1. /\ Moves(l) /\ loop'[l] = [loop[l] EXCEPT !.pc = "executing"]
          /\ Record("activity_scheduled", loop[l].site, loop[l].attempt)
          /\ loop[l].site \in Sites /\ PassedBefore(history, loop[l].site)
        BY <1>0, <1>9 DEF ScheduleActivity, Moves, Goto, LocalInv, AtCallSite
    <2>2. LocalInv(loop[l], history')
          /\ history' = Append(history, Ev("activity_scheduled", loop[l].site, loop[l].attempt))
        BY <1>0, <2>1, EventTypesOK, LocalInvGrows DEF Record, EventTypes
    <2>3. StartedBy(history', Len(history'), loop[l].site, loop[l].attempt)
        <3>1. Len(history') = Len(history) + 1
            BY <1>0, <2>1, <2>2, EventTypesOK, AppendedHistory DEF EventTypes
        <3>. QED
            BY <1>0, <2>1, <2>2, <3>1, StartedByAppended
    <2>4. LocalInv(loop'[l], history')
        BY <1>0, <1>9, <2>1, <2>2, <2>3 DEF ScheduleActivity, LocalInv, AtCallSite
    <2>. QED
        BY <1>0, <1>9, <2>1, <2>4, RecordStep DEF ScheduleActivity, EventTypes
<1>10. CASE ActivityCompletes(l)
    <2>1. /\ Moves(l)
          /\ loop'[l] = IF Program[loop[l].site].compensates
                        THEN [loop[l] EXCEPT !.pc = "readStack"]
                        ELSE [loop[l] EXCEPT !.pc = "replay", !.turn = @ + 1]
          /\ Record("activity_completed", loop[l].site, loop[l].attempt)
          /\ loop[l].site \in Sites
          /\ StartedBy(history, Len(history), loop[l].site, loop[l].attempt)
        BY <1>0, <1>10 DEF ActivityCompletes, Moves, Goto, NextTurn, LocalInv, AtCallSite
    <2>2. /\ LocalInv(loop[l], history')
          /\ Has(history', "activity_completed", loop[l].site)
        <3>. DEFINE e == Ev("activity_completed", loop[l].site, loop[l].attempt)
        <3>1. /\ e \in Event /\ e.type = "activity_completed" /\ e.site = loop[l].site
              /\ history' = Append(history, e)
            BY <1>0, <2>1, EventTypesOK DEF Record, EventTypes
        <3>. HIDE DEF e
        <3>. QED
            BY <1>0, <3>1, LocalInvGrows, HasAppended
    <2>3. LocalInv(loop'[l], history')
        BY <1>0, <1>10, <2>1, <2>2 DEF ActivityCompletes, LocalInv, AtCallSite
    <2>. QED
        BY <1>0, <1>10, <2>1, <2>3, RecordStep DEF ActivityCompletes, EventTypes
<1>11. CASE ActivityWillRetry(l)
    <2>1. /\ Moves(l) /\ loop'[l] = [loop[l] EXCEPT !.pc = "backoff"]
          /\ Record("attempt_failed", loop[l].site, loop[l].attempt)
        BY <1>0, <1>11 DEF ActivityWillRetry, Moves, Goto, NextTurn
    <2>2. LocalInv(loop[l], history')
        <3>1. Ev("attempt_failed", loop[l].site, loop[l].attempt) \in Event
            BY <1>0, <1>11, EventTypesOK DEF EventTypes, AtCallSite, ActivityWillRetry
        <3>. QED
            BY <1>0, <2>1, <3>1, LocalInvGrows DEF Record
    <2>3. LocalInv(loop'[l], history')
        BY <1>0, <1>11, <2>1, <2>2 DEF ActivityWillRetry, LocalInv, AtCallSite
    <2>. QED
        BY <1>0, <1>11, <2>1, <2>3, RecordStep DEF ActivityWillRetry, EventTypes, AtCallSite, LocalInv
<1>12. CASE ActivityFails(l)
    <2>1. /\ Moves(l) /\ loop'[l] = [loop[l] EXCEPT !.pc = "replay", !.turn = @ + 1]
          /\ Record("activity_failed", loop[l].site, loop[l].attempt)
        BY <1>0, <1>12 DEF ActivityFails, Moves, Goto, NextTurn
    <2>2. LocalInv(loop[l], history')
        <3>1. Ev("activity_failed", loop[l].site, loop[l].attempt) \in Event
            BY <1>0, <1>12, EventTypesOK DEF EventTypes, AtCallSite, ActivityFails
        <3>. QED
            BY <1>0, <2>1, <3>1, LocalInvGrows DEF Record
    <2>3. LocalInv(loop'[l], history')
        BY <1>0, <2>1, <2>2 DEF LocalInv, AtCallSite
    <2>. QED
        BY <1>0, <1>12, <2>1, <2>3, RecordStep DEF ActivityFails, EventTypes, AtCallSite, LocalInv
<1>13. CASE ScheduleRetry(l)
    <2>1. Moves(l) /\ loop'[l] = [loop[l] EXCEPT !.pc = "release"]
        BY <1>0, <1>13 DEF ScheduleRetry, Moves, Goto
    <2>2. LocalInv(loop'[l], history)
        BY <1>0, <2>1 DEF LocalInv, AtCallSite
    <2>. QED
        BY <1>0, <1>13, <2>1, <2>2, QuietStep DEF ScheduleRetry, Rest
<1>14. CASE ReadStack(l)
    <2>1. Moves(l) /\ loop'[l] = [loop[l] EXCEPT !.pc = "pushStack", !.position = Len(stack) + 1]
        BY <1>0, <1>14 DEF ReadStack, Moves, Goto
    <2>2. LocalInv(loop'[l], history)
        BY <1>0, <1>14, <2>1 DEF ReadStack, LocalInv, AtCallSite
    <2>. QED
        BY <1>0, <1>14, <2>1, <2>2, QuietStep DEF ReadStack, Rest
<1>15. CASE PushCompensation(l)
    <2>1. /\ Moves(l) /\ loop'[l] = [loop[l] EXCEPT !.pc = "replay", !.turn = @ + 1]
          /\ loop[l].site \in Sites
          /\ Program[loop[l].site].compensates /\ Has(history, "activity_completed", loop[l].site)
        BY <1>0, <1>15 DEF PushCompensation, Moves, NextTurn, LocalInv, AtCallSite
    <2>2. LocalInv(loop'[l], history)
        BY <1>0, <2>1 DEF LocalInv, AtCallSite
    <2>3. \A m \in Loops : LocalInv(loop'[m], history)
        BY <1>0, <2>1, <2>2 DEF Moves, Rest
    <2>4. stack' = stack \/ stack' = Append(stack, loop[l].site)
        BY <1>15 DEF PushCompensation
    <2>5. ASSUME NEW p \in 1..Len(stack')
          PROVE  Program[stack'[p]].compensates /\ Has(history, "activity_completed", stack'[p])
        <3>1. \/ p \in 1..Len(stack) /\ stack'[p] = stack[p]
              \/ stack'[p] = loop[l].site
            <4>1. CASE stack' = stack
                BY <2>5, <4>1
            <4>2. CASE stack' = Append(stack, loop[l].site)
                <5>1. p \in 1..Len(stack) + 1 /\ stack \in Seq(Sites) /\ Len(stack) \in Nat
                    BY <1>0, <2>5, <4>2
                <5>. QED
                    BY <4>2, <5>1
            <4>. QED
                BY <2>4, <4>1, <4>2
        <3>2. CASE p \in 1..Len(stack) /\ stack'[p] = stack[p]
            BY <1>0, <3>2 DEF Rest, CompensationFollowsCompletion
        <3>3. CASE stack'[p] = loop[l].site
            BY <2>1, <3>3
        <3>. QED
            BY <3>1, <3>2, <3>3
    <2>6. UNCHANGED <<history, state>>
        BY <1>15 DEF PushCompensation
    <2>. QED
        BY <1>0, <2>3, <2>5, <2>6 DEF Rest, CompensationFollowsCompletion
<1>16. CASE ScheduleTimer(l)
    <2>1. Moves(l) /\ loop'[l] = [loop[l] EXCEPT !.pc = "release"]
        BY <1>0, <1>16 DEF ScheduleTimer, Moves, Goto
    <2>2. LocalInv(loop'[l], history)
        BY <1>0, <2>1 DEF LocalInv, AtCallSite
    <2>. QED
        BY <1>0, <1>16, <2>1, <2>2, QuietStep DEF ScheduleTimer, Rest
<1>17. CASE AwaitSignal(l)
    <2>1. Moves(l) /\ loop'[l] = [loop[l] EXCEPT !.pc = "release"]
        BY <1>0, <1>17 DEF AwaitSignal, Moves, Goto
    <2>2. LocalInv(loop'[l], history)
        BY <1>0, <2>1 DEF LocalInv, AtCallSite
    <2>. QED
        BY <1>0, <1>17, <2>1, <2>2, QuietStep DEF AwaitSignal, Rest
<1>18. CASE RecordOutcome(l)
    <2>. DEFINE t == IF loop[l].verdict = "completed" THEN "workflow_completed" ELSE "workflow_failed"
    <2>1. Moves(l) /\ loop'[l] = [loop[l] EXCEPT !.pc = "close"] /\ Record(t, 0, 1)
        BY <1>0, <1>18 DEF RecordOutcome, Moves, Goto
    <2>2. LocalInv(loop[l], history')
        BY <1>0, <2>1, EventTypesOK, LocalInvGrows DEF Record, EventTypes
    <2>3. LocalInv(loop'[l], history')
        BY <1>0, <2>1, <2>2 DEF LocalInv, AtCallSite
    <2>4. t = "workflow_completed" => PassedAll(history)
        BY <1>0 DEF LocalInv
    <2>. QED
        BY <1>0, <1>18, <2>1, <2>3, <2>4, RecordStep DEF RecordOutcome, EventTypes
<1>19. CASE CloseRun(l)
    <2>1. Moves(l) /\ loop'[l] = [loop[l] EXCEPT !.pc = "emit"]
        BY <1>0, <1>19 DEF CloseRun, Moves, Goto
    <2>2. LocalInv(loop'[l], history)
        BY <1>0, <2>1 DEF LocalInv, AtCallSite
    <2>3. state' = "completed" => PassedAll(history)
        BY <1>0, <1>19 DEF CloseRun, LocalInv
    <2>. QED
        BY <1>0, <1>19, <2>1, <2>2, <2>3, QuietStep DEF CloseRun
<1>20. CASE EmitStateChanged(l)
    <2>1. Moves(l) /\ loop'[l] = [loop[l] EXCEPT !.pc = "release"]
        BY <1>0, <1>20 DEF EmitStateChanged, Moves, Goto
    <2>2. LocalInv(loop'[l], history)
        BY <1>0, <2>1 DEF LocalInv, AtCallSite
    <2>. QED
        BY <1>0, <1>20, <2>1, <2>2, QuietStep DEF EmitStateChanged, Rest
<1>21. CASE ReleaseLease(l)
    <2>1. Moves(l) /\ loop'[l] = AtHome
        BY <1>0, <1>21 DEF ReleaseLease, Moves, Goto
    <2>2. LocalInv(loop'[l], history)
        BY <2>1, AtHomeInv
    <2>. QED
        BY <1>0, <1>21, <2>1, <2>2, QuietStep DEF ReleaseLease, Rest
<1>22. CASE ReadDueTimers(l)
    <2>1. Moves(l) /\ loop'[l] = [loop[l] EXCEPT !.pc = "sweep",
                        !.batch = {i \in Timers : timers[i] = "due"}]
        BY <1>0, <1>22 DEF ReadDueTimers, Moves, Goto
    <2>2. LocalInv(loop'[l], history)
        BY <1>0, <2>1 DEF LocalInv, AtCallSite
    <2>. QED
        BY <1>0, <1>22, <2>1, <2>2, QuietStep DEF ReadDueTimers, Rest
<1>23. ASSUME NEW i \in Timers, FireTimer(l, i)
       PROVE  Rest'
    <2>1. /\ Moves(l) /\ Record("timer_fired", i, 1)
          /\ loop'[l] = [loop[l] EXCEPT !.batch = @ \ {i},
                           !.pc = IF loop[l].batch = {i} THEN "idle" ELSE "sweep"]
        BY <1>0, <1>23 DEF FireTimer, Moves
    <2>2. LocalInv(loop[l], history')
        BY <1>0, <2>1, EventTypesOK, LocalInvGrows DEF Record, EventTypes, Timers
    <2>3. LocalInv(loop'[l], history')
        BY <1>0, <2>1, <2>2 DEF LocalInv, AtCallSite
    <2>. QED
        BY <1>0, <1>23, <2>1, <2>3, RecordStep DEF FireTimer, EventTypes, Timers
<1>24. CASE FaultInTry(l)
    <2>1. Moves(l) /\ loop'[l] = [loop[l] EXCEPT !.pc = "caught"]
        BY <1>0, <1>24 DEF FaultInTry, Moves, Goto
    <2>2. LocalInv(loop'[l], history)
        BY <1>0, <1>24, <2>1 DEF FaultInTry, LocalInv, AtCallSite
    <2>. QED
        BY <1>0, <1>24, <2>1, <2>2, QuietStep DEF FaultInTry, Rest
<1>25. CASE FaultInTurn(l)
    <2>1. Moves(l) /\ loop'[l] = [loop[l] EXCEPT !.verdict = "aborted",
                        !.pc = IF loop[l].verdict = "aborted" THEN "release" ELSE "finish"]
        BY <1>0, <1>25 DEF FaultInTurn, Moves, Goto
    <2>2. LocalInv(loop'[l], history)
        BY <1>0, <2>1 DEF LocalInv, AtCallSite
    <2>. QED
        BY <1>0, <1>25, <2>1, <2>2, QuietStep DEF FaultInTurn, Rest
<1>26. CASE FaultInLoop(l)
    <2>1. Moves(l) /\ loop'[l] = AtHome
        BY <1>0, <1>26 DEF FaultInLoop, Moves, Goto
    <2>2. LocalInv(loop'[l], history)
        BY <2>1, AtHomeInv
    <2>. QED
        BY <1>0, <1>26, <2>1, <2>2, QuietStep DEF FaultInLoop, Rest
<1>. QED
    BY <1>1, <1>2, <1>3, <1>4, <1>5, <1>6, <1>7, <1>8, <1>9, <1>10, <1>11, <1>12,
       <1>13, <1>14, <1>15, <1>16, <1>17, <1>18, <1>19, <1>20, <1>21, <1>22, <1>23,
       <1>24, <1>25, <1>26
       DEF Turn, Sweep, Fault

(* Every step of the system does.                                          *)
LEMMA RestStep ==
    ASSUME IInv, [Next]_vars
    PROVE  Rest'
<1>1. CASE UNCHANGED vars
    BY <1>1 DEF IInv, Rest, CompensationFollowsCompletion
<1>2. CASE Next
    BY <1>2, RestOutside, RestLoop DEF Next
<1>. QED
    BY <1>1, <1>2

-----------------------------------------------------------------------------
(* The inductive invariant holds in every reachable state, whatever the    *)
(* interleaving of loops, sweepers, reviewers, crashes and database faults.*)
THEOREM Invariance == Spec => []IInv
<1>1. Init => IInv
    BY TypeInit, RestInit DEF IInv, Rest
<1>2. IInv /\ [Next]_vars => IInv'
    BY TypeStep, RestStep DEF IInv, Rest
<1>. QED
    BY <1>1, <1>2, PTL DEF Spec

(* The row, the history, the timers, the stack and the locals of every loop*)
(* stay typed: the states are those the migration's CHECK allows.          *)
THEOREM TypeCorrect == Spec => []TypeOK
<1>1. IInv => TypeOK
    BY DEF IInv
<1>. QED
    BY <1>1, Invariance, PTL

(* Replay keeps the order of the workflow function: an activity is only ever*)
(* scheduled after every earlier call site has its answer, even when two   *)
(* loops advance the run at once.                                          *)
THEOREM ReplayKeepsCallOrder == Spec => []CallOrder
<1>1. IInv => CallOrder
    BY DEF IInv, HistoryInv, CallOrder
<1>. QED
    BY <1>1, Invariance, PTL

(* Every activity_completed is preceded by the activity_scheduled of the same*)
(* attempt, so the history accounts for each execution that left a result. *)
THEOREM ResultsWereScheduled == Spec => []CompletionWasScheduled
<1>1. IInv => CompletionWasScheduled
    BY DEF IInv, HistoryInv, CompletionWasScheduled, StartedBy
<1>. QED
    BY <1>1, Invariance, PTL

(* The compensation stack only names activities that declared a compensation*)
(* and whose success is in the history.                                    *)
THEOREM CompensationsUndoSuccesses == Spec => []CompensationFollowsCompletion
<1>1. IInv => CompensationFollowsCompletion
    BY DEF IInv
<1>. QED
    BY <1>1, Invariance, PTL

(* A run is closed as completed only when the workflow function returned:  *)
(* every call site has its answer, although the budget, a failure or a     *)
(* second loop may close the run at any moment.                            *)
THEOREM CompletedRunsAreDone == Spec => []CompletedMeansDone
<1>1. IInv => CompletedMeansDone
    BY DEF IInv, HistoryInv, CompletedMeansDone
<1>. QED
    BY <1>1, Invariance, PTL

-----------------------------------------------------------------------------
(* The lease, in an orderly deployment.                                    *)

(* Every loop has a workerId of its own, no turn outlasts its lease,       *)
(* reviewers answer parked runs only, and no timer is swept.               *)
Orderly ==
    /\ ~ SlowTurns /\ ~ EarlySignals
    /\ Timers = {}
    /\ \A l, m \in Loops : ProcessOf[l] = ProcessOf[m] => l = m

InTurn(l) == loop[l].pc \notin {"idle", "sweep", "release"}

(* A loop in its turn holds the live lease of a running run, or the run is *)
(* closed and the loop has nothing left but to record that. The second     *)
(* half is what a database error in #completeRun makes necessary: the      *)
(* lease is gone, and #failRun starts over on a closed run.                *)
LeaseInv ==
    /\ state # "awaiting_timer"
    /\ \A l \in Loops : InTurn(l) =>
          \/ /\ state = "running" /\ loop[l].pc # "emit"
             /\ leasedBy = ProcessOf[l] /\ ~ leaseExpired
          \/ state \in Terminal /\ loop[l].pc \in {"finish", "close", "emit"}
    /\ \A l, m \in Loops : InTurn(l) /\ InTurn(m) => l = m

(* A fresh run is leased to nobody and no loop works on it.                *)
LEMMA LeaseInit == Init => LeaseInv
    BY DEF Init, LeaseInv, InTurn, AtHome

(* Starting, signalling, time and crashes keep the lease invariant.        *)
LEMMA LeaseOutside ==
    ASSUME Orderly, IInv, LeaseInv,
           \/ Start \/ BackoffElapses \/ LeaseExpires \/ ReclaimExpiredLeases
           \/ \E i \in Signals : Signal(i)
           \/ \E i \in Timers : TimerComesDue(i)
           \/ \E p \in Processes : Crash(p)
    PROVE  LeaseInv' /\ (state \in Terminal => state' \in Terminal)
<1>. USE DEF LeaseInv, InTurn, Terminal
<1>0. \A l \in Loops : ProcessOf[l] \in Processes /\ ProcessOf[l] # None
    BY ProcessAssumption
<1>1. CASE Start
    BY <1>1 DEF Start
<1>2. CASE BackoffElapses
    BY <1>2 DEF BackoffElapses
<1>3. CASE LeaseExpires
    <2>1. \A l \in Loops : InTurn(l) => leasedBy # ProcessOf[l]
        BY <1>3 DEF LeaseExpires, Orderly
    <2>2. UNCHANGED <<state, leasedBy, loop>>
        BY <1>3 DEF LeaseExpires
    <2>. QED
        BY <2>1, <2>2
<1>4. CASE ReclaimExpiredLeases
    BY <1>4 DEF ReclaimExpiredLeases, ClearLease
<1>5. ASSUME NEW i \in Signals, Signal(i)
      PROVE  LeaseInv' /\ (state \in Terminal => state' \in Terminal)
    BY <1>5 DEF Signal, Orderly, ClearLease
<1>6. ~ \E i \in Timers : TimerComesDue(i)
    BY DEF Orderly
<1>7. ASSUME NEW p \in Processes, Crash(p)
      PROVE  LeaseInv' /\ (state \in Terminal => state' \in Terminal)
    <2>1. \A l \in Loops : loop'[l] = loop[l] \/ loop'[l].pc = "idle"
        BY <1>7 DEF Crash, AtHome
    <2>. QED
        BY <1>7, <2>1 DEF Crash
<1>. QED
    BY <1>1, <1>2, <1>3, <1>4, <1>5, <1>6, <1>7

(* A loop goes on with its turn and leaves the row alone.                  *)
LEMMA RowKept ==
    ASSUME LeaseInv, NEW l \in Loops, Moves(l), UNCHANGED row,
           InTurn(l), loop'[l].pc # "emit",
           loop[l].pc \in {"finish", "close", "emit"} =>
               loop'[l].pc \in {"finish", "close", "release"}
    PROVE  LeaseInv' /\ (state \in Terminal => state' \in Terminal)
    BY DEF LeaseInv, InTurn, Moves, Terminal

(* A loop ends its turn: nobody else was in one.                           *)
LEMMA TurnOver ==
    ASSUME LeaseInv, NEW l \in Loops, Moves(l), InTurn(l), state' # "awaiting_timer",
           ~ InTurn(l)' \/ (state' \in Terminal /\ loop'[l].pc = "emit")
    PROVE  LeaseInv'
    BY DEF LeaseInv, InTurn, Moves

(* Every step of a poll loop keeps it: what it does, it does as the holder.*)
LEMMA LeaseLoop ==
    ASSUME Orderly, IInv, LeaseInv, NEW l \in Loops, Turn(l) \/ Sweep(l) \/ Fault(l)
    PROVE  LeaseInv' /\ (state \in Terminal => state' \in Terminal)
<1>0. /\ loop \in [Loops -> Local] /\ loop[l] \in Local /\ LocalInv(loop[l], history)
      /\ \A m \in Loops : ProcessOf[m] \in Processes /\ ProcessOf[m] # None
    BY ProcessAssumption DEF IInv, TypeOK
<1>1. CASE LeaseNext(l)
    <2>1. \A m \in Loops : ~ InTurn(m)
        BY <1>0, <1>1 DEF LeaseNext, LeaseInv, Terminal
    <2>2. Moves(l) /\ loop'[l].pc = "replay"
        BY <1>0, <1>1 DEF LeaseNext, Goto, Moves, Local
    <2>3. \A m \in Loops : InTurn(m)' => m = l
        BY <2>1, <2>2 DEF Moves, InTurn
    <2>. QED
        BY <1>1, <2>2, <2>3 DEF LeaseNext, LeaseInv, InTurn, Terminal
<1>2. CASE Suspend(l)
    <2>1. PICK i \in Sites : loop' = [loop EXCEPT ![l].site = i,
                       ![l].pc = IF Kind(i) # "activity" THEN Kind(i)
                                 ELSE IF i \in Registered[ProcessOf[l]] THEN "count"
                                 ELSE "unregistered"]
        BY <1>2 DEF Suspend
    <2>2. /\ Moves(l) /\ loop'[l].pc # "emit"
          /\ loop[l].pc = "replay" /\ InTurn(l)
        BY <1>0, <1>2, <2>1, KindOK DEF Kinds, Moves, InTurn, Suspend, At, Local
    <2>. QED
        BY <1>2, <2>2, RowKept DEF Suspend
<1>3. CASE FailurePropagates(l)
    <2>1. /\ Moves(l) /\ InTurn(l) /\ loop'[l].pc # "emit"
          /\ loop[l].pc \in {"finish", "close", "emit"} =>
                loop'[l].pc \in {"finish", "close", "release"}
        BY <1>0, <1>3 DEF FailurePropagates, At, Goto, NextTurn, InTurn, Moves, Local
    <2>. QED
        BY <1>3, <2>1, RowKept DEF FailurePropagates
<1>4. CASE FunctionReturns(l)
    <2>1. /\ Moves(l) /\ InTurn(l) /\ loop'[l].pc # "emit"
          /\ loop[l].pc \in {"finish", "close", "emit"} =>
                loop'[l].pc \in {"finish", "close", "release"}
        BY <1>0, <1>4 DEF FunctionReturns, At, Goto, NextTurn, InTurn, Moves, Local
    <2>. QED
        BY <1>4, <2>1, RowKept DEF FunctionReturns
<1>5. CASE StepBudgetExhausted(l)
    <2>1. /\ Moves(l) /\ InTurn(l) /\ loop'[l].pc # "emit"
          /\ loop[l].pc \in {"finish", "close", "emit"} =>
                loop'[l].pc \in {"finish", "close", "release"}
        BY <1>0, <1>5 DEF StepBudgetExhausted, At, Goto, NextTurn, InTurn, Moves, Local
    <2>. QED
        BY <1>5, <2>1, RowKept DEF StepBudgetExhausted
<1>6. CASE RecordMarker(l)
    <2>1. /\ Moves(l) /\ InTurn(l) /\ loop'[l].pc # "emit"
          /\ loop[l].pc \in {"finish", "close", "emit"} =>
                loop'[l].pc \in {"finish", "close", "release"}
        BY <1>0, <1>6 DEF RecordMarker, At, Goto, NextTurn, InTurn, Moves, Local
    <2>. QED
        BY <1>6, <2>1, RowKept DEF RecordMarker
<1>7. CASE RefuseUnregistered(l)
    <2>1. /\ Moves(l) /\ InTurn(l) /\ loop'[l].pc # "emit"
          /\ loop[l].pc \in {"finish", "close", "emit"} =>
                loop'[l].pc \in {"finish", "close", "release"}
        BY <1>0, <1>7 DEF RefuseUnregistered, At, Goto, NextTurn, InTurn, Moves, Local
    <2>. QED
        BY <1>7, <2>1, RowKept DEF RefuseUnregistered
<1>8. CASE CountAttempts(l)
    <2>1. /\ Moves(l) /\ InTurn(l) /\ loop'[l].pc # "emit"
          /\ loop[l].pc \in {"finish", "close", "emit"} =>
                loop'[l].pc \in {"finish", "close", "release"}
        BY <1>0, <1>8 DEF CountAttempts, At, Goto, NextTurn, InTurn, Moves, Local
    <2>. QED
        BY <1>8, <2>1, RowKept DEF CountAttempts
<1>9. CASE ScheduleActivity(l)
    <2>1. /\ Moves(l) /\ InTurn(l) /\ loop'[l].pc # "emit"
          /\ loop[l].pc \in {"finish", "close", "emit"} =>
                loop'[l].pc \in {"finish", "close", "release"}
        BY <1>0, <1>9 DEF ScheduleActivity, At, Goto, NextTurn, InTurn, Moves, Local
    <2>. QED
        BY <1>9, <2>1, RowKept DEF ScheduleActivity
<1>10. CASE ActivityCompletes(l)
    <2>1. /\ Moves(l) /\ InTurn(l) /\ loop'[l].pc # "emit"
          /\ loop[l].pc \in {"finish", "close", "emit"} =>
                loop'[l].pc \in {"finish", "close", "release"}
        BY <1>0, <1>10 DEF ActivityCompletes, At, Goto, NextTurn, InTurn, Moves, Local
    <2>. QED
        BY <1>10, <2>1, RowKept DEF ActivityCompletes
<1>11. CASE ActivityWillRetry(l)
    <2>1. /\ Moves(l) /\ InTurn(l) /\ loop'[l].pc # "emit"
          /\ loop[l].pc \in {"finish", "close", "emit"} =>
                loop'[l].pc \in {"finish", "close", "release"}
        BY <1>0, <1>11 DEF ActivityWillRetry, At, Goto, NextTurn, InTurn, Moves, Local
    <2>. QED
        BY <1>11, <2>1, RowKept DEF ActivityWillRetry
<1>12. CASE ActivityFails(l)
    <2>1. /\ Moves(l) /\ InTurn(l) /\ loop'[l].pc # "emit"
          /\ loop[l].pc \in {"finish", "close", "emit"} =>
                loop'[l].pc \in {"finish", "close", "release"}
        BY <1>0, <1>12 DEF ActivityFails, At, Goto, NextTurn, InTurn, Moves, Local
    <2>. QED
        BY <1>12, <2>1, RowKept DEF ActivityFails
<1>13. CASE ReadStack(l)
    <2>1. /\ Moves(l) /\ InTurn(l) /\ loop'[l].pc # "emit"
          /\ loop[l].pc \in {"finish", "close", "emit"} =>
                loop'[l].pc \in {"finish", "close", "release"}
        BY <1>0, <1>13 DEF ReadStack, At, Goto, NextTurn, InTurn, Moves, Local
    <2>. QED
        BY <1>13, <2>1, RowKept DEF ReadStack
<1>14. CASE PushCompensation(l)
    <2>1. /\ Moves(l) /\ InTurn(l) /\ loop'[l].pc # "emit"
          /\ loop[l].pc \in {"finish", "close", "emit"} =>
                loop'[l].pc \in {"finish", "close", "release"}
        BY <1>0, <1>14 DEF PushCompensation, At, Goto, NextTurn, InTurn, Moves, Local
    <2>. QED
        BY <1>14, <2>1, RowKept DEF PushCompensation
<1>15. CASE RecordOutcome(l)
    <2>1. /\ Moves(l) /\ InTurn(l) /\ loop'[l].pc # "emit"
          /\ loop[l].pc \in {"finish", "close", "emit"} =>
                loop'[l].pc \in {"finish", "close", "release"}
        BY <1>0, <1>15 DEF RecordOutcome, At, Goto, NextTurn, InTurn, Moves, Local
    <2>. QED
        BY <1>15, <2>1, RowKept DEF RecordOutcome
<1>16. CASE EmitStateChanged(l)
    <2>1. /\ Moves(l) /\ InTurn(l) /\ loop'[l].pc # "emit"
          /\ loop[l].pc \in {"finish", "close", "emit"} =>
                loop'[l].pc \in {"finish", "close", "release"}
        BY <1>0, <1>16 DEF EmitStateChanged, At, Goto, NextTurn, InTurn, Moves, Local
    <2>. QED
        BY <1>16, <2>1, RowKept DEF EmitStateChanged
<1>17. CASE FaultInTry(l)
    <2>1. /\ Moves(l) /\ InTurn(l) /\ loop'[l].pc # "emit"
          /\ loop[l].pc \in {"finish", "close", "emit"} =>
                loop'[l].pc \in {"finish", "close", "release"}
        BY <1>0, <1>17 DEF FaultInTry, At, Goto, NextTurn, InTurn, Moves, Local
    <2>. QED
        BY <1>17, <2>1, RowKept DEF FaultInTry
<1>18. CASE FaultInTurn(l)
    <2>1. /\ Moves(l) /\ InTurn(l) /\ loop'[l].pc # "emit"
          /\ loop[l].pc \in {"finish", "close", "emit"} =>
                loop'[l].pc \in {"finish", "close", "release"}
        BY <1>0, <1>18 DEF FaultInTurn, At, Goto, NextTurn, InTurn, Moves, Local
    <2>. QED
        BY <1>18, <2>1, RowKept DEF FaultInTurn
<1>19. CASE ScheduleRetry(l)
    <2>1. /\ Moves(l) /\ InTurn(l) /\ state' # "awaiting_timer"
          /\ ~ InTurn(l)' \/ (state' \in Terminal /\ loop'[l].pc = "emit")
        BY <1>0, <1>19 DEF ScheduleRetry, At, Goto, InTurn, Moves, Local, LeaseInv, Terminal
    <2>2. LeaseInv'
        BY <2>1, TurnOver
    <2>. QED
        BY <1>19, <2>2 DEF ScheduleRetry, At, LeaseInv, InTurn, Terminal
<1>20. CASE AwaitSignal(l)
    <2>1. /\ Moves(l) /\ InTurn(l) /\ state' # "awaiting_timer"
          /\ ~ InTurn(l)' \/ (state' \in Terminal /\ loop'[l].pc = "emit")
        BY <1>0, <1>20 DEF AwaitSignal, At, Goto, InTurn, Moves, Local, LeaseInv, Terminal
    <2>2. LeaseInv'
        BY <2>1, TurnOver
    <2>. QED
        BY <1>20, <2>2 DEF AwaitSignal, At, LeaseInv, InTurn, Terminal
<1>21. CASE CloseRun(l)
    <2>1. /\ Moves(l) /\ InTurn(l) /\ state' # "awaiting_timer"
          /\ ~ InTurn(l)' \/ (state' \in Terminal /\ loop'[l].pc = "emit")
        BY <1>0, <1>21 DEF CloseRun, At, Goto, InTurn, Moves, Local, LeaseInv, Terminal
    <2>2. LeaseInv'
        BY <2>1, TurnOver
    <2>. QED
        BY <1>21, <2>2 DEF CloseRun, At, LeaseInv, InTurn, Terminal
<1>22. CASE ReleaseLease(l)
    <2>1. \A m \in Loops : InTurn(m) => m # l /\ ProcessOf[m] # ProcessOf[l]
        BY <1>22 DEF ReleaseLease, Orderly, At, InTurn
    <2>2. Moves(l) /\ loop'[l].pc = "idle"
        BY <1>0, <1>22 DEF ReleaseLease, AtHome, Moves
    <2>. QED
        BY <1>22, <2>1, <2>2 DEF ReleaseLease, LeaseInv, ClearLease, InTurn, Moves
<1>23. CASE FaultInLoop(l)
    <2>1. ~ InTurn(l) /\ Moves(l) /\ loop'[l].pc = "idle"
        BY <1>0, <1>23 DEF FaultInLoop, AtHome, InTurn, Moves
    <2>. QED
        BY <1>23, <2>1 DEF FaultInLoop, LeaseInv, InTurn, Moves
<1>24. ~ ScheduleTimer(l) /\ ~ Sweep(l)
    BY <1>0 DEF ScheduleTimer, Sweep, ReadDueTimers, Orderly, LocalInv, At
<1>. QED
    BY <1>1, <1>2, <1>3, <1>4, <1>5, <1>6, <1>7, <1>8, <1>9, <1>10, <1>11, <1>12,
       <1>13, <1>14, <1>15, <1>16, <1>17, <1>18, <1>19, <1>20, <1>21, <1>22,
       <1>23, <1>24
       DEF Turn, Fault

(* Every step of the system keeps it.                                      *)
LEMMA LeaseStep ==
    ASSUME Orderly, IInv, LeaseInv, [Next]_vars
    PROVE  LeaseInv' /\ (state \in Terminal => state' \in Terminal)
<1>1. CASE UNCHANGED vars
    BY <1>1 DEF LeaseInv, InTurn
<1>2. CASE Next
    BY <1>2, LeaseOutside, LeaseLoop DEF Next
<1>. QED
    BY <1>1, <1>2

-----------------------------------------------------------------------------
(* The lease keeps a second loop out of a run until the first has parked,  *)
(* closed or released it: leases, releases, reclaims, signals, crashes and *)
(* database errors included, with any number of loops.                     *)
THEOREM LeaseExcludes ==
    ASSUME Orderly
    PROVE  Spec => []OneTurnAtATime
<1>1. Init => LeaseInv
    BY LeaseInit
<1>2. IInv /\ LeaseInv /\ [Next]_vars => LeaseInv'
    BY LeaseStep
<1>3. LeaseInv => OneTurnAtATime
    BY DEF LeaseInv, InTurn, OneTurnAtATime, Working
<1>. QED
    BY <1>1, <1>2, <1>3, Invariance, PTL DEF Spec

(* No loop reopens or re-parks a run that has been closed.                 *)
THEOREM ClosedRunsStayClosed ==
    ASSUME Orderly
    PROVE  Spec => TerminalStaysTerminal
<1>1. Init => LeaseInv
    BY LeaseInit
<1>2. IInv /\ LeaseInv /\ [Next]_vars => LeaseInv'
    BY LeaseStep
<1>3. IInv /\ LeaseInv /\ [Next]_vars => [(state \in Terminal) => (state' \in Terminal)]_vars
    BY LeaseStep
<1>. QED
    BY <1>1, <1>2, <1>3, Invariance, PTL DEF Spec, TerminalStaysTerminal

-----------------------------------------------------------------------------
(* What a turn relies on, in such a deployment: the history it read is the *)
(* one it writes to, the stack the one it counted.                         *)

Attempts(h, i) == Cardinality(Scheduled(h, i))

TurnInv(r, h, s) ==
    /\ r.pc \notin {"finish", "close", "emit", "release"} => r.verdict = "none"
    /\ r.pc \in {"count", "schedule", "executing", "signal"} => Reached(h, r.site)
    /\ r.pc = "signal" => Kind(r.site) = "signal"
    /\ r.pc \in {"count", "schedule", "executing"} =>
            Kind(r.site) = "activity" /\ ~ Throws(h, r.site)
    /\ r.pc = "schedule" => r.attempt = Attempts(h, r.site) + 1
    /\ r.pc = "executing" => r.attempt = Attempts(h, r.site)
    /\ r.pc = "pushStack" => r.position = Len(s) + 1

TurnsInv ==
    /\ \A l \in Loops : TurnInv(loop[l], history, stack)
    /\ NotAsleepOnArrivedSignal

(* An activity whose outcome nobody recorded has an attempt left, unless a *)
(* loop is at its last, or a database error has just cost the run that     *)
(* loop's outcome and the run is being failed for it.                      *)
Unsettled(h, i) == ~ Has(h, "activity_completed", i) /\ ~ Has(h, "activity_failed", i)
AtAttempt(l, i) == loop[l].pc \in {"executing", "caught"} /\ loop[l].site = i
Aborting(l) == loop[l].pc \in {"finish", "close"} /\ loop[l].verdict = "aborted"
LeftAfter(i, lost) == Attempts(history, i) + 1 <= Program[i].maxAttempts + lost

LostIfAgain == crashes + (faults + 1) \div 2

AttemptLeft(i) ==
    \/ LeftAfter(i, Lost)
    \/ \E l \in Loops : AtAttempt(l, i)
    \/ LeftAfter(i, LostIfAgain) /\ \E l \in Loops : Aborting(l)

AttemptsInv ==
    /\ AttemptsBounded
    /\ state \notin Terminal => \A i \in Sites : Unsettled(history, i) => AttemptLeft(i)

(* Half of the database errors, rounded down, is what they can have cost.  *)
LEMMA Halves ==
    ASSUME NEW f \in Nat
    PROVE  /\ f \div 2 \in Nat /\ (f + 1) \div 2 \in Nat /\ ((f + 1) + 1) \div 2 \in Nat
           /\ f \div 2 <= (f + 1) \div 2 /\ (f + 1) \div 2 <= f \div 2 + 1
           /\ ((f + 1) + 1) \div 2 = f \div 2 + 1
    OBVIOUS

(* The attempts of a call site are counted.                                *)
LEMMA AttemptsAreCounted ==
    ASSUME NEW h \in Seq(Event), NEW i
    PROVE  Attempts(h, i) \in Nat /\ IsFiniteSet(Scheduled(h, i))
<1>1. IsFiniteSet(1..Len(h))
    BY FS_Interval
<1>2. Scheduled(h, i) \subseteq 1..Len(h)
    BY DEF Scheduled
<1>. QED
    BY <1>1, <1>2, FS_Subset, FS_CardinalityType DEF Attempts

(* Only the start of an attempt counts as one, at its own call site.       *)
LEMMA AttemptsKept ==
    ASSUME NEW h \in Seq(Event), NEW e \in Event, NEW i,
           e.type # "activity_scheduled" \/ e.site # i
    PROVE  Attempts(Append(h, e), i) = Attempts(h, i)
<1>1. Scheduled(Append(h, e), i) = Scheduled(h, i)
    BY AppendedHistory DEF Scheduled
<1>. QED
    BY <1>1 DEF Attempts

LEMMA AttemptCounted ==
    ASSUME NEW h \in Seq(Event), NEW e \in Event, e.type = "activity_scheduled"
    PROVE  Attempts(Append(h, e), e.site) = Attempts(h, e.site) + 1
<1>1. Scheduled(Append(h, e), e.site) = Scheduled(h, e.site) \union {Len(h) + 1}
    BY AppendedHistory DEF Scheduled
<1>2. Len(h) + 1 \notin Scheduled(h, e.site)
    BY DEF Scheduled
<1>. QED
    BY <1>1, <1>2, AttemptsAreCounted, FS_AddElement DEF Attempts

(* The start of an attempt answers no call site.                           *)
LEMMA ReachedKept ==
    ASSUME NEW h \in Seq(Event), NEW e \in Event, NEW i, e.type = "activity_scheduled"
    PROVE  /\ Reached(h, i) => Reached(Append(h, e), i)
           /\ ~ Throws(h, i) => ~ Throws(Append(h, e), i)
<1>1. \A j : Passed(Append(h, e), j) => Passed(h, j)
    BY HasOnlyNew DEF Passed
<1>2. Throws(Append(h, e), i) => Throws(h, i)
    BY HasOnlyNew, HasGrows DEF Throws
<1>. QED
    BY <1>1, <1>2, PassedBeforeGrows DEF Reached

(* A call site without an outcome had none before.                         *)
LEMMA UnsettledBefore ==
    ASSUME NEW h \in Seq(Event), NEW e \in Event, NEW i, Unsettled(Append(h, e), i)
    PROVE  Unsettled(h, i)
    BY HasGrows DEF Unsettled

(* What the history holds once an attempt has started.                     *)
LEMMA AttemptRecorded ==
    ASSUME IInv, NEW l \in Loops, ScheduleActivity(l)
    PROVE  \E e \in Event : /\ e.type = "activity_scheduled" /\ e.site = loop[l].site
                           /\ history' = Append(history, e)
<1>1. /\ loop[l].pc = "schedule" /\ loop[l].site \in Sites /\ loop[l].attempt \in Nat
      /\ "activity_scheduled" \in EventTypes
    BY DEF ScheduleActivity, At, IInv, LocalInv, AtCallSite, TypeOK, Local, EventTypes
<1>2. PICK i \in {0} \cup Sites, n \in Nat : i = loop[l].site /\ n = loop[l].attempt
    BY <1>1
<1>3. /\ Ev("activity_scheduled", i, n) \in Event
      /\ Ev("activity_scheduled", i, n).type = "activity_scheduled"
      /\ Ev("activity_scheduled", i, n).site = i
    BY DEF Ev, Event, EventTypes
<1>4. history' = Append(history, Ev("activity_scheduled", i, n))
    BY <1>2 DEF ScheduleActivity, Record
<1>. QED
    BY <1>2, <1>3, <1>4

(* Nobody but this loop is in a turn.                                      *)
OthersRest(l) == \A m \in Loops \ {l} : ~ InTurn(m)

LEMMA InTurnAlone ==
    ASSUME LeaseInv, NEW l \in Loops, InTurn(l)
    PROVE  OthersRest(l)
    BY DEF LeaseInv, OthersRest

-----------------------------------------------------------------------------
(* What the turns rely on, kept by every step.                             *)

LEMMA TurnsKept ==
    ASSUME LeaseInv, TurnsInv, NEW l \in Loops, Moves(l),
           OthersRest(l) \/ UNCHANGED <<history, stack>>,
           TurnInv(loop'[l], history', stack'),
           state' = "awaiting_signal" =>
               \/ state = "awaiting_signal" /\ UNCHANGED history
               \/ \E i \in Signals : Reached(history', i)
    PROVE  TurnsInv'
<1>1. \A m \in Loops : TurnInv(loop[m], history, stack)
    BY DEF TurnsInv
<1>2. ASSUME NEW m \in Loops
      PROVE  TurnInv(loop'[m], history', stack')
    <2>1. CASE m = l
        BY <2>1
    <2>2. CASE m # l /\ OthersRest(l)
        <3>1. loop'[m] = loop[m] /\ loop[m].pc \in {"idle", "sweep", "release"}
            BY <2>2 DEF Moves, OthersRest, InTurn
        <3>. QED
            BY <1>1, <3>1 DEF TurnInv
    <2>3. CASE m # l /\ UNCHANGED <<history, stack>>
        BY <1>1, <2>3 DEF Moves
    <2>. QED
        BY <2>1, <2>2, <2>3
<1>3. NotAsleepOnArrivedSignal'
    BY DEF TurnsInv, NotAsleepOnArrivedSignal
<1>. QED
    BY <1>2, <1>3 DEF TurnsInv

LEMMA TurnsInit == Init => TurnsInv
    BY DEF Init, TurnsInv, TurnInv, AtHome, NotAsleepOnArrivedSignal

LEMMA TurnsOutside ==
    ASSUME Orderly, IInv, LeaseInv, TurnsInv,
           \/ Start \/ BackoffElapses \/ LeaseExpires \/ ReclaimExpiredLeases
           \/ \E i \in Signals : Signal(i)
           \/ \E i \in Timers : TimerComesDue(i)
           \/ \E p \in Processes : Crash(p)
    PROVE  TurnsInv'
<1>0. \A m \in Loops : TurnInv(loop[m], history, stack)
    BY DEF TurnsInv
<1>1. CASE UNCHANGED <<loop, history, stack, state>>
    BY <1>1 DEF TurnsInv, NotAsleepOnArrivedSignal
<1>2. ASSUME state \in {"absent", "awaiting_signal"}, UNCHANGED <<loop, stack>>,
             state' = "running"
      PROVE  TurnsInv'
    <2>1. \A m \in Loops : loop[m].pc \in {"idle", "sweep", "release"}
        BY <1>2 DEF LeaseInv, InTurn, Terminal
    <2>2. \A m \in Loops : TurnInv(loop'[m], history', stack')
        BY <1>0, <1>2, <2>1 DEF TurnInv
    <2>. QED
        BY <1>2, <2>2 DEF TurnsInv, NotAsleepOnArrivedSignal
<1>3. CASE Start
    BY <1>2, <1>3 DEF Start
<1>4. ASSUME NEW i \in Signals, Signal(i)
      PROVE  TurnsInv'
    BY <1>2, <1>4 DEF Signal, Orderly
<1>5. ASSUME NEW p \in Processes, Crash(p)
      PROVE  TurnsInv'
    <2>1. \A m \in Loops : loop'[m] = loop[m] \/ loop'[m] = AtHome
        BY <1>5 DEF Crash
    <2>2. TurnInv(AtHome, history, stack)
        BY DEF TurnInv, AtHome
    <2>3. UNCHANGED <<history, stack, state>>
        BY <1>5 DEF Crash
    <2>. QED
        BY <1>0, <2>1, <2>2, <2>3 DEF TurnsInv, NotAsleepOnArrivedSignal
<1>6. CASE BackoffElapses \/ LeaseExpires \/ ReclaimExpiredLeases
    BY <1>1, <1>6 DEF BackoffElapses, LeaseExpires, ReclaimExpiredLeases
<1>. QED
    BY <1>3, <1>4, <1>5, <1>6 DEF Orderly

LEMMA TurnsLoop ==
    ASSUME Orderly, IInv, LeaseInv, TurnsInv, NEW l \in Loops, Turn(l) \/ Sweep(l) \/ Fault(l)
    PROVE  TurnsInv'
<1>0. /\ loop \in [Loops -> Local] /\ loop[l] \in Local /\ LocalInv(loop[l], history)
      /\ history \in Seq(Event) /\ stack \in Seq(Sites)
      /\ TurnInv(loop[l], history, stack)
      /\ InTurn(l) => OthersRest(l) /\ (state = "running" \/ state \in Terminal)
    BY InTurnAlone DEF IInv, TypeOK, TurnsInv, LeaseInv
<1>. USE DEF At, Moves, Local, Terminal
<1>1. ASSUME Moves(l), TurnInv(loop'[l], history, stack), UNCHANGED <<history, stack, state>>
      PROVE  TurnsInv'
    BY <1>1, TurnsKept
<1>2. CASE LeaseNext(l)
    <2>1. Moves(l) /\ loop'[l] = [loop[l] EXCEPT !.pc = "replay"] /\ loop[l].pc = "idle"
        BY <1>0, <1>2 DEF LeaseNext, Goto
    <2>. QED
        BY <1>0, <1>1, <1>2, <2>1 DEF LeaseNext, TurnInv
<1>3. CASE Suspend(l)
    <2>1. PICK i \in Sites :
            /\ Reached(history, i) /\ ~ Throws(history, i)
            /\ loop' = [loop EXCEPT ![l].site = i,
                       ![l].pc = IF Kind(i) # "activity" THEN Kind(i)
                                 ELSE IF i \in Registered[ProcessOf[l]] THEN "count"
                                 ELSE "unregistered"]
        BY <1>3 DEF Suspend
    <2>2. PICK label : label = IF Kind(i) # "activity" THEN Kind(i)
                               ELSE IF i \in Registered[ProcessOf[l]] THEN "count" ELSE "unregistered"
        OBVIOUS
    <2>3. /\ Moves(l) /\ loop'[l].site = i /\ loop'[l].pc = label /\ loop'[l].verdict = "none"
          /\ UNCHANGED <<history, stack, state>>
        BY <1>0, <1>3, <2>1, <2>2 DEF Suspend, TurnInv
    <2>4. label \in {"marker", "timer", "unregistered"} \/ (label = "signal" /\ Kind(i) = "signal")
          \/ (label = "count" /\ Kind(i) = "activity")
        BY <2>2, KindOK DEF Kinds
    <2>5. TurnInv(loop'[l], history, stack)
        BY <2>1, <2>3, <2>4 DEF TurnInv
    <2>. QED
        BY <1>1, <2>3, <2>5
<1>4. ASSUME UNCHANGED <<history, stack, state>>, Moves(l), loop'[l].pc \in {"finish", "close", "release"}
      PROVE  TurnsInv'
    BY <1>1, <1>4 DEF TurnInv
<1>5. CASE FailurePropagates(l) \/ FunctionReturns(l) \/ StepBudgetExhausted(l)
    BY <1>0, <1>4, <1>5 DEF FailurePropagates, FunctionReturns, StepBudgetExhausted
<1>6. ASSUME loop[l].pc \notin {"finish", "close", "emit", "release"}, InTurn(l),
             loop'[l].pc \in {"replay", "backoff", "readStack", "caught"},
             loop'[l].verdict = loop[l].verdict, Moves(l), state' = state
      PROVE  TurnsInv'
    <2>1. loop'[l].verdict = "none"
        BY <1>0, <1>6 DEF TurnInv
    <2>2. TurnInv(loop'[l], history', stack')
        BY <1>6, <2>1 DEF TurnInv
    <2>. QED
        BY <1>0, <1>6, <2>2, TurnsKept
<1>7. CASE RecordMarker(l) \/ RefuseUnregistered(l) \/ ActivityFails(l) \/ PushCompensation(l)
    BY <1>0, <1>6, <1>7
       DEF RecordMarker, RefuseUnregistered, ActivityFails, PushCompensation, NextTurn, InTurn
<1>8. CASE ActivityCompletes(l) \/ ActivityWillRetry(l)
    BY <1>0, <1>6, <1>8 DEF ActivityCompletes, ActivityWillRetry, NextTurn, Goto, InTurn
<1>9. CASE CountAttempts(l)
    <2>1. PICK n : n = Attempts(history, loop[l].site) + 1
        OBVIOUS
    <2>2. loop' = [loop EXCEPT ![l].pc = "schedule", ![l].attempt = n]
        BY <1>9, <2>1 DEF CountAttempts, Attempts
    <2>3. TurnInv(loop'[l], history, stack) /\ Moves(l)
        BY <1>0, <1>9, <2>1, <2>2 DEF CountAttempts, TurnInv
    <2>. QED
        BY <1>1, <1>9, <2>3 DEF CountAttempts
<1>10. CASE ScheduleActivity(l)
    <2>2. PICK e \in Event : /\ e.type = "activity_scheduled" /\ e.site = loop[l].site
                             /\ history' = Append(history, e)
        BY <1>10, AttemptRecorded
    <2>3. /\ Moves(l) /\ InTurn(l) /\ UNCHANGED <<stack, state>>
          /\ loop'[l] = [loop[l] EXCEPT !.pc = "executing"] /\ loop[l].pc = "schedule"
        BY <1>0, <1>10 DEF ScheduleActivity, Goto, InTurn
    <2>4. /\ Reached(history', loop[l].site) /\ ~ Throws(history', loop[l].site)
          /\ Kind(loop[l].site) = "activity" /\ loop[l].verdict = "none"
        BY <1>0, <2>2, <2>3, ReachedKept DEF TurnInv
    <2>5. loop[l].attempt = Attempts(history', loop[l].site)
        BY <1>0, <2>2, <2>3, AttemptCounted DEF TurnInv
    <2>6. TurnInv(loop'[l], history', stack')
        BY <1>0, <2>3, <2>4, <2>5 DEF TurnInv
    <2>. QED
        BY <1>0, <2>3, <2>6, TurnsKept
<1>11. CASE ScheduleRetry(l) \/ EmitStateChanged(l)
    BY <1>0, <1>4, <1>11 DEF ScheduleRetry, EmitStateChanged, Goto
<1>12. CASE ReadStack(l)
    <2>1. TurnInv(loop'[l], history, stack) /\ Moves(l)
        BY <1>0, <1>12 DEF ReadStack, TurnInv
    <2>. QED
        BY <1>1, <1>12, <2>1 DEF ReadStack
<1>13. CASE AwaitSignal(l)
    <2>1. /\ Moves(l) /\ loop'[l].pc = "release" /\ UNCHANGED <<history, stack>>
          /\ Reached(history, loop[l].site) /\ loop[l].site \in Signals
        BY <1>0, <1>13 DEF AwaitSignal, Goto, TurnInv, LocalInv, AtCallSite, Signals
    <2>2. TurnInv(loop'[l], history, stack)
        BY <2>1 DEF TurnInv
    <2>. QED
        BY <2>1, <2>2, TurnsKept
<1>14. CASE RecordOutcome(l)
    <2>1. /\ Moves(l) /\ loop'[l].pc = "close" /\ UNCHANGED <<stack, state>> /\ InTurn(l)
        BY <1>0, <1>14 DEF RecordOutcome, Goto, InTurn
    <2>2. TurnInv(loop'[l], history', stack')
        BY <2>1 DEF TurnInv
    <2>. QED
        BY <1>0, <2>1, <2>2, TurnsKept
<1>15. CASE CloseRun(l)
    <2>1. /\ Moves(l) /\ loop'[l].pc = "emit" /\ UNCHANGED <<history, stack>>
          /\ state' # "awaiting_signal"
        BY <1>0, <1>15 DEF CloseRun, Goto
    <2>2. TurnInv(loop'[l], history, stack)
        BY <2>1 DEF TurnInv
    <2>. QED
        BY <2>1, <2>2, TurnsKept
<1>16. CASE ReleaseLease(l) \/ FaultInLoop(l)
    <2>1. Moves(l) /\ loop'[l] = AtHome /\ UNCHANGED <<history, stack, state>>
        BY <1>0, <1>16 DEF ReleaseLease, FaultInLoop
    <2>2. TurnInv(AtHome, history, stack)
        BY DEF TurnInv, AtHome
    <2>. QED
        BY <1>1, <2>1, <2>2
<1>17. CASE FaultInTry(l)
    BY <1>0, <1>6, <1>17 DEF FaultInTry, Goto, InTurn
<1>18. CASE FaultInTurn(l)
    BY <1>0, <1>4, <1>18 DEF FaultInTurn
<1>19. ~ ScheduleTimer(l) /\ ~ Sweep(l)
    BY <1>0 DEF ScheduleTimer, Sweep, ReadDueTimers, Orderly, LocalInv
<1>. QED
    BY <1>2, <1>3, <1>5, <1>7, <1>8, <1>9, <1>10, <1>11, <1>12, <1>13, <1>14, <1>15,
       <1>16, <1>17, <1>18, <1>19 DEF Turn, Fault

LEMMA TurnsStep ==
    ASSUME Orderly, IInv, LeaseInv, TurnsInv, [Next]_vars
    PROVE  TurnsInv'
<1>1. CASE UNCHANGED vars
    BY <1>1 DEF TurnsInv, NotAsleepOnArrivedSignal
<1>2. CASE Next
    BY <1>2, TurnsOutside, TurnsLoop DEF Next
<1>. QED
    BY <1>1, <1>2

(* In such a deployment no run sleeps on a signal that has arrived: what   *)
(* it is parked on is the call site its history does not answer.           *)
THEOREM NoSignalIsSleptOn ==
    ASSUME Orderly
    PROVE  Spec => []NotAsleepOnArrivedSignal
<1>1. Init => LeaseInv /\ TurnsInv
    BY LeaseInit, TurnsInit
<1>2. IInv /\ LeaseInv /\ TurnsInv /\ [Next]_vars => LeaseInv' /\ TurnsInv'
    BY LeaseStep, TurnsStep
<1>3. TurnsInv => NotAsleepOnArrivedSignal
    BY DEF TurnsInv
<1>. QED
    BY <1>1, <1>2, <1>3, Invariance, PTL DEF Spec

-----------------------------------------------------------------------------
(* What the history says of attempts.                                      *)

(* The starts of attempts apart, every event is recorded by a step that    *)
(* starts none.                                                            *)
OtherEvents == EventTypes \ {"activity_scheduled"}
RecordsOther == \E t \in OtherEvents, i \in {0} \cup Sites, n \in Nat : Record(t, i, n)

LEMMA WhatALoopRecords ==
    ASSUME IInv, NEW l \in Loops, Turn(l) \/ Sweep(l) \/ Fault(l)
    PROVE  UNCHANGED history \/ RecordsOther \/ ScheduleActivity(l)
<1>. USE DEF OtherEvents, EventTypes
<1>0. loop[l].attempt \in Nat /\ LocalInv(loop[l], history) /\ loop[l].site \in {0} \cup Sites
    BY DEF IInv, TypeOK, Local
<1>1. CASE RecordMarker(l) \/ RefuseUnregistered(l)
    BY <1>0, <1>1 DEF RecordMarker, RefuseUnregistered, RecordsOther
<1>2. CASE ActivityCompletes(l) \/ ActivityWillRetry(l) \/ ActivityFails(l)
    BY <1>0, <1>2 DEF ActivityCompletes, ActivityWillRetry, ActivityFails, RecordsOther
<1>3. CASE RecordOutcome(l)
    <2>1. PICK t \in {"workflow_completed", "workflow_failed"} : Record(t, 0, 1)
        BY <1>3 DEF RecordOutcome
    <2>. QED
        BY <2>1 DEF RecordsOther
<1>4. CASE \E i \in Timers : FireTimer(l, i)
    BY <1>4 DEF FireTimer, Timers, RecordsOther
<1>. QED
    BY <1>1, <1>2, <1>3, <1>4
       DEF Turn, Sweep, Fault, LeaseNext, Suspend, FailurePropagates, FunctionReturns,
           StepBudgetExhausted, CountAttempts, ScheduleRetry, ReadStack, PushCompensation,
           ScheduleTimer, AwaitSignal, CloseRun, EmitStateChanged, ReleaseLease,
           ReadDueTimers, FaultInTry, FaultInTurn, FaultInLoop

LEMMA WhatIsRecorded ==
    ASSUME IInv, [Next]_vars
    PROVE  UNCHANGED history \/ RecordsOther \/ \E l \in Loops : ScheduleActivity(l)
<1>1. CASE Start
    BY <1>1 DEF Start, RecordsOther, OtherEvents, EventTypes
<1>2. CASE \E i \in Signals : Signal(i)
    BY <1>2 DEF Signal, Signals, RecordsOther, OtherEvents, EventTypes
<1>3. CASE \E l \in Loops : Turn(l) \/ Sweep(l) \/ Fault(l)
    BY <1>3, WhatALoopRecords
<1>4. CASE BackoffElapses \/ LeaseExpires \/ ReclaimExpiredLeases \/ UNCHANGED vars
    BY <1>4 DEF BackoffElapses, LeaseExpires, ReclaimExpiredLeases
<1>5. CASE (\E i \in Timers : TimerComesDue(i)) \/ (\E p \in Processes : Crash(p))
    BY <1>5 DEF TimerComesDue, Crash
<1>. QED
    BY <1>1, <1>2, <1>3, <1>4, <1>5 DEF Next

(* s.9.2 in such a deployment: no activity is scheduled again once its     *)
(* outcome is recorded, whatever was recorded since the loop looked.       *)
THEOREM OutcomesAreServed ==
    ASSUME Orderly
    PROVE  Spec => ServedFromHistory
<1>. DEFINE Served == Len(history') > Len(history) =>
                        LET e == history'[Len(history')] IN
                          e.type = "activity_scheduled" =>
                            ~ Passed(history, e.site) /\ ~ Throws(history, e.site)
<1>1. Init => LeaseInv /\ TurnsInv
    BY LeaseInit, TurnsInit
<1>2. IInv /\ LeaseInv /\ TurnsInv /\ [Next]_vars => LeaseInv' /\ TurnsInv'
    BY LeaseStep, TurnsStep
<1>3. ASSUME IInv, TurnsInv, [Next]_vars
      PROVE  Served
    <2>0. history \in Seq(Event)
        BY <1>3 DEF IInv, TypeOK
    <2>1. CASE RecordsOther
        <3>1. PICK e \in Event : e.type # "activity_scheduled" /\ history' = Append(history, e)
            BY <2>1, EventTypesOK DEF RecordsOther, OtherEvents, Record
        <3>. QED
            BY <2>0, <3>1, AppendedHistory
    <2>2. ASSUME NEW l \in Loops, ScheduleActivity(l)
          PROVE  Served
        <3>1. PICK e \in Event : e.site = loop[l].site /\ history' = Append(history, e)
            BY <1>3, <2>2, AttemptRecorded
        <3>2. ~ Passed(history, e.site) /\ ~ Throws(history, e.site)
            BY <1>3, <2>2, <3>1 DEF ScheduleActivity, At, TurnsInv, TurnInv, Reached
        <3>. QED
            BY <2>0, <3>1, <3>2, AppendedHistory
    <2>3. CASE UNCHANGED history
        BY <2>0, <2>3
    <2>. QED
        BY <1>3, <2>1, <2>2, <2>3, WhatIsRecorded
<1>4. IInv /\ TurnsInv /\ [Next]_vars => [Served]_vars
    BY <1>3
<1>. QED
    BY <1>1, <1>2, <1>4, Invariance, PTL DEF Spec, ServedFromHistory

(* One crash or one database error at a time, and what each may cost.      *)
LEMMA OneFailureAtATime ==
    ASSUME IInv, [Next]_vars
    PROVE  /\ crashes' = crashes \/ (crashes' = crashes + 1 /\ faults' = faults)
           /\ faults' = faults \/ (faults' = faults + 1 /\ crashes' = crashes)
<1>1. CASE \E p \in Processes : Crash(p)
    BY <1>1 DEF Crash
<1>2. CASE \E l \in Loops : Fault(l)
    BY <1>2 DEF Fault, FaultInTry, FaultInTurn, FaultInLoop, Faulted
<1>3. ASSUME NEW l \in Loops, Turn(l) \/ Sweep(l)
      PROVE  UNCHANGED counts
    <2>1. CASE \/ LeaseNext(l) \/ Suspend(l) \/ FailurePropagates(l) \/ FunctionReturns(l)
               \/ StepBudgetExhausted(l) \/ RecordMarker(l) \/ RefuseUnregistered(l)
               \/ CountAttempts(l) \/ ScheduleActivity(l) \/ ActivityCompletes(l)
        BY <2>1 DEF LeaseNext, Suspend, FailurePropagates, FunctionReturns, StepBudgetExhausted,
             RecordMarker, RefuseUnregistered, CountAttempts, ScheduleActivity, ActivityCompletes
    <2>2. CASE \/ ActivityWillRetry(l) \/ ActivityFails(l) \/ ScheduleRetry(l) \/ ReadStack(l)
               \/ PushCompensation(l) \/ ScheduleTimer(l) \/ AwaitSignal(l) \/ RecordOutcome(l)
               \/ CloseRun(l) \/ EmitStateChanged(l) \/ ReleaseLease(l) \/ Sweep(l)
        BY <2>2 DEF ActivityWillRetry, ActivityFails, ScheduleRetry, ReadStack, PushCompensation,
             ScheduleTimer, AwaitSignal, RecordOutcome, CloseRun, EmitStateChanged,
             ReleaseLease, Sweep, ReadDueTimers, FireTimer
    <2>. QED
        BY <1>3, <2>1, <2>2 DEF Turn
<1>4. CASE Start \/ BackoffElapses \/ LeaseExpires \/ ReclaimExpiredLeases \/ UNCHANGED vars
    BY <1>4 DEF Start, BackoffElapses, LeaseExpires, ReclaimExpiredLeases
<1>5. CASE (\E i \in Signals : Signal(i)) \/ (\E i \in Timers : TimerComesDue(i))
    BY <1>5 DEF Signal, TimerComesDue
<1>. QED
    BY <1>1, <1>2, <1>3, <1>4, <1>5 DEF Next

LEMMA FailuresCost ==
    ASSUME IInv, [Next]_vars
    PROVE  /\ Lost \in Nat /\ Lost' \in Nat /\ LostIfAgain \in Nat /\ LostIfAgain' \in Nat
           /\ Lost <= Lost' /\ LostIfAgain <= LostIfAgain'
           /\ crashes' # crashes => Lost' = Lost + 1 /\ LostIfAgain <= Lost'
           /\ faults' # faults => LostIfAgain' = Lost + 1 /\ Lost' = LostIfAgain
<1>1. crashes \in Nat /\ faults \in Nat /\ faults + 1 \in Nat
    BY DEF IInv, TypeOK
<1>2. PICK half, more, most : half = faults \div 2 /\ more = (faults + 1) \div 2
                              /\ most = ((faults + 1) + 1) \div 2
    OBVIOUS
<1>3. /\ half \in Nat /\ more \in Nat /\ most = half + 1 /\ half <= more /\ more <= half + 1
    BY <1>1, <1>2, Halves
<1>4. CASE crashes' = crashes /\ faults' = faults
    BY <1>1, <1>2, <1>3, <1>4 DEF Lost, LostIfAgain
<1>5. CASE crashes' = crashes + 1 /\ faults' = faults
    BY <1>1, <1>2, <1>3, <1>5 DEF Lost, LostIfAgain
<1>6. CASE crashes' = crashes /\ faults' = faults + 1
    BY <1>1, <1>2, <1>3, <1>6 DEF Lost, LostIfAgain
<1>. QED
    BY <1>4, <1>5, <1>6, OneFailureAtATime

LEMMA MaxAttemptsOK == ASSUME NEW i \in Sites PROVE Program[i].maxAttempts \in Nat \ {0}
<1>1. Program[i] \in CallSite
    BY ProgramAssumption DEF Sites
<1>. QED
    BY <1>1 DEF CallSite

(* No attempt starts: it is enough to follow the loop that is at one, and  *)
(* the one that fails the run.                                             *)
LEMMA AttemptsStay ==
    ASSUME IInv, history' \in Seq(Event), [Next]_vars, AttemptsInv,
           state' \notin Terminal => state \notin Terminal,
           UNCHANGED history \/ RecordsOther,
           \A i \in Sites : /\ state' \notin Terminal /\ Unsettled(history', i)
                            /\ \E m \in Loops : AtAttempt(m, i)
                            => AttemptLeft(i)',
           state' \notin Terminal /\ (\E m \in Loops : Aborting(m)) =>
               (\E m \in Loops : Aborting(m)') \/ LostIfAgain <= Lost'
    PROVE  AttemptsInv'
<1>1. \A i \in Sites : /\ Attempts(history', i) = Attempts(history, i)
                       /\ Unsettled(history', i) => Unsettled(history, i)
                       /\ Attempts(history, i) \in Nat /\ Program[i].maxAttempts \in Nat
    <2>1. history \in Seq(Event) /\ \A i \in Sites : Program[i].maxAttempts \in Nat \ {0}
        BY MaxAttemptsOK DEF IInv, TypeOK
    <2>2. CASE UNCHANGED history
        BY <2>1, <2>2, AttemptsAreCounted
    <2>3. CASE RecordsOther
        <3>1. PICK e \in Event : e.type # "activity_scheduled" /\ history' = Append(history, e)
            BY <2>3, EventTypesOK DEF RecordsOther, OtherEvents, Record
        <3>. QED
            BY <2>1, <3>1, AttemptsKept, AttemptsAreCounted, UnsettledBefore
    <2>. QED
        BY <2>2, <2>3
<1>2. AttemptsBounded'
    BY <1>1, FailuresCost DEF AttemptsInv, AttemptsBounded, Attempts
<1>3. ASSUME state' \notin Terminal, NEW i \in Sites, Unsettled(history', i)
      PROVE  AttemptLeft(i)'
    <2>1. AttemptLeft(i)
        BY <1>1, <1>3 DEF AttemptsInv
    <2>2. CASE LeftAfter(i, Lost)
        BY <1>1, <2>2, FailuresCost DEF LeftAfter, AttemptLeft
    <2>3. CASE \E m \in Loops : AtAttempt(m, i)
        BY <1>3, <2>3
    <2>4. CASE LeftAfter(i, LostIfAgain) /\ \E m \in Loops : Aborting(m)
        <3>1. CASE \E m \in Loops : Aborting(m)'
            BY <1>1, <2>4, <3>1, FailuresCost DEF LeftAfter, AttemptLeft
        <3>2. CASE LostIfAgain <= Lost'
            BY <1>1, <2>4, <3>2, FailuresCost DEF LeftAfter, AttemptLeft
        <3>. QED
            BY <1>3, <2>4, <3>1, <3>2
    <2>. QED
        BY <2>1, <2>2, <2>3, <2>4 DEF AttemptLeft
<1>. QED
    BY <1>2, <1>3 DEF AttemptsInv

(* A loop moves that was neither at an attempt nor failing the run.        *)
LEMMA AttemptsElsewhere ==
    ASSUME IInv, history' \in Seq(Event), [Next]_vars, AttemptsInv, NEW l \in Loops, Moves(l),
           state' \notin Terminal => state \notin Terminal,
           UNCHANGED history \/ RecordsOther,
           loop[l].pc \notin {"executing", "caught", "finish", "close"}
    PROVE  AttemptsInv'
<1>1. \A m \in Loops : Aborting(m) => Aborting(m)'
    BY DEF Aborting, Moves
<1>2. \A i \in Sites, m \in Loops : AtAttempt(m, i) => AtAttempt(m, i)'
    BY DEF AtAttempt, Moves
<1>. QED
    BY <1>1, <1>2, AttemptsStay DEF AttemptLeft

(* An attempt starts: it was left, and there is a loop at it now.          *)
LEMMA AttemptStarts ==
    ASSUME IInv, LeaseInv, TurnsInv, AttemptsInv, [Next]_vars,
           NEW l \in Loops, ScheduleActivity(l)
    PROVE  AttemptsInv'
<1>1. PICK e \in Event : /\ e.type = "activity_scheduled" /\ e.site = loop[l].site
                         /\ history' = Append(history, e)
    BY AttemptRecorded
<1>2. /\ loop \in [Loops -> Local] /\ history \in Seq(Event)
      /\ loop[l].pc = "schedule" /\ loop[l].site \in Sites /\ InTurn(l) /\ state = "running"
      /\ OthersRest(l) /\ state' = state /\ UNCHANGED <<crashes, faults>>
    BY InTurnAlone
       DEF ScheduleActivity, At, IInv, TypeOK, LocalInv, AtCallSite, InTurn, LeaseInv, Terminal
<1>3. Unsettled(history, e.site)
    BY <1>1, <1>2 DEF TurnsInv, TurnInv, Reached, Passed, Throws, Unsettled
<1>4. \A m \in Loops : /\ ~ Aborting(m) /\ \A i \in Sites : ~ AtAttempt(m, i)
    BY <1>2 DEF OthersRest, InTurn, Aborting, AtAttempt
<1>5. \A i \in Sites : Unsettled(history, i) => LeftAfter(i, Lost)
    BY <1>2, <1>4 DEF AttemptsInv, AttemptLeft, Terminal
<1>6. AtAttempt(l, e.site)'
    BY <1>1, <1>2 DEF ScheduleActivity, Goto, AtAttempt, Local
<1>7. Lost' = Lost /\ Lost \in Nat
    BY <1>2, FailuresCost DEF Lost
<1>8. \A i \in Sites : Attempts(history, i) \in Nat /\ Program[i].maxAttempts \in Nat
    BY <1>2, AttemptsAreCounted, MaxAttemptsOK
<1>9. ASSUME NEW i \in Sites
      PROVE  /\ Attempts(history', i) <= Program[i].maxAttempts + Lost'
             /\ Unsettled(history', i) => AttemptLeft(i)'
    <2>1. CASE i = e.site
        <3>1. Attempts(history', i) = Attempts(history, i) + 1
            BY <1>1, <1>2, <2>1, AttemptCounted
        <3>2. Attempts(history, i) + 1 <= Program[i].maxAttempts + Lost
            BY <1>3, <1>5, <2>1 DEF LeftAfter
        <3>. QED
            BY <1>6, <1>7, <2>1, <3>1, <3>2 DEF AttemptLeft
    <2>2. CASE i # e.site
        <3>1. /\ Attempts(history', i) = Attempts(history, i)
              /\ Unsettled(history', i) => Unsettled(history, i)
            BY <1>1, <1>2, <2>2, AttemptsKept, UnsettledBefore
        <3>2. Attempts(history, i) <= Program[i].maxAttempts + Lost
            BY DEF AttemptsInv, AttemptsBounded, Attempts
        <3>. QED
            BY <1>5, <1>7, <3>1, <3>2 DEF LeftAfter, AttemptLeft
    <2>. QED
        BY <2>1, <2>2
<1>. QED
    BY <1>9 DEF AttemptsInv, AttemptsBounded, Attempts

(* What is left of an attempt that ends unrecorded, by the bound.          *)
LEMMA BoundLeaves ==
    ASSUME IInv, AttemptsInv, NEW i \in Sites, NEW lost \in Nat, NEW more \in Nat, more = lost + 1,
           lost = Lost
    PROVE  Attempts(history, i) + 1 <= Program[i].maxAttempts + more
<1>1. Attempts(history, i) \in Nat /\ Program[i].maxAttempts \in Nat
    BY AttemptsAreCounted, MaxAttemptsOK DEF IInv, TypeOK
<1>2. Attempts(history, i) <= Program[i].maxAttempts + lost
    BY DEF AttemptsInv, AttemptsBounded, Attempts
<1>. QED
    BY <1>1, <1>2

LEMMA AttemptsLoop ==
    ASSUME Orderly, IInv, LeaseInv, TurnsInv, AttemptsInv, [Next]_vars,
           state \in Terminal => state' \in Terminal,
           NEW l \in Loops, Turn(l) \/ Sweep(l) \/ Fault(l)
    PROVE  AttemptsInv'
<1>0. /\ loop \in [Loops -> Local] /\ loop[l] \in Local /\ LocalInv(loop[l], history)
      /\ history' \in Seq(Event) /\ TurnInv(loop[l], history, stack)
    BY TypeStep DEF IInv, TypeOK, TurnsInv
<1>. USE DEF At, Moves, Local
<1>1. ASSUME Moves(l), UNCHANGED history \/ RecordsOther,
             loop[l].pc \notin {"executing", "caught", "finish", "close"}
      PROVE  AttemptsInv'
    BY <1>0, <1>1, AttemptsElsewhere
<1>2. CASE \/ LeaseNext(l) \/ Suspend(l) \/ FailurePropagates(l) \/ FunctionReturns(l)
           \/ StepBudgetExhausted(l) \/ CountAttempts(l) \/ ScheduleRetry(l) \/ ReadStack(l)
           \/ PushCompensation(l) \/ AwaitSignal(l) \/ EmitStateChanged(l) \/ ReleaseLease(l)
           \/ FaultInLoop(l)
    BY <1>0, <1>1, <1>2
       DEF LeaseNext, Suspend, FailurePropagates, FunctionReturns, StepBudgetExhausted,
           CountAttempts, ScheduleRetry, ReadStack, PushCompensation, AwaitSignal,
           EmitStateChanged, ReleaseLease, FaultInLoop, Goto, NextTurn
<1>3. CASE RecordMarker(l) \/ RefuseUnregistered(l)
    <2>1. UNCHANGED history \/ RecordsOther
        BY <1>3, WhatALoopRecords DEF RecordMarker, RefuseUnregistered, ScheduleActivity
    <2>. QED
        BY <1>0, <1>1, <1>3, <2>1 DEF RecordMarker, RefuseUnregistered, NextTurn
<1>4. CASE ScheduleActivity(l)
    BY <1>4, AttemptStarts
<1>5. CASE ActivityCompletes(l) \/ ActivityFails(l) \/ ActivityWillRetry(l)
    <2>1. /\ UNCHANGED history \/ RecordsOther
          /\ loop[l].pc \in {"executing", "caught"} /\ Moves(l) /\ state' = state
        BY <1>0, <1>5, WhatALoopRecords
           DEF ActivityCompletes, ActivityFails, ActivityWillRetry, ScheduleActivity, NextTurn, Goto
    <2>2. \A m \in Loops : Aborting(m) => Aborting(m)'
        BY <2>1 DEF Aborting
    <2>3. ASSUME NEW i \in Sites, Unsettled(history', i), NEW m \in Loops, AtAttempt(m, i)
          PROVE  AttemptLeft(i)'
        <3>1. CASE m # l
            BY <2>1, <2>3, <3>1 DEF AtAttempt, AttemptLeft
        <3>2. CASE m = l /\ (ActivityCompletes(l) \/ ActivityFails(l))
            <4>1. loop[l].site = i /\ i \in {0} \cup Sites /\ loop[l].attempt \in Nat
                  /\ {"activity_completed", "activity_failed"} \subseteq EventTypes
                BY <1>0, <2>3, <3>2 DEF AtAttempt, EventTypes
            <4>2. PICK e \in Event : /\ e.type \in {"activity_completed", "activity_failed"}
                                     /\ e.site = i /\ history' = Append(history, e)
                BY <3>2, <4>1, EventTypesOK DEF ActivityCompletes, ActivityFails, Record
            <4>3. Has(history', e.type, i)
                BY <4>2, HasAppended DEF IInv, TypeOK
            <4>. QED
                BY <2>3, <4>2, <4>3 DEF Unsettled
        <3>3. CASE m = l /\ ActivityWillRetry(l)
            <4>1. /\ loop[l].site = i /\ loop[l].attempt < Program[i].maxAttempts
                  /\ loop[l].attempt = Attempts(history, i)
                BY <1>0, <2>3, <3>3 DEF AtAttempt, ActivityWillRetry, TurnInv
            <4>2. Attempts(history', i) = Attempts(history, i)
                <5>1. "attempt_failed" \in EventTypes /\ i \in {0} \cup Sites
                    BY DEF EventTypes
                <5>2. PICK e \in Event : e.type = "attempt_failed" /\ history' = Append(history, e)
                    BY <1>0, <3>3, <4>1, <5>1, EventTypesOK DEF ActivityWillRetry, Record
                <5>. QED
                    BY <5>2, AttemptsKept DEF IInv, TypeOK
            <4>3. Lost' \in Nat /\ Program[i].maxAttempts \in Nat /\ loop[l].attempt \in Nat
                BY <1>0, FailuresCost, MaxAttemptsOK
            <4>. QED
                BY <4>1, <4>2, <4>3 DEF LeftAfter, AttemptLeft
        <3>. QED
            BY <1>5, <3>1, <3>2, <3>3
    <2>. QED
        BY <1>0, <2>1, <2>2, <2>3, AttemptsStay
<1>6. CASE RecordOutcome(l)
    <2>1. /\ UNCHANGED history \/ RecordsOther
          /\ loop[l].pc = "finish" /\ Moves(l) /\ state' = state
          /\ loop'[l] = [loop[l] EXCEPT !.pc = "close"]
        BY <1>0, <1>6, WhatALoopRecords DEF RecordOutcome, ScheduleActivity, Goto
    <2>2. \A m \in Loops : Aborting(m) => Aborting(m)'
        BY <1>0, <2>1 DEF Aborting
    <2>3. \A i \in Sites, m \in Loops : AtAttempt(m, i) => AtAttempt(m, i)'
        BY <2>1 DEF AtAttempt
    <2>. QED
        BY <1>0, <2>1, <2>2, <2>3, AttemptsStay DEF AttemptLeft
<1>7. CASE CloseRun(l)
    <2>1. state' \in Terminal /\ UNCHANGED history
        BY <1>7 DEF CloseRun, Terminal
    <2>. QED
        BY <1>0, <2>1, AttemptsStay
<1>8. CASE FaultInTry(l)
    <2>1. /\ Moves(l) /\ loop'[l] = [loop[l] EXCEPT !.pc = "caught"] /\ UNCHANGED <<history, state>>
          /\ loop[l].pc \in {"executing", "readStack", "pushStack"}
        BY <1>0, <1>8 DEF FaultInTry, Goto
    <2>2. \A m \in Loops : Aborting(m) => Aborting(m)'
        BY <2>1 DEF Aborting
    <2>3. \A i \in Sites, m \in Loops : AtAttempt(m, i) => AtAttempt(m, i)'
        BY <1>0, <2>1 DEF AtAttempt
    <2>. QED
        BY <1>0, <2>1, <2>2, <2>3, AttemptsStay DEF AttemptLeft
<1>9. CASE FaultInTurn(l)
    <2>1. /\ Moves(l) /\ UNCHANGED <<history, state>> /\ faults' # faults
          /\ loop'[l] = [loop[l] EXCEPT !.verdict = "aborted",
                          !.pc = IF loop[l].verdict = "aborted" THEN "release" ELSE "finish"]
        BY <1>0, <1>9 DEF FaultInTurn, Faulted, IInv, TypeOK
    <2>2. LostIfAgain' = Lost + 1 /\ Lost' = LostIfAgain /\ Lost \in Nat
          /\ LostIfAgain \in Nat /\ LostIfAgain' \in Nat
        BY <2>1, FailuresCost
    <2>3. ASSUME NEW i \in Sites, NEW m \in Loops, AtAttempt(m, i)
          PROVE  AttemptLeft(i)'
        <3>1. CASE m # l
            BY <2>1, <2>3, <3>1 DEF AtAttempt, AttemptLeft
        <3>2. CASE m = l
            <4>1. Aborting(l)'
                BY <1>0, <2>1, <2>3, <3>2 DEF AtAttempt, TurnInv, Aborting
            <4>2. LeftAfter(i, LostIfAgain)'
                BY <2>1, <2>2, BoundLeaves DEF LeftAfter
            <4>. QED
                BY <4>1, <4>2 DEF AttemptLeft
        <3>. QED
            BY <3>1, <3>2
    <2>4. LostIfAgain <= Lost'
        BY <2>2
    <2>. QED
        BY <1>0, <2>1, <2>3, <2>4, AttemptsStay
<1>10. ~ ScheduleTimer(l) /\ ~ Sweep(l)
    BY <1>0 DEF ScheduleTimer, Sweep, ReadDueTimers, Orderly, LocalInv
<1>. QED
    BY <1>2, <1>3, <1>4, <1>5, <1>6, <1>7, <1>8, <1>9, <1>10 DEF Turn, Fault

LEMMA AttemptsInit == Init => AttemptsInv
<1> SUFFICES ASSUME Init
             PROVE  AttemptsInv
    OBVIOUS
<1>1. \A i \in Sites : Attempts(history, i) = 0 /\ Program[i].maxAttempts \in Nat \ {0}
    <2>1. \A i : Scheduled(history, i) = {}
        BY DEF Init, Scheduled
    <2>. QED
        BY <2>1, FS_EmptySet, MaxAttemptsOK DEF Attempts
<1>2. Lost = 0
    BY DEF Init, Lost
<1>. QED
    BY <1>1, <1>2 DEF AttemptsInv, AttemptsBounded, AttemptLeft, LeftAfter, Attempts

LEMMA AttemptsOutside ==
    ASSUME Orderly, IInv, LeaseInv, AttemptsInv, [Next]_vars,
           state \in Terminal => state' \in Terminal,
           \/ Start \/ BackoffElapses \/ LeaseExpires \/ ReclaimExpiredLeases \/ UNCHANGED vars
           \/ \E i \in Signals : Signal(i)
           \/ \E i \in Timers : TimerComesDue(i)
           \/ \E p \in Processes : Crash(p)
    PROVE  AttemptsInv'
<1>0. history' \in Seq(Event)
    BY TypeStep DEF TypeOK
<1>1. ASSUME UNCHANGED loop, UNCHANGED history \/ RecordsOther
      PROVE  AttemptsInv'
    <2>1. \A m \in Loops : /\ Aborting(m) => Aborting(m)'
                           /\ \A i \in Sites : AtAttempt(m, i) => AtAttempt(m, i)'
        BY <1>1 DEF Aborting, AtAttempt
    <2>. QED
        BY <1>0, <1>1, <2>1, AttemptsStay DEF AttemptLeft
<1>2. ASSUME NEW p \in Processes, Crash(p)
      PROVE  AttemptsInv'
    <2>1. crashes' # crashes /\ UNCHANGED <<history, state>>
        BY <1>2 DEF Crash, IInv, TypeOK
    <2>2. Lost' = Lost + 1 /\ Lost \in Nat /\ Lost' \in Nat /\ LostIfAgain <= Lost'
        BY <2>1, FailuresCost
    <2>3. \A i \in Sites : AttemptLeft(i)'
        BY <2>1, <2>2, BoundLeaves DEF LeftAfter, AttemptLeft
    <2>. QED
        BY <1>0, <2>1, <2>2, <2>3, AttemptsStay
<1>3. CASE Start \/ \E i \in Signals : Signal(i)
    <2>1. RecordsOther /\ UNCHANGED loop
        BY <1>3 DEF Start, Signal, Signals, RecordsOther, OtherEvents, EventTypes
    <2>. QED
        BY <1>1, <2>1
<1>4. CASE \/ BackoffElapses \/ LeaseExpires \/ ReclaimExpiredLeases \/ UNCHANGED vars
           \/ \E i \in Timers : TimerComesDue(i)
    BY <1>1, <1>4 DEF BackoffElapses, LeaseExpires, ReclaimExpiredLeases, TimerComesDue
<1>. QED
    BY <1>2, <1>3, <1>4

LEMMA AttemptsStep ==
    ASSUME Orderly, IInv, LeaseInv, TurnsInv, AttemptsInv, [Next]_vars
    PROVE  AttemptsInv'
    BY LeaseStep, AttemptsOutside, AttemptsLoop DEF Next

(* Retries stop at maxAttempts in such a deployment, but for what crashes  *)
(* and database errors took: an attempt a crash, or a pair of errors.      *)
THEOREM RetriesStop ==
    ASSUME Orderly
    PROVE  Spec => []AttemptsBounded
<1>1. Init => LeaseInv /\ TurnsInv /\ AttemptsInv
    BY LeaseInit, TurnsInit, AttemptsInit
<1>2. IInv /\ LeaseInv /\ TurnsInv /\ AttemptsInv /\ [Next]_vars =>
        LeaseInv' /\ TurnsInv' /\ AttemptsInv'
    BY LeaseStep, TurnsStep, AttemptsStep
<1>3. AttemptsInv => AttemptsBounded
    BY DEF AttemptsInv
<1>. QED
    BY <1>1, <1>2, <1>3, Invariance, PTL DEF Spec

-----------------------------------------------------------------------------
(* What is on the compensation stack.                                      *)

Pushing(l, i) == loop[l].pc \in {"readStack", "pushStack"} /\ loop[l].site = i
Stacked(i) == \E n \in 1..Len(stack) : stack[n] = i

(* The property, with the loop that is about to push named.                *)
StackInv ==
    crashes = 0 /\ faults = 0 =>
        \A i \in Sites :
            Kind(i) = "activity" /\ Program[i].compensates /\ Has(history, "activity_completed", i)
            => Stacked(i) \/ \E l \in Loops : Pushing(l, i)

LEMMA StackInvSuffices == StackInv => CompensationLostOnlyByFailure
    BY DEF StackInv, Stacked, Pushing, CompensationLostOnlyByFailure, Passed

(* What a loop that only moves on keeps, when no success is recorded.      *)
LEMMA StackKept ==
    ASSUME IInv, [Next]_vars, StackInv,
           \A i \in Sites : Has(history', "activity_completed", i) =>
                                Has(history, "activity_completed", i),
           UNCHANGED stack,
           \A m \in Loops, i \in Sites : Pushing(m, i) =>
                Pushing(m, i)' \/ crashes' # crashes \/ faults' # faults
    PROVE  StackInv'
<1>1. crashes' = 0 /\ faults' = 0 => crashes = 0 /\ faults = 0
    BY OneFailureAtATime DEF IInv, TypeOK
<1>. QED
    BY <1>1 DEF StackInv, Stacked

(* Nobody records a success but the loop whose activity returns.           *)
LEMMA NoSuccess ==
    ASSUME IInv, [Next]_vars, ~ \E l \in Loops : ActivityCompletes(l)
    PROVE  \A i \in Sites : Has(history', "activity_completed", i) =>
                                Has(history, "activity_completed", i)
<1>. DEFINE RecordsNoSuccess ==
        \E t \in EventTypes \ {"activity_completed"}, i \in {0} \cup Sites, n \in Nat : Record(t, i, n)
<1>0. \A l \in Loops : /\ loop[l].attempt \in Nat /\ LocalInv(loop[l], history)
                       /\ loop[l].site \in {0} \cup Sites
    BY DEF IInv, TypeOK, Local
<1>1. UNCHANGED history \/ RecordsNoSuccess
    <2>. USE DEF EventTypes
    <2>1. CASE Start \/ \E i \in Signals : Signal(i)
        BY <2>1 DEF Start, Signal, Signals
    <2>2. ASSUME NEW l \in Loops, Turn(l) \/ Sweep(l) \/ Fault(l), ~ UNCHANGED history
          PROVE  RecordsNoSuccess
        <3>1. CASE RecordMarker(l) \/ RefuseUnregistered(l) \/ ScheduleActivity(l)
            BY <1>0, <3>1 DEF RecordMarker, RefuseUnregistered, ScheduleActivity
        <3>2. CASE ActivityWillRetry(l) \/ ActivityFails(l)
            BY <1>0, <3>2 DEF ActivityWillRetry, ActivityFails
        <3>3. CASE RecordOutcome(l)
            <4>1. PICK t \in {"workflow_completed", "workflow_failed"} : Record(t, 0, 1)
                BY <3>3 DEF RecordOutcome
            <4>. QED
                BY <4>1
        <3>4. CASE \E i \in Timers : FireTimer(l, i)
            BY <3>4 DEF FireTimer, Timers
        <3>. QED
            BY <2>2, <3>1, <3>2, <3>3, <3>4
               DEF Turn, Sweep, Fault, LeaseNext, Suspend, FailurePropagates, FunctionReturns,
                   StepBudgetExhausted, CountAttempts, ScheduleRetry, ReadStack,
                   PushCompensation, ScheduleTimer, AwaitSignal, CloseRun, EmitStateChanged,
                   ReleaseLease, ReadDueTimers, FaultInTry, FaultInTurn, FaultInLoop
    <2>3. CASE BackoffElapses \/ LeaseExpires \/ ReclaimExpiredLeases \/ UNCHANGED vars
        BY <2>3 DEF BackoffElapses, LeaseExpires, ReclaimExpiredLeases
    <2>4. CASE (\E i \in Timers : TimerComesDue(i)) \/ (\E p \in Processes : Crash(p))
        BY <2>4 DEF TimerComesDue, Crash
    <2>. QED
        BY <2>1, <2>2, <2>3, <2>4 DEF Next
<1>2. CASE RecordsNoSuccess
    <2>1. PICK e \in Event : e.type # "activity_completed" /\ history' = Append(history, e)
        BY <1>2, EventTypesOK DEF Record
    <2>. QED
        BY <2>1, HasOnlyNew DEF IInv, TypeOK
<1>. QED
    BY <1>1, <1>2

(* Nobody writes the stack but the loop that pushes.                       *)
LEMMA StackWrittenOnce ==
    ASSUME [Next]_vars, ~ \E l \in Loops : PushCompensation(l)
    PROVE  UNCHANGED stack
<1>1. ASSUME NEW l \in Loops, Turn(l) \/ Sweep(l) \/ Fault(l)
      PROVE  UNCHANGED stack
    <2>1. CASE \/ LeaseNext(l) \/ Suspend(l) \/ FailurePropagates(l) \/ FunctionReturns(l)
               \/ StepBudgetExhausted(l) \/ CountAttempts(l) \/ ReadStack(l) \/ Fault(l)
        BY <2>1 DEF LeaseNext, Suspend, FailurePropagates, FunctionReturns, StepBudgetExhausted,
             CountAttempts, ReadStack, Fault, FaultInTry, FaultInTurn, FaultInLoop, db
    <2>2. CASE \/ RecordMarker(l) \/ RefuseUnregistered(l) \/ ScheduleActivity(l)
               \/ ActivityCompletes(l) \/ ActivityWillRetry(l) \/ ActivityFails(l)
        BY <2>2 DEF RecordMarker, RefuseUnregistered, ScheduleActivity, ActivityCompletes,
             ActivityWillRetry, ActivityFails
    <2>3. CASE \/ ScheduleRetry(l) \/ ScheduleTimer(l) \/ AwaitSignal(l) \/ RecordOutcome(l)
               \/ CloseRun(l) \/ EmitStateChanged(l) \/ ReleaseLease(l) \/ Sweep(l)
        BY <2>3 DEF ScheduleRetry, ScheduleTimer, AwaitSignal, RecordOutcome, CloseRun,
             EmitStateChanged, ReleaseLease, Sweep, ReadDueTimers, FireTimer, db
    <2>. QED
        BY <1>1, <2>1, <2>2, <2>3 DEF Turn
<1>2. CASE Start \/ BackoffElapses \/ LeaseExpires \/ ReclaimExpiredLeases \/ UNCHANGED vars
    BY <1>2 DEF Start, BackoffElapses, LeaseExpires, ReclaimExpiredLeases
<1>3. CASE \/ \E i \in Signals : Signal(i)
           \/ \E i \in Timers : TimerComesDue(i)
           \/ \E p \in Processes : Crash(p)
    BY <1>3 DEF Signal, TimerComesDue, Crash
<1>. QED
    BY <1>1, <1>2, <1>3 DEF Next

(* A loop at the stack stays there until it has pushed or something fails. *)
LEMMA WhoeverPushes ==
    ASSUME IInv, [Next]_vars, NEW m \in Loops, loop[m].pc \in {"readStack", "pushStack"},
           ~ PushCompensation(m)
    PROVE  \/ loop'[m].pc \in {"readStack", "pushStack"} /\ loop'[m].site = loop[m].site
           \/ crashes' # crashes \/ faults' # faults
<1>0. loop \in [Loops -> Local] /\ crashes \in Nat /\ faults \in Nat
    BY DEF IInv, TypeOK
<1>1. ASSUME NEW l \in Loops, Turn(l) \/ Sweep(l), l # m
      PROVE  loop'[m] = loop[m]
    BY <1>0, <1>1
       DEF Turn, Sweep, LeaseNext, Suspend, FailurePropagates, FunctionReturns,
           StepBudgetExhausted, RecordMarker, RefuseUnregistered, CountAttempts,
           ScheduleActivity, ActivityCompletes, ActivityWillRetry, ActivityFails, ScheduleRetry,
           ReadStack, PushCompensation, ScheduleTimer, AwaitSignal, RecordOutcome, CloseRun,
           EmitStateChanged, ReleaseLease, ReadDueTimers, FireTimer, Goto, NextTurn
<1>2. ASSUME Turn(m) \/ Sweep(m)
      PROVE  ReadStack(m)
    BY <1>2
       DEF Turn, Sweep, LeaseNext, Suspend, FailurePropagates, FunctionReturns,
           StepBudgetExhausted, RecordMarker, RefuseUnregistered, CountAttempts,
           ScheduleActivity, ActivityCompletes, ActivityWillRetry, ActivityFails, ScheduleRetry,
           ScheduleTimer, AwaitSignal, RecordOutcome, CloseRun,
           EmitStateChanged, ReleaseLease, ReadDueTimers, FireTimer, At
<1>3. CASE ReadStack(m)
    BY <1>0, <1>3 DEF ReadStack, Local
<1>4. CASE (\E l \in Loops : Fault(l)) \/ (\E p \in Processes : Crash(p))
    <2>1. faults' = faults + 1 \/ crashes' = crashes + 1
        BY <1>4 DEF Fault, FaultInTry, FaultInTurn, FaultInLoop, Faulted, Crash
    <2>. QED
        BY <1>0, <2>1
<1>5. CASE Start \/ BackoffElapses \/ LeaseExpires \/ ReclaimExpiredLeases \/ UNCHANGED vars
    BY <1>5 DEF Start, BackoffElapses, LeaseExpires, ReclaimExpiredLeases
<1>6. CASE (\E i \in Signals : Signal(i)) \/ (\E i \in Timers : TimerComesDue(i))
    BY <1>6 DEF Signal, TimerComesDue
<1>. QED
    BY <1>1, <1>2, <1>3, <1>4, <1>5, <1>6 DEF Next

LEMMA StackStep ==
    ASSUME Orderly, IInv, LeaseInv, TurnsInv, StackInv, [Next]_vars
    PROVE  StackInv'
<1>0. /\ loop \in [Loops -> Local] /\ history \in Seq(Event) /\ stack \in Seq(Sites)
      /\ \A l \in Loops : loop[l] \in Local /\ TurnInv(loop[l], history, stack)
                          /\ LocalInv(loop[l], history)
    BY DEF IInv, TypeOK, TurnsInv
<1>1. ASSUME NEW l \in Loops, ActivityCompletes(l)
      PROVE  StackInv'
    <2>1. /\ loop[l].pc = "executing" /\ loop[l].site \in Sites /\ loop[l].attempt \in Nat
          /\ UNCHANGED <<stack, crashes, faults>> /\ Moves(l)
          /\ \A i \in Sites : i = loop[l].site /\ Program[i].compensates => Pushing(l, i)'
        BY <1>0, <1>1
           DEF ActivityCompletes, At, NextTurn, Goto, Moves, Pushing, Local, LocalInv, AtCallSite
    <2>2. PICK e \in Event : /\ e.type = "activity_completed" /\ e.site = loop[l].site
                             /\ history' = Append(history, e)
        <3>1. PICK i \in {0} \cup Sites, n \in Nat : i = loop[l].site /\ n = loop[l].attempt
            BY <2>1
        <3>2. /\ Ev("activity_completed", i, n) \in Event
              /\ Ev("activity_completed", i, n).type = "activity_completed"
              /\ Ev("activity_completed", i, n).site = i
            BY DEF Ev, Event, EventTypes
        <3>3. history' = Append(history, Ev("activity_completed", i, n))
            BY <1>1, <3>1 DEF ActivityCompletes, Record
        <3>. QED
            BY <3>1, <3>2, <3>3
    <2>3. \A i \in Sites \ {loop[l].site} : Has(history', "activity_completed", i) =>
                                                Has(history, "activity_completed", i)
        BY <1>0, <2>2, HasOnlyNew
    <2>4. \A m \in Loops, i \in Sites : Pushing(m, i) => Pushing(m, i)'
        BY <2>1 DEF Pushing, Moves
    <2>5. \A i \in Sites : Stacked(i) => Stacked(i)'
        BY <2>1 DEF Stacked
    <2>6. SUFFICES ASSUME crashes' = 0 /\ faults' = 0, NEW i \in Sites,
                          Kind(i) = "activity", Program[i].compensates,
                          Has(history', "activity_completed", i)
                   PROVE  Stacked(i)' \/ \E m \in Loops : Pushing(m, i)'
        BY DEF StackInv
    <2>7. CASE i = loop[l].site
        BY <2>1, <2>6, <2>7
    <2>8. CASE i # loop[l].site
        <3>1. Has(history, "activity_completed", i)
            BY <2>3, <2>6, <2>8
        <3>2. Stacked(i) \/ \E m \in Loops : Pushing(m, i)
            BY <2>1, <2>6, <3>1 DEF StackInv
        <3>. QED
            BY <2>4, <2>5, <3>2
    <2>. QED
        BY <2>7, <2>8
<1>2. ASSUME NEW l \in Loops, PushCompensation(l)
      PROVE  StackInv'
    <2>1. /\ loop[l].pc = "pushStack" /\ loop[l].site \in Sites /\ Moves(l)
          /\ UNCHANGED <<history, crashes, faults>>
          /\ stack' = Append(stack, loop[l].site)
        <3>1. loop[l].pc = "pushStack" /\ loop[l].site \in Sites /\ loop[l].position = Len(stack) + 1
            BY <1>0, <1>2 DEF PushCompensation, At, LocalInv, AtCallSite, TurnInv
        <3>. QED
            BY <1>0, <1>2, <3>1 DEF PushCompensation, NextTurn, Moves
    <2>2. \A i \in Sites : Stacked(i) => Stacked(i)'
        BY <1>0, <2>1 DEF Stacked
    <2>3. \A i \in Sites : i = loop[l].site => Stacked(i)'
        <3>1. /\ Len(stack) + 1 \in 1..Len(Append(stack, loop[l].site))
              /\ Append(stack, loop[l].site)[Len(stack) + 1] = loop[l].site
            BY <1>0, <2>1
        <3>2. /\ Len(stack) + 1 \in 1..Len(stack')
              /\ stack'[Len(stack) + 1] = loop[l].site
            BY <2>1, <3>1, Zenon
        <3>. QED
            BY <3>2 DEF Stacked
    <2>4. \A m \in Loops, i \in Sites : Pushing(m, i) => Pushing(m, i)' \/ i = loop[l].site
        BY <2>1 DEF Pushing, Moves
    <2>5. SUFFICES ASSUME crashes' = 0 /\ faults' = 0, NEW i \in Sites,
                          Kind(i) = "activity", Program[i].compensates,
                          Has(history', "activity_completed", i)
                   PROVE  Stacked(i)' \/ \E m \in Loops : Pushing(m, i)'
        BY DEF StackInv
    <2>6. Stacked(i) \/ \E m \in Loops : Pushing(m, i)
        BY <2>1, <2>5 DEF StackInv
    <2>. QED
        BY <2>2, <2>3, <2>4, <2>6
<1>3. ASSUME ~ \E l \in Loops : ActivityCompletes(l) \/ PushCompensation(l)
      PROVE  StackInv'
    <2>1. UNCHANGED stack
        BY <1>3, StackWrittenOnce
    <2>2. ASSUME NEW m \in Loops, NEW i \in Sites, Pushing(m, i)
          PROVE  Pushing(m, i)' \/ crashes' # crashes \/ faults' # faults
        BY <1>0, <1>3, <2>2, WhoeverPushes DEF Pushing
    <2>. QED
        BY <1>3, <2>1, <2>2, NoSuccess, StackKept
<1>. QED
    BY <1>1, <1>2, <1>3

(* s.9.4 in such a deployment: every activity that succeeded, and declares *)
(* a compensation, has it on the stack as soon as no loop is about to push *)
(* it, until the first crash or database error.                            *)
THEOREM CompensationsAreStacked ==
    ASSUME Orderly
    PROVE  Spec => []CompensationLostOnlyByFailure
<1>1. Init => LeaseInv /\ TurnsInv /\ StackInv
    <2>1. Init => StackInv
        BY DEF Init, StackInv, Has
    <2>. QED
        BY <2>1, LeaseInit, TurnsInit
<1>2. IInv /\ LeaseInv /\ TurnsInv /\ StackInv /\ [Next]_vars =>
        LeaseInv' /\ TurnsInv' /\ StackInv'
    BY LeaseStep, TurnsStep, StackStep
<1>. QED
    BY <1>1, <1>2, StackInvSuffices, Invariance, PTL DEF Spec

-----------------------------------------------------------------------------
(* The run as the workflow function sees it: DurableRun.                   *)

(* Every event is about a call site whose predecessors are answered.       *)
InOrder(h) == \A k \in 1..Len(h) : h[k].site # 0 => PassedBefore(h, h[k].site)
NothingBeyond(h, i) == \A k \in 1..Len(h) : h[k].site <= i

(* What a loop is about to record is an answer the run waits for, or says   *)
(* nothing new; what it is about to push comes last; and of a closed run   *)
(* it has nothing left to say but that it failed.                          *)
AnswerInv(r, h, s, closed) ==
    /\ r.pc = "marker" => Kind(r.site) = "marker" /\ Reached(h, r.site)
    /\ r.pc = "unregistered" =>
            Kind(r.site) = "activity" /\ Reached(h, r.site) /\ ~ Throws(h, r.site)
    /\ r.pc = "caught" =>
            Kind(r.site) = "activity" /\ (Passed(h, r.site) \/ ~ Throws(h, r.site))
    /\ r.pc \in {"readStack", "pushStack"} =>
            /\ Kind(r.site) = "activity" /\ NothingBeyond(h, r.site)
            /\ \A n \in 1..Len(s) : s[n] < r.site
    /\ r.pc \in {"finish", "close"} /\ closed => r.verdict = "aborted"

RunInv ==
    /\ InOrder(history)
    /\ \A l \in Loops : AnswerInv(loop[l], history, stack, state \in Terminal)

(* Of a call site without an answer, nothing behind it has one.            *)
LEMMA NothingBehind ==
    ASSUME NEW h \in Seq(Event), InOrder(h), NEW i \in Sites, ~ Passed(h, i)
    PROVE  NothingBeyond(h, i)
<1>1. ASSUME NEW k \in 1..Len(h)
      PROVE  h[k].site \in Nat
    <2>1. h[k] \in Event
        OBVIOUS
    <2>. QED
        BY <2>1 DEF Event, Sites
<1>2. i \in Nat \ {0}
    BY DEF Sites
<1>3. ASSUME NEW k \in 1..Len(h), NEW j \in Nat, j = h[k].site, j > i
      PROVE  FALSE
    <2>1. j # 0 /\ i \in 1..(j - 1)
        BY <1>2, <1>3
    <2>. QED
        BY <1>3, <2>1 DEF InOrder, PassedBefore
<1>4. ASSUME NEW k \in 1..Len(h)
      PROVE  h[k].site <= i
    BY <1>1, <1>2, <1>3
<1>. QED
    BY <1>4 DEF NothingBeyond

(* An event about another call site, or about none, answers nothing here.  *)
LEMMA AnswersElsewhere ==
    ASSUME NEW h \in Seq(Event), NEW e \in Event, NEW i \in Sites, e.site # i
    PROVE  /\ AnswerTo(Append(h, e), i) = AnswerTo(h, i)
           /\ Attempts(Append(h, e), i) = Attempts(h, i)
<1>1. \A t : Has(Append(h, e), t, i) <=> Has(h, t, i)
    BY HasGrows, HasOnlyNew
<1>. QED
    BY <1>1, AttemptsKept DEF AnswerTo, Passed, Throws

(* Events are in order if the new one is.                                  *)
LEMMA OrderGrows ==
    ASSUME NEW h \in Seq(Event), NEW e \in Event, InOrder(h),
           e.site # 0 => PassedBefore(h, e.site)
    PROVE  InOrder(Append(h, e))
<1>1. \A k \in 1..Len(h) : Append(h, e)[k] = h[k]
    BY AppendedHistory
<1>2. Append(h, e)[Len(h) + 1] = e /\ Len(Append(h, e)) = Len(h) + 1
    BY AppendedHistory
<1>3. ASSUME NEW k \in 1..Len(h), h[k].site # 0
      PROVE  PassedBefore(Append(h, e), h[k].site)
    BY <1>3, PassedBeforeGrows DEF InOrder
<1>4. e.site # 0 => PassedBefore(Append(h, e), e.site)
    BY PassedBeforeGrows
<1>5. \A k \in 1..Len(Append(h, e)) : k \in 1..Len(h) \/ k = Len(h) + 1
    BY <1>2
<1>. QED
    BY <1>1, <1>2, <1>3, <1>4, <1>5 DEF InOrder

-----------------------------------------------------------------------------
(* What that takes, kept by every step.                                    *)

(* A fresh run has told the function nothing.                              *)
LEMMA RunInvInit == Init => RunInv
    BY DEF Init, RunInv, InOrder, AnswerInv, AtHome

(* A loop that stands at none of these steps relies on nothing.            *)
LEMMA ReliesOnNothing ==
    ASSUME NEW r, NEW h, NEW s, NEW closed,
           r.pc \notin {"marker", "unregistered", "caught", "readStack", "pushStack",
                        "finish", "close"}
    PROVE  AnswerInv(r, h, s, closed)
    BY DEF AnswerInv

(* A loop in its turn is alone, one outside a turn changes nothing here: it *)
(* is enough to look at the loop that moves.                               *)
LEMMA RunInvKept ==
    ASSUME RunInv, NEW l \in Loops, Moves(l),
           OthersRest(l) \/ UNCHANGED <<history, stack, state>>,
           InOrder(history'), AnswerInv(loop'[l], history', stack', state' \in Terminal)
    PROVE  RunInv'
<1>1. \A m \in Loops : AnswerInv(loop[m], history, stack, state \in Terminal)
    BY DEF RunInv
<1>2. ASSUME NEW m \in Loops
      PROVE  AnswerInv(loop'[m], history', stack', state' \in Terminal)
    <2>1. CASE m = l
        BY <2>1
    <2>2. CASE m # l /\ OthersRest(l)
        <3>1. loop'[m].pc \in {"idle", "sweep", "release"}
            BY <2>2 DEF Moves, OthersRest, InTurn
        <3>. QED
            BY <3>1, ReliesOnNothing
    <2>3. CASE m # l /\ UNCHANGED <<history, stack, state>>
        BY <1>1, <2>3 DEF Moves
    <2>. QED
        BY <2>1, <2>2, <2>3
<1>. QED
    BY <1>2 DEF RunInv

(* Starting, signalling, time and crashes keep the order of the events.    *)
LEMMA RunInvOutside ==
    ASSUME Orderly, IInv, LeaseInv, RunInv,
           \/ Start \/ BackoffElapses \/ LeaseExpires \/ ReclaimExpiredLeases
           \/ \E i \in Signals : Signal(i)
           \/ \E i \in Timers : TimerComesDue(i)
           \/ \E p \in Processes : Crash(p)
    PROVE  RunInv'
<1>0. history \in Seq(Event)
    BY DEF IInv, TypeOK
<1>1. CASE BackoffElapses \/ LeaseExpires \/ ReclaimExpiredLeases
    BY <1>1 DEF BackoffElapses, LeaseExpires, ReclaimExpiredLeases, RunInv
<1>2. ASSUME state \in {"absent", "awaiting_signal"}, UNCHANGED loop, InOrder(history')
      PROVE  RunInv'
    <2>1. \A m \in Loops : loop'[m].pc \in {"idle", "sweep", "release"}
        BY <1>2 DEF LeaseInv, InTurn, Terminal
    <2>. QED
        BY <1>2, <2>1, ReliesOnNothing DEF RunInv
<1>3. CASE Start
    <2>1. Ev("workflow_started", 0, 1) \in Event /\ Ev("workflow_started", 0, 1).site = 0
        BY DEF Ev, Event, EventTypes
    <2>2. InOrder(history')
        BY <1>0, <1>3, <2>1, OrderGrows DEF Start, Record, RunInv
    <2>. QED
        BY <1>2, <1>3, <2>2 DEF Start
<1>4. ASSUME NEW i \in Signals, Signal(i)
      PROVE  RunInv'
    <2>1. Ev("signal_received", i, 1) \in Event /\ Ev("signal_received", i, 1).site = i
        BY DEF Ev, Event, EventTypes, Signals
    <2>2. state = "awaiting_signal" /\ PassedBefore(history, i)
        BY <1>4 DEF Signal, Orderly, Reached
    <2>3. InOrder(history')
        BY <1>0, <1>4, <2>1, <2>2, OrderGrows DEF Signal, Record, RunInv
    <2>. QED
        BY <1>2, <1>4, <2>2, <2>3 DEF Signal
<1>5. ASSUME NEW p \in Processes, Crash(p)
      PROVE  RunInv'
    <2>1. \A m \in Loops : loop'[m] = loop[m] \/ loop'[m].pc = "idle"
        BY <1>5 DEF Crash, AtHome
    <2>2. UNCHANGED <<history, stack, state>>
        BY <1>5 DEF Crash
    <2>3. \A m \in Loops : AnswerInv(loop'[m], history, stack, state \in Terminal)
        BY <2>1, ReliesOnNothing DEF RunInv
    <2>. QED
        BY <2>2, <2>3 DEF RunInv
<1>6. ~ \E i \in Timers : TimerComesDue(i)
    BY DEF Orderly
<1>. QED
    BY <1>1, <1>3, <1>4, <1>5, <1>6

(* What Record appends is an event of that type, about that call site.     *)
LEMMA EventRecorded ==
    ASSUME NEW t \in EventTypes, NEW i \in {0} \cup Sites, NEW n \in Nat, Record(t, i, n)
    PROVE  \E e \in Event : e.type = t /\ e.site = i /\ history' = Append(history, e)
    BY EventTypesOK DEF Record

(* So is what a loop appends about the call site it stands at.             *)
LEMMA LoopRecords ==
    ASSUME NEW l \in Loops, loop[l].site \in Sites, NEW t \in EventTypes, NEW n \in Nat,
           history' = Append(history, Ev(t, loop[l].site, n))
    PROVE  \E e \in Event : e.type = t /\ e.site = loop[l].site /\ history' = Append(history, e)
<1>1. PICK i \in {0} \cup Sites : i = loop[l].site
    OBVIOUS
<1>2. history' = Append(history, Ev(t, i, n))
    BY <1>1
<1>3. Ev(t, i, n) \in Event /\ Ev(t, i, n).type = t /\ Ev(t, i, n).site = i
    BY EventTypesOK
<1>. QED
    BY <1>1, <1>2, <1>3

(* A loop that records an event about the call site it is at keeps the     *)
(* order, whatever the event says.                                         *)
LEMMA OrderKept ==
    ASSUME history \in Seq(Event), InOrder(history), NEW t \in EventTypes,
           NEW i \in {0} \cup Sites, NEW n \in Nat, Record(t, i, n),
           i # 0 => PassedBefore(history, i)
    PROVE  InOrder(history')
<1>1. PICK e \in Event : e.site = i /\ history' = Append(history, e)
    BY EventRecorded
<1>. QED
    BY <1>1, OrderGrows

(* A success is recorded of the call site a run waits for: what is on the  *)
(* stack came before it.                                                   *)
LEMMA SuccessComesLast ==
    ASSUME IInv, InOrder(history), NEW i \in Sites, Reached(history, i), Kind(i) = "activity",
           NEW e \in Event, e.site = i
    PROVE  /\ NothingBeyond(Append(history, e), i)
           /\ \A n \in 1..Len(stack) : stack[n] < i
<1>0. /\ history \in Seq(Event) /\ stack \in Seq(Sites) /\ i \in Nat
      /\ NothingBeyond(history, i)
    BY NothingBehind DEF IInv, TypeOK, Reached, Sites
<1>1. ASSUME NEW k \in 1..Len(Append(history, e))
      PROVE  Append(history, e)[k].site <= i
    <2>1. CASE k \in 1..Len(history)
        BY <1>0, <2>1, AppendedHistory DEF NothingBeyond
    <2>2. CASE k = Len(history) + 1
        BY <1>0, <2>2, AppendedHistory
    <2>. QED
        BY <1>0, <1>1, <2>1, <2>2, AppendedHistory
<1>2. ASSUME NEW n \in 1..Len(stack)
      PROVE  stack[n] < i
    <2>1. PICK k \in 1..Len(history) : history[k].type = "activity_completed"
                                       /\ history[k].site = stack[n]
        BY DEF IInv, CompensationFollowsCompletion, Has
    <2>2. stack[n] \in Nat /\ stack[n] <= i
        BY <1>0, <2>1 DEF NothingBeyond, Sites
    <2>3. stack[n] # i
        BY <2>1 DEF Reached, Passed, Has
    <2>. QED
        BY <1>0, <2>2, <2>3
<1>. QED
    BY <1>1, <1>2 DEF NothingBeyond

(* Every step of a poll loop keeps it.                                     *)
LEMMA RunInvLoop ==
    ASSUME Orderly, IInv, LeaseInv, TurnsInv, RunInv, NEW l \in Loops,
           Turn(l) \/ Sweep(l) \/ Fault(l)
    PROVE  RunInv'
<1>0. /\ loop \in [Loops -> Local] /\ loop[l] \in Local /\ LocalInv(loop[l], history)
      /\ history \in Seq(Event) /\ stack \in Seq(Sites)
      /\ TurnInv(loop[l], history, stack) /\ InOrder(history)
      /\ AnswerInv(loop[l], history, stack, state \in Terminal)
      /\ InTurn(l) => OthersRest(l)
      /\ InTurn(l) /\ loop[l].pc \notin {"finish", "close", "emit"} => state \notin Terminal
      /\ loop[l].site \in {0} \cup Sites /\ loop[l].attempt \in Nat
    BY InTurnAlone DEF IInv, TypeOK, TurnsInv, LeaseInv, RunInv, Terminal, Local
<1>. USE DEF At, Moves, Local
<1>1. ASSUME Moves(l), AnswerInv(loop'[l], history, stack, state \in Terminal),
             UNCHANGED <<history, stack, state>>
      PROVE  RunInv'
    BY <1>0, <1>1, RunInvKept
<1>2. ASSUME Moves(l), UNCHANGED <<history, stack>>, InTurn(l) \/ UNCHANGED state,
             loop'[l].pc \notin {"marker", "unregistered", "caught", "readStack", "pushStack",
                                "finish", "close"}
      PROVE  RunInv'
    BY <1>0, <1>2, ReliesOnNothing, RunInvKept
<1>3. CASE \/ LeaseNext(l) \/ CountAttempts(l) \/ ScheduleRetry(l) \/ AwaitSignal(l)
           \/ CloseRun(l) \/ EmitStateChanged(l)
    BY <1>0, <1>2, <1>3
       DEF LeaseNext, CountAttempts, ScheduleRetry, AwaitSignal, CloseRun, EmitStateChanged,
           Goto, InTurn
<1>4. CASE ReleaseLease(l) \/ FaultInLoop(l)
    BY <1>0, <1>2, <1>4 DEF ReleaseLease, FaultInLoop, AtHome
<1>5. CASE Suspend(l)
    <2>1. PICK i \in Sites :
            /\ Reached(history, i) /\ ~ Throws(history, i)
            /\ loop' = [loop EXCEPT ![l].site = i,
                       ![l].pc = IF Kind(i) # "activity" THEN Kind(i)
                                 ELSE IF i \in Registered[ProcessOf[l]] THEN "count"
                                 ELSE "unregistered"]
        BY <1>5 DEF Suspend
    <2>2. PICK label : label = IF Kind(i) # "activity" THEN Kind(i)
                               ELSE IF i \in Registered[ProcessOf[l]] THEN "count" ELSE "unregistered"
        OBVIOUS
    <2>3. /\ Moves(l) /\ loop'[l].site = i /\ loop'[l].pc = label
          /\ UNCHANGED <<history, stack, state>>
        BY <1>0, <1>5, <2>1, <2>2 DEF Suspend
    <2>4. label \in {"timer", "signal", "count"} \/ (label = "marker" /\ Kind(i) = "marker")
          \/ (label = "unregistered" /\ Kind(i) = "activity")
        BY <2>2, KindOK DEF Kinds
    <2>5. AnswerInv(loop'[l], history, stack, state \in Terminal)
        BY <2>1, <2>3, <2>4 DEF AnswerInv
    <2>. QED
        BY <1>1, <2>3, <2>5
<1>6. CASE FailurePropagates(l) \/ FunctionReturns(l) \/ StepBudgetExhausted(l)
    <2>1. /\ Moves(l) /\ loop'[l].pc = "finish" /\ state \notin Terminal
          /\ UNCHANGED <<history, stack, state>>
        BY <1>0, <1>6 DEF FailurePropagates, FunctionReturns, StepBudgetExhausted, InTurn
    <2>2. AnswerInv(loop'[l], history, stack, state \in Terminal)
        BY <2>1 DEF AnswerInv
    <2>. QED
        BY <1>1, <2>1, <2>2
<1>7. ASSUME InTurn(l), Moves(l), InOrder(history'),
             loop'[l].pc \in {"replay", "executing", "backoff"}
      PROVE  RunInv'
    BY <1>0, <1>7, ReliesOnNothing, RunInvKept
<1>8. PushCompensation(l) => RunInv'
    BY <1>0, <1>7 DEF PushCompensation, NextTurn, InTurn
<1>9. ASSUME NEW t \in EventTypes, NEW n \in Nat, Record(t, loop[l].site, n),
             loop[l].pc \in AtCallSite
      PROVE  InOrder(history')
    BY <1>0, <1>9, OrderKept DEF LocalInv
<1>10. CASE \/ RecordMarker(l) \/ RefuseUnregistered(l) \/ ScheduleActivity(l)
            \/ ActivityWillRetry(l) \/ ActivityFails(l)
    <2>1. InOrder(history')
        BY <1>0, <1>9, <1>10
           DEF RecordMarker, RefuseUnregistered, ScheduleActivity, ActivityWillRetry,
               ActivityFails, AtCallSite, EventTypes
    <2>2. InTurn(l) /\ Moves(l) /\ loop'[l].pc \in {"replay", "executing", "backoff"}
        BY <1>0, <1>10
           DEF RecordMarker, RefuseUnregistered, ScheduleActivity, ActivityWillRetry,
               ActivityFails, NextTurn, Goto, InTurn
    <2>. QED
        BY <1>7, <2>1, <2>2
<1>11. CASE ActivityCompletes(l)
    <2>1. /\ loop[l].pc = "executing" /\ loop[l].site \in Sites /\ Reached(history, loop[l].site)
          /\ Kind(loop[l].site) = "activity" /\ InTurn(l) /\ UNCHANGED stack
        BY <1>0, <1>11 DEF ActivityCompletes, LocalInv, AtCallSite, TurnInv, InTurn
    <2>2. InOrder(history')
        BY <1>0, <1>9, <1>11 DEF ActivityCompletes, AtCallSite, EventTypes
    <2>3. PICK e \in Event : e.site = loop[l].site /\ history' = Append(history, e)
        <3>1. "activity_completed" \in EventTypes
            BY DEF EventTypes
        <3>2. history' = Append(history, Ev("activity_completed", loop[l].site, loop[l].attempt))
            BY <1>11 DEF ActivityCompletes, Record
        <3>. QED
            BY <1>0, <2>1, <3>1, <3>2, LoopRecords
    <2>4. /\ NothingBeyond(history', loop[l].site)
          /\ \A n \in 1..Len(stack') : stack'[n] < loop[l].site
        BY <1>0, <2>1, <2>3, SuccessComesLast
    <2>5. Moves(l) /\ loop'[l].pc \in {"replay", "readStack"} /\ loop'[l].site = loop[l].site
        BY <1>0, <1>11 DEF ActivityCompletes, NextTurn, Goto
    <2>6. AnswerInv(loop'[l], history', stack', state' \in Terminal)
        BY <2>1, <2>4, <2>5 DEF AnswerInv
    <2>. QED
        BY <1>0, <2>1, <2>2, <2>5, <2>6, RunInvKept
<1>12. CASE ReadStack(l)
    <2>1. /\ Moves(l) /\ loop[l].pc = "readStack" /\ loop'[l].pc = "pushStack"
          /\ loop'[l].site = loop[l].site /\ UNCHANGED <<history, stack, state>>
        BY <1>0, <1>12 DEF ReadStack
    <2>2. AnswerInv(loop'[l], history, stack, state \in Terminal)
        BY <1>0, <2>1 DEF AnswerInv
    <2>. QED
        BY <1>1, <2>1, <2>2
<1>13. CASE RecordOutcome(l)
    <2>1. PICK t \in {"workflow_completed", "workflow_failed"} : Record(t, 0, 1)
        BY <1>13 DEF RecordOutcome
    <2>2. InOrder(history')
        BY <1>0, <2>1, OrderKept DEF EventTypes
    <2>3. /\ Moves(l) /\ loop[l].pc = "finish" /\ loop'[l].pc = "close" /\ InTurn(l)
          /\ loop'[l].verdict = loop[l].verdict /\ UNCHANGED <<stack, state>>
        BY <1>0, <1>13 DEF RecordOutcome, Goto, InTurn
    <2>4. AnswerInv(loop'[l], history', stack', state' \in Terminal)
        BY <1>0, <2>3 DEF AnswerInv
    <2>. QED
        BY <1>0, <2>2, <2>3, <2>4, RunInvKept
<1>14. CASE FaultInTry(l)
    <2>1. /\ Moves(l) /\ loop'[l].pc = "caught" /\ loop'[l].site = loop[l].site
          /\ UNCHANGED <<history, stack, state>>
          /\ loop[l].pc \in {"executing", "readStack", "pushStack"}
        BY <1>0, <1>14 DEF FaultInTry, Goto
    <2>2. /\ Kind(loop[l].site) = "activity"
          /\ Passed(history, loop[l].site) \/ ~ Throws(history, loop[l].site)
        BY <1>0, <2>1 DEF AnswerInv, TurnInv, LocalInv, Passed
    <2>3. AnswerInv(loop'[l], history, stack, state \in Terminal)
        BY <2>1, <2>2 DEF AnswerInv
    <2>. QED
        BY <1>1, <2>1, <2>3
<1>15. CASE FaultInTurn(l)
    <2>1. /\ Moves(l) /\ loop'[l].pc \in {"finish", "release"} /\ loop'[l].verdict = "aborted"
          /\ UNCHANGED <<history, stack, state>>
        BY <1>0, <1>15 DEF FaultInTurn
    <2>2. AnswerInv(loop'[l], history, stack, state \in Terminal)
        BY <2>1 DEF AnswerInv
    <2>. QED
        BY <1>1, <2>1, <2>2
<1>16. ~ ScheduleTimer(l) /\ ~ Sweep(l)
    BY <1>0 DEF ScheduleTimer, Sweep, ReadDueTimers, Orderly, LocalInv
<1>. QED
    BY <1>3, <1>4, <1>5, <1>6, <1>8, <1>10, <1>11, <1>12, <1>13, <1>14, <1>15, <1>16
       DEF Turn, Fault

(* Every step of the system keeps it.                                      *)
LEMMA RunInvStep ==
    ASSUME Orderly, IInv, LeaseInv, TurnsInv, RunInv, [Next]_vars
    PROVE  RunInv'
<1>1. CASE UNCHANGED vars
    BY <1>1 DEF RunInv
<1>2. CASE Next
    BY <1>2, RunInvOutside, RunInvLoop DEF Next
<1>. QED
    BY <1>1, <1>2

-----------------------------------------------------------------------------
(* The steps, as steps of DurableRun.                                      *)

Open == state \notin {"absent", "completed", "failed"}

(* What tells the function nothing it did not know.                        *)
LEMMA NothingNew ==
    ASSUME UNCHANGED stack, UNCHANGED state \/ (Open /\ Open'),
           \A i \in Sites : /\ AnswerTo(history', i) = AnswerTo(history, i)
                            /\ Attempts(history', i) = Attempts(history, i)
    PROVE  UNCHANGED Durable!runVars
    BY DEF Durable!runVars, Attempts, Open

(* The call site the run waits for is answered.                            *)
LEMMA AnAnswer ==
    ASSUME history \in Seq(Event), NEW e \in Event, NEW i \in Sites, e.site = i,
           history' = Append(history, e), e.type # "activity_scheduled",
           UNCHANGED stack, Open, Open', Reached(history, i), ~ Throws(history, i),
           NEW outcome \in {"passed", "failed"}, AnswerTo(history', i) = outcome,
           outcome = "failed" => Kind(i) = "activity",
           outcome = "passed" /\ Kind(i) = "activity" => Attempts(history, i) > 0
    PROVE  Durable!RunNext
<1>1. /\ AnswerTo(history, i) = "none"
      /\ \A j \in Sites : j < i => AnswerTo(history, j) = "passed"
    BY DEF Reached, PassedBefore, AnswerTo, Sites
<1>2. \A j \in Sites \ {i} : AnswerTo(history', j) = AnswerTo(history, j)
    BY AnswersElsewhere
<1>3. \A j \in Sites : Attempts(history', j) = Attempts(history, j)
    BY AttemptsKept
<1>4. Durable!IsNext(i)
    BY <1>1 DEF Durable!IsNext, Open
<1>5. Durable!Answer(i, outcome)
    BY <1>2, <1>3, <1>4 DEF Durable!Answer, Attempts, Open
<1>. QED
    BY <1>5 DEF Durable!RunNext

(* What an event changes in the answer to its own call site.               *)
LEMMA NewAnswer ==
    ASSUME NEW h \in Seq(Event), NEW e \in Event, NEW i \in Sites, e.site = i
    PROVE  /\ e.type = "marker_recorded" /\ Kind(i) = "marker"
                => AnswerTo(Append(h, e), i) = "passed"
           /\ e.type = "signal_received" /\ Kind(i) = "signal"
                => AnswerTo(Append(h, e), i) = "passed"
           /\ e.type = "activity_completed" /\ Kind(i) = "activity"
                => AnswerTo(Append(h, e), i) = "passed"
           /\ e.type = "activity_failed" /\ Kind(i) = "activity" /\ ~ Passed(h, i)
                => AnswerTo(Append(h, e), i) = "failed"
           /\ e.type = "activity_failed" /\ Kind(i) = "activity" /\ Passed(h, i)
                => AnswerTo(Append(h, e), i) = AnswerTo(h, i)
           /\ e.type \in {"attempt_failed", "activity_scheduled"}
                => AnswerTo(Append(h, e), i) = AnswerTo(h, i)
<1>1. Has(Append(h, e), e.type, i)
    BY HasAppended
<1>2. \A t : t # e.type => (Has(Append(h, e), t, i) <=> Has(h, t, i))
    BY HasGrows, HasOnlyNew
<1>. QED
    BY <1>1, <1>2 DEF AnswerTo, Passed, Throws

(* A success has a start: the activity was executed.                       *)
LEMMA StartedIsCounted ==
    ASSUME NEW h \in Seq(Event), NEW i, NEW n, StartedBy(h, Len(h), i, n)
    PROVE  Attempts(h, i) > 0
<1>1. Scheduled(h, i) # {}
    BY DEF StartedBy, Scheduled
<1>. QED
    BY <1>1, AttemptsAreCounted, FS_EmptySet DEF Attempts

(* An event about no call site.                                            *)
LEMMA NothingNewAtNone ==
    ASSUME history \in Seq(Event), NEW e \in Event, e.site = 0, history' = Append(history, e)
    PROVE  \A i \in Sites : /\ AnswerTo(history', i) = AnswerTo(history, i)
                            /\ Attempts(history', i) = Attempts(history, i)
<1>1. \A i \in Sites : e.site # i
    BY DEF Sites
<1>. QED
    BY <1>1, AnswersElsewhere

(* A run begins, a reviewer answers it; time and crashes it never sees.    *)
LEMMA DurableOutside ==
    ASSUME Orderly, IInv,
           \/ Start \/ BackoffElapses \/ LeaseExpires \/ ReclaimExpiredLeases
           \/ \E i \in Signals : Signal(i)
           \/ \E i \in Timers : TimerComesDue(i)
           \/ \E p \in Processes : Crash(p)
    PROVE  [Durable!RunNext]_(Durable!runVars)
<1>0. history \in Seq(Event)
    BY DEF IInv, TypeOK
<1>1. UNCHANGED <<history, stack, state>> => UNCHANGED Durable!runVars
    BY NothingNew
<1>2. CASE Start
    <2>1. /\ Ev("workflow_started", 0, 1) \in Event /\ Ev("workflow_started", 0, 1).site = 0
          /\ history' = Append(history, Ev("workflow_started", 0, 1))
        BY <1>2 DEF Start, Record, Ev, Event, EventTypes
    <2>2. \A i \in Sites : /\ AnswerTo(history', i) = AnswerTo(history, i)
                           /\ Attempts(history', i) = Attempts(history, i)
        BY <1>0, <2>1, NothingNewAtNone
    <2>3. Durable!Begin
        BY <1>2, <2>2 DEF Start, Durable!Begin, Attempts
    <2>. QED
        BY <2>3 DEF Durable!RunNext
<1>3. ASSUME NEW i \in Signals, Signal(i)
      PROVE  Durable!RunNext
    <2>1. /\ i \in Sites /\ Kind(i) = "signal" /\ Reached(history, i) /\ ~ Throws(history, i)
          /\ Open /\ Open' /\ UNCHANGED stack
        BY <1>3 DEF Signals, Signal, Orderly, Throws, Open
    <2>2. PICK e \in Event : /\ e.type = "signal_received" /\ e.site = i
                             /\ history' = Append(history, e)
        <3>1. "signal_received" \in EventTypes /\ Record("signal_received", i, 1)
            BY <1>3 DEF EventTypes, Signal
        <3>. QED
            BY <2>1, <3>1, EventRecorded
    <2>3. AnswerTo(history', i) = "passed"
        BY <1>0, <2>1, <2>2, NewAnswer
    <2>. QED
        BY <1>0, <2>1, <2>2, <2>3, AnAnswer
<1>4. ASSUME NEW p \in Processes, Crash(p)
      PROVE  UNCHANGED <<history, stack, state>>
    BY <1>4 DEF Crash
<1>5. ~ \E i \in Timers : TimerComesDue(i)
    BY DEF Orderly
<1>6. CASE BackoffElapses \/ LeaseExpires \/ ReclaimExpiredLeases
    BY <1>1, <1>6 DEF BackoffElapses, LeaseExpires, ReclaimExpiredLeases
<1>. QED
    BY <1>1, <1>2, <1>3, <1>4, <1>5, <1>6

(* A call site behind everything that happened has seen nothing yet.       *)
LEMMA Beyond ==
    ASSUME NEW h \in Seq(Event), NEW i \in Sites, NothingBeyond(h, i), NEW j \in Sites, j > i
    PROVE  AnswerTo(h, j) = "none" /\ Attempts(h, j) = 0
<1>1. ASSUME NEW k \in 1..Len(h)
      PROVE  h[k].site # j
    <2>1. h[k].site <= i /\ i \in Nat /\ j \in Nat
        BY DEF NothingBeyond, Sites
    <2>. QED
        BY <2>1
<1>2. \A t : ~ Has(h, t, j)
    BY <1>1 DEF Has
<1>3. Scheduled(h, j) = {}
    BY <1>1 DEF Scheduled
<1>. QED
    BY <1>2, <1>3, FS_EmptySet DEF AnswerTo, Passed, Throws, Attempts

(* A poll loop executes, answers, stacks or closes, or is not noticed.     *)
LEMMA DurableLoop ==
    ASSUME Orderly, IInv, LeaseInv, TurnsInv, RunInv, NEW l \in Loops,
           Turn(l) \/ Sweep(l) \/ Fault(l)
    PROVE  [Durable!RunNext]_(Durable!runVars)
<1>0. /\ loop \in [Loops -> Local] /\ loop[l] \in Local /\ LocalInv(loop[l], history)
      /\ history \in Seq(Event) /\ stack \in Seq(Sites)
      /\ TurnInv(loop[l], history, stack)
      /\ AnswerInv(loop[l], history, stack, state \in Terminal)
      /\ InTurn(l) /\ loop[l].pc \notin {"finish", "close", "emit"} => state = "running"
      /\ loop[l].pc \in {"finish", "close"} => state = "running" \/ state \in Terminal
      /\ loop[l].attempt \in Nat
    BY DEF IInv, TypeOK, TurnsInv, LeaseInv, RunInv, Terminal, Local, InTurn
<1>. USE DEF At
<1>1. UNCHANGED <<history, stack, state>> => UNCHANGED Durable!runVars
    BY NothingNew
<1>2. CASE \/ LeaseNext(l) \/ Suspend(l) \/ FailurePropagates(l) \/ FunctionReturns(l)
           \/ StepBudgetExhausted(l) \/ CountAttempts(l) \/ ScheduleRetry(l) \/ ReadStack(l)
           \/ EmitStateChanged(l) \/ ReleaseLease(l) \/ Fault(l)
    <2>1. UNCHANGED <<history, stack, state>>
        BY <1>2
           DEF LeaseNext, Suspend, FailurePropagates, FunctionReturns, StepBudgetExhausted,
               CountAttempts, ScheduleRetry, ReadStack, EmitStateChanged, ReleaseLease,
               Fault, FaultInTry, FaultInTurn, FaultInLoop
    <2>. QED
        BY <1>1, <2>1
<1>3. CASE AwaitSignal(l)
    <2>1. UNCHANGED <<history, stack>> /\ Open /\ Open'
        BY <1>0, <1>3 DEF AwaitSignal, InTurn, Open
    <2>. QED
        BY <2>1, NothingNew
<1>4. ASSUME loop[l].pc \in {"marker", "unregistered", "schedule", "executing", "caught"},
             UNCHANGED <<state, stack>>
      PROVE  /\ loop[l].site \in Sites /\ PassedBefore(history, loop[l].site)
             /\ Open /\ Open'
    BY <1>0, <1>4 DEF LocalInv, AtCallSite, Open, InTurn
<1>5. CASE RecordMarker(l)
    <2>1. /\ loop[l].pc = "marker" /\ UNCHANGED <<state, stack>>
          /\ history' = Append(history, Ev("marker_recorded", loop[l].site, 1))
          /\ "marker_recorded" \in EventTypes
        BY <1>5 DEF RecordMarker, Record, EventTypes
    <2>2. /\ loop[l].site \in Sites /\ Kind(loop[l].site) = "marker" /\ Open /\ Open'
          /\ Reached(history, loop[l].site) /\ ~ Throws(history, loop[l].site)
        BY <1>0, <1>4, <2>1 DEF AnswerInv, Throws
    <2>3. PICK e \in Event : /\ e.type = "marker_recorded" /\ e.site = loop[l].site
                             /\ history' = Append(history, e)
        BY <2>1, <2>2, LoopRecords
    <2>4. AnswerTo(history', loop[l].site) = "passed"
        BY <1>0, <2>2, <2>3, NewAnswer
    <2>. QED
        BY <1>0, <2>1, <2>2, <2>3, <2>4, AnAnswer
<1>6. ASSUME loop[l].pc \in {"unregistered", "executing", "caught"}, UNCHANGED <<state, stack>>,
             NEW n \in Nat, history' = Append(history, Ev("activity_failed", loop[l].site, n))
      PROVE  [Durable!RunNext]_(Durable!runVars)
    <2>1. /\ loop[l].site \in Sites /\ Kind(loop[l].site) = "activity" /\ Open /\ Open'
          /\ PassedBefore(history, loop[l].site)
          /\ Passed(history, loop[l].site) \/ ~ Throws(history, loop[l].site)
        BY <1>0, <1>4, <1>6 DEF AnswerInv, TurnInv
    <2>2. PICK e \in Event : /\ e.type = "activity_failed" /\ e.site = loop[l].site
                             /\ history' = Append(history, e)
        BY <1>6, <2>1, LoopRecords DEF EventTypes
    <2>3. CASE Passed(history, loop[l].site)
        <3>1. /\ AnswerTo(history', loop[l].site) = AnswerTo(history, loop[l].site)
              /\ Attempts(history', loop[l].site) = Attempts(history, loop[l].site)
            BY <1>0, <2>1, <2>2, <2>3, NewAnswer, AttemptsKept
        <3>2. \A j \in Sites \ {loop[l].site} :
                    /\ AnswerTo(history', j) = AnswerTo(history, j)
                    /\ Attempts(history', j) = Attempts(history, j)
            BY <1>0, <2>2, AnswersElsewhere
        <3>. QED
            BY <1>6, <3>1, <3>2, NothingNew
    <2>4. CASE ~ Passed(history, loop[l].site)
        <3>1. AnswerTo(history', loop[l].site) = "failed"
            BY <1>0, <2>1, <2>2, <2>4, NewAnswer
        <3>2. Reached(history, loop[l].site) /\ ~ Throws(history, loop[l].site)
            BY <2>1, <2>4 DEF Reached
        <3>. QED
            BY <1>0, <1>6, <2>1, <2>2, <3>1, <3>2, AnAnswer
    <2>. QED
        BY <2>3, <2>4
<1>7. CASE RefuseUnregistered(l)
    BY <1>6, <1>7 DEF RefuseUnregistered, Record
<1>8. CASE ActivityFails(l)
    BY <1>0, <1>6, <1>8 DEF ActivityFails, Record
<1>9. CASE ActivityWillRetry(l)
    <2>1. /\ loop[l].pc = "executing" /\ UNCHANGED <<state, stack>>
          /\ history' = Append(history, Ev("attempt_failed", loop[l].site, loop[l].attempt))
          /\ "attempt_failed" \in EventTypes
        BY <1>9 DEF ActivityWillRetry, Record, EventTypes
    <2>2. loop[l].site \in Sites
        BY <1>4, <2>1
    <2>3. PICK e \in Event : /\ e.type = "attempt_failed" /\ e.site = loop[l].site
                             /\ history' = Append(history, e)
        BY <1>0, <2>1, <2>2, LoopRecords
    <2>4. /\ AnswerTo(history', loop[l].site) = AnswerTo(history, loop[l].site)
          /\ Attempts(history', loop[l].site) = Attempts(history, loop[l].site)
        BY <1>0, <2>2, <2>3, NewAnswer, AttemptsKept
    <2>5. \A j \in Sites \ {loop[l].site} : /\ AnswerTo(history', j) = AnswerTo(history, j)
                                           /\ Attempts(history', j) = Attempts(history, j)
        BY <1>0, <2>3, AnswersElsewhere
    <2>. QED
        BY <2>1, <2>4, <2>5, NothingNew
<1>10. CASE ScheduleActivity(l)
    <2>1. PICK e \in Event : /\ e.type = "activity_scheduled" /\ e.site = loop[l].site
                             /\ history' = Append(history, e)
        BY <1>10, AttemptRecorded
    <2>2. PICK i \in Sites : i = loop[l].site
        BY <1>4, <1>10 DEF ScheduleActivity
    <2>3. /\ Kind(i) = "activity" /\ Reached(history, i) /\ ~ Throws(history, i)
          /\ Open /\ Open' /\ UNCHANGED <<state, stack>>
        BY <1>0, <1>4, <1>10, <2>2 DEF ScheduleActivity, TurnInv
    <2>4. /\ AnswerTo(history', i) = AnswerTo(history, i)
          /\ Attempts(history', i) = Attempts(history, i) + 1
        BY <1>0, <2>1, <2>2, NewAnswer, AttemptCounted
    <2>5. \A j \in Sites \ {i} : /\ AnswerTo(history', j) = AnswerTo(history, j)
                                /\ Attempts(history', j) = Attempts(history, j)
        BY <1>0, <2>1, <2>2, AnswersElsewhere
    <2>6. /\ AnswerTo(history, i) = "none"
          /\ \A j \in Sites : j < i => AnswerTo(history, j) = "passed"
        BY <2>3 DEF Reached, PassedBefore, AnswerTo, Sites
    <2>7. Durable!IsNext(i)
        BY <2>3, <2>6 DEF Durable!IsNext, Open
    <2>8. Durable!Execute(i)
        BY <2>3, <2>4, <2>5, <2>7 DEF Durable!Execute, Attempts
    <2>. QED
        BY <2>8 DEF Durable!RunNext
<1>11. CASE ActivityCompletes(l)
    <2>1. /\ loop[l].pc = "executing" /\ UNCHANGED <<state, stack>>
          /\ history' = Append(history, Ev("activity_completed", loop[l].site, loop[l].attempt))
          /\ "activity_completed" \in EventTypes
        BY <1>11 DEF ActivityCompletes, Record, EventTypes
    <2>2. /\ loop[l].site \in Sites /\ Kind(loop[l].site) = "activity" /\ Open /\ Open'
          /\ Reached(history, loop[l].site) /\ ~ Throws(history, loop[l].site)
          /\ Attempts(history, loop[l].site) > 0
        BY <1>0, <1>4, <2>1, StartedIsCounted DEF TurnInv, LocalInv
    <2>3. PICK e \in Event : /\ e.type = "activity_completed" /\ e.site = loop[l].site
                             /\ history' = Append(history, e)
        BY <1>0, <2>1, <2>2, LoopRecords
    <2>4. AnswerTo(history', loop[l].site) = "passed"
        BY <1>0, <2>2, <2>3, NewAnswer
    <2>. QED
        BY <1>0, <2>1, <2>2, <2>3, <2>4, AnAnswer
<1>12. CASE PushCompensation(l)
    <2>1. PICK i \in Sites : i = loop[l].site
        BY <1>0, <1>12 DEF PushCompensation, LocalInv, AtCallSite
    <2>2. /\ loop[l].pc = "pushStack" /\ UNCHANGED <<state, history>> /\ state = "running"
          /\ stack' = Append(stack, i)
        BY <1>0, <1>12, <2>1 DEF PushCompensation, InTurn, TurnInv
    <2>3. /\ Kind(i) = "activity" /\ Program[i].compensates /\ AnswerTo(history, i) = "passed"
          /\ NothingBeyond(history, i) /\ \A n \in 1..Len(stack) : stack[n] < i
        BY <1>0, <2>1, <2>2 DEF AnswerInv, LocalInv, AnswerTo, Passed
    <2>4. \A j \in Sites : j > i => AnswerTo(history, j) = "none" /\ Attempts(history, j) = 0
        BY <1>0, <2>3, Beyond
    <2>5. Durable!Stack(i)
        BY <2>2, <2>3, <2>4 DEF Durable!Stack, Attempts
    <2>. QED
        BY <2>5 DEF Durable!RunNext
<1>13. CASE RecordOutcome(l)
    <2>1. PICK t \in {"workflow_completed", "workflow_failed"} : Record(t, 0, 1)
        BY <1>13 DEF RecordOutcome
    <2>2. PICK e \in Event : e.site = 0 /\ history' = Append(history, e)
        BY <2>1, EventRecorded DEF EventTypes
    <2>. QED
        BY <1>0, <1>13, <2>2, NothingNewAtNone, NothingNew DEF RecordOutcome
<1>14. CASE CloseRun(l)
    <2>1. /\ loop[l].pc = "close" /\ UNCHANGED <<history, stack>>
          /\ state' = IF loop[l].verdict = "completed" THEN "completed" ELSE "failed"
        BY <1>14 DEF CloseRun
    <2>2. CASE loop[l].verdict = "completed"
        <3>1. state = "running" /\ PassedAll(history)
            BY <1>0, <2>1, <2>2 DEF AnswerInv, LocalInv
        <3>2. Durable!Complete
            BY <2>1, <2>2, <3>1 DEF Durable!Complete, PassedAll, AnswerTo
        <3>. QED
            BY <3>2 DEF Durable!RunNext
    <2>3. CASE loop[l].verdict # "completed"
        <3>1. state # "absent" /\ state' = "failed"
            BY <1>0, <2>1, <2>3 DEF Terminal
        <3>2. Durable!Fail
            BY <2>1, <3>1 DEF Durable!Fail
        <3>. QED
            BY <3>2 DEF Durable!RunNext
    <2>. QED
        BY <2>2, <2>3
<1>15. ~ ScheduleTimer(l) /\ ~ Sweep(l)
    BY <1>0 DEF ScheduleTimer, Sweep, ReadDueTimers, Orderly, LocalInv
<1>. QED
    BY <1>2, <1>3, <1>5, <1>7, <1>8, <1>9, <1>10, <1>11, <1>12, <1>13, <1>14, <1>15 DEF Turn

(* Every step of the system is a step of DurableRun, or none.              *)
LEMMA DurableStep ==
    ASSUME Orderly, IInv, LeaseInv, TurnsInv, RunInv, [Next]_vars
    PROVE  [Durable!RunNext]_(Durable!runVars)
<1>1. CASE UNCHANGED vars
    BY <1>1, NothingNew
<1>2. CASE Next
    BY <1>2, DurableOutside, DurableLoop DEF Next
<1>. QED
    BY <1>1, <1>2

(* A fresh run is a fresh DurableRun.                                      *)
LEMMA DurableInit == Init => Durable!RunInit
<1>1. ASSUME Init, NEW i \in Sites
      PROVE  AnswerTo(history, i) = "none" /\ Attempts(history, i) = 0
    BY <1>1, FS_EmptySet DEF Init, AnswerTo, Passed, Throws, Has, Attempts, Scheduled
<1>. QED
    BY <1>1 DEF Init, Durable!RunInit, Attempts

(* In such a deployment the workflow function cannot tell that its run is  *)
(* leased, crashed, retried and replayed: every step of the executor is a  *)
(* step of DurableRun, or one of which the function sees nothing.          *)
THEOREM RunsAreDurable ==
    ASSUME Orderly
    PROVE  Spec => ImplementsDurableRun
<1>1. Init => LeaseInv /\ TurnsInv /\ RunInv /\ Durable!RunInit
    BY LeaseInit, TurnsInit, RunInvInit, DurableInit
<1>2. IInv /\ LeaseInv /\ TurnsInv /\ RunInv /\ [Next]_vars => LeaseInv' /\ TurnsInv' /\ RunInv'
    BY LeaseStep, TurnsStep, RunInvStep
<1>3. IInv /\ LeaseInv /\ TurnsInv /\ RunInv /\ [Next]_vars =>
        [Durable!RunNext]_(Durable!runVars)
    BY DurableStep
<1>. QED
    BY <1>1, <1>2, <1>3, Invariance, PTL DEF Spec, ImplementsDurableRun, Durable!RunSpec
=============================================================================
