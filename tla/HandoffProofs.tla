--------------------------- MODULE HandoffProofs ---------------------------
(* Proofs about Handoff, for every set of hand-offs, people, questions,    *)
(* requests and sweeps, and every bound.                                   *)
EXTENDS Handoff, TLAPS

(* The nonces that are out are those of the issue; an escalated row        *)
(* expects the one its escalation made.                                    *)
NoncesOut ==
    /\ \A m \in inbox : m[2][2] = 0
    /\ \A h \in Handoffs : rows[h].state = "escalated" => rows[h].hash.nonce = <<h, 1>>

(* Nothing is recorded of a hand-off before it is issued.                  *)
AbsentIsEmpty == \A h \in Handoffs : rows[h].state = "absent" => log[h] = <<>>

(* The inductive invariant.                                                *)
IInv ==
    /\ TypeOK /\ NoncesOut /\ AbsentIsEmpty
    /\ ClosedOnce /\ AssigneeNeverClosesAlone /\ WaitingHasFirstApproval /\ EscalatedOnce

-----------------------------------------------------------------------------
(* What the writers of a row leave in it.                                  *)

(* issue writes a row that awaits its assignee.                            *)
LEMMA IssuedRow ==
    ASSUME NEW h \in Handoffs, NEW q \in Questions
    PROVE  /\ Issued(h, q) \in Row
           /\ Issued(h, q).state = "awaiting_action"
           /\ ~ Issued(h, q).spent /\ Issued(h, q).escalations = 0
<1>1. q \in Question
    BY InputAssumption
<1>2. Hash(q.version, q.assignee, <<h, 0>>) \in HashOf
    BY <1>1 DEF Hash, HashOf, Question, Nonces
<1>. QED
    BY <1>1, <1>2 DEF Issued, Question, Row, States

(* act changes the state of a row and whether its nonce is spent.          *)
LEMMA WrittenRow ==
    ASSUME NEW r \in Row, NEW q \in Requests
    PROVE  /\ Written(r, q) \in Row
           /\ Written(r, q).state = IF AwaitingSecond(r, q) THEN "awaiting_second_approver"
                                                            ELSE "actioned"
           /\ Written(r, q).spent = ~ AwaitingSecond(r, q)
           /\ Written(r, q).assignee = r.assignee /\ Written(r, q).second = r.second
           /\ Written(r, q).dual = r.dual /\ Written(r, q).escalations = r.escalations
           /\ Written(r, q).hash = r.hash
<1>. DEFINE w == AwaitingSecond(r, q)
<1>1. w \in BOOLEAN
    BY DEF AwaitingSecond, Row
<1>2. (IF w THEN "awaiting_second_approver" ELSE "actioned") \in States
    BY DEF States
<1>. HIDE DEF w
<1>3. Written(r, q) = [r EXCEPT !.state = IF w THEN "awaiting_second_approver" ELSE "actioned",
                                !.spent = ~ w]
    BY DEF Written, w
<1>. QED
    BY <1>1, <1>2, <1>3 DEF Row, w

(* escalate hands a row to the target under a nonce nobody was sent.       *)
LEMMA ReassignedRow ==
    ASSUME NEW h \in Handoffs, NEW r \in Row, target \in Principals
    PROVE  /\ Reassigned(r, h) \in Row
           /\ Reassigned(r, h).state = "escalated" /\ ~ Reassigned(r, h).spent
           /\ Reassigned(r, h).escalations = r.escalations + 1
           /\ Reassigned(r, h).hash.nonce = <<h, 1>>
           /\ Reassigned(r, h).dual = r.dual /\ Reassigned(r, h).second = r.second
<1>1. Hash(r.version, target, <<h, 1>>) \in HashOf
    BY DEF Hash, HashOf, Nonces, Row
<1>2. r.escalations + 1 \in Nat
    BY DEF Row
<1>. QED
    BY <1>1, <1>2 DEF Reassigned, Row, States, Hash

(* Time passes over a row and changes nothing else of it.                  *)
LEMMA TimeFacts ==
    ASSUME TypeOK, NEW h \in Handoffs, Lapse(h) \/ Breach(h)
    PROVE  /\ rows' \in [Handoffs -> Row] /\ UNCHANGED <<log, inbox, target, todo, faults>>
           /\ \A g \in Handoffs :
                 /\ rows'[g].state = rows[g].state /\ rows'[g].assignee = rows[g].assignee
                 /\ rows'[g].second = rows[g].second /\ rows'[g].dual = rows[g].dual
                 /\ rows'[g].hash = rows[g].hash /\ rows'[g].spent = rows[g].spent
                 /\ rows'[g].escalations = rows[g].escalations
<1>. DEFINE late == [rows[h] EXCEPT !.lapsed = TRUE]
            over == [rows[h] EXCEPT !.breached = TRUE]
<1>1. rows[h] \in Row
    BY DEF TypeOK
<1>2. \A r \in {late, over} :
          /\ r \in Row /\ r.state = rows[h].state /\ r.assignee = rows[h].assignee
          /\ r.second = rows[h].second /\ r.dual = rows[h].dual /\ r.hash = rows[h].hash
          /\ r.spent = rows[h].spent /\ r.escalations = rows[h].escalations
    BY <1>1 DEF Row
<1>3. PICK r \in {late, over} : rows' = [rows EXCEPT ![h] = r]
    BY DEF Lapse, Breach
<1>4. UNCHANGED <<log, inbox, target, todo, faults>>
    BY DEF Lapse, Breach
<1>. HIDE DEF late, over
<1>. QED
    BY <1>2, <1>3, <1>4 DEF TypeOK

(* A recorded action: who took it, on what row, with which nonce.          *)
LEMMA ActFacts ==
    ASSUME IInv, NEW h \in Handoffs, NEW q \in Requests, NEW n \in Nonces, Act(h, q, n)
    PROVE  /\ rows[h] \in Row /\ rows[h].state \in Open /\ ~ rows[h].spent
           /\ rows' = [rows EXCEPT ![h] = Written(rows[h], q)]
           /\ \E e \in Entry :
                 /\ e.actor = q.actor /\ e.move = q.move
                 /\ e.closes = ~ AwaitingSecond(rows[h], q)
                 /\ log' = [log EXCEPT ![h] = Append(log[h], e)]
           /\ IsAssignee(rows[h], q) \/ IsSecond(rows[h], q)
           /\ ~ (rows[h].dual /\ IsAssignee(rows[h], q) /\ IsSecond(rows[h], q))
           /\ UNCHANGED inbox
<1>. DEFINE e == [actor |-> q.actor, move |-> q.move, nonce |-> n,
                  closes |-> ~ AwaitingSecond(rows[h], q)]
<1>1. rows[h] \in Row
    BY DEF IInv, TypeOK
<1>2. e \in Entry
    BY InputAssumption DEF Entry, Request
<1>3. rows[h].state # "escalated"
    <2>1. n[2] = 0 /\ rows[h].hash.nonce = n
        BY DEF Act, Accepted, IInv, NoncesOut, Hash
    <2>. QED
        BY <2>1 DEF IInv, NoncesOut
<1>4. rows[h].state \in Open /\ ~ rows[h].spent
    BY <1>1, <1>3 DEF Act, Accepted, IInv, ClosedOnce, Row, States, Open
<1>. QED
    BY <1>1, <1>2, <1>4 DEF Act, Accepted

-----------------------------------------------------------------------------
(* The invariant, one conjunct at a time.                                  *)

(* Every write of a row is one of those above, or passes time.             *)
LEMMA TypeStep == ASSUME IInv, [Next]_vars PROVE TypeOK'
<1>. USE DEF IInv, TypeOK
<1>1. ASSUME NEW h \in Handoffs, NEW q \in Questions, Issue(h, q)
      PROVE  TypeOK'
    <2>1. \A p \in q.sentTo : p \in Principals
        BY InputAssumption DEF Question
    <2>. QED
        BY <1>1, <2>1, IssuedRow DEF Issue, Nonces
<1>2. ASSUME NEW h \in Handoffs, NEW q \in Requests, NEW n \in Nonces, Act(h, q, n)
      PROVE  TypeOK'
    <2>1. PICK e \in Entry : log' = [log EXCEPT ![h] = Append(log[h], e)]
        BY <1>2, ActFacts
    <2>. QED
        BY <1>2, <2>1, ActFacts, WrittenRow DEF Act
<1>3. ASSUME NEW h \in Handoffs, Lapse(h) \/ Breach(h)
      PROVE  TypeOK'
    BY <1>3, TimeFacts
<1>4. ASSUME NEW s \in Sweepers, NEW h \in Handoffs, Escalate(s, h)
      PROVE  TypeOK'
    BY <1>4, ReassignedRow DEF Escalate, Advance
<1>5. ASSUME NEW s \in Sweepers,
             \/ Sweep(s) \/ Abort(s)
             \/ \E h \in Handoffs : PassOver(s, h) \/ Throw(s, h)
      PROVE  TypeOK'
    <2>1. UNCHANGED <<rows, log, inbox, target>> /\ faults' \in Nat
        BY <1>5 DEF Sweep, Abort, PassOver, Throw
    <2>2. PICK T \in SUBSET Handoffs : todo' = [todo EXCEPT ![s] = T]
        <3>1. CASE Sweep(s)
            BY <3>1 DEF Sweep, Breached
        <3>2. CASE Abort(s) \/ \E h \in Handoffs : Throw(s, h)
            BY <3>2 DEF Abort, Throw
        <3>3. ASSUME NEW h \in Handoffs, PassOver(s, h)
              PROVE  todo' = [todo EXCEPT ![s] = todo[s] \ {h}]
            BY <3>3 DEF PassOver, Advance
        <3>. QED
            BY <1>5, <3>1, <3>2, <3>3
    <2>3. todo' \in [Sweepers -> SUBSET Handoffs]
        BY <2>2
    <2>. QED
        BY <2>1, <2>3
<1>6. CASE UNCHANGED vars
    BY <1>6 DEF vars
<1>. QED
    BY <1>1, <1>2, <1>3, <1>4, <1>5, <1>6 DEF Next, Run

(* The rest of the invariant, through each of the writers.                 *)
LEMMA SafetyStep ==
    ASSUME IInv, [Next]_vars
    PROVE  /\ NoncesOut' /\ AbsentIsEmpty' /\ ClosedOnce'
           /\ AssigneeNeverClosesAlone' /\ WaitingHasFirstApproval' /\ EscalatedOnce'
<1>. DEFINE Goal == /\ NoncesOut /\ AbsentIsEmpty /\ ClosedOnce
                    /\ AssigneeNeverClosesAlone /\ WaitingHasFirstApproval /\ EscalatedOnce
<1>0. TypeOK'
    BY TypeStep
<1>1. ASSUME NEW h \in Handoffs, NEW q \in Questions, Issue(h, q)
      PROVE  Goal'
    <2>1. /\ rows' = [rows EXCEPT ![h] = Issued(h, q)] /\ log' = log /\ log[h] = <<>>
        BY <1>1 DEF Issue, IInv, AbsentIsEmpty
    <2>2. NoncesOut'
        BY <1>1, <2>1, IssuedRow DEF Issue, IInv, TypeOK, NoncesOut
    <2>3. AbsentIsEmpty'
        BY <2>1, IssuedRow DEF IInv, TypeOK, AbsentIsEmpty
    <2>4. ClosedOnce' /\ AssigneeNeverClosesAlone' /\ WaitingHasFirstApproval' /\ EscalatedOnce'
        <3>1. /\ rows'[h] = Issued(h, q) /\ Len(log'[h]) = 0
              /\ \A g \in Handoffs \ {h} : rows'[g] = rows[g] /\ log'[g] = log[g]
            BY <2>1 DEF IInv, TypeOK
        <3>2. /\ rows'[h].state = "awaiting_action" /\ ~ rows'[h].spent
              /\ rows'[h].escalations = 0 /\ 1..Len(log'[h]) = {}
            BY <3>1, IssuedRow
        <3>. QED
            BY <3>1, <3>2
               DEF IInv, ClosedOnce, AssigneeNeverClosesAlone, WaitingHasFirstApproval, EscalatedOnce
    <2>. QED
        BY <2>2, <2>3, <2>4
<1>2. ASSUME NEW h \in Handoffs, NEW q \in Requests, NEW n \in Nonces, Act(h, q, n)
      PROVE  Goal'
    <2>. DEFINE waits == AwaitingSecond(rows[h], q)
    <2>1. PICK e \in Entry :
              /\ e.actor = q.actor /\ e.move = q.move /\ e.closes = ~ waits
              /\ log' = [log EXCEPT ![h] = Append(log[h], e)]
        BY <1>2, ActFacts
    <2>2. /\ rows' = [rows EXCEPT ![h] = Written(rows[h], q)] /\ UNCHANGED inbox
          /\ rows[h] \in Row /\ rows[h].state \in Open
        BY <1>2, ActFacts
    <2>3. /\ \A g \in Handoffs \ {h} : rows'[g] = rows[g] /\ log'[g] = log[g]
          /\ rows'[h] = Written(rows[h], q) /\ log'[h] = Append(log[h], e)
        <3>1. DOMAIN rows = Handoffs /\ DOMAIN log = Handoffs
            BY DEF IInv, TypeOK
        <3>. QED
            BY <2>1, <2>2, <3>1
    <2>4. /\ log[h] \in Seq(Entry) /\ Len(log'[h]) = Len(log[h]) + 1
          /\ \A i \in 1..Len(log[h]) : log'[h][i] = log[h][i] /\ ~ log[h][i].closes
          /\ log'[h][Len(log'[h])] = e
        BY <2>2, <2>3 DEF IInv, TypeOK, ClosedOnce, Open
    <2>5. /\ rows'[h].state = IF waits THEN "awaiting_second_approver" ELSE "actioned"
          /\ rows'[h].spent = ~ waits
          /\ rows'[h].assignee = rows[h].assignee /\ rows'[h].second = rows[h].second
          /\ rows'[h].dual = rows[h].dual /\ rows'[h].escalations = rows[h].escalations
        BY <2>2, <2>3, WrittenRow
    <2>6. waits <=> rows[h].dual /\ q.move \in Approvals /\ IsAssignee(rows[h], q)
        BY DEF AwaitingSecond
    <2>7. NoncesOut' /\ AbsentIsEmpty' /\ EscalatedOnce'
        BY <2>2, <2>3, <2>5 DEF IInv, NoncesOut, AbsentIsEmpty, EscalatedOnce, Open
    <2>8. ClosedOnce'
        <3>1. ASSUME NEW i \in 1..Len(log'[h])
              PROVE  log'[h][i].closes <=> i = Len(log'[h]) /\ rows'[h].state = "actioned"
            <4>1. Len(log[h]) \in Nat
                BY <2>4
            <4>2. CASE i = Len(log'[h])
                BY <2>1, <2>4, <2>5, <4>2
            <4>3. CASE i # Len(log'[h])
                <5>1. i \in 1..Len(log[h])
                    BY <2>4, <4>1, <4>3
                <5>. QED
                    BY <2>4, <4>3, <5>1
            <4>. QED
                BY <4>2, <4>3
        <3>2. rows'[h].spent <=> rows'[h].state = "actioned"
            BY <2>5
        <3>3. ASSUME NEW g \in Handoffs \ {h}
              PROVE  /\ rows'[g].spent <=> rows'[g].state = "actioned"
                     /\ \A i \in 1..Len(log'[g]) :
                           log'[g][i].closes <=> i = Len(log'[g]) /\ rows'[g].state = "actioned"
            BY <2>3, <3>3 DEF IInv, ClosedOnce
        <3>. QED
            BY <3>1, <3>2, <3>3 DEF ClosedOnce
    <2>9. AssigneeNeverClosesAlone'
        <3>1. ASSUME NEW i \in 1..Len(log'[h]), rows'[h].dual, log'[h][i].closes,
                     log'[h][i].move \in Approvals
              PROVE  log'[h][i].actor = rows'[h].second /\ log'[h][i].actor # rows'[h].assignee
            <4>1. i = Len(log'[h]) /\ log'[h][i] = e
                BY <2>4, <3>1
            <4>2. ~ waits /\ q.move \in Approvals /\ rows[h].dual
                BY <2>1, <2>5, <3>1, <4>1
            <4>3. ~ IsAssignee(rows[h], q) /\ IsSecond(rows[h], q)
                BY <1>2, <2>6, <4>2, ActFacts
            <4>. QED
                BY <2>1, <2>5, <4>1, <4>3 DEF IsAssignee, IsSecond
        <3>2. ASSUME NEW g \in Handoffs \ {h}, NEW i \in 1..Len(log'[g]),
                     rows'[g].dual, log'[g][i].closes, log'[g][i].move \in Approvals
              PROVE  log'[g][i].actor = rows'[g].second /\ log'[g][i].actor # rows'[g].assignee
            BY <2>3, <3>2 DEF IInv, AssigneeNeverClosesAlone
        <3>. QED
            BY <3>1, <3>2 DEF AssigneeNeverClosesAlone
    <2>10. WaitingHasFirstApproval'
        <3>1. CASE waits
            <4>1. /\ Len(log'[h]) \in 1..Len(log'[h])
                  /\ log'[h][Len(log'[h])].actor = rows'[h].assignee
                  /\ log'[h][Len(log'[h])].move \in Approvals
                BY <2>1, <2>4, <2>5, <2>6, <3>1 DEF IsAssignee
            <4>. QED
                BY <2>3, <4>1 DEF IInv, WaitingHasFirstApproval
        <3>2. CASE ~ waits
            BY <2>3, <2>5, <3>2 DEF IInv, WaitingHasFirstApproval
        <3>. QED
            BY <3>1, <3>2
    <2>. QED
        BY <2>7, <2>8, <2>9, <2>10
<1>3. ASSUME NEW h \in Handoffs, Lapse(h) \/ Breach(h)
      PROVE  Goal'
    <2>1. /\ UNCHANGED <<log, inbox>>
          /\ \A g \in Handoffs :
                /\ rows'[g].state = rows[g].state /\ rows'[g].assignee = rows[g].assignee
                /\ rows'[g].second = rows[g].second /\ rows'[g].dual = rows[g].dual
                /\ rows'[g].hash = rows[g].hash /\ rows'[g].spent = rows[g].spent
                /\ rows'[g].escalations = rows[g].escalations
        BY <1>3, TimeFacts DEF IInv
    <2>. QED
        BY <2>1 DEF IInv, NoncesOut, AbsentIsEmpty, ClosedOnce, AssigneeNeverClosesAlone,
                    WaitingHasFirstApproval, EscalatedOnce
<1>4. ASSUME NEW s \in Sweepers, NEW h \in Handoffs, Escalate(s, h)
      PROVE  Goal'
    <2>1. /\ \A g \in Handoffs \ {h} : rows'[g] = rows[g]
          /\ rows'[h] = Reassigned(rows[h], h) /\ UNCHANGED <<log, inbox>>
          /\ rows[h] \in Row /\ rows[h].state \in Open /\ target \in Principals
        BY <1>4 DEF Escalate, IInv, TypeOK
    <2>2. /\ rows'[h].state = "escalated" /\ ~ rows'[h].spent
          /\ rows'[h].escalations = rows[h].escalations + 1 /\ rows'[h].hash.nonce = <<h, 1>>
        BY <2>1, ReassignedRow
    <2>3. \A i \in 1..Len(log[h]) : ~ log[h][i].closes
        BY <2>1 DEF IInv, ClosedOnce, Open
    <2>4. rows[h].escalations = 0
        BY <2>1 DEF IInv, EscalatedOnce, Open
    <2>5. NoncesOut' /\ AbsentIsEmpty' /\ EscalatedOnce' /\ WaitingHasFirstApproval'
        BY <2>1, <2>2, <2>4 DEF IInv, NoncesOut, AbsentIsEmpty, EscalatedOnce, WaitingHasFirstApproval
    <2>6. ClosedOnce' /\ AssigneeNeverClosesAlone'
        BY <2>1, <2>2, <2>3 DEF IInv, ClosedOnce, AssigneeNeverClosesAlone
    <2>. QED
        BY <2>5, <2>6
<1>5. CASE UNCHANGED <<rows, log, inbox>>
    BY <1>5 DEF IInv, NoncesOut, AbsentIsEmpty, ClosedOnce, AssigneeNeverClosesAlone,
                WaitingHasFirstApproval, EscalatedOnce
<1>. QED
    BY <1>1, <1>2, <1>3, <1>4, <1>5
       DEF Next, Run, Sweep, PassOver, Throw, Abort, vars

(* Type correctness and the four safety invariants, proved together.       *)
THEOREM HandoffInvariance == Spec => []IInv
<1>1. Init => IInv
    BY DEF Init, IInv, TypeOK, Absent, Row, States, Versions, NoncesOut, AbsentIsEmpty, ClosedOnce,
           AssigneeNeverClosesAlone, WaitingHasFirstApproval, EscalatedOnce
<1>2. IInv /\ [Next]_vars => IInv'
    BY TypeStep, SafetyStep DEF IInv
<1>. QED
    BY <1>1, <1>2, PTL DEF Spec

(* The state is well typed.                                                *)
THEOREM HandoffTypeCorrect == Spec => []TypeOK
<1>1. IInv => TypeOK
    BY DEF IInv
<1>. QED
    BY <1>1, HandoffInvariance, PTL

(* However the assignee, the second approver and the sweep interleave, the *)
(* approval that closes a dual-control hand-off is not the assignee's.     *)
THEOREM AssigneeDoesNotCloseAlone == Spec => []AssigneeNeverClosesAlone
<1>1. IInv => AssigneeNeverClosesAlone
    BY DEF IInv
<1>. QED
    BY <1>1, HandoffInvariance, PTL

(* A hand-off is closed by one action, its last, which spends its nonce.   *)
THEOREM ActionsCloseOnce == Spec => []ClosedOnce
<1>1. IInv => ClosedOnce
    BY DEF IInv
<1>. QED
    BY <1>1, HandoffInvariance, PTL

(* Overlapping sweeps escalate a hand-off at most once.                    *)
THEOREM SweepsEscalateOnce == Spec => []EscalatedOnce
<1>1. IInv => EscalatedOnce
    BY DEF IInv
<1>. QED
    BY <1>1, HandoffInvariance, PTL

(* The steps that can touch a closed hand-off only pass its time.          *)
THEOREM DecisionsNeverReopen == Spec => DecisionsStand
<1>. DEFINE Stands ==
        \A h \in Handoffs :
            rows[h].state = "actioned" =>
                /\ rows'[h].state = "actioned" /\ log'[h] = log[h]
                /\ rows'[h].assignee = rows[h].assignee /\ rows'[h].spent
<1>1. ASSUME IInv, [Next]_vars
      PROVE  [Stands]_vars
    <2>1. ASSUME NEW h \in Handoffs, NEW q \in Questions, Issue(h, q)
          PROVE  Stands
        BY <1>1, <2>1 DEF Issue, IInv, TypeOK, ClosedOnce
    <2>2. ASSUME NEW h \in Handoffs, NEW q \in Requests, NEW n \in Nonces, Act(h, q, n)
          PROVE  Stands
        BY <1>1, <2>2, ActFacts DEF Act, Open, IInv, TypeOK, ClosedOnce
    <2>3. ASSUME NEW h \in Handoffs, Lapse(h) \/ Breach(h)
          PROVE  Stands
        BY <1>1, <2>3, TimeFacts DEF IInv, ClosedOnce
    <2>4. ASSUME NEW s \in Sweepers, NEW h \in Handoffs, Escalate(s, h)
          PROVE  Stands
        BY <1>1, <2>4 DEF Escalate, Open, IInv, TypeOK, ClosedOnce
    <2>5. CASE UNCHANGED <<rows, log>>
        BY <1>1, <2>5 DEF IInv, ClosedOnce
    <2>. QED
        BY <1>1, <2>1, <2>2, <2>3, <2>4, <2>5
           DEF Next, Run, Sweep, PassOver, Throw, Abort, vars
<1>. QED
    BY <1>1, HandoffInvariance, PTL DEF Spec, DecisionsStand

(* No nonce that is out opens an escalated hand-off.                       *)
THEOREM EscalatedRecordsNothing == Spec => EscalationVoidsNonces
<1>. DEFINE Frozen == \A h \in Handoffs : rows[h].state = "escalated" => log'[h] = log[h]
<1>1. ASSUME IInv, [Next]_vars
      PROVE  [Frozen]_vars
    <2>1. ASSUME NEW h \in Handoffs, NEW q \in Requests, NEW n \in Nonces, Act(h, q, n)
          PROVE  Frozen
        BY <1>1, <2>1, ActFacts DEF Act, Open, IInv, TypeOK
    <2>2. CASE UNCHANGED log
        BY <2>2
    <2>. QED
        BY <1>1, <2>1, <2>2
           DEF Next, Run, Issue, Lapse, Breach, Sweep, Escalate, PassOver, Throw, Abort, vars
<1>. QED
    BY <1>1, HandoffInvariance, PTL DEF Spec, EscalationVoidsNonces

(* A hand-off that awaits its second approver has its first approval.      *)
THEOREM WaitingWasApproved == Spec => []WaitingHasFirstApproval
<1>1. IInv => WaitingHasFirstApproval
    BY DEF IInv
<1>. QED
    BY <1>1, HandoffInvariance, PTL

(* A nonce becomes spent in the step that records the action it was for.   *)
THEOREM SpendingIsRecorded == Spec => OnlyARecordSpends
<1>. DEFINE Recorded ==
        \A h \in Handoffs :
            ~ rows[h].spent /\ rows'[h].spent => Len(log'[h]) = Len(log[h]) + 1
<1>1. ASSUME IInv, [Next]_vars
      PROVE  [Recorded]_vars
    <2>1. ASSUME NEW h \in Handoffs, NEW q \in Questions, Issue(h, q)
          PROVE  Recorded
        BY <1>1, <2>1, IssuedRow DEF Issue, IInv, TypeOK
    <2>2. ASSUME NEW h \in Handoffs, NEW q \in Requests, NEW n \in Nonces, Act(h, q, n)
          PROVE  Recorded
        <3>1. PICK e \in Entry : log' = [log EXCEPT ![h] = Append(log[h], e)]
            BY <1>1, <2>2, ActFacts
        <3>2. /\ Len(log'[h]) = Len(log[h]) + 1
              /\ \A g \in Handoffs \ {h} : rows'[g] = rows[g]
            BY <1>1, <2>2, <3>1, ActFacts DEF IInv, TypeOK
        <3>. QED
            BY <3>2
    <2>3. ASSUME NEW h \in Handoffs, Lapse(h) \/ Breach(h)
          PROVE  Recorded
        BY <1>1, <2>3, TimeFacts DEF IInv
    <2>4. ASSUME NEW s \in Sweepers, NEW h \in Handoffs, Escalate(s, h)
          PROVE  Recorded
        <3>1. rows[h] \in Row /\ target \in Principals
            BY <1>1, <2>4 DEF Escalate, IInv, TypeOK
        <3>. QED
            BY <1>1, <2>4, <3>1, ReassignedRow DEF Escalate, IInv, TypeOK
    <2>5. CASE UNCHANGED rows
        BY <2>5
    <2>. QED
        BY <1>1, <2>1, <2>2, <2>3, <2>4, <2>5
           DEF Next, Run, Sweep, PassOver, Throw, Abort, vars
<1>. QED
    BY <1>1, HandoffInvariance, PTL DEF Spec, OnlyARecordSpends
=============================================================================
