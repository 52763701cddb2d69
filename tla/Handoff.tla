------------------------------ MODULE Handoff ------------------------------
(***************************************************************************)
(* L9, the hand-off: HandoffService issues a question to one assignee,    *)
(* reviewers act on it through POST /v1/handoffs/:id/actions with the      *)
(* nonce they were sent, and the worker's SLA sweep escalates what is      *)
(* late. act and escalate are one transaction each, under the row lock, so *)
(* each is one action; a sweep reads its list in one transaction and works *)
(* it off in others, and two sweeps may overlap.                           *)
(***************************************************************************)
EXTENDS Integers, Sequences

CONSTANTS
    Handoffs,       \* the hand-offs, numbered in the order they are issued
    Principals,     \* the people who may be assigned, and act
    Questions,      \* the inputs issue is called with
    Requests,       \* the bodies the action route is called with
    Sweepers,       \* executions of the sweep that may overlap
    None,
    MaxActions, MaxFaults                                \* bounds

Versions == 1..2                                         \* bundle_version
Channels == {"chat", "email", "voice"}
Approvals == {"approve", "edit_and_approve"}
Moves == Approvals \cup {"reject_with_reason", "reassign"}
Nonces == Handoffs \X (0..1)                             \* of the issue, of an escalation
Question == [assignee : Principals, second : Principals \cup {None}, dual : BOOLEAN,
             version : Versions, approval : SUBSET Channels, sentTo : SUBSET Principals]
Request == [actor : Principals, move : Moves, version : Versions, hash : BOOLEAN,
            diff : BOOLEAN, materiality : BOOLEAN, reason : BOOLEAN]

(* The action route has no field for the materiality of an edit.           *)
ASSUME InputAssumption ==
    /\ Handoffs \subseteq Nat /\ None \notin Principals
    /\ Questions \subseteq Question /\ Requests \subseteq Request
    /\ \A q \in Requests : ~ q.materiality
ASSUME BoundAssumption == MaxActions \in Nat /\ MaxFaults \in Nat

VARIABLES
    rows,           \* handoffs
    log,            \* reviewer_actions of each hand-off, in order
    inbox,          \* who was sent which nonce
    target,         \* AS-PPL-ESC-001, None when it does not resolve
    todo,           \* what each running sweep has yet to escalate
    faults          \* what the bound counts

vars == <<rows, log, inbox, target, todo, faults>>

States == {"absent", "awaiting_action", "awaiting_second_approver", "actioned", "escalated"}
Open == {"awaiting_action", "awaiting_second_approver"}

(* nonce_hash: what the stored hash was computed from.                     *)
Hash(v, p, n) == [version |-> v, assignee |-> p, nonce |-> n]
HashOf == [version : Versions, assignee : Principals, nonce : Nonces]

(* lapsed: nonce_expires_at is past on the API's clock. breached:          *)
(* sla_due_at is past on the database's.                                   *)
Row == [state : States, assignee : Principals \cup {None}, second : Principals \cup {None},
        dual : BOOLEAN, version : Versions, hash : HashOf \cup {None}, spent : BOOLEAN,
        lapsed : BOOLEAN, breached : BOOLEAN, escalations : Nat]
Absent == [state |-> "absent", assignee |-> None, second |-> None, dual |-> FALSE,
           version |-> 1, hash |-> None, spent |-> FALSE, lapsed |-> FALSE,
           breached |-> FALSE, escalations |-> 0]
Entry == [actor : Principals, move : Moves, nonce : Nonces, closes : BOOLEAN]

TypeOK ==
    /\ rows \in [Handoffs -> Row]
    /\ log \in [Handoffs -> Seq(Entry)]
    /\ inbox \subseteq Principals \X Nonces
    /\ target \in Principals \cup {None}
    /\ todo \in [Sweepers -> SUBSET Handoffs]
    /\ faults \in Nat

Init ==
    /\ rows = [h \in Handoffs |-> Absent]
    /\ log = [h \in Handoffs |-> <<>>]
    /\ inbox = {}
    /\ target \in Principals \cup {None}
    /\ todo = [s \in Sweepers |-> {}]
    /\ faults = 0

-----------------------------------------------------------------------------
(* Issue, and the time it gives.                                           *)

(* handoffs_dual_control_has_second.                                       *)
HasSecond(r) == r.dual => r.second # None \/ r.state \in {"absent", "awaiting_action"}

Issued(h, q) ==
    [state |-> "awaiting_action", assignee |-> q.assignee, second |-> q.second,
     dual |-> q.dual, version |-> q.version, hash |-> Hash(q.version, q.assignee, <<h, 0>>),
     spent |-> FALSE, lapsed |-> FALSE, breached |-> FALSE, escalations |-> 0]

(* The nonce leaves in the package: whoever is sent it can present it.     *)
Issue(h, q) ==
    /\ rows[h].state = "absent"
    /\ \A g \in Handoffs : g < h => rows[g].state # "absent"
    /\ q.approval \cap {"chat", "email"} # {}
    /\ rows' = [rows EXCEPT ![h] = Issued(h, q)]
    /\ inbox' = inbox \cup {<<p, <<h, 0>>>> : p \in q.sentTo}
    /\ UNCHANGED <<log, target, todo, faults>>

Lapse(h) ==
    /\ rows[h].state # "absent" /\ ~ rows[h].lapsed
    /\ rows' = [rows EXCEPT ![h].lapsed = TRUE]
    /\ UNCHANGED <<log, inbox, target, todo, faults>>

Breach(h) ==
    /\ rows[h].state # "absent" /\ ~ rows[h].breached
    /\ rows' = [rows EXCEPT ![h].breached = TRUE]
    /\ UNCHANGED <<log, inbox, target, todo, faults>>

-----------------------------------------------------------------------------
(* HandoffService.act.                                                     *)

IsAssignee(r, q) == q.actor = r.assignee
IsSecond(r, q) == q.actor = r.second

(* Mutation: a spent nonce is accepted again.                              *)
Bug_Replayed(r, q, n) ==
    /\ q.version = r.version
    /\ IsAssignee(r, q) \/ IsSecond(r, q)
    /\ ~ (r.dual /\ IsAssignee(r, q) /\ IsSecond(r, q))
    /\ ~ r.lapsed
    /\ Hash(r.version, r.assignee, n) = r.hash

(* The checks that refuse without spending: the version, the actor, the    *)
(* two people, the nonce unspent, in time, and the one that was issued.    *)
Accepted(r, q, n) ==
    /\ q.version = r.version
    /\ IsAssignee(r, q) \/ IsSecond(r, q)
    /\ ~ (r.dual /\ IsAssignee(r, q) /\ IsSecond(r, q))
    /\ ~ r.spent /\ ~ r.lapsed
    /\ Hash(r.version, r.assignee, n) = r.hash

(* The CHECKs of reviewer_actions: a violation rolls back the spend too.   *)
Recordable(q) ==
    /\ q.move \in Approvals => q.hash
    /\ q.move = "edit_and_approve" => q.materiality /\ q.diff
    /\ q.move = "reject_with_reason" => q.reason

(* Mutation: whether it is the first approval is asked of the state.       *)
Bug_FirstByState(r, q) ==
    r.dual /\ q.move \in Approvals /\ r.state = "awaiting_action"

AwaitingSecond(r, q) == r.dual /\ q.move \in Approvals /\ IsAssignee(r, q)

(* While it awaits the second approver the nonce is unspent again, and it  *)
(* is the same nonce.                                                      *)
Written(r, q) ==
    LET waits == AwaitingSecond(r, q)
    IN  [r EXCEPT !.state = IF waits THEN "awaiting_second_approver" ELSE "actioned",
                  !.spent = ~ waits]

(* A recorded action; a refused one changes nothing.                       *)
Act(h, q, n) ==
    /\ rows[h].state # "absent" /\ Len(log[h]) < MaxActions
    /\ <<q.actor, n>> \in inbox
    /\ Accepted(rows[h], q, n) /\ Recordable(q)
    /\ HasSecond(Written(rows[h], q))
    /\ rows' = [rows EXCEPT ![h] = Written(rows[h], q)]
    /\ log' = [log EXCEPT ![h] = Append(log[h],
          [actor |-> q.actor, move |-> q.move, nonce |-> n,
           closes |-> ~ AwaitingSecond(rows[h], q)])]
    /\ UNCHANGED <<inbox, target, todo, faults>>

-----------------------------------------------------------------------------
(* The handoff-sla-escalation job, and HandoffService.escalate under it.   *)

(* Mutation: a hand-off that waits for its second approver is not swept.   *)
Bug_FirstOnly == {h \in Handoffs : rows[h].state = "awaiting_action" /\ rows[h].breached}

Breached == {h \in Handoffs : rows[h].state \in Open /\ rows[h].breached}

Sweep(s) ==
    /\ todo[s] = {} /\ Breached # {}
    /\ todo' = [todo EXCEPT ![s] = Breached]
    /\ UNCHANGED <<rows, log, inbox, target, faults>>

Oldest(s, h) == h \in todo[s] /\ \A g \in todo[s] : h <= g

(* Mutation: the nonce already out there is hashed for the new assignee.   *)
Bug_NonceKept(r, h) ==
    [r EXCEPT !.state = "escalated", !.assignee = target,
              !.hash = Hash(r.version, target, <<h, 0>>), !.spent = FALSE,
              !.lapsed = FALSE, !.breached = FALSE, !.escalations = r.escalations + 1]

(* A new assignee, a new nonce and new time. The worker drops the nonce    *)
(* escalate returns: nobody is sent it.                                    *)
Reassigned(r, h) ==
    [r EXCEPT !.state = "escalated", !.assignee = target,
              !.hash = Hash(r.version, target, <<h, 1>>), !.spent = FALSE,
              !.lapsed = FALSE, !.breached = FALSE, !.escalations = r.escalations + 1]

Advance(s, h) == todo' = [todo EXCEPT ![s] = @ \ {h}]

(* Mutation: the sweep trusts the list it read.                            *)
Bug_TrustsTheList(s, h) ==
    /\ Oldest(s, h) /\ target # None
    /\ HasSecond(Reassigned(rows[h], h))
    /\ rows' = [rows EXCEPT ![h] = Reassigned(rows[h], h)]
    /\ Advance(s, h)
    /\ UNCHANGED <<log, inbox, target, faults>>

Escalate(s, h) ==
    /\ Oldest(s, h) /\ target # None
    /\ rows[h].state \in Open
    /\ HasSecond(Reassigned(rows[h], h))
    /\ rows' = [rows EXCEPT ![h] = Reassigned(rows[h], h)]
    /\ Advance(s, h)
    /\ UNCHANGED <<log, inbox, target, faults>>

(* No target resolves, or the hand-off is no longer open.                  *)
PassOver(s, h) ==
    /\ Oldest(s, h)
    /\ target = None \/ rows[h].state \notin Open
    /\ Advance(s, h)
    /\ UNCHANGED <<rows, log, inbox, target, faults>>

(* The database refuses the escalation; the job throws and the rest of its *)
(* list goes unread.                                                       *)
Throw(s, h) ==
    /\ Oldest(s, h) /\ target # None
    /\ rows[h].state \in Open
    /\ ~ HasSecond(Reassigned(rows[h], h))
    /\ todo' = [todo EXCEPT ![s] = {}]
    /\ UNCHANGED <<rows, log, inbox, target, faults>>

(* Anything else that ends a sweep midway: a restart, a lost connection,   *)
(* an audit event that cannot be written.                                  *)
Abort(s) ==
    /\ todo[s] # {} /\ faults < MaxFaults
    /\ todo' = [todo EXCEPT ![s] = {}]
    /\ faults' = faults + 1
    /\ UNCHANGED <<rows, log, inbox, target>>

Run(s) == Sweep(s) \/ \E h \in Handoffs : Escalate(s, h) \/ PassOver(s, h) \/ Throw(s, h)

Next ==
    \/ \E h \in Handoffs :
          \/ \E q \in Questions : Issue(h, q)
          \/ \E q \in Requests, n \in Nonces : Act(h, q, n)
          \/ Lapse(h) \/ Breach(h)
    \/ \E s \in Sweepers : Run(s) \/ Abort(s)

Spec == Init /\ [][Next]_vars

(* The interval timer starts each sweep, and a sweep runs on.              *)
FairSpec == Spec /\ \A s \in Sweepers : WF_vars(Run(s))

-----------------------------------------------------------------------------
(* What the hand-off promises.                                             *)

(* A dual-control hand-off that was closed by an approval was closed by    *)
(* its second approver, who is not its assignee: however often the         *)
(* assignee approves while it waits, and whoever else acts.                *)
AssigneeNeverClosesAlone ==
    \A h \in Handoffs : \A i \in 1..Len(log[h]) :
        rows[h].dual /\ log[h][i].closes /\ log[h][i].move \in Approvals =>
            log[h][i].actor = rows[h].second /\ log[h][i].actor # rows[h].assignee

(* The nonce is spent by one action only: a hand-off is closed by the last *)
(* action recorded of it and by no other, and its nonce is spent exactly   *)
(* when it is closed.                                                      *)
ClosedOnce ==
    \A h \in Handoffs :
        /\ rows[h].spent <=> rows[h].state = "actioned"
        /\ \A i \in 1..Len(log[h]) :
              log[h][i].closes <=> i = Len(log[h]) /\ rows[h].state = "actioned"

(* A hand-off that waits for its second approver has the approval of its   *)
(* assignee on record.                                                     *)
WaitingHasFirstApproval ==
    \A h \in Handoffs :
        rows[h].state = "awaiting_second_approver" =>
            \E i \in 1..Len(log[h]) :
                log[h][i].actor = rows[h].assignee /\ log[h][i].move \in Approvals

(* Two sweeps, or a sweep and a late list, never escalate a hand-off       *)
(* twice, and only an escalated hand-off counts an escalation.             *)
EscalatedOnce ==
    \A h \in Handoffs :
        rows[h].escalations = IF rows[h].state = "escalated" THEN 1 ELSE 0

(* What was decided stays decided: no sweep that read the hand-off while   *)
(* it was open, and no late or repeated action, reopens it or takes it     *)
(* from the person it was assigned to.                                     *)
DecisionsStand ==
    [][\A h \in Handoffs :
          rows[h].state = "actioned" =>
              /\ rows'[h].state = "actioned" /\ log'[h] = log[h]
              /\ rows'[h].assignee = rows[h].assignee /\ rows'[h].spent]_vars

(* An escalation voids every nonce that is out, for those who hold it and  *)
(* for the new assignee; the nonce it makes is sent to nobody, so no       *)
(* action is ever recorded of an escalated hand-off.                       *)
EscalationVoidsNonces ==
    [][\A h \in Handoffs : rows[h].state = "escalated" => log'[h] = log[h]]_vars

(* A submission that is not recorded does not use up the nonce.            *)
OnlyARecordSpends ==
    [][\A h \in Handoffs :
          ~ rows[h].spent /\ rows'[h].spent => Len(log'[h]) = Len(log[h]) + 1]_vars

(* Every open hand-off can be written in its later states.                 *)
AllHaveSecond == \A h \in Handoffs : rows[h].dual => rows[h].second # None

(* A hand-off past its SLA does not stay open: the sweep escalates it if   *)
(* nobody acts, when a target resolves and no row makes the job throw.     *)
BreachIsAnswered ==
    target # None /\ []AllHaveSecond =>
        \A h \in Handoffs :
            rows[h].state \in Open /\ rows[h].breached ~> rows[h].state \notin Open

(* "Dual control: the first valid action awaits the second" (handoff.ts).  *)
(* Whoever approves first: what dual control closes, two people approved.  *)
DualControlTakesTwo ==
    \A h \in Handoffs :
        rows[h].dual /\ rows[h].state = "actioned"
            /\ log[h][Len(log[h])].move \in Approvals =>
        \E i, j \in 1..Len(log[h]) :
            /\ log[h][i].actor # log[h][j].actor
            /\ log[h][i].move \in Approvals /\ log[h][j].move \in Approvals
=============================================================================
