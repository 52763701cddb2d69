\* Two hand-offs, three people, two overlapping sweeps of the SLA job.
CONSTANTS
    ann = ann  bob = bob  cat = cat  s1 = s1  s2 = s2  None = None
    Handoffs = {1, 2}
    Principals = {ann, bob, cat}
    Questions <- AllQuestions
    Requests <- AllRequests
    Sweepers = {s1, s2}
    MaxActions = 2  MaxFaults = 1
SPECIFICATION FairSpec
INVARIANTS AssigneeNeverClosesAlone ClosedOnce
PROPERTIES DecisionsStand EscalationVoidsNonces BreachIsAnswered
CHECK_DEADLOCK FALSE
