\* One dual-control hand-off, the second approver acting first.
CONSTANTS
    ann = ann  bob = bob  cat = cat  s1 = s1  s2 = s2  None = None
    Handoffs = {1}
    Principals = {ann, bob, cat}
    Questions <- AllQuestions
    Requests <- AllRequests
    Sweepers = {s1}
    MaxActions = 2  MaxFaults = 0
SPECIFICATION Spec
INVARIANT DualControlTakesTwo
CHECK_DEADLOCK FALSE
