SPECIFICATION Spec
CONSTANTS
  Writers = {w1, w2}
  NoWriter = NoWriter
  Altered = Altered
  MaxEvents = 3
  MaxAttempts = 2
  MaxDamage = 1
  MaxChecks = 1
  PageLimit = 1
SYMMETRY MCSymmetry
INVARIANTS VerificationExact PagesInOrder LoggedOnlyWhatIsDone
PROPERTY ImplementsLog
CHECK_DEADLOCK FALSE
