SPECIFICATION Spec
CONSTANTS
  Servers = {p1, p2}
  Mandatory = {1}
  Optional = {}
  Answers = {v}
  BadShape = bad
  Blank = blank
  NoDate = none
  Scopes <- ConfigScopes
  Reads <- ConfigReads
  Readers = {p1}
  LastDay = 2
  MaxValues = 2
  MaxPublish = 2
  MaxCached = 1
  Publishers = {c1, c2, c3}
  CardInputs <- SomeInputs
  LastCardDay = 3
  Requests = {r1, r2, r3}
  MaxFailures = 2
  Lockout = 1
  LinkTtl = 1
  ChallengeTtl = 1
  SessionTtl = 1
  LastMinute = 2
  Webhooks = {w1, w2, w3}
  Messages <- SomeMessages
  ChatTexts <- SomeTexts
  InScope = {1, 3, 5}
  Production = FALSE
  Deliveries = {d1, d2}
  Outputs <- SomeOutputs
  MaxCallbacks = 2
  Gates = {g1}
  Calls <- SomeCalls
  Rules <- SomeRules
  Thresholds = {"materiality", "tolerance"}
  Amounts = {1, 2}
  Unset = unset
  NotANumber = nan
  MaxEdits = 2
  Plans = {q1}
  PlanRequests <- SomeRequests
  Skills <- SomeSkills
  Entities = {"my", "sg"}
  OrgStates <- SomeOrgs
  NoValue = unset
  ForceDryRun = FALSE
  MaxOrgEdits = 1
  MaxRaised = 2
  Ingests = {i1, i2}
  Directories <- SomeDirectories
  PackRuns = {k1}
  Versions = {"v1", "v2"}
  Questions = {n1, n2}
  AsOfDays = {2}
  Horizon = 1
  CurrentDay = 4
  SkillCalls = {x1}
  Routes <- SomeRoutes
  Registered = {"one", "two"}
  Budgets <- SomeBudgets
  PromptTokens = {1, 3}
  Groundings <- SomeGroundings
  Declared <- SomeDeclared
  ModelOutputs <- SomeModelOutputs
  Failures = {"timeout", "provider_5xx", "content_filter"}
  GraphInputs <- SomeGraphInputs
  Hours = {1, 2, 3}
  MaxTries = 2
  MaxStops = 1
  MaxSafe = 60
  Inexact = inexact
  Values <- SomeValues
  Rates <- SomeRates
  Splits = {1, 3, 4}
  Lists <- SomeLists
  Tolerances = {0, 2, notolerance}
  NoTolerance = notolerance
  Postings <- SomePostings
  Accounts = {"1000", "2000"}
  Opening <- SomeOpening
  MaxPostings = 2
  MaxResets = 1
  MaxCalcs = 1
  Instances = {i1, i2}
  Builds <- SomeBuilds
  NoInstance = none
  MaxBoots = 3
  SuiteCases <- SomeCases
  Canary <- CanaryCase
  Floors <- DefaultFloors
  MinimumRate = 95
  NoSuite = nosuite
  MaxRuns = 1
INVARIANTS TypeOK OneCurrentSnapshot CompleteMeansResolvable NoGapInCards LockTakesItsFailures SessionsComeOfSpentLinks DuplicateNamesItsOriginal OutputReceivedOnce PinnedVerdictIsTheSnapshots AutonomyIsBacked NewestVersionIsOpen NoAnswerShopping DeliveredAsDecided FiguresAreExact SchemaIsTheFiles NothingBrokenIsReleased
CHECK_DEADLOCK FALSE
