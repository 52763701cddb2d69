SPECIFICATION Spec
CONSTANTS
  Servers = {p1}
  Mandatory = {1}
  Optional = {2}
  Answers = {v}
  BadShape = bad
  Blank = blank
  NoDate = none
  Reads <- ConfigReads
  Readers = {p1}
  Scopes <- ConfigScopes
  LastDay = 1
  MaxValues = 1
  MaxPublish = 1
  MaxCached = 0
  Publishers = {c1}
  CardInputs <- SomeInputs
  LastCardDay = 1
  Requests = {r1}
  MaxFailures = 2
  Lockout = 1
  LinkTtl = 1
  ChallengeTtl = 1
  SessionTtl = 1
  LastMinute = 2
  Webhooks = {w1}
  Messages <- SomeMessages
  ChatTexts <- SomeTexts
  InScope = {1, 3, 5}
  Production = FALSE
  Deliveries = {d1}
  Outputs <- SomeOutputs
  MaxCallbacks = 2
  Gates = {g1}
  Calls <- SomeCalls
  Rules <- SomeRules
  Thresholds = {"materiality", "tolerance"}
  Amounts = {1, 2}
  Unset = unset
  NotANumber = nan
  MaxEdits = 2
  Plans = {q1}
  PlanRequests <- SomeRequests
  Skills <- SomeSkills
  Entities = {"my", "sg"}
  OrgStates <- SomeOrgs
  NoValue = unset
  ForceDryRun = FALSE
  MaxOrgEdits = 1
  MaxRaised = 2
  Ingests = {i1, i2}
  Directories <- SomeDirectories
  PackRuns = {k1}
  Versions = {"v1", "v2"}
  Questions = {n1, n2}
  AsOfDays = {2}
  Horizon = 1
  CurrentDay = 4
  SkillCalls = {x1}
  Routes <- SomeRoutes
  Registered = {"one", "two"}
  Budgets <- SomeBudgets
  PromptTokens = {1, 3}
  Groundings <- SomeGroundings
  Declared <- SomeDeclared
  ModelOutputs <- SomeModelOutputs
  Failures = {"timeout", "provider_5xx", "content_filter"}
  GraphInputs <- SomeGraphInputs
  Hours = {1, 2, 3}
  MaxTries = 2
  MaxStops = 1
  MaxSafe = 60
  Inexact = inexact
  Values <- SomeValues
  Rates <- SomeRates
  Splits = {1, 3, 4}
  Lists <- SomeLists
  Tolerances = {0, 2, notolerance}
  NoTolerance = notolerance
  Postings <- SomePostings
  Accounts = {"1000", "2000"}
  Opening <- SomeOpening
  MaxPostings = 2
  MaxResets = 1
  MaxCalcs = 1
  Instances = {i1, i2}
  Builds <- SomeBuilds
  NoInstance = none
  MaxBoots = 3
  SuiteCases <- SomeCases
  Canary <- CanaryCase
  Floors <- DefaultFloors
  MinimumRate = 95
  NoSuite = nosuite
  MaxRuns = 1
INVARIANT SnapshotHoldsWhatIsInForce
CHECK_DEADLOCK FALSE
