---------------------------- MODULE ReleaseGate ----------------------------
(***************************************************************************)
(* The release gate (packages/assurance harness.ts, harness-cli.ts): CI    *)
(* runs the assurance cases against a build, the gate judges the results   *)
(* and the exit code of the command stops the release or lets it pass.     *)
(***************************************************************************)
EXTENDS Integers, FiniteSets, FiniteSetsExt

CONSTANTS SuiteCases,  \* [id, suite, zeroTolerance, weight]
          Canary,      \* the case --prove-gate adds, which always fails
          Floors,      \* of some suites, in percent
          MinimumRate, \* the weighted floor of the whole run, in percent
          NoSuite,
          MaxRuns      \* bound: runs of the command

ASSUME ReleaseConstants ==
  /\ IsFiniteSet(SuiteCases) /\ Canary.zeroTolerance
  /\ \A s \in DOMAIN Floors : Floors[s] \in Nat

VARIABLE ciRuns        \* the runs: what was asked, what the build did, the exit code

gateRunVars == <<ciRuns>>

ReleaseInit == ciRuns = {}

\* runSuites: a case that throws is a case that failed.
Selected(cases, suite) == {c \in cases : suite = NoSuite \/ c.suite = suite}
Bug_SkipBroken(ran, did) ==
  {[case |-> c, passed |-> did[c] = "passes"] : c \in {b \in ran : did[b] # "throws"}}
Results(ran, did) == {[case |-> c, passed |-> did[c] = "passes"] : c \in ran}
Passed(results) == {r \in results : r.passed}
Weights(results) == MapThenSumSet(LAMBDA r : r.case.weight, results)

\* evaluateReleaseGate.  A run of no case at all has the rate 1, and a suite
\* none of whose cases ran is not asked for its floor.
ZeroToleranceFailed(results) == \E r \in results : r.case.zeroTolerance /\ ~r.passed
RateTooLow(results) ==
  /\ Weights(results) > 0
  /\ 100 * Weights(Passed(results)) < MinimumRate * Weights(results)
OfSuite(results, s) == {r \in results : r.case.suite = s}
SuiteTooLow(results, s) ==
  100 * Cardinality(Passed(OfSuite(results, s))) < Floors[s] * Cardinality(OfSuite(results, s))
GateFails(results) ==
  \/ ZeroToleranceFailed(results)
  \/ RateTooLow(results)
  \/ \E s \in DOMAIN Floors : SuiteTooLow(results, s)

\* main: the proof of the gate is passed by a gate that fails.
ExitCode(asked, fails) ==
  IF asked.prove THEN IF fails THEN 0 ELSE 1
  ELSE IF asked.gate /\ fails /\ asked.blocking THEN 1 ELSE 0

Flags == [gate : BOOLEAN, prove : BOOLEAN, blocking : BOOLEAN,
          suite : {c.suite : c \in SuiteCases} \union {NoSuite}]
Outcomes == {did \in [SuiteCases \union {Canary} -> {"passes", "fails", "throws"}] :
               did[Canary] = "fails"}

RunCommand ==
  /\ Cardinality(ciRuns) < MaxRuns
  /\ \E asked \in Flags, did \in Outcomes :
       LET cases == IF asked.prove THEN SuiteCases \union {Canary} ELSE SuiteCases
           fails == GateFails(Results(Selected(cases, asked.suite), did))
       IN  ciRuns' = ciRuns \union {[asked |-> asked, did |-> did, exit |-> ExitCode(asked, fails)]}

ReleaseNext == RunCommand
ReleaseSpec == ReleaseInit /\ [][ReleaseNext]_gateRunVars

ReleaseTypeOK == \A run \in ciRuns : run.asked \in Flags /\ run.exit \in {0, 1}

\* A build that a blocking gate lets pass broke no case that tolerates no
\* failure, by failing it or by throwing in it, and each suite that ran is at
\* its floor (harness.ts: "a harness that quietly skips a broken case is a
\* harness that stops gating").  The gate is proved by the canary alone: over
\* all the suites, or over the canary's own, the proof succeeds whatever the
\* build does.
NothingBrokenIsReleased ==
  \A run \in ciRuns :
    LET ran == Selected(SuiteCases, run.asked.suite)
        broken == {c \in ran : run.did[c] # "passes"}
    IN  /\ run.asked.gate /\ run.asked.blocking /\ ~run.asked.prove /\ run.exit = 0 =>
             /\ \A c \in broken : ~c.zeroTolerance
             /\ \A s \in DOMAIN Floors :
                  LET suite == {c \in ran : c.suite = s}
                  IN  100 * Cardinality(suite \ broken) >= Floors[s] * Cardinality(suite)
        /\ run.asked.prove /\ run.asked.suite \in {NoSuite, Canary.suite} => run.exit = 0
=============================================================================
