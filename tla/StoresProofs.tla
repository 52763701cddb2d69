---------------------------- MODULE StoresProofs ----------------------------
(***************************************************************************)
(* What a build passes, what the worker keeps and what it computes, proved *)
(* for every value of the constants: the gate that lets a build out        *)
(* (ReleaseGate), the schema it migrates (Migrations), the settings it     *)
(* publishes and resolves (Configuration), the knowledge it answers from   *)
(* (Corpus) and its figures (Calculation).                                 *)
(***************************************************************************)
EXTENDS ReleaseGate, Migrations, Corpus, Configuration, Calculation,
        FiniteSetTheorems, SequenceTheorems, WellFoundedInduction, TLAPS

-----------------------------------------------------------------------------
(* The release gate.                                                       *)

Asked(asked) == IF asked.prove THEN SuiteCases \union {Canary} ELSE SuiteCases
Verdict(asked, did) == GateFails(Results(Selected(Asked(asked), asked.suite), did))

\* A run of the command exits as the gate judges what it selected.
ReleaseInv ==
  \A run \in ciRuns : /\ run.asked \in Flags /\ run.did \in Outcomes
                      /\ run.exit = ExitCode(run.asked, Verdict(run.asked, run.did))

\* A result stands for its case: there are as many of the ones as of the
\* others.
LEMMA OneResultACase ==
  ASSUME NEW cases, IsFiniteSet(cases), NEW did
  PROVE  Cardinality(Results(cases, did)) = Cardinality(cases)
<1> DEFINE row == [c \in cases |-> [case |-> c, passed |-> did[c] = "passes"]]
<1>1. ASSUME NEW c \in cases
      PROVE  row[c].case = c /\ row[c] \in Results(cases, did)
  BY DEF Results
<1>2. \A r \in Results(cases, did) : \E c \in cases : row[c] = r
  BY DEF Results
<1>3. DOMAIN row = cases /\ row \in [cases -> Results(cases, did)]
  BY <1>1
<1> HIDE DEF row
<1>4. row \in Bijection(cases, Results(cases, did))
  BY <1>1, <1>2, <1>3 DEF Bijection, Injection, Surjection, IsInjective
<1> QED
  BY <1>4, FS_Bijection DEF ExistsBijection

\* The results of a suite, and those of them that passed.
LEMMA ResultsOfASuite ==
  ASSUME NEW cases, NEW did, NEW s
  PROVE  /\ OfSuite(Results(cases, did), s) = Results({c \in cases : c.suite = s}, did)
         /\ Passed(OfSuite(Results(cases, did), s))
              = Results({c \in cases : c.suite = s /\ did[c] = "passes"}, did)
<1>1. \A c : [case |-> c, passed |-> did[c] = "passes"].case = c
             /\ ([case |-> c, passed |-> did[c] = "passes"].passed <=> did[c] = "passes")
  OBVIOUS
<1>2. OfSuite(Results(cases, did), s) = Results({c \in cases : c.suite = s}, did)
  BY <1>1 DEF OfSuite, Results
<1>3. \A group : Passed(Results(group, did)) = Results({c \in group : did[c] = "passes"}, did)
  BY <1>1 DEF Passed, Results
<1>4. {c \in {b \in cases : b.suite = s} : did[c] = "passes"}
        = {c \in cases : c.suite = s /\ did[c] = "passes"}
  OBVIOUS
<1> QED
  BY <1>2, <1>3, <1>4

\* A gate that does not fail, over cases that ran.
LEMMA GatePasses ==
  ASSUME NEW cases, IsFiniteSet(cases), NEW did, ~GateFails(Results(cases, did))
  PROVE  LET broken == {c \in cases : did[c] # "passes"}
         IN  /\ \A c \in broken : ~c.zeroTolerance
             /\ \A s \in DOMAIN Floors :
                  LET suite == {c \in cases : c.suite = s}
                  IN  100 * Cardinality(suite \ broken) >= Floors[s] * Cardinality(suite)
<1> DEFINE broken == {c \in cases : did[c] # "passes"}
<1>1. ASSUME NEW c \in broken
      PROVE  ~c.zeroTolerance
  <2>1. PICK r : r = [case |-> c, passed |-> did[c] = "passes"]
    OBVIOUS
  <2>2. r \in Results(cases, did) /\ ~r.passed /\ r.case = c
    BY <2>1 DEF Results
  <2> QED
    BY <2>2 DEF GateFails, ZeroToleranceFailed
<1>2. ASSUME NEW s \in DOMAIN Floors
      PROVE  LET suite == {c \in cases : c.suite = s}
             IN  100 * Cardinality(suite \ broken) >= Floors[s] * Cardinality(suite)
  <2> DEFINE suite == {c \in cases : c.suite = s}
             fine  == {c \in cases : c.suite = s /\ did[c] = "passes"}
  <2>1. IsFiniteSet(suite) /\ IsFiniteSet(fine)
    BY FS_Subset
  <2>2. /\ Cardinality(suite) \in Nat /\ Cardinality(fine) \in Nat
        /\ Cardinality(OfSuite(Results(cases, did), s)) = Cardinality(suite)
        /\ Cardinality(Passed(OfSuite(Results(cases, did), s))) = Cardinality(fine)
    <3>1. /\ OfSuite(Results(cases, did), s) = Results(suite, did)
          /\ Passed(OfSuite(Results(cases, did), s)) = Results(fine, did)
      BY ResultsOfASuite
    <3> HIDE DEF suite, fine
    <3>2. /\ Cardinality(Results(suite, did)) = Cardinality(suite)
          /\ Cardinality(Results(fine, did)) = Cardinality(fine)
      BY <2>1, OneResultACase
    <3> QED
      BY <2>1, <3>1, <3>2, FS_CardinalityType
  <2>3. suite \ broken = fine
    OBVIOUS
  <2>4. ~(100 * Cardinality(fine) < Floors[s] * Cardinality(suite))
    <3>1. ~SuiteTooLow(Results(cases, did), s)
      BY DEF GateFails
    <3> HIDE DEF suite, fine
    <3> QED
      BY <2>2, <3>1, Zenon DEF SuiteTooLow
  <2>5. Floors[s] \in Nat
    BY ReleaseConstants
  <2> HIDE DEF suite, fine, broken
  <2>6. 100 * Cardinality(fine) \in Nat /\ Floors[s] * Cardinality(suite) \in Nat
    BY <2>2, <2>5
  <2>7. 100 * Cardinality(suite \ broken) >= Floors[s] * Cardinality(suite)
    BY <2>3, <2>4, <2>6
  <2> QED
    BY <2>7 DEF suite
<1> QED
  BY <1>1, <1>2

\* The canary fails any gate it runs in.
LEMMA CanaryFails ==
  ASSUME NEW did \in Outcomes, NEW cases, Canary \in cases
  PROVE  GateFails(Results(cases, did))
<1>1. PICK r : r = [case |-> Canary, passed |-> did[Canary] = "passes"]
  OBVIOUS
<1>2. r \in Results(cases, did) /\ r.case = Canary /\ ~r.passed
  BY <1>1 DEF Results, Outcomes
<1> QED
  BY <1>2, ReleaseConstants DEF GateFails, ZeroToleranceFailed

LEMMA ReleaseInitially == ReleaseInit => ReleaseInv
BY DEF ReleaseInit, ReleaseInv

LEMMA ReleasePreserved == ReleaseInv /\ [ReleaseNext]_gateRunVars => ReleaseInv'
<1> SUFFICES ASSUME ReleaseInv, RunCommand
             PROVE  ReleaseInv'
  BY DEF ReleaseNext, gateRunVars, ReleaseInv
<1>1. PICK asked \in Flags, did \in Outcomes :
        ciRuns' = ciRuns \union {[asked |-> asked, did |-> did,
                                  exit |-> ExitCode(asked, Verdict(asked, did))]}
  BY DEF RunCommand, Verdict, Asked
<1>2. PICK run : run = [asked |-> asked, did |-> did, exit |-> ExitCode(asked, Verdict(asked, did))]
  OBVIOUS
<1>3. run.asked = asked /\ run.did = did /\ run.exit = ExitCode(asked, Verdict(asked, did))
  BY <1>2
<1>4. ciRuns' = ciRuns \union {run}
  BY <1>1, <1>2
<1> QED
  BY <1>3, <1>4 DEF ReleaseInv

\* The runs of the command are well formed.
THEOREM ReleaseIsTyped == ReleaseSpec => []ReleaseTypeOK
<1>1. ReleaseInv => ReleaseTypeOK
  BY DEF ReleaseInv, ReleaseTypeOK, ExitCode
<1> QED
  BY <1>1, ReleaseInitially, ReleasePreserved, PTL DEF ReleaseSpec

\* A blocking gate passes no build that broke a case of no tolerance, by
\* failing it or by throwing in it, or one of whose suites is below its
\* floor, whatever the cases; and the proof of the gate succeeds.
THEOREM TheGateHolds == ReleaseSpec => []NothingBrokenIsReleased
<1>1. ReleaseInv => NothingBrokenIsReleased
  <2> SUFFICES ASSUME ReleaseInv, NEW run \in ciRuns
               PROVE  LET ran == Selected(SuiteCases, run.asked.suite)
                          broken == {c \in ran : run.did[c] # "passes"}
                      IN  /\ run.asked.gate /\ run.asked.blocking /\ ~run.asked.prove
                             /\ run.exit = 0 =>
                               /\ \A c \in broken : ~c.zeroTolerance
                               /\ \A s \in DOMAIN Floors :
                                    LET suite == {c \in ran : c.suite = s}
                                    IN  100 * Cardinality(suite \ broken)
                                          >= Floors[s] * Cardinality(suite)
                          /\ run.asked.prove /\ run.asked.suite \in {NoSuite, Canary.suite}
                               => run.exit = 0
    BY DEF NothingBrokenIsReleased
  <2>1. run.did \in Outcomes /\ run.exit = ExitCode(run.asked, Verdict(run.asked, run.did))
    BY DEF ReleaseInv
  <2>2. ASSUME run.asked.gate, run.asked.blocking, ~run.asked.prove, run.exit = 0
        PROVE  ~GateFails(Results(Selected(SuiteCases, run.asked.suite), run.did))
    BY <2>1, <2>2 DEF ExitCode, Verdict, Asked
  <2>3. IsFiniteSet(Selected(SuiteCases, run.asked.suite))
    BY ReleaseConstants, FS_Subset DEF Selected
  <2>4. ASSUME run.asked.prove, run.asked.suite \in {NoSuite, Canary.suite}
        PROVE  run.exit = 0
    <3>1. Canary \in Selected(Asked(run.asked), run.asked.suite)
      BY <2>4 DEF Selected, Asked
    <3> QED
      BY <2>1, <2>4, <3>1, CanaryFails DEF ExitCode, Verdict
  <2> QED
    BY <2>2, <2>3, <2>4, GatePasses
<1> QED
  BY <1>1, ReleaseInitially, ReleasePreserved, PTL DEF ReleaseSpec

-----------------------------------------------------------------------------
(* Migrations.                                                             *)

AllFiles == UNION {Range(b) : b \in Builds}
RunnerPlaces == {"idle", "ensure", "lock", "read", "apply", "unlock", "close", "ended"}

\* What a runner has done is in the schema; what it knows is in the ledger.
RunnerInv(r) ==
  /\ DOMAIN r = {"at", "build", "fresh", "known", "next", "succeeds"}
  /\ r.at \in RunnerPlaces
  /\ r.build \in Seq(AllFiles) /\ r.next \in 1..(Len(r.build) + 1)
  /\ r.known \subseteq ledger.rows
  /\ \A k \in 1..(r.next - 1) : r.build[k] \in ledger.rows
  /\ r.succeeds => \A k \in 1..Len(r.build) : r.build[k] \in ledger.rows

\* The ledger is the schema, and no identifier is in it twice.
MigrationInv ==
  /\ schema \in Seq(AllFiles)
  /\ DOMAIN ledger = {"exists", "rows"}
  /\ \A k \in 1..Len(schema) : schema[k] \in ledger.rows
  /\ \A f \in ledger.rows : \E k \in 1..Len(schema) : schema[k] = f
  /\ \A j, k \in 1..Len(schema) : schema[j].id = schema[k].id => j = k
  /\ lock \in Instances \union {NoInstance} /\ boots \in 0..MaxBoots
  /\ runner = [i \in Instances |-> runner[i]]
  /\ \A i \in Instances : RunnerInv(runner[i])

LEMMA AsleepRuns == RunnerInv(Asleep)
<1>1. Len(<<>>) = 0 /\ <<>> \in Seq(AllFiles)
  OBVIOUS
<1>2. PICK none : none = <<>>
  OBVIOUS
<1>3. PICK r : r = [at |-> "idle", build |-> none, fresh |-> FALSE, known |-> {}, next |-> 1,
                    succeeds |-> FALSE]
  OBVIOUS
<1>4. RunnerInv(r)
  BY <1>1, <1>2, <1>3 DEF RunnerInv, RunnerPlaces
<1> QED
  BY <1>2, <1>3, <1>4 DEF Asleep

\* A runner that is elsewhere, and knows of the ledger what it knew.
LEMMA ElsewhereRuns ==
  ASSUME NEW r, RunnerInv(r), NEW place \in RunnerPlaces, ledger.rows \subseteq ledger'.rows
  PROVE  RunnerInv([r EXCEPT !.at = place])'
BY DEF RunnerInv

LEMMA MigrationInitially == MigrationInit => MigrationInv
<1> SUFFICES ASSUME MigrationInit
             PROVE  MigrationInv
  OBVIOUS
<1>1. Len(schema) = 0 /\ schema \in Seq(AllFiles)
  BY DEF MigrationInit
<1>2. RunnerInv(Asleep)
  BY AsleepRuns
<1>3. \A i \in Instances : RunnerInv(runner[i])
  BY <1>2 DEF MigrationInit
<1> QED
  BY <1>1, <1>3, MigrationConstants DEF MigrationInit, MigrationInv

\* One runner moves; the ledger only grows, and the schema with it or not.
LEMMA RunnerMoves ==
  ASSUME MigrationInv, NEW i \in Instances, NEW r, runner' = [runner EXCEPT ![i] = r],
         RunnerInv(r)', ledger.rows \subseteq ledger'.rows
  PROVE  /\ runner' = [j \in Instances |-> runner'[j]]
         /\ \A j \in Instances : RunnerInv(runner[j])'
<1>1. /\ runner' = [j \in Instances |-> runner'[j]] /\ runner'[i] = r
      /\ \A j \in Instances \ {i} : runner'[j] = runner[j]
  BY DEF MigrationInv
<1>2. ASSUME NEW j \in Instances
      PROVE  RunnerInv(runner[j])'
  <2>1. CASE j = i
    BY <1>1, <2>1 DEF RunnerInv
  <2>2. CASE j # i
    <3>1. RunnerInv(runner[j]) /\ runner'[j] = runner[j]
      BY <1>1, <2>2 DEF MigrationInv
    <3> QED
      BY <3>1 DEF RunnerInv
  <2> QED
    BY <2>1, <2>2
<1> QED
  BY <1>1, <1>2

\* The schema and the ledger stay as they are.
LEMMA OnlyRunnerMoves ==
  ASSUME MigrationInv, NEW i \in Instances, NEW r, runner' = [runner EXCEPT ![i] = r],
         RunnerInv(r)', schema' = schema, ledger'.rows = ledger.rows,
         DOMAIN ledger' = {"exists", "rows"},
         lock' \in Instances \union {NoInstance}, boots' \in 0..MaxBoots
  PROVE  MigrationInv'
<1>1. /\ runner' = [j \in Instances |-> runner'[j]]
      /\ \A j \in Instances : RunnerInv(runner[j])'
  BY RunnerMoves
<1> QED
  BY <1>1 DEF MigrationInv

\* A runner goes on past a file that is in the ledger.
LEMMA NextFileRuns ==
  ASSUME NEW r, RunnerInv(r), r.next <= Len(r.build),
         r.build[r.next] \in ledger'.rows, ledger.rows \subseteq ledger'.rows
  PROVE  RunnerInv([r EXCEPT !.next = @ + 1])'
<1>1. Len(r.build) \in Nat /\ r.next \in 1..Len(r.build) /\ r.next + 1 \in 1..(Len(r.build) + 1)
  BY DEF RunnerInv
<1>2. \A k \in 1..((r.next + 1) - 1) : r.build[k] \in ledger'.rows
  BY <1>1 DEF RunnerInv
<1>3. PICK n : n = r.next + 1
  OBVIOUS
<1>4. RunnerInv([r EXCEPT !.next = n])'
  BY <1>1, <1>2, <1>3 DEF RunnerInv
<1> QED
  BY <1>3, <1>4

LEMMA MigrationPreserved == MigrationInv /\ [MigrationNext]_migrationVars => MigrationInv'
<1> SUFFICES ASSUME MigrationInv, [MigrationNext]_migrationVars
             PROVE  MigrationInv'
  OBVIOUS
<1>0. /\ lock \in Instances \union {NoInstance} /\ boots \in 0..MaxBoots
      /\ DOMAIN ledger = {"exists", "rows"} /\ \A i \in Instances : RunnerInv(runner[i])
  BY DEF MigrationInv
<1>1. ASSUME NEW i \in Instances, Boot(i)
      PROVE  MigrationInv'
  <2>1. PICK b \in Builds :
          runner' = [runner EXCEPT ![i] = [Asleep EXCEPT !.at = "ensure", !.build = b,
                                                         !.fresh = ~ledger.exists]]
    BY <1>1 DEF Boot, Moves
  <2>2. b \in Seq(AllFiles)
    BY MigrationConstants, SeqMonotonic DEF AllFiles
  <2>3. PICK r : r = [Asleep EXCEPT !.at = "ensure", !.build = b, !.fresh = ~ledger.exists]
    OBVIOUS
  <2>4. RunnerInv(r)'
    BY <2>2, <2>3 DEF RunnerInv, Asleep, RunnerPlaces
  <2>5. boots' \in 0..MaxBoots /\ UNCHANGED <<schema, ledger, lock>>
    BY <1>0, <1>1, MigrationConstants DEF Boot
  <2> QED
    BY <1>0, <2>1, <2>3, <2>4, <2>5, OnlyRunnerMoves
<1>2. ASSUME NEW i \in Instances, EnsureLedger(i)
      PROVE  MigrationInv'
  <2>1. PICK place \in {"lock", "close"} : runner' = [runner EXCEPT ![i] = [@ EXCEPT !.at = place]]
    BY <1>0, <1>2 DEF EnsureLedger, Moves
  <2>2. /\ ledger'.rows = ledger.rows /\ DOMAIN ledger' = {"exists", "rows"}
        /\ UNCHANGED <<schema, lock, boots>>
    BY <1>0, <1>2 DEF EnsureLedger
  <2>3. PICK r : r = [runner[i] EXCEPT !.at = place]
    OBVIOUS
  <2>4. RunnerInv(r)'
    BY <1>0, <2>2, <2>3, ElsewhereRuns DEF RunnerPlaces
  <2> QED
    BY <1>0, <2>1, <2>2, <2>3, <2>4, OnlyRunnerMoves
<1>3. ASSUME NEW i \in Instances, TakeLock(i)
      PROVE  MigrationInv'
  <2>1. PICK place \in {"read", "close"} : runner' = [runner EXCEPT ![i] = [@ EXCEPT !.at = place]]
    BY <1>0, <1>3 DEF TakeLock, Moves
  <2>2. lock' \in Instances \union {NoInstance} /\ UNCHANGED <<schema, ledger, boots>>
    BY <1>0, <1>3 DEF TakeLock
  <2>3. PICK r : r = [runner[i] EXCEPT !.at = place]
    OBVIOUS
  <2>4. RunnerInv(r)'
    BY <1>0, <2>2, <2>3, ElsewhereRuns DEF RunnerPlaces
  <2> QED
    BY <1>0, <2>1, <2>2, <2>3, <2>4, OnlyRunnerMoves
<1>4. ASSUME NEW i \in Instances, ReadLedger(i)
      PROVE  MigrationInv'
  <2>1. PICK r : r = [runner[i] EXCEPT !.at = "apply", !.known = ledger.rows]
    OBVIOUS
  <2>2. UNCHANGED <<schema, ledger, lock, boots>>
    BY <1>4 DEF ReadLedger
  <2>3. RunnerInv(r)'
    BY <1>0, <2>1, <2>2 DEF RunnerInv, RunnerPlaces
  <2> QED
    BY <1>0, <1>4, <2>1, <2>2, <2>3, OnlyRunnerMoves DEF ReadLedger, Moves
<1>5. ASSUME NEW i \in Instances, CompareFile(i)
      PROVE  MigrationInv'
  <2>1. CASE NextFile(i) \in runner[i].known
    <3>1. PICK r : r = [runner[i] EXCEPT !.next = @ + 1]
      OBVIOUS
    <3>2. UNCHANGED <<schema, ledger, lock, boots>> /\ runner' = [runner EXCEPT ![i] = r]
      BY <1>5, <2>1, <3>1 DEF CompareFile, Moves
    <3>3. RunnerInv(r)'
      <4>1. /\ RunnerInv(runner[i]) /\ runner[i].next <= Len(runner[i].build)
            /\ runner[i].build[runner[i].next] \in ledger'.rows
        BY <1>0, <1>5, <2>1, <3>2 DEF CompareFile, Remaining, NextFile, RunnerInv
      <4> QED
        BY <3>1, <3>2, <4>1, NextFileRuns
    <3> QED
      BY <1>0, <3>2, <3>3, OnlyRunnerMoves
  <2>2. CASE NextFile(i) \notin runner[i].known
    <3>1. PICK r : r = [runner[i] EXCEPT !.at = "unlock", !.succeeds = FALSE]
      OBVIOUS
    <3>2. UNCHANGED <<schema, ledger, lock, boots>> /\ runner' = [runner EXCEPT ![i] = r]
      BY <1>5, <2>2, <3>1 DEF CompareFile, Gives, Moves
    <3>3. RunnerInv(r)'
      BY <1>0, <3>1, <3>2 DEF RunnerInv, RunnerPlaces
    <3> QED
      BY <1>0, <3>2, <3>3, OnlyRunnerMoves
  <2> QED
    BY <2>1, <2>2
<1>6. ASSUME NEW i \in Instances, ApplyFile(i)
      PROVE  MigrationInv'
  <2>1. CASE Gives(i, FALSE) /\ UNCHANGED <<schema, ledger>>
    <3>1. PICK r : r = [runner[i] EXCEPT !.at = "unlock", !.succeeds = FALSE]
      OBVIOUS
    <3>2. UNCHANGED <<schema, ledger, lock, boots>> /\ runner' = [runner EXCEPT ![i] = r]
      BY <1>6, <2>1, <3>1 DEF ApplyFile, Gives, Moves
    <3>3. RunnerInv(r)'
      BY <1>0, <3>1, <3>2 DEF RunnerInv, RunnerPlaces
    <3> QED
      BY <1>0, <3>2, <3>3, OnlyRunnerMoves
  <2>2. CASE ~(Gives(i, FALSE) /\ UNCHANGED <<schema, ledger>>)
    <3>1. PICK f : f = NextFile(i)
      OBVIOUS
    <3>2. f \in AllFiles
      BY <1>0, <1>6, <3>1 DEF ApplyFile, Remaining, NextFile, RunnerInv
    <3>3. /\ ~Applied(ledger.rows, f)
          /\ schema' = Append(schema, f)
          /\ ledger' = [ledger EXCEPT !.rows = @ \union {f}]
          /\ runner' = [runner EXCEPT ![i] = [runner[i] EXCEPT !.next = @ + 1]]
          /\ UNCHANGED <<lock, boots>> /\ Remaining(i)
      <4>1. /\ Remaining(i) /\ UNCHANGED <<lock, boots>>
            /\ ~Applied(ledger.rows, NextFile(i))
            /\ schema' = Append(schema, NextFile(i))
            /\ ledger' = [ledger EXCEPT !.rows = @ \union {NextFile(i)}]
            /\ Moves(i, [runner[i] EXCEPT !.next = @ + 1])
        BY <1>6, <2>2, Zenon DEF ApplyFile
      <4> QED
        BY <3>1, <4>1 DEF Moves
    <3>4. ledger'.rows = ledger.rows \union {f} /\ DOMAIN ledger' = {"exists", "rows"}
      BY <1>0, <3>3
    <3>5. PICK r : r = [runner[i] EXCEPT !.next = @ + 1]
      OBVIOUS
    <3>6. RunnerInv(r)'
      <4>1. /\ RunnerInv(runner[i]) /\ runner[i].next <= Len(runner[i].build)
            /\ runner[i].build[runner[i].next] \in ledger'.rows
            /\ ledger.rows \subseteq ledger'.rows
        BY <1>0, <3>1, <3>3, <3>4 DEF Remaining, NextFile
      <4> QED
        BY <3>5, <4>1, NextFileRuns
    <3>7. /\ runner' = [j \in Instances |-> runner'[j]]
          /\ \A j \in Instances : RunnerInv(runner[j])'
      <4>1. runner' = [runner EXCEPT ![i] = r] /\ ledger.rows \subseteq ledger'.rows
        BY <3>3, <3>4, <3>5
      <4> HIDE <3>5
      <4> QED
        BY <3>6, <4>1, RunnerMoves
    <3>8. /\ schema' \in Seq(AllFiles) /\ Len(schema') = Len(schema) + 1 /\ Len(schema) \in Nat
          /\ schema'[Len(schema) + 1] = f
          /\ \A k \in 1..Len(schema) : schema'[k] = schema[k]
      BY <3>2, <3>3, AppendProperties DEF MigrationInv
    <3>9. \A k \in 1..Len(schema) : schema[k].id # f.id
      BY <3>3 DEF Applied, MigrationInv
    <3>10. \A j, k \in 1..Len(schema') : schema'[j].id = schema'[k].id => j = k
      BY <3>8, <3>9 DEF MigrationInv
    <3>11. \A k \in 1..Len(schema') : schema'[k] \in ledger'.rows
      BY <3>4, <3>8 DEF MigrationInv
    <3>12. \A g \in ledger'.rows : \E k \in 1..Len(schema') : schema'[k] = g
      BY <3>4, <3>8 DEF MigrationInv
    <3> QED
      BY <1>0, <3>3, <3>4, <3>7, <3>8, <3>10, <3>11, <3>12 DEF MigrationInv
  <2> QED
    BY <2>1, <2>2
<1>7. ASSUME NEW i \in Instances, FinishFiles(i)
      PROVE  MigrationInv'
  <2>1. PICK r : r = [runner[i] EXCEPT !.at = "unlock", !.succeeds = TRUE]
    OBVIOUS
  <2>2. /\ UNCHANGED <<schema, ledger, lock, boots>> /\ runner' = [runner EXCEPT ![i] = r]
        /\ runner[i].next > Len(runner[i].build)
    BY <1>7, <2>1 DEF FinishFiles, Gives, Moves
  <2>3. RunnerInv(runner[i]) /\ Len(runner[i].build) \in Nat
    BY <1>0 DEF RunnerInv
  <2>4. \A k \in 1..Len(runner[i].build) : runner[i].build[k] \in ledger.rows
    BY <2>2, <2>3 DEF RunnerInv
  <2>5. RunnerInv(r)'
    BY <2>1, <2>2, <2>3, <2>4 DEF RunnerInv, RunnerPlaces
  <2> QED
    BY <1>0, <2>2, <2>5, OnlyRunnerMoves
<1>8. ASSUME NEW i \in Instances, Unlock(i) \/ CloseSessions(i)
      PROVE  MigrationInv'
  <2>1. lock' \in Instances \union {NoInstance} /\ UNCHANGED <<schema, ledger, boots>>
    BY <1>0, <1>8 DEF Unlock, CloseSessions, Freed
  <2>2. CASE \E place \in {"close", "ended"} : Moves(i, [runner[i] EXCEPT !.at = place])
    <3>1. PICK place \in {"close", "ended"} : Moves(i, [runner[i] EXCEPT !.at = place])
      BY <2>2
    <3>2. PICK r : r = [runner[i] EXCEPT !.at = place]
      OBVIOUS
    <3>3. RunnerInv(r)'
      BY <1>0, <2>1, <3>2, ElsewhereRuns DEF RunnerPlaces
    <3> QED
      BY <1>0, <2>1, <3>1, <3>2, <3>3, OnlyRunnerMoves DEF Moves
  <2>3. CASE Moves(i, [runner[i] EXCEPT !.at = "close", !.succeeds = FALSE])
    <3>1. PICK r : r = [runner[i] EXCEPT !.at = "close", !.succeeds = FALSE]
      OBVIOUS
    <3>2. RunnerInv(r)'
      BY <1>0, <2>1, <3>1 DEF RunnerInv, RunnerPlaces
    <3> QED
      BY <1>0, <2>1, <2>3, <3>1, <3>2, OnlyRunnerMoves DEF Moves
  <2> QED
    BY <1>8, <2>2, <2>3 DEF Unlock, CloseSessions
<1>9. ASSUME NEW i \in Instances, LoseSession(i)
      PROVE  MigrationInv'
  BY <1>9 DEF LoseSession, MigrationInv, RunnerInv
<1>10. ASSUME NEW i \in Instances, EndOfProcess(i)
       PROVE  MigrationInv'
  <2>1. PICK r : r = Asleep
    OBVIOUS
  <2>2. /\ lock' \in Instances \union {NoInstance} /\ UNCHANGED <<schema, ledger, boots>>
        /\ runner' = [runner EXCEPT ![i] = r]
    BY <1>0, <1>10, <2>1 DEF EndOfProcess, Freed, Moves
  <2>3. RunnerInv(r)'
    BY <2>1, <2>2, AsleepRuns DEF RunnerInv
  <2> QED
    BY <1>0, <2>2, <2>3, OnlyRunnerMoves
<1>11. CASE UNCHANGED migrationVars
  BY <1>11 DEF migrationVars, MigrationInv, RunnerInv
<1> QED
  BY <1>1, <1>2, <1>3, <1>4, <1>5, <1>6, <1>7, <1>8, <1>9, <1>10, <1>11 DEF MigrationNext

LEMMA MigrationInvariant == MigrationSpec => []MigrationInv
<1> QED
  BY MigrationInitially, MigrationPreserved, PTL DEF MigrationSpec

\* Wherever a runner is, it is at a file of its build or past the last, and
\* the lock is an instance's or nobody's (migrate.ts, migrate-cli.ts).
THEOREM MigrationIsTyped == MigrationSpec => []MigrationTypeOK
<1>1. MigrationInv => MigrationTypeOK
  BY DEF MigrationInv, RunnerInv, RunnerPlaces, MigrationTypeOK
<1> QED
  BY <1>1, MigrationInvariant, PTL

\* No file is applied twice, and a runner that succeeds has each file of its
\* build in the schema as it reads now, however many instances boot at once,
\* die, or go on without the lock of the session they lost (migrate.ts).
THEOREM SchemaFollowsTheFiles == MigrationSpec => []SchemaIsTheFiles
<1>1. ASSUME MigrationInv
      PROVE  SchemaIsTheFiles
  <2>1. DOMAIN schema = 1..Len(schema)
    BY <1>1 DEF MigrationInv
  <2>2. IsInjective([k \in DOMAIN schema |-> schema[k].id])
    BY <1>1, <2>1 DEF MigrationInv, IsInjective
  <2>3. ledger.rows = Range(schema)
    BY <1>1, <2>1 DEF MigrationInv, Range
  <2>4. ASSUME NEW i \in Instances, runner[i].succeeds
        PROVE  Range(runner[i].build) \subseteq Range(schema)
    <3>1. /\ runner[i].build \in Seq(AllFiles)
          /\ \A k \in 1..Len(runner[i].build) : runner[i].build[k] \in ledger.rows
      BY <1>1, <2>4 DEF MigrationInv, RunnerInv
    <3>2. DOMAIN runner[i].build = 1..Len(runner[i].build)
      BY <3>1
    <3> QED
      BY <2>3, <3>1, <3>2 DEF Range
  <2> QED
    BY <2>2, <2>3, <2>4 DEF SchemaIsTheFiles
<1> QED
  BY <1>1, MigrationInvariant, PTL

-----------------------------------------------------------------------------
(* Configuration: what settings there are and how they resolve does not    *)
(* matter to which snapshot is current.                                    *)

PublicationFields == {"pc", "toRead", "resolved", "asOf", "version", "locked", "quiet"}
SnapshotFields == {"version", "resolved", "superseded"}

\* A publication has the next number or one that has been taken; one that
\* has superseded, with a number still free, holds the row there is to hold.
PublicationInv(r) ==
  /\ DOMAIN r = PublicationFields
  /\ r.version \in 0..(Len(snapshots) + 1)
  /\ r.pc = "superseded" /\ r.version > Len(snapshots) => r.locked = Current

SnapshotInv ==
  /\ snapshots \in Seq(Range(snapshots))
  /\ \A i \in 1..Len(snapshots) : DOMAIN snapshots[i] = SnapshotFields
  /\ OneCurrentSnapshot
  /\ pub = [p \in Servers |-> pub[p]]
  /\ \A p \in Servers : PublicationInv(pub[p])

LEMMA NoPublicationRuns ==
  ASSUME Len(snapshots) \in Nat
  PROVE  PublicationInv(NoPublication)
<1>1. PICK blank : blank = [f \in Catalogue |-> Blank]
  OBVIOUS
<1>2. PICK r : r = [pc |-> "idle", toRead |-> {}, resolved |-> blank, asOf |-> NoDate,
                    version |-> 0, locked |-> {}, quiet |-> TRUE]
  OBVIOUS
<1>3. PublicationInv(r)
  BY <1>2 DEF PublicationInv, PublicationFields
<1> QED
  BY <1>1, <1>2, <1>3 DEF NoPublication

LEMMA SnapshotsInitially == ConfigInit => SnapshotInv
<1> SUFFICES ASSUME ConfigInit
             PROVE  SnapshotInv
  OBVIOUS
<1>1. Len(snapshots) = 0 /\ snapshots \in Seq(Range(snapshots))
  BY DEF ConfigInit
<1>2. OneCurrentSnapshot
  BY <1>1 DEF OneCurrentSnapshot, Current
<1>3. \A p \in Servers : PublicationInv(pub[p])
  BY <1>1, NoPublicationRuns DEF ConfigInit
<1>4. pub = [p \in Servers |-> pub[p]]
  BY DEF ConfigInit
<1> QED
  BY <1>1, <1>2, <1>3, <1>4 DEF SnapshotInv

\* One publication moves and the snapshots stay.
LEMMA OnePublicationMoves ==
  ASSUME SnapshotInv, NEW p \in Servers, NEW r, pub' = [pub EXCEPT ![p] = r],
         PublicationInv(r), snapshots' = snapshots
  PROVE  SnapshotInv'
<1>1. /\ pub' = [q \in Servers |-> pub'[q]] /\ pub'[p] = r
      /\ \A q \in Servers \ {p} : pub'[q] = pub[q]
  BY DEF SnapshotInv
<1>2. \A q \in Servers : PublicationInv(pub'[q])
  BY <1>1 DEF SnapshotInv
<1>3. \A q \in Servers : PublicationInv(pub[q])'
  BY <1>2 DEF PublicationInv, Current
<1>4. OneCurrentSnapshot'
  BY DEF SnapshotInv, OneCurrentSnapshot, Current
<1> QED
  BY <1>1, <1>3, <1>4 DEF SnapshotInv

\* What is published while something changes is no longer quiet.
LEMMA NoneIsQuiet ==
  ASSUME SnapshotInv, pub' = [q \in Servers |-> [pub[q] EXCEPT !.quiet = FALSE]],
         snapshots' = snapshots
  PROVE  SnapshotInv'
<1>1. pub' = [q \in Servers |-> pub'[q]]
  OBVIOUS
<1>2. ASSUME NEW q \in Servers
      PROVE  PublicationInv(pub[q])'
  <2>1. PublicationInv(pub[q]) /\ pub'[q] = [pub[q] EXCEPT !.quiet = FALSE]
    BY DEF SnapshotInv
  <2>2. PublicationInv(pub'[q])
    BY <2>1 DEF PublicationInv, PublicationFields
  <2> QED
    BY <2>2 DEF PublicationInv, Current
<1>3. OneCurrentSnapshot'
  BY DEF SnapshotInv, OneCurrentSnapshot, Current
<1> QED
  BY <1>1, <1>2, <1>3 DEF SnapshotInv

LEMMA SnapshotsPreserved == SnapshotInv /\ [ConfigNext]_configVars => SnapshotInv'
<1> SUFFICES ASSUME SnapshotInv, [ConfigNext]_configVars
             PROVE  SnapshotInv'
  OBVIOUS
<1>0. /\ Len(snapshots) \in Nat /\ \A p \in Servers : PublicationInv(pub[p])
      /\ DOMAIN snapshots = 1..Len(snapshots)
  BY DEF SnapshotInv
<1>1. ASSUME NEW p \in Servers, NEW f, NEW s, NEW d, NEW tbc, NEW v, SetValue(p, f, s, d, tbc, v)
      PROVE  SnapshotInv'
  BY <1>1, NoneIsQuiet DEF SetValue
<1>2. CASE Midnight
  BY <1>2, NoneIsQuiet DEF Midnight
<1>3. ASSUME UNCHANGED <<snapshots, pub>>
      PROVE  SnapshotInv'
  BY <1>3 DEF SnapshotInv, PublicationInv, OneCurrentSnapshot, Current
<1>4. ASSUME NEW p \in Servers, NEW d, BeginPublish(p, d)
      PROVE  SnapshotInv'
  <2>1. PICK r : r = [NoPublication EXCEPT !.pc = "reading", !.asOf = d, !.toRead = Catalogue]
    OBVIOUS
  <2>2. PublicationInv(r)
    BY <1>0, <2>1, NoPublicationRuns DEF PublicationInv, PublicationFields
  <2> QED
    BY <1>4, <2>1, <2>2, OnePublicationMoves DEF BeginPublish
<1>5. ASSUME NEW p \in Servers, ReadField(p)
      PROVE  SnapshotInv'
  <2>1. PICK f, v : pub' = [pub EXCEPT ![p].toRead = @ \ {f}, ![p].resolved[f] = v]
    BY <1>5, Zenon DEF ReadField
  <2>2. PICK r : r = [pub[p] EXCEPT !.toRead = @ \ {f}, !.resolved[f] = v]
    OBVIOUS
  <2>3. PublicationInv(r)
    BY <1>0, <1>5, <2>2 DEF PublicationInv, PublicationFields, ReadField
  <2>4. pub' = [pub EXCEPT ![p] = r] /\ snapshots' = snapshots
    BY <1>0, <1>5, <2>1, <2>2 DEF ReadField, SnapshotInv, PublicationInv
  <2> QED
    BY <2>3, <2>4, OnePublicationMoves
<1>6. ASSUME NEW p \in Servers, NextVersion(p)
      PROVE  SnapshotInv'
  <2>1. PICK r : r = [pub[p] EXCEPT !.pc = "numbered", !.version = Len(snapshots) + 1]
    OBVIOUS
  <2>2. PublicationInv(r)
    BY <1>0, <2>1 DEF PublicationInv, PublicationFields
  <2>3. pub' = [pub EXCEPT ![p] = r] /\ snapshots' = snapshots
    BY <1>0, <1>6, <2>1 DEF NextVersion, SnapshotInv
  <2> QED
    BY <2>2, <2>3, OnePublicationMoves
<1>7. ASSUME NEW p \in Servers, Supersede(p)
      PROVE  SnapshotInv'
  <2>1. PICK r : r = [pub[p] EXCEPT !.pc = "superseded", !.locked = Current]
    OBVIOUS
  <2>2. PublicationInv(r)
    BY <1>0, <2>1 DEF PublicationInv, PublicationFields
  <2>3. pub' = [pub EXCEPT ![p] = r] /\ snapshots' = snapshots
    BY <1>0, <1>7, <2>1 DEF Supersede, SnapshotInv
  <2> QED
    BY <2>2, <2>3, OnePublicationMoves
<1>8. ASSUME NEW p \in Servers, pub' = [pub EXCEPT ![p] = NoPublication], snapshots' = snapshots
      PROVE  SnapshotInv'
  BY <1>0, <1>8, NoPublicationRuns, OnePublicationMoves
<1>9. ASSUME NEW p \in Servers, CommitSnapshot(p), VersionFree(p)
      PROVE  SnapshotInv'
  <2> DEFINE n == Len(snapshots)
  <2>1. pub[p].version = n + 1 /\ pub[p].locked = Current
    BY <1>0, <1>9 DEF VersionFree, PublicationInv, CommitSnapshot
  <2>2. PICK new : new = [version |-> n + 1, resolved |-> pub[p].resolved, superseded |-> FALSE]
    OBVIOUS
  <2>3. PICK old : old = [i \in 1..n |-> IF i \in Current THEN [snapshots[i] EXCEPT !.superseded = TRUE]
                                         ELSE snapshots[i]]
    OBVIOUS
  <2>4. snapshots' = Append(old, new) /\ pub' = [pub EXCEPT ![p] = NoPublication]
    BY <1>9, <2>1, <2>2, <2>3 DEF CommitSnapshot
  <2>5. /\ old \in Seq(Range(old)) /\ Len(old) = n /\ DOMAIN old = 1..n
        /\ \A i \in 1..n : /\ DOMAIN old[i] = SnapshotFields /\ old[i].version = i
                           /\ old[i].superseded
    <3>1. DOMAIN old = 1..n /\ n \in Nat
      BY <1>0, <2>3
    <3>2. old \in Seq(Range(old)) /\ Len(old) = n
      <4>1. old = [i \in 1..n |-> old[i]] /\ \A i \in 1..n : old[i] \in Range(old)
        BY <2>3, <3>1 DEF Range
      <4> HIDE <2>3 DEF n
      <4> QED
        BY <3>1, <4>1
    <3>3. ASSUME NEW i \in 1..n
          PROVE  DOMAIN old[i] = SnapshotFields /\ old[i].version = i /\ old[i].superseded
      BY <2>3, <1>0, <3>3 DEF SnapshotInv, SnapshotFields, OneCurrentSnapshot, Current
    <3> QED
      BY <3>1, <3>2, <3>3
  <2>6. /\ snapshots' \in Seq(Range(snapshots')) /\ Len(snapshots') = n + 1
        /\ snapshots'[n + 1] = new /\ \A i \in 1..n : snapshots'[i] = old[i]
    <3>1. \E S : old \in Seq(S) /\ new \in S
      <4>1. old \in Seq(Range(old) \union {new}) /\ new \in Range(old) \union {new}
        BY <2>5, SeqMonotonic
      <4> QED
        BY <4>1
    <3>2. PICK S : old \in Seq(S) /\ new \in S
      BY <3>1
    <3>3. /\ snapshots' \in Seq(S) /\ Len(snapshots') = n + 1
          /\ snapshots'[n + 1] = new /\ \A i \in 1..n : snapshots'[i] = old[i]
      BY <2>4, <2>5, <3>2, AppendProperties
    <3>4. snapshots' \in Seq(Range(snapshots'))
      BY <3>3 DEF Range
    <3> QED
      BY <3>3, <3>4
  <2>7. \A i \in 1..Len(snapshots') : /\ DOMAIN snapshots'[i] = SnapshotFields
                                      /\ snapshots'[i].version = i
                                      /\ i = n + 1 \/ snapshots'[i].superseded
    BY <1>0, <2>2, <2>5, <2>6 DEF SnapshotFields
  <2>8. OneCurrentSnapshot'
    BY <2>6, <2>7 DEF OneCurrentSnapshot, Current
  <2>9. /\ pub' = [q \in Servers |-> pub'[q]] /\ pub'[p] = NoPublication
        /\ \A q \in Servers \ {p} : pub'[q] = pub[q]
    BY <2>4 DEF SnapshotInv
  <2>10. ASSUME NEW q \in Servers
         PROVE  PublicationInv(pub[q])'
    <3>1. PublicationInv(pub'[q])
      BY <1>0, <2>9, NoPublicationRuns
    <3>2. pub'[q].version \in 0..(n + 1)
      BY <3>1 DEF PublicationInv
    <3> QED
      BY <1>0, <2>6, <3>1, <3>2 DEF PublicationInv
  <2> QED
    BY <2>6, <2>7, <2>8, <2>9, <2>10 DEF SnapshotInv
<1>10. ASSUME NEW p \in Servers, CommitSnapshot(p)
       PROVE  SnapshotInv'
  BY <1>8, <1>9, <1>10 DEF CommitSnapshot
<1>11. ASSUME NEW p \in Servers, AbortPublish(p)
       PROVE  SnapshotInv'
  BY <1>8, <1>11 DEF AbortPublish
<1>12. ASSUME NEW p \in Servers, CacheAnswer(p) \/ Forget(p)
       PROVE  SnapshotInv'
  BY <1>3, <1>12 DEF CacheAnswer, Forget
<1>13. ASSUME NEW p, NEW f, NEW s, NEW d, AskStore(p, f, s, d)
       PROVE  SnapshotInv'
  BY <1>3, <1>13 DEF AskStore
<1>14. CASE UNCHANGED configVars
  BY <1>3, <1>14 DEF configVars
<1> QED
  BY <1>1, <1>2, <1>4, <1>5, <1>6, <1>7, <1>10, <1>11, <1>12, <1>13, <1>14 DEF ConfigNext

\* One snapshot at most is current, it is the one published last, and the
\* versions number the publications, however publications of several servers
\* overlap, fail and collide, and whatever the settings are (resolver.ts).
THEOREM OneSnapshotIsCurrent == ConfigSpec => []OneCurrentSnapshot
<1>1. SnapshotInv => OneCurrentSnapshot
  BY DEF SnapshotInv
<1> QED
  BY <1>1, SnapshotsInitially, SnapshotsPreserved, PTL DEF ConfigSpec

-----------------------------------------------------------------------------
(* Configuration: what the settings resolve to.                            *)

\* Induction, by a least counterexample.
LEMMA LeastNumber ==
  ASSUME NEW T, T \subseteq Nat, T # {}
  PROVE  \E n \in T : \A m \in T : n <= m
<1>1. PICK n \in T : \A m \in T : ~(<<m, n>> \in OpToRel(<, Nat))
  BY NatLessThanWellFounded, WFMin
<1>2. ASSUME NEW m \in T
      PROVE  ~(m < n)
  <2>1. m < n => <<m, n>> \in OpToRel(<, Nat)
    BY DEF OpToRel
  <2> QED
    BY <1>1, <2>1, Zenon
<1> QED
  BY <1>2

Setting == [field : Catalogue, scope : Scopes, from : Days, value : Answer]

LEMMA SpecificityIsSmall == \A scope : Specificity(scope) \in 0..15
BY DEF Specificity

\* The order of resolve_setting has a first row wherever it has one at all.
LEMMA SomeRowIsFirst ==
  ASSUME NEW rows, rows \subseteq Setting, rows # {}
  PROVE  \E r \in rows : First(rows) = r.value
<1>1. PICK r \in rows : \A q \in rows : Specificity(r.scope) >= Specificity(q.scope)
  <2>1. {15 - Specificity(q.scope) : q \in rows} \subseteq Nat
    BY SpecificityIsSmall
  <2>2. PICK n \in {15 - Specificity(q.scope) : q \in rows} :
          \A m \in {15 - Specificity(q.scope) : q \in rows} : n <= m
    BY <2>1, LeastNumber
  <2>3. PICK r \in rows : n = 15 - Specificity(r.scope)
    BY <2>2
  <2>4. \A q \in rows : 15 - Specificity(r.scope) <= 15 - Specificity(q.scope)
    BY <2>2, <2>3
  <2> QED
    BY <2>4, SpecificityIsSmall
<1> DEFINE most == {q \in rows : Specificity(q.scope) = Specificity(r.scope)}
<1>2. PICK s \in most : \A q \in most : s.from >= q.from
  <2>1. \A q \in rows : q.from \in 1..LastDay /\ LastDay \in Nat
    BY ConfigConstants DEF Setting, Days
  <2>2. {LastDay - q.from : q \in most} \subseteq Nat /\ {LastDay - q.from : q \in most} # {}
    BY <2>1
  <2>3. PICK n \in {LastDay - q.from : q \in most} :
          \A m \in {LastDay - q.from : q \in most} : n <= m
    BY <2>2, LeastNumber
  <2>4. PICK s \in most : n = LastDay - s.from
    BY <2>3
  <2>5. \A q \in most : LastDay - s.from <= LastDay - q.from
    BY <2>3, <2>4
  <2> QED
    BY <2>1, <2>5
<1>3. \A q \in rows : Precedes(s, q)
  BY <1>1, <1>2, SpecificityIsSmall DEF Precedes
<1> QED
  BY <1>2, <1>3 DEF First

LEMMA ResolvesToAnAnswer ==
  ASSUME settings \subseteq Setting, NEW f, NEW scope, NEW asOf
  PROVE  ResolveSetting(f, scope, asOf) \in Answer
<1> DEFINE rows == {r \in settings : /\ r.field = f /\ r.value # Blank
                                     /\ InForce(r, asOf) /\ r.scope \subseteq scope}
<1>1. CASE rows = {}
  BY <1>1 DEF ResolveSetting, First, Answer
<1>2. CASE rows # {}
  <2>1. PICK r \in rows : First(rows) = r.value
    BY <1>2, SomeRowIsFirst
  <2> QED
    BY <2>1 DEF ResolveSetting, Setting
<1> QED
  BY <1>1, <1>2

Resolved == [Catalogue -> Answer]
Snapshot == [version : Nat, resolved : Resolved, superseded : BOOLEAN]

ValuesInv ==
  /\ SnapshotInv
  /\ settings \subseteq Setting /\ today \in Days /\ publishes \in 0..MaxPublish
  /\ \A i \in 1..Len(snapshots) : snapshots[i] \in Snapshot
  /\ \A p \in Servers : pub[p].resolved \in Resolved
  /\ cache = [p \in Servers |-> cache[p]] /\ reads = [p \in Servers |-> reads[p]]
  /\ \A p \in Servers : \A e \in cache[p] \union reads[p] : e.value \in Answer

LEMMA BlankIsResolved ==
  NoPublication.resolved \in Resolved /\ NoPublication.resolved = [f \in Catalogue |-> Blank]
<1>1. PICK blank : blank = [f \in Catalogue |-> Blank]
  OBVIOUS
<1>2. PICK r : r = [pc |-> "idle", toRead |-> {}, resolved |-> blank, asOf |-> NoDate,
                    version |-> 0, locked |-> {}, quiet |-> TRUE]
  OBVIOUS
<1>3. r.resolved = blank
  BY <1>2
<1>4. NoPublication = r
  BY <1>1, <1>2 DEF NoPublication
<1>5. blank \in Resolved
  BY <1>1 DEF Resolved, Answer
<1> QED
  BY <1>1, <1>3, <1>4, <1>5

LEMMA ValuesInitially == ConfigInit => ValuesInv
<1> SUFFICES ASSUME ConfigInit
             PROVE  ValuesInv
  OBVIOUS
<1>1. /\ settings = {} /\ today = 1 /\ publishes = 0 /\ Len(snapshots) = 0
      /\ cache = [p \in Servers |-> cache[p]] /\ reads = [p \in Servers |-> reads[p]]
      /\ \A p \in Servers : cache[p] = {} /\ reads[p] = {} /\ pub[p] = NoPublication
  BY DEF ConfigInit
<1> QED
  BY <1>1, BlankIsResolved, SnapshotsInitially, ConfigConstants DEF ValuesInv, Days

\* What is stored stays, and what is cached, on its way or being published
\* is an answer.
LEMMA ValuesStay ==
  ASSUME ValuesInv, SnapshotInv', settings' = settings, snapshots' = snapshots,
         today' = today, publishes' \in 0..MaxPublish,
         \A p \in Servers : pub'[p].resolved \in Resolved,
         cache' = [p \in Servers |-> cache'[p]], reads' = [p \in Servers |-> reads'[p]],
         \A p \in Servers : \A e \in cache'[p] \union reads'[p] : e.value \in Answer
  PROVE  ValuesInv'
BY DEF ValuesInv

LEMMA ValuesPreserved == ValuesInv /\ [ConfigNext]_configVars => ValuesInv'
<1> SUFFICES ASSUME ValuesInv, [ConfigNext]_configVars
             PROVE  ValuesInv'
  OBVIOUS
<1>0. /\ SnapshotInv /\ SnapshotInv' /\ pub = [p \in Servers |-> pub[p]]
      /\ \A p \in Servers : DOMAIN pub[p] = PublicationFields /\ pub[p].resolved \in Resolved
      /\ cache = [p \in Servers |-> cache[p]] /\ reads = [p \in Servers |-> reads[p]]
      /\ \A p \in Servers : \A e \in cache[p] \union reads[p] : e.value \in Answer
      /\ publishes \in 0..MaxPublish /\ MaxPublish \in Nat
  BY SnapshotsPreserved, ConfigConstants DEF ValuesInv, SnapshotInv, PublicationInv
<1>1. ASSUME NEW p \in Servers, NEW f \in Catalogue, NEW s \in Scopes, NEW d \in Days,
             NEW tbc \in BOOLEAN, NEW v \in Answers \union {BadShape, Blank},
             SetValue(p, f, s, d, tbc, v)
      PROVE  ValuesInv'
  <2>1. v \in Answer
    BY <1>1 DEF SetValue, Acceptable, Answer
  <2>2. PICK row : row = [field |-> f, scope |-> s, from |-> d, value |-> v]
    OBVIOUS
  <2>3. row \in Setting
    BY <2>1, <2>2 DEF Setting
  <2>4. PICK others : others \subseteq settings /\ settings' = others \union {row}
    BY <1>1, <2>2 DEF SetValue
  <2>5. /\ cache' = [cache EXCEPT ![p] = {}] /\ UNCHANGED <<snapshots, reads, today, publishes>>
        /\ pub' = [q \in Servers |-> [pub[q] EXCEPT !.quiet = FALSE]]
    BY <1>1 DEF SetValue
  <2>6. \A q \in Servers : pub'[q].resolved \in Resolved
    BY <1>0, <2>5 DEF PublicationFields
  <2>7. /\ cache' = [q \in Servers |-> cache'[q]]
        /\ \A q \in Servers : cache'[q] \subseteq cache[q]
    BY <1>0, <2>5
  <2>8. settings' \subseteq Setting
    BY <2>3, <2>4 DEF ValuesInv
  <2> QED
    BY <1>0, <2>5, <2>6, <2>7, <2>8 DEF ValuesInv
<1>2. CASE Midnight
  <2>1. /\ today' \in Days /\ UNCHANGED <<settings, snapshots, cache, reads, publishes>>
        /\ pub' = [q \in Servers |-> [pub[q] EXCEPT !.quiet = FALSE]]
    BY <1>2, ConfigConstants DEF Midnight, ValuesInv, Days
  <2>2. \A q \in Servers : pub'[q].resolved \in Resolved
    BY <1>0, <2>1 DEF PublicationFields
  <2> QED
    BY <1>0, <2>1, <2>2 DEF ValuesInv
<1>3. ASSUME NEW p \in Readers, NEW f, NEW s, NEW d, AskStore(p, f, s, d)
      PROVE  ValuesInv'
  <2>1. ResolveSetting(f, s, d) \in Answer
    BY ResolvesToAnAnswer DEF ValuesInv
  <2>2. PICK e : e = [key |-> <<f, s, d>>, value |-> ResolveSetting(f, s, d)]
    OBVIOUS
  <2>3. e.value \in Answer
    BY <2>1, <2>2
  <2>4. reads' = [reads EXCEPT ![p] = @ \union {e}]
        /\ UNCHANGED <<settings, snapshots, cache, pub, today, publishes>>
    BY <1>3, <2>2 DEF AskStore
  <2>5. /\ reads' = [q \in Servers |-> reads'[q]]
        /\ \A q \in Servers : reads'[q] \subseteq reads[q] \union {e}
    BY <1>0, <2>4
  <2> QED
    BY <1>0, <2>3, <2>4, <2>5, ValuesStay
<1>4. ASSUME NEW p \in Servers, CacheAnswer(p)
      PROVE  ValuesInv'
  <2>1. PICK e \in reads[p] :
          /\ reads' = [reads EXCEPT ![p] = @ \ {e}]
          /\ cache' = [cache EXCEPT ![p] = {d \in @ : d.key # e.key} \union {e}]
          /\ UNCHANGED <<settings, snapshots, pub, today, publishes>>
    BY <1>4 DEF CacheAnswer
  <2>2. /\ reads' = [q \in Servers |-> reads'[q]] /\ cache' = [q \in Servers |-> cache'[q]]
        /\ \A q \in Servers : /\ reads'[q] \subseteq reads[q]
                              /\ cache'[q] \subseteq cache[q] \union reads[q]
    BY <1>0, <2>1
  <2> QED
    BY <1>0, <2>1, <2>2, ValuesStay
<1>5. ASSUME NEW p \in Servers, Forget(p)
      PROVE  ValuesInv'
  <2>1. /\ cache' = [q \in Servers |-> cache'[q]]
        /\ \A q \in Servers : cache'[q] \subseteq cache[q]
        /\ UNCHANGED <<settings, snapshots, reads, pub, today, publishes>>
    BY <1>0, <1>5 DEF Forget
  <2> QED
    BY <1>0, <2>1, ValuesStay
<1>6. ASSUME NEW p \in Servers, NEW d, BeginPublish(p, d)
      PROVE  ValuesInv'
  <2>1. PICK r : r = [NoPublication EXCEPT !.pc = "reading", !.asOf = d, !.toRead = Catalogue]
    OBVIOUS
  <2>2. r.resolved \in Resolved
    BY <2>1, BlankIsResolved DEF NoPublication
  <2>3. pub' = [pub EXCEPT ![p] = r] /\ publishes' \in 0..MaxPublish
        /\ UNCHANGED <<settings, snapshots, cache, reads, today>>
    BY <1>0, <1>6, <2>1 DEF BeginPublish
  <2>4. \A q \in Servers : pub'[q].resolved \in Resolved
    BY <1>0, <2>2, <2>3
  <2> QED
    BY <1>0, <2>3, <2>4, ValuesStay
<1>7. ASSUME NEW p \in Servers, ReadField(p)
      PROVE  ValuesInv'
  <2>1. PICK f, v :
          /\ v \in Answer /\ pub' = [pub EXCEPT ![p].toRead = @ \ {f}, ![p].resolved[f] = v]
          /\ UNCHANGED <<settings, snapshots, cache, reads, today, publishes>>
    <3>1. PICK f : f = CHOOSE g \in pub[p].toRead : \A h \in pub[p].toRead : g <= h
      OBVIOUS
    <3>2. PICK v : v = ResolveSetting(f, {}, pub[p].asOf)
      OBVIOUS
    <3>3. v \in Answer
      BY <3>2, ResolvesToAnAnswer DEF ValuesInv
    <3>4. /\ pub' = [pub EXCEPT ![p].toRead = @ \ {f}, ![p].resolved[f] = v]
          /\ UNCHANGED <<settings, snapshots, cache, reads, today, publishes>>
      BY <1>7, <3>1, <3>2 DEF ReadField
    <3> HIDE <3>1, <3>2
    <3> QED
      BY <3>3, <3>4, Zenon
  <2>2. PICK r : r = [pub[p] EXCEPT !.toRead = @ \ {f}, !.resolved[f] = v]
    OBVIOUS
  <2>3. r.resolved \in Resolved
    BY <1>0, <2>1, <2>2 DEF PublicationFields, Resolved
  <2>4. pub' = [pub EXCEPT ![p] = r]
    BY <1>0, <2>1, <2>2 DEF PublicationFields
  <2>5. \A q \in Servers : pub'[q].resolved \in Resolved
    BY <1>0, <2>3, <2>4
  <2> QED
    BY <1>0, <2>1, <2>5, ValuesStay
<1>8. ASSUME NEW p \in Servers, NextVersion(p) \/ Supersede(p)
      PROVE  ValuesInv'
  <2>1. \A q \in Servers : pub'[q].resolved = pub[q].resolved
    BY <1>0, <1>8 DEF NextVersion, Supersede, PublicationFields
  <2>2. UNCHANGED <<settings, snapshots, cache, reads, today, publishes>>
    BY <1>8 DEF NextVersion, Supersede
  <2> QED
    BY <1>0, <2>1, <2>2, ValuesStay
<1>9. ASSUME NEW p \in Servers, AbortPublish(p)
      PROVE  ValuesInv'
  <2>1. \A q \in Servers : pub'[q].resolved \in Resolved
    BY <1>0, <1>9, BlankIsResolved DEF AbortPublish
  <2>2. UNCHANGED <<settings, snapshots, cache, reads, today, publishes>>
    BY <1>9 DEF AbortPublish
  <2> QED
    BY <1>0, <2>1, <2>2, ValuesStay
<1>10. ASSUME NEW p \in Servers, CommitSnapshot(p)
       PROVE  ValuesInv'
  <2> DEFINE n == Len(snapshots)
  <2>1. \A q \in Servers : pub'[q].resolved \in Resolved
    BY <1>0, <1>10, BlankIsResolved DEF CommitSnapshot
  <2>2. /\ UNCHANGED <<settings, reads, today, publishes>>
        /\ cache' = [q \in Servers |-> cache'[q]]
        /\ \A q \in Servers : cache'[q] \subseteq cache[q]
    BY <1>0, <1>10 DEF CommitSnapshot
  <2>3. CASE UNCHANGED snapshots
    BY <1>0, <2>1, <2>2, <2>3 DEF ValuesInv
  <2>4. CASE VersionFree(p)
    <3>1. PICK new : new = [version |-> pub[p].version, resolved |-> pub[p].resolved,
                            superseded |-> FALSE]
      OBVIOUS
    <3>2. PICK old : old = [i \in 1..n |-> IF i \in pub[p].locked
                                           THEN [snapshots[i] EXCEPT !.superseded = TRUE]
                                           ELSE snapshots[i]]
      OBVIOUS
    <3>3. snapshots' = Append(old, new)
      BY <1>10, <2>4, <3>1, <3>2 DEF CommitSnapshot
    <3>4. n \in Nat /\ pub[p].version \in Nat /\ \A i \in 1..n : snapshots[i] \in Snapshot
      BY <1>0 DEF SnapshotInv, PublicationInv, ValuesInv
    <3>5. DOMAIN old = 1..n /\ \A i \in 1..n : old[i] \in Snapshot
      BY <3>2, <3>4 DEF Snapshot
    <3>6. new \in Snapshot
      BY <1>0, <3>1, <3>4 DEF Snapshot
    <3>7. old \in Seq(Range(old) \union {new}) /\ Len(old) = n
      <4>1. old = [i \in 1..n |-> old[i]] /\ \A i \in 1..n : old[i] \in Range(old) \union {new}
        BY <3>2, <3>5 DEF Range
      <4> HIDE <3>2 DEF n
      <4> QED
        BY <3>4, <4>1
    <3> HIDE <3>1, <3>2 DEF n
    <3>8. /\ Len(snapshots') = n + 1 /\ snapshots'[n + 1] = new
          /\ \A i \in 1..n : snapshots'[i] = old[i]
      BY <3>3, <3>7, AppendProperties
    <3>9. \A i \in 1..Len(snapshots') : snapshots'[i] \in Snapshot
      BY <3>4, <3>5, <3>6, <3>8
    <3> QED
      BY <1>0, <2>1, <2>2, <3>9 DEF ValuesInv
  <2> QED
    BY <1>10, <2>3, <2>4 DEF CommitSnapshot
<1>11. CASE UNCHANGED configVars
  BY <1>0, <1>11, ValuesStay DEF configVars
<1> QED
  BY <1>1, <1>2, <1>3, <1>4, <1>5, <1>6, <1>7, <1>8, <1>9, <1>10, <1>11 DEF ConfigNext

\* The settings, the snapshots and the caches hold values of their types.
THEOREM ConfigurationIsTyped == ConfigSpec => []ConfigTypeOK
<1>1. ValuesInv => ConfigTypeOK
  BY DEF ValuesInv, ConfigTypeOK, Setting, Snapshot, Resolved
<1> QED
  BY <1>1, ValuesInitially, ValuesPreserved, PTL DEF ConfigSpec

\* Where settings health counts no mandatory field as blank, each resolves
\* today at some scope: the view and resolve_setting order the rows alike,
\* and what the view shows has a scope to be read at.
THEOREM HealthMeansResolvable == ConfigSpec => []CompleteMeansResolvable
<1>1. ValuesInv => CompleteMeansResolvable
  <2> SUFFICES ASSUME ValuesInv, BlankMandatory = {}, NEW f \in Mandatory
               PROVE  \E s \in Scopes : ResolveSetting(f, s, today) # Blank
    BY DEF CompleteMeansResolvable
  <2>1. HealthValue(f) # Blank
    BY DEF BlankMandatory
  <2> DEFINE shown == {r \in settings : r.field = f /\ r.from <= today}
  <2>2. shown # {} /\ shown \subseteq Setting
    BY <2>1 DEF HealthValue, First, ValuesInv
  <2>3. PICK r \in shown : First(shown) = r.value
    BY <2>2, SomeRowIsFirst
  <2>4. r \in settings /\ r.field = f /\ r.from <= today /\ r.value # Blank /\ r.scope \in Scopes
    BY <2>1, <2>2, <2>3 DEF HealthValue, Setting
  <2>5. today # NoDate
    BY ConfigConstants DEF ValuesInv, Days
  <2> DEFINE rows == {q \in settings : /\ q.field = f /\ q.value # Blank
                                       /\ InForce(q, today) /\ q.scope \subseteq r.scope}
  <2>6. r \in rows /\ rows \subseteq Setting
    BY <2>4, <2>5 DEF InForce, ValuesInv
  <2>7. PICK q \in rows : First(rows) = q.value
    BY <2>6, SomeRowIsFirst
  <2>8. ResolveSetting(f, r.scope, today) # Blank
    BY <2>7 DEF ResolveSetting
  <2> QED
    BY <2>4, <2>8
<1> QED
  BY <1>1, ValuesInitially, ValuesPreserved, PTL DEF ConfigSpec

-----------------------------------------------------------------------------
(* Corpus: the chunks and the ingests that write them.                     *)

ChunkFields  == {"id", "version", "text", "pack", "from", "to", "rate", "verified", "flags"}
IngestFields == {"pc", "dir", "left", "seen"}

ChunkInv(c) ==
  /\ DOMAIN c = ChunkFields
  /\ c.version \in Nat \ {0} /\ c.from \in Nat \ {0} /\ c.pack \in Versions
  /\ c.to \in Int /\ (c.to = Open \/ c.to >= c.from)

\* No version of a section is there twice, and none is left out.
VersionsRun ==
  /\ \A c, d \in chunks : c.id = d.id /\ c.version = d.version => c = d
  /\ \A c \in chunks : \A n \in 1..c.version : \E d \in chunks : d.id = c.id /\ d.version = n

\* What an ingest saw of its section may be old, but the row is there.
IngestInv(r) ==
  /\ DOMAIN r = IngestFields
  /\ r.pc \in {"look", "write"} => r.dir \in Directories
  /\ r.pc = "write" => \/ r.seen = NoRow
                       \/ /\ r.seen.id = Head(r.left).id
                          /\ \E c \in chunks : c.id = r.seen.id /\ c.version = r.seen.version

ChunksInv ==
  /\ \A c \in chunks : ChunkInv(c)
  /\ VersionsRun /\ NewestVersionIsOpen
  /\ ingests = [i \in Ingests |-> ingests[i]]
  /\ \A i \in Ingests : IngestInv(ingests[i])

LEMMA NoIngestRuns == IngestInv(NoIngest)
<1>1. PICK d, none : d = (CHOOSE e \in Directories : TRUE) /\ none = NoRow
  OBVIOUS
<1>2. NoIngest = [pc |-> "idle", dir |-> d, left |-> <<>>, seen |-> none]
  BY <1>1 DEF NoIngest
<1> QED
  BY <1>2 DEF IngestInv, IngestFields

LEMMA ChunksInitially == CorpusInit => ChunksInv
BY NoIngestRuns DEF CorpusInit, ChunksInv, VersionsRun, NewestVersionIsOpen

\* One ingest moves, and every version of a section is still there.
LEMMA OneIngestMoves ==
  ASSUME ChunksInv, NEW i \in Ingests, NEW r, ingests' = [ingests EXCEPT ![i] = r],
         IngestInv(r)',
         \A c \in chunks : \E d \in chunks' : d.id = c.id /\ d.version = c.version
  PROVE  /\ ingests' = [j \in Ingests |-> ingests'[j]]
         /\ \A j \in Ingests : IngestInv(ingests[j])'
<1>1. /\ ingests' = [j \in Ingests |-> ingests'[j]] /\ ingests'[i] = r
      /\ \A j \in Ingests \ {i} : ingests'[j] = ingests[j]
  BY DEF ChunksInv
<1>2. ASSUME NEW j \in Ingests \ {i}
      PROVE  IngestInv(ingests[j])'
  <2>1. IngestInv(ingests[j]) /\ ingests'[j] = ingests[j]
    BY <1>1 DEF ChunksInv
  <2> QED
    BY <2>1 DEF IngestInv
<1> QED
  BY <1>1, <1>2 DEF IngestInv

LEMMA OnlyIngestMoves ==
  ASSUME ChunksInv, NEW i \in Ingests, NEW r, ingests' = [ingests EXCEPT ![i] = r],
         IngestInv(r), chunks' = chunks
  PROVE  ChunksInv'
<1>1. IngestInv(r)'
  BY DEF IngestInv
<1>2. /\ ingests' = [j \in Ingests |-> ingests'[j]]
      /\ \A j \in Ingests : IngestInv(ingests[j])'
  BY <1>1, OneIngestMoves
<1> QED
  BY <1>2 DEF ChunksInv, VersionsRun, NewestVersionIsOpen, ChunkInv

\* A section has one open row at most, so the newest of them is any of them.
LEMMA OneOpenRow ==
  ASSUME ChunksInv, NEW c \in chunks, NEW d \in chunks, c.id = d.id, c.to = Open, d.to = Open
  PROVE  c = d
<1>1. c.version <= d.version /\ d.version <= c.version
  BY DEF ChunksInv, NewestVersionIsOpen
<1>2. c.version \in Nat /\ d.version \in Nat
  BY DEF ChunksInv, ChunkInv
<1> QED
  BY <1>1, <1>2 DEF ChunksInv, VersionsRun

\* A row whose version may be older than the newest is closed; where it was
\* the newest a row with the version after it opens.
LEMMA Supersedes ==
  ASSUME ChunksInv, NEW old \in chunks, NEW from \in Nat \ {0}, NEW row,
         ChunkInv(row), row.id = old.id, row.version = old.version + 1, row.to = Open,
         NEW closed, closed = Closed(old, from), ChecksHold(closed),
         NEW there \in BOOLEAN,
         there <=> \E c \in chunks : c.id = row.id /\ c.version = row.version,
         chunks' = closed \union (IF there THEN {} ELSE {row})
  PROVE  /\ \A c \in chunks' : ChunkInv(c)
         /\ VersionsRun' /\ NewestVersionIsOpen'
         /\ \A c \in chunks : \E d \in chunks' : d.id = c.id /\ d.version = c.version
<1> DEFINE Shut(c) == IF c.id = old.id /\ c.version = old.version THEN [c EXCEPT !.to = from - 1] ELSE c
<1>1. ASSUME NEW c \in chunks
      PROVE  /\ Shut(c).id = c.id /\ Shut(c).version = c.version /\ c.version \in Nat \ {0}
             /\ ChunkInv(Shut(c))
             /\ c = old => Shut(c).to # Open
             /\ c # old => Shut(c) = c
  <2>1. ChunkInv(c) /\ (c = old \/ ~(c.id = old.id /\ c.version = old.version))
    BY DEF ChunksInv, VersionsRun
  <2>2. Shut(c) \in closed
    BY DEF Closed
  <2>3. Shut(c).to = Open \/ Shut(c).to >= Shut(c).from
    BY <2>2 DEF ChecksHold
  <2>4. CASE c = old
    <3>1. Shut(c) = [c EXCEPT !.to = from - 1] /\ from - 1 \in Int /\ from - 1 # Open
      BY <2>4 DEF Open
    <3> QED
      BY <2>1, <2>3, <2>4, <3>1 DEF ChunkInv, ChunkFields
  <2>5. CASE c # old
    BY <2>1, <2>5 DEF ChunkInv
  <2> QED
    BY <2>4, <2>5
<1>2. /\ \A e \in chunks' : (\E c \in chunks : e = Shut(c)) \/ (~there /\ e = row)
      /\ \A c \in chunks : Shut(c) \in chunks'
      /\ ~there => row \in chunks'
  BY DEF Closed
<1> HIDE DEF Shut
<1>3. \A e \in chunks' : ChunkInv(e)
  BY <1>1, <1>2
<1>4. \A c \in chunks : \E d \in chunks' : d.id = c.id /\ d.version = c.version
  BY <1>1, <1>2
<1>5. VersionsRun'
  <2>1. ASSUME NEW e \in chunks', NEW f \in chunks', e.id = f.id, e.version = f.version
        PROVE  e = f
    BY <1>1, <1>2, <2>1 DEF ChunksInv, VersionsRun
  <2>2. ASSUME NEW e \in chunks', NEW n \in 1..e.version
        PROVE  \E d \in chunks' : d.id = e.id /\ d.version = n
    <3>1. ASSUME NEW c \in chunks, e = Shut(c)
          PROVE  \E d \in chunks' : d.id = e.id /\ d.version = n
      <4>1. PICK d \in chunks : d.id = c.id /\ d.version = n
        BY <1>1, <2>2, <3>1 DEF ChunksInv, VersionsRun
      <4> QED
        BY <1>1, <1>2, <3>1, <4>1
    <3>2. CASE e = row /\ n = row.version
      BY <3>2
    <3>3. CASE e = row /\ n # row.version
      <4>1. n \in 1..old.version
        BY <1>1, <2>2, <3>3
      <4>2. PICK d \in chunks : d.id = old.id /\ d.version = n
        BY <4>1 DEF ChunksInv, VersionsRun
      <4> QED
        BY <1>1, <1>2, <3>3, <4>2
    <3> QED
      BY <1>2, <3>1, <3>2, <3>3
  <2> QED
    BY <2>1, <2>2 DEF VersionsRun
<1>6. ~there => \A c \in chunks : c.id = old.id => c.version <= old.version
  <2> SUFFICES ASSUME ~there, NEW c \in chunks, c.id = old.id, ~(c.version <= old.version)
               PROVE  FALSE
    OBVIOUS
  <2>1. old.version + 1 \in 1..c.version
    BY <1>1
  <2> QED
    BY <2>1 DEF ChunksInv, VersionsRun
<1>7. NewestVersionIsOpen'
  <2> SUFFICES ASSUME NEW e \in chunks'
               PROVE  (e.to = Open) <=> (\A f \in chunks' : f.id = e.id => f.version <= e.version)
    BY DEF NewestVersionIsOpen
  <2>1. ASSUME NEW c \in chunks, e = Shut(c), c # old
        PROVE  (e.to = Open) <=> (\A f \in chunks' : f.id = e.id => f.version <= e.version)
    <3>1. (e.to = Open) <=> (\A d \in chunks : d.id = c.id => d.version <= c.version)
      BY <1>1, <2>1 DEF ChunksInv, NewestVersionIsOpen
    <3>2. CASE there
      BY <1>1, <1>2, <2>1, <3>1, <3>2
    <3>3. CASE ~there /\ c.id # old.id
      BY <1>1, <1>2, <2>1, <3>1, <3>3
    <3>4. CASE ~there /\ c.id = old.id
      <4>1. c.version < old.version
        BY <1>1, <1>6, <2>1, <3>4 DEF ChunksInv, VersionsRun
      <4>2. Shut(old) \in chunks' /\ Shut(old).id = e.id /\ ~(Shut(old).version <= e.version)
        BY <1>1, <1>2, <2>1, <3>4, <4>1
      <4> QED
        BY <1>1, <3>1, <3>4, <4>1, <4>2
    <3> QED
      BY <3>2, <3>3, <3>4
  <2>2. CASE e = Shut(old)
    <3>1. e.to # Open /\ e.id = old.id /\ e.version = old.version /\ old.version \in Nat
      BY <1>1, <2>2
    <3>2. \E f \in chunks' : f.id = old.id /\ f.version = old.version + 1
      BY <1>1, <1>2
    <3> QED
      BY <3>1, <3>2
  <2>3. CASE ~there /\ e = row
    BY <1>1, <1>2, <1>6, <2>3
  <2> QED
    BY <1>2, <2>1, <2>2, <2>3
<1> QED
  BY <1>3, <1>4, <1>5, <1>7

\* The first row of a section opens; there is none of its other versions.
LEMMA FirstOpens ==
  ASSUME ChunksInv, NEW row, ChunkInv(row), row.version = 1, row.to = Open,
         ~\E c \in chunks : c.id = row.id /\ c.version = row.version,
         chunks' = chunks \union {row}
  PROVE  /\ \A c \in chunks' : ChunkInv(c)
         /\ VersionsRun' /\ NewestVersionIsOpen'
<1>1. ASSUME NEW c \in chunks
      PROVE  c.id # row.id
  <2>1. 1 \in 1..c.version
    BY DEF ChunksInv, ChunkInv
  <2> QED
    BY <2>1 DEF ChunksInv, VersionsRun
<1>2. VersionsRun'
  BY <1>1 DEF ChunksInv, VersionsRun
<1>3. NewestVersionIsOpen'
  BY <1>1 DEF ChunksInv, NewestVersionIsOpen
<1> QED
  BY <1>2, <1>3 DEF ChunksInv

LEMMA WriteSectionKeeps ==
  ASSUME ChunksInv, NEW i \in Ingests, WriteSection(i)
  PROVE  ChunksInv'
<1> DEFINE seen == ingests[i].seen
           dir  == ingests[i].dir
           section == Head(ingests[i].left)
<1>0. /\ IngestInv(ingests[i]) /\ ingests[i].pc = "write"
      /\ dir \in Directories /\ dir.version \in Versions /\ dir.from \in Nat \ {0}
  BY CorpusConstants DEF ChunksInv, WriteSection, IngestInv
<1>1. PICK next : next = [ingests[i] EXCEPT !.pc = "look", !.left = Tail(@)]
  OBVIOUS
<1>2. IngestInv(next) /\ IngestInv(next)'
  BY <1>0, <1>1 DEF IngestInv, IngestFields
<1>3. CASE UNCHANGED chunks
  <2>1. PICK r : ingests' = [ingests EXCEPT ![i] = r] /\ IngestInv(r)
    <3>1. CASE ingests' = [ingests EXCEPT ![i].pc = "look", ![i].left = Tail(@)]
      BY <1>1, <1>2, <3>1 DEF ChunksInv
    <3>2. CASE ingests' = [ingests EXCEPT ![i].pc = "failed"]
      <4>1. PICK r : r = [ingests[i] EXCEPT !.pc = "failed"]
        OBVIOUS
      <4>2. IngestInv(r) /\ ingests' = [ingests EXCEPT ![i] = r]
        BY <1>0, <3>2, <4>1 DEF ChunksInv, IngestInv, IngestFields
      <4> QED
        BY <4>2
    <3>3. \/ ingests' = [ingests EXCEPT ![i].pc = "look", ![i].left = Tail(@)]
          \/ ingests' = [ingests EXCEPT ![i].pc = "failed"]
      BY DEF WriteSection
    <3> QED
      BY <3>1, <3>2, <3>3
  <2> QED
    BY <1>3, <2>1, OnlyIngestMoves
<1>4. CASE ~UNCHANGED chunks
  <2>1. PICK row : row = [id |-> section.id, version |-> VersionAfter(seen), text |-> section.text,
                          pack |-> dir.version, from |-> dir.from, to |-> Open,
                          rate |-> section.rate, verified |-> dir.verified, flags |-> {}]
    OBVIOUS
  <2>2. PICK closed : closed = IF seen = NoRow THEN chunks ELSE Closed(seen, dir.from)
    OBVIOUS
  <2>3. PICK there \in BOOLEAN : there <=> \E c \in chunks : c.id = row.id /\ c.version = row.version
    OBVIOUS
  <2>4. /\ ChecksHold(closed) /\ chunks' = closed \union (IF there THEN {} ELSE {row})
        /\ ingests' = [ingests EXCEPT ![i].pc = "look", ![i].left = Tail(@)]
    BY <1>4, <2>1, <2>2, <2>3 DEF WriteSection
  <2>5. /\ \A c \in chunks' : ChunkInv(c)
        /\ VersionsRun' /\ NewestVersionIsOpen'
        /\ \A c \in chunks : \E d \in chunks' : d.id = c.id /\ d.version = c.version
    <3>1. CASE seen = NoRow
      <4>1. row.version = 1
        BY <2>1, <3>1 DEF VersionAfter, NoRow
      <4>2. ChunkInv(row) /\ row.to = Open
        BY <1>0, <2>1, <4>1 DEF ChunkInv, ChunkFields, Open
      <4>3. ~there /\ chunks' = chunks \union {row}
        BY <1>4, <2>2, <2>4, <3>1
      <4> QED
        BY <2>3, <4>1, <4>2, <4>3, FirstOpens
    <3>2. CASE seen # NoRow
      <4>1. PICK old \in chunks : old.id = seen.id /\ old.version = seen.version
        BY <1>0, <3>2 DEF IngestInv
      <4>2. row.id = old.id /\ row.version = old.version + 1 /\ row.to = Open /\ ChunkInv(old)
        BY <1>0, <2>1, <3>2, <4>1 DEF VersionAfter, IngestInv, ChunksInv
      <4>3. ChunkInv(row)
        BY <1>0, <2>1, <4>2 DEF ChunkInv, ChunkFields, Open
      <4>4. closed = Closed(old, dir.from)
        BY <2>2, <3>2, <4>1 DEF Closed
      <4> HIDE <2>1, <2>2 DEF seen, dir, section
      <4>5. PICK from \in Nat \ {0} : closed = Closed(old, from)
        BY <1>0, <4>4
      <4> QED
        BY <2>3, <2>4, <4>2, <4>3, <4>5, Supersedes
    <3> QED
      BY <3>1, <3>2
  <2>6. ingests' = [ingests EXCEPT ![i] = next]
    BY <1>1, <2>4 DEF ChunksInv
  <2>7. /\ ingests' = [j \in Ingests |-> ingests'[j]]
        /\ \A j \in Ingests : IngestInv(ingests[j])'
    BY <1>2, <2>5, <2>6, OneIngestMoves
  <2> QED
    BY <2>5, <2>7 DEF ChunksInv
<1> QED
  BY <1>3, <1>4

LEMMA ChunksPreserved == ChunksInv /\ [CorpusNext]_corpusVars => ChunksInv'
<1> SUFFICES ASSUME ChunksInv, [CorpusNext]_corpusVars
             PROVE  ChunksInv'
  OBVIOUS
<1>0. \A i \in Ingests : IngestInv(ingests[i])
  BY DEF ChunksInv
<1>1. ASSUME NEW i \in Ingests, NEW dir \in Directories, BeginIngest(i, dir)
      PROVE  ChunksInv'
  <2>1. PICK left : left = Parsed(dir.sections)
    OBVIOUS
  <2>2. PICK r : r = [NoIngest EXCEPT !.pc = "look", !.dir = dir, !.left = left]
    OBVIOUS
  <2>3. IngestInv(r)
    BY <2>2, NoIngestRuns DEF IngestInv, IngestFields
  <2>4. ingests' = [ingests EXCEPT ![i] = r] /\ chunks' = chunks
    BY <1>1, <2>1, <2>2 DEF BeginIngest
  <2> QED
    BY <2>3, <2>4, OnlyIngestMoves
<1>2. ASSUME NEW i \in Ingests, LookUp(i)
      PROVE  ChunksInv'
  <2> DEFINE open == OpenRows(Head(ingests[i].left).id)
             newest == {c \in open : \A d \in open : d.from <= c.from}
             first == CHOOSE c \in newest : TRUE
  <2>1. PICK seen : seen = IF open = {} THEN NoRow
                           ELSE [id |-> first.id, version |-> first.version, text |-> first.text]
    OBVIOUS
  <2>2. PICK r : r = [ingests[i] EXCEPT !.pc = "write", !.seen = seen]
    OBVIOUS
  <2>3. \/ seen = NoRow
        \/ /\ seen.id = Head(ingests[i].left).id
           /\ \E c \in chunks : c.id = seen.id /\ c.version = seen.version
    <3>1. ASSUME NEW c \in open
          PROVE  open = {c} /\ c.from <= c.from
      BY OneOpenRow DEF OpenRows, ChunksInv, ChunkInv
    <3>2. open # {} => first \in open
      BY <3>1
    <3>3. CASE open # {}
      <4>1. PICK c \in open : c = first
        BY <3>2, <3>3
      <4>2. c \in chunks /\ c.id = Head(ingests[i].left).id
        BY DEF OpenRows
      <4>3. seen = [id |-> c.id, version |-> c.version, text |-> c.text]
        BY <2>1, <3>3, <4>1
      <4> HIDE DEF open
      <4> QED
        BY <4>2, <4>3
    <3> QED
      BY <2>1, <3>3
  <2>4. IngestInv(r)
    BY <1>0, <1>2, <2>2, <2>3 DEF IngestInv, IngestFields, LookUp
  <2>5. ingests' = [ingests EXCEPT ![i] = r] /\ chunks' = chunks
    BY <1>2, <2>1, <2>2 DEF LookUp, ChunksInv
  <2> QED
    BY <2>4, <2>5, OnlyIngestMoves
<1>3. ASSUME NEW i \in Ingests, FinishIngest(i) \/ StopIngest(i)
      PROVE  ChunksInv'
  <2>1. PICK pc \in {"done", "stopped"} : ingests' = [ingests EXCEPT ![i].pc = pc]
    BY <1>3 DEF FinishIngest, StopIngest
  <2>2. PICK r : r = [ingests[i] EXCEPT !.pc = pc]
    OBVIOUS
  <2>3. IngestInv(r)
    BY <1>0, <2>2 DEF IngestInv, IngestFields
  <2>4. ingests' = [ingests EXCEPT ![i] = r] /\ chunks' = chunks
    BY <1>3, <2>1, <2>2 DEF FinishIngest, StopIngest, ChunksInv
  <2> QED
    BY <2>3, <2>4, OnlyIngestMoves
<1>4. ASSUME UNCHANGED <<chunks, ingests>>
      PROVE  ChunksInv'
  BY <1>4 DEF ChunksInv, ChunkInv, IngestInv, VersionsRun, NewestVersionIsOpen
<1>5. ASSUME NEW p \in PackRuns, NEW v \in Versions, NEW mark, Sweep(p, v, mark)
      PROVE  ChunksInv'
  BY <1>4, <1>5 DEF Sweep
<1>6. ASSUME NEW p \in PackRuns, CommitPack(p)
      PROVE  ChunksInv'
  BY <1>4, <1>6 DEF CommitPack
<1>7. ASSUME NEW q \in Questions, (\E day \in AsOfDays : Ground(q, day)) \/ LookForGap(q) \/ RecordGap(q)
      PROVE  ChunksInv'
  BY <1>4, <1>7 DEF Ground, LookForGap, RecordGap
<1>8. CASE UNCHANGED corpusVars
  BY <1>4, <1>8 DEF corpusVars
<1> QED
  BY <1>1, <1>2, <1>3, <1>5, <1>6, <1>7, <1>8, WriteSectionKeeps DEF CorpusNext

LEMMA ChunksInvariant == CorpusSpec => []ChunksInv
<1> QED
  BY ChunksInitially, ChunksPreserved, PTL DEF CorpusSpec

\* A section that entered the corpus has one open row, that of its newest
\* version, whatever ingests overlap, stop between two sections or are
\* refused by a check of the table, and however old what one of them saw of
\* the section is when it writes (ingest.ts).
THEOREM NewestIsOpen == CorpusSpec => []NewestVersionIsOpen
<1>1. ChunksInv => NewestVersionIsOpen
  BY DEF ChunksInv
<1> QED
  BY <1>1, ChunksInvariant, PTL
-----------------------------------------------------------------------------
(* Corpus: the packs, and the gaps the questions leave.                    *)

PackStatuses == {"absent", "draft", "published", "deprecated", "rolled_back"}
PackRunFields == {"pc", "version", "swept", "mark"}

PacksInv ==
  /\ packs = [v \in Versions |-> packs[v]]
  /\ \A v \in Versions : packs[v] \in PackStatuses
  /\ packRuns = [p \in PackRuns |-> packRuns[p]]
  /\ \A p \in PackRuns : /\ DOMAIN packRuns[p] = PackRunFields
                         /\ packRuns[p].mark \in {"deprecated", "rolled_back"}

LEMMA NoPackRunIsTyped == DOMAIN NoPackRun = PackRunFields /\ NoPackRun.mark = "deprecated"
<1>1. PICK v : v = CHOOSE w \in Versions : TRUE
  OBVIOUS
<1>2. NoPackRun = [pc |-> "idle", version |-> v, swept |-> {}, mark |-> "deprecated"]
  BY <1>1 DEF NoPackRun
<1> QED
  BY <1>2 DEF PackRunFields

LEMMA PacksInitially == CorpusInit => PacksInv
BY NoPackRunIsTyped DEF CorpusInit, PacksInv, PackStatuses

LEMMA PacksPreserved == PacksInv /\ [CorpusNext]_corpusVars => PacksInv'
<1> SUFFICES ASSUME PacksInv, [CorpusNext]_corpusVars
             PROVE  PacksInv'
  OBVIOUS
<1>1. ASSUME NEW i \in Ingests, NEW dir \in Directories, BeginIngest(i, dir)
      PROVE  PacksInv'
  BY <1>1 DEF BeginIngest, IngestUnchanged, PacksInv, PackStatuses
<1>2. ASSUME UNCHANGED <<packs, packRuns>>
      PROVE  PacksInv'
  BY <1>2 DEF PacksInv
<1>3. ASSUME NEW i \in Ingests, LookUp(i) \/ WriteSection(i) \/ FinishIngest(i) \/ StopIngest(i)
      PROVE  PacksInv'
  BY <1>2, <1>3 DEF LookUp, WriteSection, FinishIngest, StopIngest, IngestUnchanged
<1>4. ASSUME NEW p \in PackRuns, NEW v \in Versions, NEW mark \in {"deprecated", "rolled_back"},
             Sweep(p, v, mark)
      PROVE  PacksInv'
  <2>1. PICK swept : packRuns' = [packRuns EXCEPT ![p] = [NoPackRun EXCEPT
                        !.pc = "swept", !.version = v, !.swept = swept, !.mark = mark]]
    BY <1>4 DEF Sweep
  <2>2. PICK r : r = [NoPackRun EXCEPT !.pc = "swept", !.version = v, !.swept = swept, !.mark = mark]
    OBVIOUS
  <2>3. DOMAIN r = PackRunFields /\ r.mark = mark
    BY <2>2, NoPackRunIsTyped DEF PackRunFields
  <2>4. packRuns' = [packRuns EXCEPT ![p] = r] /\ packs' = packs
    BY <1>4, <2>1, <2>2 DEF Sweep
  <2> QED
    BY <2>3, <2>4 DEF PacksInv
<1>5. ASSUME NEW p \in PackRuns, CommitPack(p)
      PROVE  PacksInv'
  <2>1. packs' = [v \in Versions |-> packs'[v]] /\ \A v \in Versions : packs'[v] \in PackStatuses
    BY <1>5 DEF CommitPack, PacksInv, PackStatuses
  <2>2. packRuns' = [packRuns EXCEPT ![p].pc = "done"]
    BY <1>5 DEF CommitPack
  <2> QED
    BY <2>1, <2>2 DEF PacksInv, PackRunFields
<1>6. ASSUME NEW q \in Questions, (\E day \in AsOfDays : Ground(q, day)) \/ LookForGap(q) \/ RecordGap(q)
      PROVE  PacksInv'
  BY <1>2, <1>6 DEF Ground, LookForGap, RecordGap
<1>7. CASE UNCHANGED corpusVars
  BY <1>2, <1>7 DEF corpusVars
<1> QED
  BY <1>1, <1>3, <1>4, <1>5, <1>6, <1>7 DEF CorpusNext

GapFields == {"by", "asOf", "kind", "count"}
QuestionFields == {"pc", "asOf", "gap", "found"}
Refused == {q \in Questions : questions[q].pc = "refused"}

\* A question that found the row of its gap will find it when it counts; a
\* row counts questions that were refused.
GapsInv ==
  /\ questions = [q \in Questions |-> questions[q]]
  /\ \A q \in Questions :
       /\ DOMAIN questions[q] = QuestionFields
       /\ questions[q].pc = "record" /\ questions[q].found => SameGap(q) # {}
  /\ \A g \in gaps : DOMAIN g = GapFields /\ g.count \in 1..Cardinality(Refused)

LEMMA NoQuestionIsTyped == DOMAIN NoQuestion = QuestionFields /\ NoQuestion.pc = "idle"
<1>1. PICK d : d = CHOOSE e \in AsOfDays : TRUE
  OBVIOUS
<1>2. NoQuestion = [pc |-> "idle", asOf |-> d, gap |-> "none", found |-> FALSE]
  BY <1>1 DEF NoQuestion
<1> QED
  BY <1>2 DEF QuestionFields

LEMMA GapsInitially == CorpusInit => GapsInv
BY NoQuestionIsTyped DEF CorpusInit, GapsInv

\* A question that is not yet refused moves, and not to a refusal.
LEMMA OneQuestionMoves ==
  ASSUME GapsInv, NEW q \in Questions, NEW r, questions' = [questions EXCEPT ![q] = r],
         DOMAIN r = QuestionFields, r.pc # "refused", questions[q].pc # "refused",
         r.pc = "record" /\ r.found => \E g \in gaps : g.asOf = r.asOf /\ g.kind = r.gap,
         gaps' = gaps
  PROVE  GapsInv'
<1>1. /\ questions' = [p \in Questions |-> questions'[p]] /\ questions'[q] = r
      /\ \A p \in Questions \ {q} : questions'[p] = questions[p]
  BY DEF GapsInv
<1>2. Refused' = Refused
  BY <1>1 DEF Refused
<1>3. ASSUME NEW p \in Questions
      PROVE  /\ DOMAIN questions'[p] = QuestionFields
             /\ questions'[p].pc = "record" /\ questions'[p].found => SameGap(p)' # {}
  BY <1>1 DEF GapsInv, SameGap
<1> QED
  BY <1>1, <1>2, <1>3 DEF GapsInv

LEMMA GapsPreserved == GapsInv /\ [CorpusNext]_corpusVars => GapsInv'
<1> SUFFICES ASSUME GapsInv, [CorpusNext]_corpusVars
             PROVE  GapsInv'
  OBVIOUS
<1>1. ASSUME UNCHANGED <<questions, gaps>>
      PROVE  GapsInv'
  <2>1. Refused' = Refused
    BY <1>1 DEF Refused
  <2> QED
    BY <1>1, <2>1 DEF GapsInv, SameGap
<1>2. ASSUME NEW q \in Questions, NEW day, Ground(q, day)
      PROVE  GapsInv'
  <2>1. PICK gap :
          questions' = [questions EXCEPT ![q] = [NoQuestion EXCEPT
                          !.pc = IF gap = "none" THEN "answered" ELSE "gap",
                          !.asOf = day, !.gap = gap]]
    BY <1>2, Zenon DEF Ground
  <2>2. PICK r : r = [NoQuestion EXCEPT !.pc = IF gap = "none" THEN "answered" ELSE "gap",
                                        !.asOf = day, !.gap = gap]
    OBVIOUS
  <2>3. DOMAIN r = QuestionFields /\ r.pc \in {"answered", "gap"}
    BY <2>2, NoQuestionIsTyped DEF QuestionFields
  <2>4. questions' = [questions EXCEPT ![q] = r] /\ gaps' = gaps /\ questions[q].pc = "idle"
    BY <1>2, <2>1, <2>2 DEF Ground
  <2> HIDE <2>2
  <2> QED
    BY <2>3, <2>4, OneQuestionMoves
<1>3. ASSUME NEW q \in Questions, LookForGap(q)
      PROVE  GapsInv'
  <2>1. PICK r : r = [questions[q] EXCEPT !.pc = "record", !.found = SameGap(q) # {}]
    OBVIOUS
  <2>2. /\ DOMAIN r = QuestionFields /\ r.pc = "record"
        /\ r.found => \E g \in gaps : g.asOf = r.asOf /\ g.kind = r.gap
    BY <2>1 DEF GapsInv, QuestionFields, SameGap
  <2>3. questions' = [questions EXCEPT ![q] = r] /\ gaps' = gaps /\ questions[q].pc = "gap"
    BY <1>3, <2>1 DEF LookForGap, GapsInv
  <2> HIDE <2>1
  <2> QED
    BY <2>2, <2>3, OneQuestionMoves
<1>4. ASSUME NEW q \in Questions, RecordGap(q)
      PROVE  GapsInv'
  <2>1. /\ questions[q].pc = "record" /\ questions' = [questions EXCEPT ![q].pc = "refused"]
        /\ DOMAIN questions[q] = QuestionFields
    BY <1>4 DEF RecordGap, GapsInv
  <2>2. /\ questions' = [p \in Questions |-> questions'[p]]
        /\ \A p \in Questions \ {q} : questions'[p] = questions[p]
        /\ questions'[q] = [questions[q] EXCEPT !.pc = "refused"]
    BY <2>1 DEF GapsInv
  <2>3. Refused' = Refused \union {q} /\ q \notin Refused /\ IsFiniteSet(Refused)
    BY <2>1, <2>2, CorpusConstants, FS_Subset DEF Refused, QuestionFields
  <2>4. Cardinality(Refused)' = Cardinality(Refused) + 1 /\ Cardinality(Refused) \in Nat
    BY <2>3, FS_AddElement, FS_CardinalityType
  <2>5. /\ \A g \in gaps' : DOMAIN g = GapFields /\ g.count \in 1..Cardinality(Refused)'
        /\ \A g \in gaps : \E h \in gaps' : h.asOf = g.asOf /\ h.kind = g.kind
    <3>1. CASE questions[q].found
      <4>0. SameGap(q) # {} /\ SameGap(q) \subseteq gaps
        BY <2>1, <3>1 DEF GapsInv, SameGap
      <4>a. gaps' = LET g == CHOOSE g \in SameGap(q) : TRUE
                    IN  (gaps \ {g}) \union {[g EXCEPT !.count = @ + 1]}
        BY <1>4, <3>1 DEF RecordGap
      <4>1. PICK g \in gaps : gaps' = (gaps \ {g}) \union {[g EXCEPT !.count = @ + 1]}
        BY <4>0, <4>a
      <4>2. PICK h : h = [g EXCEPT !.count = @ + 1]
        OBVIOUS
      <4>3. DOMAIN g = GapFields /\ g.count \in 1..Cardinality(Refused)
        BY DEF GapsInv
      <4>4. /\ DOMAIN h = GapFields /\ h.count \in 1..(Cardinality(Refused) + 1)
            /\ h.asOf = g.asOf /\ h.kind = g.kind
        BY <2>4, <4>2, <4>3 DEF GapFields
      <4>5. gaps' = (gaps \ {g}) \union {h}
        BY <4>1, <4>2
      <4> HIDE <4>2
      <4> QED
        BY <2>4, <4>4, <4>5 DEF GapsInv
    <3>2. CASE ~questions[q].found
      <4>1. PICK h : h = [by |-> q, asOf |-> questions[q].asOf, kind |-> questions[q].gap, count |-> 1]
        OBVIOUS
      <4>2. DOMAIN h = GapFields /\ h.count = 1
        BY <4>1 DEF GapFields
      <4>3. gaps' = gaps \union {h}
        BY <1>4, <3>2, <4>1 DEF RecordGap
      <4> HIDE <4>1
      <4> QED
        BY <2>4, <4>2, <4>3 DEF GapsInv
    <3> QED
      BY <3>1, <3>2
  <2>6. ASSUME NEW p \in Questions
        PROVE  /\ DOMAIN questions'[p] = QuestionFields
               /\ questions'[p].pc = "record" /\ questions'[p].found => SameGap(p)' # {}
    <3>1. CASE p = q
      BY <2>1, <2>2, <3>1 DEF QuestionFields
    <3>2. CASE p # q
      BY <2>2, <2>5, <3>2 DEF GapsInv, SameGap
    <3> QED
      BY <3>1, <3>2
  <2> QED
    BY <2>2, <2>5, <2>6 DEF GapsInv
<1>5. ASSUME NEW i \in Ingests, \/ \E dir \in Directories : BeginIngest(i, dir)
                                \/ LookUp(i) \/ WriteSection(i) \/ FinishIngest(i) \/ StopIngest(i)
      PROVE  GapsInv'
  BY <1>1, <1>5 DEF BeginIngest, LookUp, WriteSection, FinishIngest, StopIngest, IngestUnchanged
<1>6. ASSUME NEW p \in PackRuns, \/ \E v, mark : Sweep(p, v, mark)
                                 \/ CommitPack(p)
      PROVE  GapsInv'
  BY <1>1, <1>6 DEF Sweep, CommitPack
<1>7. CASE UNCHANGED corpusVars
  BY <1>1, <1>7 DEF corpusVars
<1> QED
  BY <1>2, <1>3, <1>4, <1>5, <1>6, <1>7 DEF CorpusNext

\* No range of a chunk ends before it starts, and a gap is counted no more
\* often than questions were asked (ingest.ts, service.ts).
THEOREM CorpusIsTyped == CorpusSpec => []CorpusTypeOK
<1>1. ASSUME ChunksInv, PacksInv, GapsInv
      PROVE  CorpusTypeOK
  <2>1. \A c \in chunks : c.version \in Nat \ {0} /\ c.pack \in Versions /\ ChecksHold({c})
    BY <1>1 DEF ChunksInv, ChunkInv, ChecksHold
  <2>2. Refused \subseteq Questions
    BY DEF Refused
  <2>3. Cardinality(Refused) <= Cardinality(Questions) /\ Cardinality(Questions) \in Nat
    BY <2>2, CorpusConstants, FS_Subset, FS_CardinalityType
  <2>4. Cardinality(Refused) \in Nat
    BY <2>2, CorpusConstants, FS_Subset, FS_CardinalityType
  <2>5. \A g \in gaps : g.count \in 1..Cardinality(Questions)
    BY <1>1, <2>3, <2>4 DEF GapsInv
  <2> QED
    BY <1>1, <2>1, <2>5 DEF PacksInv, PackStatuses, CorpusTypeOK
<1> QED
  BY <1>1, ChunksInvariant, PacksInitially, PacksPreserved, GapsInitially, GapsPreserved,
     PTL DEF CorpusSpec

-----------------------------------------------------------------------------
(* Sums over finite sets, by what the folds of the community modules are.  *)

Picked(s) == CHOOSE x \in s : TRUE

\* Among some subsets of a finite set one is smallest: without any one of its
\* elements it is not among them.  This is what takes the place of an induction
\* over the elements in what follows.
LEMMA SmallestSet ==
  ASSUME NEW S, IsFiniteSet(S), NEW B, B \subseteq SUBSET S, B # {}
  PROVE  \E T \in B : \A x \in T : T \ {x} \notin B
<1>1. FiniteSubsetsOf(S) = SUBSET S
  BY FS_FiniteSubsetsOfFinite
<1>2. PICK T \in B : \A U \in B : ~(<<U, T>> \in StrictSubsetOrdering(S))
  BY <1>1, FS_StrictSubsetOrderingWellFounded, WFMin
<1>3. ASSUME NEW x \in T, T \ {x} \in B
      PROVE  FALSE
  <2>1. <<T \ {x}, T>> \in StrictSubsetOrdering(S)
    BY <1>3 DEF StrictSubsetOrdering
  <2> QED
    BY <1>2, <1>3, <2>1
<1> QED
  BY <1>3

\* c chooses an element of every set; F combines a chosen element with a value;
\* and two functions of sets that differ at a set differ at a smaller one.
Chooses(c, S) == \A s \in SUBSET S : s # {} => c[s] \in s
Combines(F, S, V) == \A x \in S, v \in V : F[<<x, v>>] \in V
Recurs(g, S, base, c, F) ==
  g[{}] = base /\ \A s \in SUBSET S : s # {} => g[s] = F[<<c[s], g[s \ {c[s]}]>>]
AgreeStepwise(g, h, S, c) ==
  g[{}] = h[{}] /\ \A s \in SUBSET S : s # {} /\ g[s \ {c[s]}] = h[s \ {c[s]}] => g[s] = h[s]

\* A recursion over the subsets of a finite set, one element less at a time:
\* c chooses the element, F combines it with the value of the rest.
LEMMA SubsetRecursion ==
  ASSUME NEW S, IsFiniteSet(S), NEW V, NEW base \in V,
         NEW c, Chooses(c, S), NEW F, Combines(F, S, V)
  PROVE  \E g \in [SUBSET S -> V] : Recurs(g, S, base, c, F)
<1> DEFINE Sol(n) == {g \in [SUBSET S -> V] :
                 \A s \in SUBSET S : Cardinality(s) <= n =>
                   g[s] = IF s = {} THEN base ELSE F[<<c[s], g[s \ {c[s]}]>>]}
<1>1. \A s \in SUBSET S : IsFiniteSet(s) /\ Cardinality(s) \in Nat
  BY FS_Subset, FS_CardinalityType
<1>2. ASSUME NEW s \in SUBSET S, s # {}
      PROVE  c[s] \in S /\ s \ {c[s]} \in SUBSET S /\ Cardinality(s \ {c[s]}) = Cardinality(s) - 1
  BY <1>1, <1>2, FS_RemoveElement DEF Chooses
<1>3. Sol(0) # {}
  <2>1. [s \in SUBSET S |-> base] \in Sol(0)
    BY <1>1, FS_EmptySet
  <2> QED
    BY <2>1
<1>4. ASSUME NEW n \in Nat, Sol(n) # {}
      PROVE  Sol(n + 1) # {}
  <2>1. PICK g \in Sol(n) : TRUE
    BY <1>4
  <2>2. PICK h : h = [s \in SUBSET S |-> IF s = {} THEN base ELSE F[<<c[s], g[s \ {c[s]}]>>]]
    OBVIOUS
  <2>3. h \in [SUBSET S -> V]
    BY <2>1, <2>2, <1>2 DEF Combines
  <2>4. ASSUME NEW s \in SUBSET S, Cardinality(s) <= n
        PROVE  h[s] = g[s]
    BY <2>1, <2>2, <2>4
  <2>5. ASSUME NEW s \in SUBSET S, Cardinality(s) <= n + 1
        PROVE  h[s] = IF s = {} THEN base ELSE F[<<c[s], h[s \ {c[s]}]>>]
    <3>1. CASE s = {}
      BY <2>2, <3>1
    <3>2. CASE s # {}
      <4>1. s \ {c[s]} \in SUBSET S /\ Cardinality(s \ {c[s]}) <= n
        BY <1>1, <1>2, <2>5, <3>2
      <4>2. h[s \ {c[s]}] = g[s \ {c[s]}]
        BY <2>4, <4>1
      <4> QED
        BY <2>2, <3>2, <4>2
    <3> QED
      BY <3>1, <3>2
  <2>6. h \in Sol(n + 1)
    BY <2>3, <2>5
  <2> QED
    BY <2>6
<1>5. Cardinality(S) \in Nat /\ \A s \in SUBSET S : Cardinality(s) <= Cardinality(S)
  BY FS_Subset, FS_CardinalityType
<1> HIDE DEF Sol
<1>6. Sol(Cardinality(S)) # {}
  <2> DEFINE bad == {n \in Nat : Sol(n) = {}}
  <2>1. CASE bad = {}
    BY <1>5, <2>1
  <2>2. CASE bad # {}
    <3>1. PICK n \in bad : \A m \in bad : n <= m
      BY <2>2, LeastNumber
    <3>2. n \in Nat /\ n # 0
      BY <1>3
    <3>3. n - 1 \in Nat
      BY <3>2
    <3>4. Sol(n - 1) # {}
      BY <3>1, <3>3
    <3>5. (n - 1) + 1 = n
      BY <3>2
    <3>6. Sol(n) # {}
      BY <1>4, <3>3, <3>4, <3>5
    <3> QED
      BY <3>6
  <2> QED
    BY <2>1, <2>2
<1>7. PICK g \in Sol(Cardinality(S)) : TRUE
  BY <1>6
<1>8. /\ g \in [SUBSET S -> V]
      /\ \A s \in SUBSET S : g[s] = IF s = {} THEN base ELSE F[<<c[s], g[s \ {c[s]}]>>]
  BY <1>5, <1>7 DEF Sol
<1>9. Recurs(g, S, base, c, F)
  BY <1>8 DEF Recurs
<1> QED
  BY <1>8, <1>9

\* It has one solution.
LEMMA SubsetRecursionIsUnique ==
  ASSUME NEW S, IsFiniteSet(S), NEW c, Chooses(c, S), NEW g, NEW h, AgreeStepwise(g, h, S, c)
  PROVE  \A s \in SUBSET S : g[s] = h[s]
<1> DEFINE B == {s \in SUBSET S : g[s] # h[s]}
<1>1. CASE B = {}
  BY <1>1
<1>2. CASE B # {}
  <2>1. PICK T \in B : \A x \in T : T \ {x} \notin B
    BY <1>2, SmallestSet
  <2>2. T # {} /\ c[T] \in T
    BY DEF Chooses, AgreeStepwise
  <2>3. g[T \ {c[T]}] = h[T \ {c[T]}]
    BY <2>1, <2>2
  <2> QED
    BY <2>2, <2>3 DEF AgreeStepwise
<1> QED
  BY <1>1, <1>2

\* What SumFunctionOnSet computes, as a function of the set: of the elements
\* of S it takes any one and adds the sum of the rest.
Sums(S, f) ==
  {g \in [SUBSET S -> Int] :
     g[{}] = 0 /\ \A s \in SUBSET S : \A x \in s : g[s] = f[x] + g[s \ {x}]}

\* A sum that takes the chosen element first is one that may take any:
\* otherwise, in a smallest set where it is not, take two elements either way.
LEMMA AnyElementFirst ==
  ASSUME NEW S, IsFiniteSet(S), NEW f, \A x \in S : f[x] \in Int,
         NEW c, \A s \in SUBSET S : s # {} => c[s] \in s,
         NEW g \in [SUBSET S -> Int], g[{}] = 0,
         \A s \in SUBSET S : s # {} => g[s] = f[c[s]] + g[s \ {c[s]}]
  PROVE  g \in Sums(S, f)
<1> DEFINE B == {s \in SUBSET S : \E x \in s : g[s] # f[x] + g[s \ {x}]}
<1>1. CASE B = {}
  BY <1>1 DEF Sums
<1>2. CASE B # {}
  <2>1. PICK T \in B : \A x \in T : T \ {x} \notin B
    <3>1. B \subseteq SUBSET S
      OBVIOUS
    <3> HIDE DEF B
    <3> QED
      BY <1>2, <3>1, SmallestSet
  <2>2. PICK x \in T : g[T] # f[x] + g[T \ {x}]
    BY <2>1
  <2>3. PICK y : y = c[T]
    OBVIOUS
  <2>4. y \in T /\ T \in SUBSET S /\ g[T] = f[y] + g[T \ {y}] /\ x # y
    BY <2>2, <2>3
  <2>5. x \in T \ {y} /\ y \in T \ {x} /\ (T \ {x}) \ {y} = (T \ {y}) \ {x}
    BY <2>2, <2>4
  <2> DEFINE U == (T \ {x}) \ {y}
  <2>6. g[T \ {y}] = f[x] + g[U]
    <3>1. T \ {y} \in SUBSET S /\ T \ {y} \notin B
      BY <2>1, <2>4
    <3> QED
      BY <2>5, <3>1
  <2>7. g[T \ {x}] = f[y] + g[U]
    <3>1. T \ {x} \in SUBSET S /\ T \ {x} \notin B
      BY <2>1, <2>4
    <3> QED
      BY <2>5, <3>1
  <2>8. U \in SUBSET S
    BY <2>4
  <2>9. f[x] \in Int /\ f[y] \in Int /\ g[U] \in Int
    BY <2>4, <2>8
  <2> HIDE DEF B, U
  <2>10. g[T] = f[x] + g[T \ {x}]
    BY <2>4, <2>6, <2>7, <2>9
  <2> QED
    BY <2>2, <2>10
<1> QED
  BY <1>1, <1>2

\* What the fold of the community modules unfolds to.
LEMMA SumIsIterated ==
  ASSUME NEW f, NEW T
  PROVE  SumFunctionOnSet(f, T) =
           (CHOOSE h : h = [s \in SUBSET T |-> IF s = {} THEN 0
                              ELSE f[Picked(s)] + h[s \ {Picked(s)}]])[T]
BY DEF SumFunctionOnSet, FoldFunctionOnSet, MapThenFoldSet, Picked

\* There is a sum of each subset, and the fold returns it.
LEMMA SumsExist ==
  ASSUME NEW S, IsFiniteSet(S), NEW f, \A x \in S : f[x] \in Int
  PROVE  \E g \in Sums(S, f) : g[S] = SumFunctionOnSet(f, S)
<1> DEFINE c == [s \in SUBSET S |-> Picked(s)]
           F == [p \in S \X Int |-> f[p[1]] + p[2]]
           Rec(h) == h = [s \in SUBSET S |-> IF s = {} THEN 0
                              ELSE f[Picked(s)] + h[s \ {Picked(s)}]]
<1>1. \A s \in SUBSET S : s # {} => c[s] \in s /\ c[s] = Picked(s)
  BY DEF Picked
<1>2. \A x \in S, v \in Int : F[<<x, v>>] = f[x] + v /\ F[<<x, v>>] \in Int
  OBVIOUS
<1> HIDE DEF c, F
<1>3. PICK g \in [SUBSET S -> Int] : Recurs(g, S, 0, c, F)
  <2> HIDE DEF Rec
  <2>1. 0 \in Int /\ Chooses(c, S)
    BY <1>1 DEF Chooses
  <2>2. Combines(F, S, Int)
    BY <1>2 DEF Combines
  <2> QED
    BY <2>1, <2>2, SubsetRecursion
<1>4. ASSUME NEW s \in SUBSET S, s # {}
      PROVE  g[s] = f[c[s]] + g[s \ {c[s]}] /\ c[s] = Picked(s)
  <2>1. c[s] \in S /\ s \ {c[s]} \in SUBSET S /\ g[s] = F[<<c[s], g[s \ {c[s]}]>>]
    BY <1>1, <1>3, <1>4 DEF Recurs
  <2> QED
    BY <1>1, <1>2, <1>3, <1>4, <2>1
<1>5. g[{}] = 0
  BY <1>3 DEF Recurs
<1>6. Rec(g)
  BY <1>3, <1>4, <1>5
<1>7. PICK h : h = CHOOSE k : Rec(k)
  OBVIOUS
<1>8. Rec(h)
  BY <1>6, <1>7
<1>9. \A s \in SUBSET S : g[s] = h[s]
  <2>1. h[{}] = 0
    BY <1>8
  <2>2. \A s \in SUBSET S : s # {} => h[s] = f[c[s]] + h[s \ {c[s]}]
    BY <1>4, <1>8
  <2> HIDE DEF Rec
  <2>3. \A s \in SUBSET S : s # {} /\ g[s \ {c[s]}] = h[s \ {c[s]}] => g[s] = h[s]
    BY <1>4, <2>2
  <2>4. AgreeStepwise(g, h, S, c)
    BY <1>5, <2>1, <2>3 DEF AgreeStepwise
  <2>5. Chooses(c, S)
    BY <1>1 DEF Chooses
  <2> QED
    BY <2>4, <2>5, SubsetRecursionIsUnique
<1>10. g[S] = SumFunctionOnSet(f, S)
  BY <1>7, <1>9, SumIsIterated
<1>11. g \in Sums(S, f)
  BY <1>1, <1>4, <1>5, AnyElementFirst
<1> QED
  BY <1>10, <1>11

\* There is only one.
LEMMA SumsAreSums ==
  ASSUME NEW S, IsFiniteSet(S), NEW f, \A x \in S : f[x] \in Int,
         NEW g \in Sums(S, f), NEW T \in SUBSET S
  PROVE  g[T] = SumFunctionOnSet(f, T) /\ g[T] \in Int
<1>1. IsFiniteSet(T) /\ \A x \in T : f[x] \in Int
  BY FS_Subset
<1>2. PICK k \in Sums(T, f) : k[T] = SumFunctionOnSet(f, T)
  BY <1>1, SumsExist
<1>3. PICK c : c = [s \in SUBSET T |-> Picked(s)]
  OBVIOUS
<1>4. Chooses(c, T)
  BY <1>3 DEF Chooses, Picked
<1>5. AgreeStepwise(g, k, T, c)
  <2>1. g[{}] = 0 /\ k[{}] = 0
    BY <1>2 DEF Sums
  <2>2. ASSUME NEW s \in SUBSET T, s # {}, g[s \ {c[s]}] = k[s \ {c[s]}]
        PROVE  g[s] = k[s]
    <3>1. c[s] \in s /\ s \in SUBSET S
      BY <1>4, <2>2 DEF Chooses
    <3>2. g[s] = f[c[s]] + g[s \ {c[s]}]
      BY <3>1 DEF Sums
    <3>3. k[s] = f[c[s]] + k[s \ {c[s]}]
      BY <1>2, <3>1 DEF Sums
    <3> QED
      BY <2>2, <3>2, <3>3
  <2> QED
    BY <2>1, <2>2 DEF AgreeStepwise
<1>6. g[T] = k[T]
  BY <1>1, <1>4, <1>5, SubsetRecursionIsUnique
<1>7. g[T] \in Int
  BY DEF Sums
<1> QED
  BY <1>2, <1>6, <1>7

\* What a sum over a set is, whichever element is taken first.
LEMMA SumOfNone ==
  ASSUME NEW f
  PROVE  SumFunctionOnSet(f, {}) = 0
<1>1. IsFiniteSet({}) /\ \A x \in {} : f[x] \in Int
  BY FS_EmptySet
<1>2. PICK g \in Sums({}, f) : g[{}] = SumFunctionOnSet(f, {})
  BY <1>1, SumsExist
<1> QED
  BY <1>2 DEF Sums

\* A sum is a number, and any element of its set may be taken out of it.
LEMMA SumWithElement ==
  ASSUME NEW S, IsFiniteSet(S), NEW f, \A x \in S : f[x] \in Int
  PROVE  /\ SumFunctionOnSet(f, S) \in Int
         /\ \A x \in S : SumFunctionOnSet(f, S) = f[x] + SumFunctionOnSet(f, S \ {x})
<1>1. PICK g \in Sums(S, f) : g[S] = SumFunctionOnSet(f, S)
  BY SumsExist
<1>2. g[S] \in Int
  BY DEF Sums
<1>3. ASSUME NEW x \in S
      PROVE  g[S] = f[x] + g[S \ {x}] /\ g[S \ {x}] = SumFunctionOnSet(f, S \ {x})
  <2>1. g[S] = f[x] + g[S \ {x}]
    BY DEF Sums
  <2>2. S \ {x} \in SUBSET S
    OBVIOUS
  <2> QED
    BY <2>1, <2>2, SumsAreSums
<1> QED
  BY <1>1, <1>2, <1>3

\* With one element more.
LEMMA SumAdding ==
  ASSUME NEW S, IsFiniteSet(S), NEW x, x \notin S, NEW f, \A y \in S \union {x} : f[y] \in Int
  PROVE  SumFunctionOnSet(f, S \union {x}) = f[x] + SumFunctionOnSet(f, S)
<1>1. IsFiniteSet(S \union {x}) /\ x \in S \union {x} /\ (S \union {x}) \ {x} = S
  BY FS_AddElement
<1> QED
  BY <1>1, SumWithElement

\* Equal summands, equal sums.
LEMMA SumsAgree ==
  ASSUME NEW S, IsFiniteSet(S), NEW f, NEW h, \A x \in S : f[x] \in Int /\ f[x] = h[x]
  PROVE  SumFunctionOnSet(f, S) = SumFunctionOnSet(h, S)
<1>1. \A x \in S : f[x] \in Int /\ h[x] \in Int
  OBVIOUS
<1>2. PICK g \in Sums(S, f) : g[S] = SumFunctionOnSet(f, S)
  BY <1>1, SumsExist
<1>3. g \in Sums(S, h)
  BY DEF Sums
<1>4. S \in SUBSET S
  OBVIOUS
<1> QED
  BY <1>1, <1>2, <1>3, <1>4, SumsAreSums

\* The sum over two sets without a common element.
LEMMA SumOfUnion ==
  ASSUME NEW A, IsFiniteSet(A), NEW C, IsFiniteSet(C), A \intersect C = {},
         NEW f, \A x \in A \union C : f[x] \in Int
  PROVE  SumFunctionOnSet(f, A \union C) = SumFunctionOnSet(f, A) + SumFunctionOnSet(f, C)
<1> DEFINE B == {T \in SUBSET A : SumFunctionOnSet(f, T \union C)
                                   # SumFunctionOnSet(f, T) + SumFunctionOnSet(f, C)}
<1>1. ASSUME B # {}  PROVE  FALSE
  <2>1. PICK T \in B : \A x \in T : T \ {x} \notin B
    <3>1. B \subseteq SUBSET A
      OBVIOUS
    <3> HIDE DEF B
    <3> QED
      BY <1>1, <3>1, SmallestSet
  <2>2. T \in SUBSET A /\ IsFiniteSet(T) /\ IsFiniteSet(T \union C)
    BY FS_Subset, FS_Union
  <2>3. /\ \A x \in T : f[x] \in Int
        /\ \A x \in C : f[x] \in Int
        /\ \A x \in T \union C : f[x] \in Int
    BY <2>2
  <2>4. SumFunctionOnSet(f, C) \in Int
    BY <2>3, SumWithElement
  <2>5. CASE T = {}
    <3>1. T \union C = C
      BY <2>5
    <3>2. SumFunctionOnSet(f, T) = 0
      BY <2>5, SumOfNone
    <3> QED
      BY <2>4, <3>1, <3>2
  <2>6. CASE T # {}
    <3>1. PICK x \in T : TRUE
      BY <2>6
    <3>2. (T \union C) \ {x} = (T \ {x}) \union C /\ x \in T \union C
      BY <2>2
    <3>3. SumFunctionOnSet(f, T) = f[x] + SumFunctionOnSet(f, T \ {x})
      BY <2>2, <2>3, SumWithElement
    <3>4. SumFunctionOnSet(f, T \union C) = f[x] + SumFunctionOnSet(f, (T \ {x}) \union C)
      BY <2>2, <2>3, <3>2, SumWithElement
    <3>5. SumFunctionOnSet(f, (T \ {x}) \union C)
            = SumFunctionOnSet(f, T \ {x}) + SumFunctionOnSet(f, C)
      <4>1. T \ {x} \in SUBSET A
        BY <2>2
      <4> QED
        BY <2>1, <4>1
    <3>6. SumFunctionOnSet(f, T \ {x}) \in Int
      <4>1. IsFiniteSet(T \ {x}) /\ \A y \in T \ {x} : f[y] \in Int
        BY <2>2, <2>3, FS_RemoveElement
      <4> QED
        BY <4>1, SumWithElement
    <3>7. f[x] \in Int /\ T \in B
      BY <2>3
    <3> QED
      BY <2>4, <3>3, <3>4, <3>5, <3>6, <3>7
  <2> QED
    BY <2>5, <2>6
<1> QED
  BY <1>1

\* Term by term.
LEMMA SumOfDifferences ==
  ASSUME NEW S, IsFiniteSet(S), NEW l, NEW r, \A x \in S : l[x] \in Int /\ r[x] \in Int,
         NEW d, \A x \in S : d[x] = l[x] - r[x]
  PROVE  SumFunctionOnSet(d, S) = SumFunctionOnSet(l, S) - SumFunctionOnSet(r, S)
<1>1. PICK g \in Sums(S, l) : g[S] = SumFunctionOnSet(l, S)
  BY SumsExist
<1>2. PICK k \in Sums(S, r) : k[S] = SumFunctionOnSet(r, S)
  BY SumsExist
<1>3. PICK e : e = [T \in SUBSET S |-> g[T] - k[T]]
  OBVIOUS
<1>4. e[{}] = 0 /\ e \in [SUBSET S -> Int]
  BY <1>3 DEF Sums
<1>5. ASSUME NEW T \in SUBSET S, NEW x \in T
      PROVE  e[T] = d[x] + e[T \ {x}]
  <2>1. g[T] = l[x] + g[T \ {x}] /\ k[T] = r[x] + k[T \ {x}] /\ d[x] = l[x] - r[x]
    BY DEF Sums
  <2>2. l[x] \in Int /\ r[x] \in Int /\ g[T \ {x}] \in Int /\ k[T \ {x}] \in Int
    BY DEF Sums
  <2>3. e[T] = g[T] - k[T] /\ e[T \ {x}] = g[T \ {x}] - k[T \ {x}]
    BY <1>3
  <2> QED
    BY <2>1, <2>2, <2>3
<1>6. e \in Sums(S, d)
  BY <1>4, <1>5 DEF Sums
<1>7. S \in SUBSET S /\ \A x \in S : d[x] \in Int
  OBVIOUS
<1>8. e[S] = SumFunctionOnSet(d, S)
  BY <1>6, <1>7, SumsAreSums
<1> QED
  BY <1>1, <1>2, <1>3, <1>7, <1>8

\* Over what q names, each once.
Renames(q, S, d, f) ==
  /\ \A x, y \in S : q[x] = q[y] => x = y
  /\ \A x \in S : f[q[x]] \in Int /\ d[x] = f[q[x]]

\* A sum over things is the sum over their names, if no two share one.
LEMMA SumOverNames ==
  ASSUME NEW S, IsFiniteSet(S), NEW q, NEW d, NEW f, Renames(q, S, d, f)
  PROVE  /\ IsFiniteSet({q[x] : x \in S})
         /\ SumFunctionOnSet(d, S) = SumFunctionOnSet(f, {q[x] : x \in S})
<1> DEFINE Named(T) == {q[x] : x \in T}
           B == {T \in SUBSET S : ~(IsFiniteSet(Named(T))
                                 /\ SumFunctionOnSet(d, T) = SumFunctionOnSet(f, Named(T)))}
<1>1. ASSUME B # {}  PROVE  FALSE
  <2>1. PICK T \in B : \A x \in T : T \ {x} \notin B
    <3>1. B \subseteq SUBSET S
      OBVIOUS
    <3> HIDE DEF B
    <3> QED
      BY <1>1, <3>1, SmallestSet
  <2>2. T \in SUBSET S /\ IsFiniteSet(T) /\ \A x \in T : d[x] \in Int
    BY FS_Subset DEF Renames
  <2>3. CASE T = {}
    <3>1. Named(T) = {} /\ IsFiniteSet(Named(T))
      BY <2>3, FS_EmptySet
    <3> QED
      BY <2>3, <3>1, SumOfNone
  <2>4. CASE T # {}
    <3>1. PICK x \in T : TRUE
      BY <2>4
    <3>2. PICK M : M = Named(T \ {x})
      OBVIOUS
    <3>3. IsFiniteSet(M) /\ SumFunctionOnSet(d, T \ {x}) = SumFunctionOnSet(f, M)
      <4>1. T \ {x} \in SUBSET S
        BY <2>2
      <4> QED
        BY <2>1, <3>2, <4>1
    <3>4. Named(T) = M \union {q[x]} /\ q[x] \notin M
      BY <2>2, <3>2 DEF Renames
    <3>5. \A y \in M \union {q[x]} : f[y] \in Int
      BY <2>2, <3>2 DEF Renames
    <3>8. IsFiniteSet(M \union {q[x]})
      BY <3>3, FS_AddElement
    <3>9. SumFunctionOnSet(f, M \union {q[x]}) = f[q[x]] + SumFunctionOnSet(f, M)
      BY <3>3, <3>4, <3>5, SumAdding
    <3> HIDE DEF Named
    <3>6. IsFiniteSet(Named(T)) /\ SumFunctionOnSet(f, Named(T)) = f[q[x]] + SumFunctionOnSet(f, M)
      BY <3>4, <3>8, <3>9
    <3>7. SumFunctionOnSet(d, T) = d[x] + SumFunctionOnSet(d, T \ {x}) /\ d[x] = f[q[x]]
      BY <2>2, SumWithElement DEF Renames
    <3> QED
      BY <3>3, <3>6, <3>7
  <2> QED
    BY <2>3, <2>4
<1>2. S \notin B
  BY <1>1
<1> QED
  BY <1>2

-----------------------------------------------------------------------------
(* Calculation: the shares of an allocation.                               *)

\* Quotient and remainder.
LEMMA EuclideanDivision ==
  ASSUME NEW m \in Int, m >= 0, NEW d \in Int, d > 0
  PROVE  /\ m \div d \in Int /\ m \div d >= 0
         /\ m % d \in Int /\ m % d >= 0 /\ m % d < d
         /\ m = d * (m \div d) + (m % d)
<1>1. m \div d \in Int /\ m \div d >= 0
  BY Z3
<1>2. m % d \in Int /\ m % d >= 0 /\ m % d < d
  BY Z3
<1>3. m = d * (m \div d) + (m % d)
  BY Z3
<1> QED
  BY <1>1, <1>2, <1>3

Accumulates(t, s, n) == t[0] = 0 /\ \A k \in 1..n : s[k] \in Int /\ t[k] = s[k] + t[k - 1]

\* What accumulates over the first places of a sequence is their sum.
LEMMA SumOfFirst ==
  ASSUME NEW n \in Nat, NEW s, NEW t, Accumulates(t, s, n)
  PROVE  SumFunctionOnSet(s, 1..n) = t[n]
<1> DEFINE bad == {m \in 0..n : SumFunctionOnSet(s, 1..m) # t[m]}
<1>1. ASSUME bad # {}  PROVE  FALSE
  <2>1. PICK m \in bad : \A k \in bad : m <= k
    <3>1. bad \subseteq Nat
      OBVIOUS
    <3> HIDE DEF bad
    <3> QED
      BY <1>1, <3>1, LeastNumber
  <2>2. m \in 0..n /\ m \in Nat
    OBVIOUS
  <2>3. m # 0
    <3>1. m = 0 => 1..m = {}
      OBVIOUS
    <3> QED
      BY <3>1, SumOfNone DEF Accumulates
  <2>4. m - 1 \in Nat /\ ~(m <= m - 1)
    BY <2>2, <2>3
  <2>5. SumFunctionOnSet(s, 1..(m - 1)) = t[m - 1]
    <3>1. m - 1 \in 0..n /\ m - 1 \notin bad
      BY <2>1, <2>2, <2>4
    <3> QED
      BY <3>1
  <2>6. (1..m) \ {m} = 1..(m - 1) /\ m \in 1..m
    BY <2>2, <2>3
  <2>7. IsFiniteSet(1..m) /\ \A k \in 1..m : s[k] \in Int
    BY <2>2, FS_Interval DEF Accumulates
  <2>8. SumFunctionOnSet(s, 1..m) = s[m] + SumFunctionOnSet(s, 1..(m - 1))
    BY <2>6, <2>7, SumWithElement
  <2>9. t[m] = s[m] + t[m - 1]
    BY <2>2, <2>3 DEF Accumulates
  <2> QED
    BY <2>5, <2>8, <2>9
<1>2. n \notin bad
  BY <1>1
<1> QED
  BY <1>2

\* The shares of an allocation add up to the amount, and the first ones get at
\* most one unit more than the others, whatever its sign.
LEMMA SharesAreExact ==
  ASSUME NEW v, v.minor \in Int, Safe(v.minor), NEW parts \in Nat \ {0},
         NEW c, c.of = v, c.answer = Shares(v, parts)
  PROVE  SharesAddUp(c)
<1> DEFINE m == Magnitude(v.minor)
           d == m \div parts
           e == m % parts
           u == Signed(v.minor < 0, 1)
           s == Shares(v, parts)
           least(k) == IF k <= e THEN k ELSE e
<1>1. m \in Int /\ m >= 0 /\ u \in {1, -1} /\ v.minor = u * m
  BY DEF Magnitude, Signed
<1>2. d \in Int /\ d >= 0 /\ e \in Int /\ e >= 0 /\ e < parts /\ m = parts * d + e
  <2> HIDE DEF m
  <2>1. parts \in Int /\ parts > 0
    OBVIOUS
  <2> QED
    BY <1>1, <2>1, EuclideanDivision
<1>3. Signed(v.minor < 0, d) = u * d
  BY <1>2 DEF Signed
<1>4. DOMAIN s = 1..parts /\ \A k \in 1..parts : s[k] = IF k <= e THEN u * d + u ELSE u * d
  BY <1>3 DEF Shares
<1>5. PICK b : b = u * d
  OBVIOUS
<1>6. b \in Int /\ v.minor = parts * b + e * u
  <2> HIDE DEF m, d, e, u
  <2>1. CASE u = 1
    BY <1>1, <1>2, <1>5, <2>1
  <2>2. CASE u = -1
    <3>1. b = -d /\ e * u = -e /\ v.minor = -m
      BY <1>1, <1>2, <1>5, <2>2
    <3>2. parts * (-d) = -(parts * d)
      BY <1>2
    <3> QED
      BY <1>2, <3>1, <3>2
  <2> QED
    BY <1>1, <2>1, <2>2
<1> HIDE DEF m, d, e, u, s
<1>7. PICK t : t = [k \in 0..parts |-> k * b + least(k) * u]
  OBVIOUS
<1>8. t[0] = 0 /\ t[parts] = v.minor
  <2>1. least(0) = 0 /\ least(parts) = e
    BY <1>2
  <2>2. t[0] = 0 * b + 0 * u /\ t[parts] = parts * b + e * u
    BY <1>7, <2>1
  <2>3. u \in Int
    BY <1>1
  <2> QED
    BY <1>6, <2>2, <2>3
<1>9. ASSUME NEW k \in 1..parts
      PROVE  s[k] \in Int /\ t[k] = s[k] + t[k - 1]
  <2>1. t[k] = k * b + least(k) * u /\ t[k - 1] = (k - 1) * b + least(k - 1) * u
    BY <1>7
  <2>2. k * b = b + (k - 1) * b
    BY <1>6
  <2>3. least(k) * u = (IF k <= e THEN u ELSE 0) + least(k - 1) * u
    BY <1>1, <1>2
  <2>4. s[k] = b + (IF k <= e THEN u ELSE 0)
    BY <1>1, <1>4, <1>5, <1>6
  <2>5. PICK x, y : x = (k - 1) * b /\ y = least(k - 1) * u
    OBVIOUS
  <2>6. x \in Int /\ y \in Int
    BY <1>1, <1>2, <1>6, <2>5
  <2> QED
    BY <1>1, <1>6, <2>1, <2>2, <2>3, <2>4, <2>5, <2>6
<1>10. SumFunctionOnSet(s, DOMAIN s) = v.minor
  <2>1. Accumulates(t, s, parts)
    BY <1>8, <1>9 DEF Accumulates
  <2> QED
    BY <1>4, <1>8, <2>1, SumOfFirst
<1>11. ASSUME NEW j \in 1..parts, NEW k \in 1..parts, j <= k
       PROVE  Magnitude(s[j]) - Magnitude(s[k]) \in 0..1
  <2>1. Magnitude(b) = d /\ Magnitude(b + u) = d + 1
    BY <1>1, <1>2, <1>5 DEF Magnitude
  <2>2. Magnitude(s[j]) = IF j <= e THEN d + 1 ELSE d
    BY <1>4, <1>5, <2>1
  <2>3. Magnitude(s[k]) = IF k <= e THEN d + 1 ELSE d
    BY <1>4, <1>5, <2>1
  <2> QED
    BY <1>2, <1>11, <2>2, <2>3
<1>12. c.answer = s
  BY DEF s
<1>13. ASSUME NEW k \in 1..parts
       PROVE  Safe(s[k])
  <2>1. Magnitude(b) = d /\ Magnitude(b + u) = d + 1
    BY <1>1, <1>2, <1>5 DEF Magnitude
  <2>2. s[k] \in Int /\ Magnitude(s[k]) = IF k <= e THEN d + 1 ELSE d
    BY <1>4, <1>5, <1>9, <2>1
  <2>3. PICK whole : whole = parts * d
    OBVIOUS
  <2>4. whole \in Int /\ whole >= d /\ m = whole + e
    BY <1>2, <2>3
  <2>5. Magnitude(s[k]) <= m
    BY <1>2, <2>2, <2>4
  <2>6. m <= MaxSafe
    BY DEF m, Safe
  <2> QED
    BY <1>1, <1>2, <2>2, <2>5, <2>6, CalcConstants DEF Safe
<1> QED
  BY <1>4, <1>10, <1>11, <1>12, <1>13 DEF SharesAddUp

-----------------------------------------------------------------------------
(* Calculation: a reconciliation.                                          *)

\* Named each once, as many.
LEMMA NamesCounted ==
  ASSUME NEW S, IsFiniteSet(S), NEW q, \A x, y \in S : q[x] = q[y] => x = y
  PROVE  LET T == {q[x] : x \in S}
         IN  IsFiniteSet(T) /\ Cardinality(T) = Cardinality(S)
<1> DEFINE T == {q[x] : x \in S}
           f == [x \in S |-> q[x]]
<1>1. f \in Bijection(S, T)
  BY DEF Bijection, Injection, Surjection, IsInjective
<1>2. ExistsBijection(S, T)
  BY <1>1 DEF ExistsBijection
<1> HIDE DEF T
<1>3. IsFiniteSet(T) /\ Cardinality(T) = Cardinality(S)
  BY <1>2, FS_Bijection
<1> QED
  BY <1>3 DEF T

\* The largest of some places of a sequence is one of them.
LEMMA MaxOfNumbers ==
  ASSUME NEW n \in Nat, NEW S, S \subseteq 1..n, S # {}
  PROVE  Max(S) \in S /\ \A k \in S : k <= Max(S)
<1> DEFINE T == {n - k : k \in S}
<1>1. T \subseteq Nat /\ T # {}
  <2>1. \A k \in S : k \in 1..n /\ n - k \in Nat
    OBVIOUS
  <2>2. PICK k \in S : TRUE
    OBVIOUS
  <2>3. n - k \in T
    BY <2>2
  <2> QED
    BY <2>1, <2>3
<1> HIDE DEF T
<1>2. PICK m \in T : \A k \in T : m <= k
  BY <1>1, LeastNumber
<1>3. PICK x \in S : m = n - x
  BY DEF T
<1>4. \A k \in S : n - x <= n - k
  BY <1>2, <1>3 DEF T
<1>5. \A k \in S : x >= k
  BY <1>4
<1>6. Max(S) \in S /\ \A k \in S : Max(S) >= k
  BY <1>5 DEF Max
<1> QED
  BY <1>6

\* The last item of each key, once.
LastOnes(right) == {Max({j \in DOMAIN right : right[j].key = k}) :
                      k \in {item.key : item \in Range(right)}}

\* A map built from a list keeps the last item of each key.
LEMMA KeptAreTheLast ==
  ASSUME NEW n \in Nat, NEW right, DOMAIN right = 1..n
  PROVE  Kept(right) = LastOnes(right)
<1> DEFINE With(k) == {j \in DOMAIN right : right[j].key = k}
           keys == {item.key : item \in Range(right)}
<1>1. ASSUME NEW k \in keys
      PROVE  Max(With(k)) \in With(k) /\ \A j \in With(k) : j <= Max(With(k))
  <2>1. With(k) \subseteq 1..n /\ With(k) # {}
    BY DEF Range
  <2> HIDE DEF With
  <2> QED
    BY <2>1, MaxOfNumbers
<1>2. ASSUME NEW k \in keys
      PROVE  Max(With(k)) \in Kept(right)
  <2>1. PICK m : m = Max(With(k))
    OBVIOUS
  <2>2. m \in With(k) /\ \A j \in With(k) : j <= m
    BY <1>1, <2>1
  <2> QED
    BY <2>1, <2>2 DEF Kept
<1>3. ASSUME NEW m \in Kept(right)
      PROVE  \E k \in keys : m = Max(With(k))
  <2>1. PICK k : k = right[m].key
    OBVIOUS
  <2>2. k \in keys /\ m \in With(k)
    BY <2>1 DEF Kept, Range
  <2>3. PICK x : x = Max(With(k))
    OBVIOUS
  <2>4. x \in With(k) /\ m <= x
    BY <1>1, <2>2, <2>3
  <2>5. x <= m /\ x \in 1..n /\ m \in 1..n
    BY <2>1, <2>4 DEF Kept
  <2>6. x = m
    BY <2>4, <2>5
  <2> QED
    BY <2>2, <2>3, <2>6
<1> QED
  BY <1>2, <1>3 DEF LastOnes

\* An item has one partner at most.
LEMMA PairsAreOneToOne ==
  ASSUME NEW m \in Nat, NEW left, DOMAIN left = 1..m,
         NEW n \in Nat, NEW right, DOMAIN right = 1..n
  PROVE  /\ IsFiniteSet(Pairs(left, right))
         /\ \A p \in Pairs(left, right) : p[1] \in DOMAIN left /\ p[2] \in Kept(right)
         /\ \A p, q \in Pairs(left, right) : p[1] = q[1] => p = q
         /\ \A p, q \in Pairs(left, right) : p[2] = q[2] => p = q
<1>1. IsFiniteSet(DOMAIN left) /\ IsFiniteSet(Kept(right))
  <2>1. IsFiniteSet(DOMAIN left) /\ IsFiniteSet(DOMAIN right)
    BY FS_Interval
  <2>2. Kept(right) \in SUBSET DOMAIN right
    BY DEF Kept
  <2> QED
    BY <2>1, <2>2, FS_Subset
<1>2. IsFiniteSet((DOMAIN left) \X Kept(right))
  BY <1>1, FS_Product
<1>3. Pairs(left, right) \in SUBSET ((DOMAIN left) \X Kept(right))
  BY DEF Pairs
<1>4. IsFiniteSet(Pairs(left, right))
  BY <1>2, <1>3, FS_Subset
<1>5. ASSUME NEW p \in Pairs(left, right)
      PROVE  /\ p[1] \in DOMAIN left /\ p[2] \in Kept(right) /\ p = <<p[1], p[2]>>
             /\ left[p[1]].key = right[p[2]].key /\ Taker(left, p[1])
  BY DEF Pairs
<1>6. ASSUME NEW p \in Pairs(left, right), NEW q \in Pairs(left, right), p[1] = q[1]
      PROVE  p = q
  <2>1. right[p[2]].key = right[q[2]].key
    BY <1>5, <1>6
  <2>2. p[2] \in 1..n /\ q[2] \in 1..n /\ p[2] <= q[2] /\ q[2] <= p[2]
    BY <1>5, <2>1 DEF Kept
  <2>3. p[2] = q[2]
    BY <2>2
  <2> QED
    BY <1>5, <1>6, <2>3
<1>7. ASSUME NEW p \in Pairs(left, right), NEW q \in Pairs(left, right), p[2] = q[2]
      PROVE  p = q
  <2>1. PICK i, j : i = p[1] /\ j = q[1]
    OBVIOUS
  <2>2. left[i].key = left[j].key /\ i \in 1..m /\ j \in 1..m /\ Taker(left, i) /\ Taker(left, j)
    BY <1>5, <1>7, <2>1
  <2>3. ~(i < j) /\ ~(j < i)
    BY <2>2 DEF Taker
  <2>4. i = j
    BY <2>2, <2>3
  <2> QED
    BY <1>5, <1>7, <2>1, <2>4
<1> QED
  BY <1>4, <1>5, <1>6, <1>7

\* The sums of the two sides, paired: U and W are what is in no pair.
Pairing(P, A, C) ==
  /\ IsFiniteSet(P) /\ IsFiniteSet(A) /\ IsFiniteSet(C)
  /\ \A p \in P : p[1] \in A /\ p[2] \in C
  /\ \A p, q \in P : p[1] = q[1] => p = q
  /\ \A p, q \in P : p[2] = q[2] => p = q
Unpaired(P, A, C, U, W) ==
  U = {k \in A : \A p \in P : p[1] # k} /\ W = {k \in C : \A p \in P : p[2] # k}
Differs(d, l, r, P, A, C) ==
  /\ \A k \in A : l[k] \in Int
  /\ \A k \in C : r[k] \in Int
  /\ \A p \in P : d[p] = l[p[1]] - r[p[2]]

\* Two lists differ by the differences of their pairs, and by what is left
\* over of either.
LEMMA PairsBalance ==
  ASSUME NEW P, NEW A, NEW C, NEW U, NEW W, Pairing(P, A, C), Unpaired(P, A, C, U, W),
         NEW l, NEW r, NEW d, Differs(d, l, r, P, A, C)
  PROVE  /\ SumFunctionOnSet(l, A) - SumFunctionOnSet(r, C)
               = SumFunctionOnSet(d, P) + SumFunctionOnSet(l, U) - SumFunctionOnSet(r, W)
         /\ {p[1] : p \in P} \union U = A /\ {p[2] : p \in P} \union W = C
         /\ Cardinality(P) + Cardinality(U) = Cardinality(A)
<1> DEFINE A1 == {p[1] : p \in P}
           C1 == {p[2] : p \in P}
<1>1. /\ A1 \union U = A /\ A1 \intersect U = {} /\ C1 \union W = C /\ C1 \intersect W = {}
      /\ A1 \in SUBSET A /\ U \in SUBSET A /\ C1 \in SUBSET C /\ W \in SUBSET C
  BY DEF Pairing, Unpaired
<1>2. PICK f : f = [p \in P |-> p[1]]
  OBVIOUS
<1>3. PICK g : g = [p \in P |-> p[2]]
  OBVIOUS
<1>4. PICK lp : lp = [p \in P |-> l[p[1]]]
  OBVIOUS
<1>5. PICK rp : rp = [p \in P |-> r[p[2]]]
  OBVIOUS
<1>6. A1 = {f[p] : p \in P} /\ C1 = {g[p] : p \in P}
  BY <1>2, <1>3
<1>7. /\ \A p, q \in P : f[p] = f[q] => p = q
      /\ \A p \in P : l[f[p]] \in Int /\ lp[p] = l[f[p]]
  BY <1>2, <1>4 DEF Pairing, Differs
<1>8. /\ \A p, q \in P : g[p] = g[q] => p = q
      /\ \A p \in P : r[g[p]] \in Int /\ rp[p] = r[g[p]]
  BY <1>3, <1>5 DEF Pairing, Differs
<1>9. \A p \in P : lp[p] \in Int /\ rp[p] \in Int /\ d[p] = lp[p] - rp[p]
  BY <1>4, <1>5 DEF Pairing, Differs
<1>10. SumFunctionOnSet(lp, P) = SumFunctionOnSet(l, {f[p] : p \in P})
  <2>1. Renames(f, P, lp, l)
    BY <1>7 DEF Renames
  <2> QED
    BY <2>1, SumOverNames DEF Pairing
<1>11. SumFunctionOnSet(rp, P) = SumFunctionOnSet(r, {g[p] : p \in P})
  <2>1. Renames(g, P, rp, r)
    BY <1>8 DEF Renames
  <2> QED
    BY <2>1, SumOverNames DEF Pairing
<1>12. SumFunctionOnSet(d, P) = SumFunctionOnSet(lp, P) - SumFunctionOnSet(rp, P)
  BY <1>9, SumOfDifferences DEF Pairing
<1>13. IsFiniteSet(A1) /\ IsFiniteSet(U) /\ IsFiniteSet(C1) /\ IsFiniteSet(W)
  BY <1>1, FS_Subset DEF Pairing
<1>14. SumFunctionOnSet(l, A) = SumFunctionOnSet(l, A1) + SumFunctionOnSet(l, U)
  <2> HIDE DEF A1
  <2>1. \A k \in A1 \union U : l[k] \in Int
    BY <1>1 DEF Differs
  <2>2. SumFunctionOnSet(l, A1 \union U) = SumFunctionOnSet(l, A1) + SumFunctionOnSet(l, U)
    BY <1>1, <1>13, <2>1, SumOfUnion
  <2> QED
    BY <1>1, <2>2
<1>15. SumFunctionOnSet(r, C) = SumFunctionOnSet(r, C1) + SumFunctionOnSet(r, W)
  <2> HIDE DEF C1
  <2>1. \A k \in C1 \union W : r[k] \in Int
    BY <1>1 DEF Differs
  <2>2. SumFunctionOnSet(r, C1 \union W) = SumFunctionOnSet(r, C1) + SumFunctionOnSet(r, W)
    BY <1>1, <1>13, <2>1, SumOfUnion
  <2> QED
    BY <1>1, <2>2
<1>16. /\ SumFunctionOnSet(l, A1) \in Int /\ SumFunctionOnSet(l, U) \in Int
       /\ SumFunctionOnSet(r, C1) \in Int /\ SumFunctionOnSet(r, W) \in Int
  <2> HIDE DEF A1, C1
  <2>1. /\ \A k \in A1 : l[k] \in Int
        /\ \A k \in U : l[k] \in Int
        /\ \A k \in C1 : r[k] \in Int
        /\ \A k \in W : r[k] \in Int
    BY <1>1 DEF Differs
  <2> QED
    BY <1>13, <2>1, SumWithElement
<1>17. Cardinality(P) + Cardinality(U) = Cardinality(A)
  <2>1. Cardinality({f[p] : p \in P}) = Cardinality(P)
    BY <1>7, NamesCounted DEF Pairing
  <2>2. Cardinality(A1) = Cardinality(P)
    BY <1>6, <2>1
  <2> HIDE DEF A1
  <2>3. Cardinality(A1 \union U) = Cardinality(A1) + Cardinality(U) - Cardinality(A1 \intersect U)
    BY <1>13, FS_Union
  <2>4. Cardinality(A1 \intersect U) = 0 /\ Cardinality(A1) \in Nat /\ Cardinality(U) \in Nat
    BY <1>1, <1>13, FS_EmptySet, FS_CardinalityType
  <2> QED
    <3>1. Cardinality(A1 \union U) = Cardinality(A)
      BY <1>1, Zenon
    <3> QED
      BY <2>2, <2>3, <2>4, <3>1
<1>18. SumFunctionOnSet(l, A) - SumFunctionOnSet(r, C)
         = SumFunctionOnSet(d, P) + SumFunctionOnSet(l, U) - SumFunctionOnSet(r, W)
  <2>1. SumFunctionOnSet(d, P) = SumFunctionOnSet(l, A1) - SumFunctionOnSet(r, C1)
    BY <1>6, <1>10, <1>11, <1>12
  <2> HIDE DEF A1, C1
  <2> QED
    BY <1>14, <1>15, <1>16, <2>1
<1> QED
  BY <1>1, <1>17, <1>18

\* What is even adds nothing.
EvenPairs(E, P, d) ==
  (\A p \in P : d[p] \in Int) /\ E \in SUBSET P /\ \A p \in E : d[p] = 0

\* Pairs without a difference may be left out of the sum.
LEMMA EvenPairsAddNothing ==
  ASSUME NEW P, IsFiniteSet(P), NEW d, NEW E, EvenPairs(E, P, d)
  PROVE  /\ IsFiniteSet(E) /\ IsFiniteSet(P \ E)
         /\ SumFunctionOnSet(d, P) = SumFunctionOnSet(d, P \ E)
         /\ Cardinality(P) = Cardinality(E) + Cardinality(P \ E)
<1>1. /\ E \in SUBSET P /\ P \ E \in SUBSET P /\ E \union (P \ E) = P
      /\ E \intersect (P \ E) = {} /\ \A p \in E : d[p] = 0
  BY DEF EvenPairs
<1>2. IsFiniteSet(E) /\ IsFiniteSet(P \ E)
  BY <1>1, FS_Subset
<1>3. SumFunctionOnSet(d, E) = SumFunctionOnSet(d, E) - SumFunctionOnSet(d, E)
  <2>1. \A p \in E : d[p] \in Int /\ d[p] = d[p] - d[p]
    BY <1>1
  <2> QED
    BY <1>2, <2>1, SumOfDifferences
<1>4. SumFunctionOnSet(d, E) \in Int /\ SumFunctionOnSet(d, P \ E) \in Int
  <2>1. (\A p \in E : d[p] \in Int) /\ \A p \in P \ E : d[p] \in Int
    BY <1>1 DEF EvenPairs
  <2> QED
    BY <1>2, <2>1, SumWithElement
<1>5. PICK O : O = P \ E
  OBVIOUS
<1>6. SumFunctionOnSet(d, E \union O) = SumFunctionOnSet(d, E) + SumFunctionOnSet(d, O)
  <2>1. \A p \in E \union O : d[p] \in Int
    BY <1>1, <1>5 DEF EvenPairs
  <2> QED
    BY <1>1, <1>2, <1>5, <2>1, SumOfUnion
<1>7. Cardinality(E \union O) = Cardinality(E) + Cardinality(O) - Cardinality(E \intersect O)
  BY <1>2, <1>5, FS_Union
<1>8. Cardinality(E \intersect O) = 0 /\ Cardinality(E) \in Nat /\ Cardinality(O) \in Nat
  BY <1>1, <1>2, <1>5, FS_EmptySet, FS_CardinalityType
<1>9. E \union O = P
  BY <1>1, <1>5
<1>10. SumFunctionOnSet(d, P) = SumFunctionOnSet(d, O)
  BY <1>3, <1>4, <1>5, <1>6, <1>9
<1>11. Cardinality(P) = Cardinality(E) + Cardinality(O)
  <2>1. Cardinality(E \union O) = Cardinality(P)
    BY <1>9, Zenon
  <2> QED
    BY <1>7, <1>8, <2>1
<1> QED
  BY <1>2, <1>5, <1>10, <1>11

\* Safe numbers are integers, and so is what is taken for one.
LEMMA SafeIsAnInteger ==
  ASSUME NEW n \in Numbers
  PROVE  /\ n # Inexact <=> n \in Int
         /\ Safe(n) => n \in Int /\ Magnitude(n) <= MaxSafe
BY CalcConstants DEF Numbers, Safe

\* Two amounts are combined if both are safe, of one unit, and the result safe.
Combinable(v, w, sign) ==
  Safe(v.minor) /\ Safe(w.minor) /\ v.unit = w.unit /\ Safe(v.minor + sign * w.minor)
LEMMA CombinedAmounts ==
  ASSUME NEW v, v.minor \in Numbers, NEW w, w.minor \in Numbers, NEW sign \in {1, -1},
         NEW c, c = Combined(Given(v), Given(w), sign)
  PROVE  /\ c.thrown <=> ~Combinable(v, w, sign)
         /\ ~c.thrown => c.minor = v.minor + sign * w.minor /\ c.unit = v.unit
<1>1. CASE Safe(v.minor) /\ Safe(w.minor)
  <2>1. Given(v) = [thrown |-> FALSE, minor |-> v.minor, unit |-> v.unit]
    BY <1>1 DEF Given, Made
  <2>2. Given(w) = [thrown |-> FALSE, minor |-> w.minor, unit |-> w.unit]
    BY <1>1 DEF Given, Made
  <2>3. c = IF v.unit # w.unit THEN Thrown ELSE Made(v.minor + sign * w.minor, v.unit)
    BY <2>1, <2>2 DEF Combined
  <2> QED
    BY <1>1, <2>3 DEF Made, Thrown, Combinable
<1>2. CASE ~(Safe(v.minor) /\ Safe(w.minor))
  <2>1. Given(v) = Thrown \/ Given(w) = Thrown
    BY <1>2 DEF Given, Made
  <2>2. Given(v).thrown \/ Given(w).thrown
    BY <2>1 DEF Thrown
  <2>3. c = Thrown
    BY <2>2 DEF Combined
  <2> QED
    BY <1>2, <2>3 DEF Thrown, Combinable
<1> QED
  BY <1>1, <1>2

\* A list to be reconciled.
LEMMA ListsAreLists ==
  ASSUME NEW list \in Lists
  PROVE  \E n \in Nat : /\ DOMAIN list = 1..n /\ Len(list) = n
                        /\ \A k \in 1..n : list[k].amount.minor \in Numbers
<1>1. list \in Seq(Range(list)) /\ \A item \in Range(list) : item.amount.minor \in Numbers
  BY CalcConstants
<1>2. Len(list) \in Nat /\ DOMAIN list = 1..Len(list)
  BY <1>1
<1>3. PICK n : n = Len(list)
  OBVIOUS
<1>4. \A k \in DOMAIN list : list[k] \in Range(list)
  BY DEF Range
<1>5. \A k \in 1..n : list[k].amount.minor \in Numbers
  BY <1>1, <1>2, <1>3, <1>4
<1>6. n \in Nat /\ DOMAIN list = 1..n /\ Len(list) = n
  BY <1>2, <1>3
<1> QED
  BY <1>5, <1>6, Zenon

\* Every item is matched, in a difference or left over; in each unit the
\* differences and what is left over add up to the difference of the totals.
LEMMA ReconciliationsAreComplete ==
  ASSUME NEW left \in Lists, NEW right \in Lists, NEW tolerance,
         NEW c, c.left = left, c.right = right, c.tolerance = tolerance,
         c.answer = Reconciled(left, right, tolerance)
  PROVE  ReconciliationIsComplete(c)
<1> DEFINE P == Pairs(left, right)
           difference(p) == Combined(Given(left[p[1]].amount), Given(right[p[2]].amount), -1)
<1>1. PICK m \in Nat, n \in Nat : /\ DOMAIN left = 1..m /\ Len(left) = m
                                  /\ DOMAIN right = 1..n /\ Len(right) = n
                                  /\ \A k \in 1..m : left[k].amount.minor \in Numbers
                                  /\ \A k \in 1..n : right[k].amount.minor \in Numbers
  BY ListsAreLists
<1>2. /\ IsFiniteSet(P)
      /\ \A p \in P : p[1] \in DOMAIN left /\ p[2] \in Kept(right)
      /\ \A p, q \in P : p[1] = q[1] => p = q
      /\ \A p, q \in P : p[2] = q[2] => p = q
  BY <1>1, PairsAreOneToOne
<1>3. Kept(right) \in SUBSET DOMAIN right
  BY DEF Kept
<1>4. \A p \in P : left[p[1]].key = right[p[2]].key
  BY DEF Pairs
<1>5. PICK D : D = [p \in P |-> difference(p)]
  OBVIOUS
<1>6. ASSUME NEW p \in P
      PROVE  LET l == left[p[1]].amount
                 r == right[p[2]].amount
             IN  /\ D[p].thrown <=> ~Combinable(l, r, -1)
                 /\ ~D[p].thrown =>
                      /\ D[p].minor = l.minor - r.minor /\ D[p].unit = l.unit /\ l.unit = r.unit
                      /\ l.minor \in Int /\ r.minor \in Int /\ D[p].minor \in Int /\ Safe(D[p].minor)
  <2>1. PICK l, r : l = left[p[1]].amount /\ r = right[p[2]].amount
    OBVIOUS
  <2>2. l.minor \in Numbers /\ r.minor \in Numbers
    BY <1>1, <1>2, <1>3, <2>1
  <2>3. D[p] = Combined(Given(l), Given(r), -1)
    BY <1>5, <2>1
  <2>4. PICK e : e = D[p]
    OBVIOUS
  <2>5. /\ e.thrown <=> ~Combinable(l, r, -1)
        /\ ~e.thrown => e.minor = l.minor + (-1) * r.minor /\ e.unit = l.unit
    BY <2>2, <2>3, <2>4, CombinedAmounts
  <2>6. ASSUME ~e.thrown
        PROVE  /\ e.minor = l.minor - r.minor /\ e.unit = l.unit /\ l.unit = r.unit
               /\ l.minor \in Int /\ r.minor \in Int /\ e.minor \in Int /\ Safe(e.minor)
    <3>1. Safe(l.minor) /\ Safe(r.minor) /\ l.unit = r.unit /\ Safe(l.minor + (-1) * r.minor)
      BY <2>5, <2>6 DEF Combinable
    <3>2. l.minor \in Int /\ r.minor \in Int
      BY <2>2, <3>1, SafeIsAnInteger
    <3> QED
      BY <2>5, <2>6, <3>1, <3>2
  <2> QED
    BY <2>1, <2>4, <2>5, <2>6
<1>7. CASE \E p \in P : D[p].thrown
  <2>1. PICK p \in P : D[p].thrown
    BY <1>7
  <2>2. difference(p).thrown
    BY <1>5, <2>1
  <2>3. c.answer = Thrown
    BY <2>2 DEF Reconciled
  <2>4. PICK j, k : j = p[1] /\ k = p[2]
    OBVIOUS
  <2>5. j \in DOMAIN left /\ k \in DOMAIN right /\ left[j].key = right[k].key
    BY <1>2, <1>3, <1>4, <2>4
  <2>6. PICK l, r : l = left[j].amount /\ r = right[k].amount
    OBVIOUS
  <2>7. ~(Safe(l.minor) /\ Safe(r.minor) /\ l.unit = r.unit /\ Safe(l.minor + (-1) * r.minor))
    BY <1>6, <2>1, <2>4, <2>6 DEF Combinable
  <2>8. ~(Safe(l.minor) /\ Safe(r.minor) /\ l.unit = r.unit /\ Safe(l.minor - r.minor))
    <3>1. l.minor \in Numbers /\ r.minor \in Numbers
      BY <1>1, <2>5, <2>6
    <3>2. Safe(l.minor) /\ Safe(r.minor) => l.minor + (-1) * r.minor = l.minor - r.minor
      BY <3>1, SafeIsAnInteger
    <3> QED
      BY <2>7, <3>2
  <2>9. RefusedForCause(c)
    BY <2>5, <2>6, <2>8 DEF RefusedForCause
  <2> QED
    BY <2>3, <2>9 DEF ReconciliationIsComplete, Thrown
<1>8. CASE \A p \in P : ~D[p].thrown
  <2>1. PICK E : E = {p \in P : D[p].minor = 0}
    OBVIOUS
  <2>2. PICK rec : rec = [p \in P |-> [left |-> p[1], right |-> p[2], difference |-> D[p],
                                       within |-> Within(D[p].minor, tolerance)]]
    OBVIOUS
  <2>3. \A p \in P : /\ rec[p].left = p[1] /\ rec[p].right = p[2] /\ rec[p].difference = D[p]
                     /\ rec[p].within = Within(D[p].minor, tolerance)
    BY <2>2
  <2>4. PICK O : O = P \ E
    OBVIOUS
  <2>5. PICK V : V = {rec[p] : p \in O}
    OBVIOUS
  <2>6. PICK U : U = {k \in DOMAIN left : \A p \in P : p[1] # k}
    OBVIOUS
  <2>7. PICK W : W = {k \in Kept(right) : \A p \in P : p[2] # k}
    OBVIOUS
  <2>8. c.answer = [thrown |-> FALSE, matched |-> E, variances |-> V,
                    unmatchedLeft |-> U, unmatchedRight |-> W]
    <3>1. \A p \in P : difference(p) = D[p] /\ ~difference(p).thrown
      BY <1>5, <1>8
    <3>2. E = {p \in P : difference(p).minor = 0}
      BY <2>1, <3>1
    <3>3. V = {[left |-> p[1], right |-> p[2], difference |-> difference(p),
                within |-> Within(difference(p).minor, tolerance)] : p \in P \ E}
      BY <2>2, <2>4, <2>5, <3>1
    <3> QED
      BY <2>6, <2>7, <3>1, <3>2, <3>3 DEF Reconciled
  <2> HIDE DEF P, difference
  <2>9. IsFiniteSet(DOMAIN left) /\ IsFiniteSet(Kept(right)) /\ Cardinality(DOMAIN left) = Len(left)
    <3>1. IsFiniteSet(1..m) /\ Cardinality(1..m) = m
      BY FS_Interval
    <3>2. IsFiniteSet(1..n)
      BY FS_Interval
    <3>3. Kept(right) \in SUBSET (1..n)
      BY <1>1, <1>3
    <3>4. IsFiniteSet(Kept(right))
      BY <3>2, <3>3, FS_Subset
    <3> QED
      BY <1>1, <3>1, <3>4
  <2>10. PICK Q, A, C : Q = P /\ A = DOMAIN left /\ C = Kept(right)
    OBVIOUS
  <2>11. Pairing(Q, A, C)
    BY <1>2, <2>9, <2>10 DEF Pairing
  <2>12. Unpaired(Q, A, C, U, W)
    BY <2>6, <2>7, <2>10 DEF Unpaired
  <2>13. E \in SUBSET Q /\ O = Q \ E
    BY <2>1, <2>4, <2>10
  <2>14. \A p, q \in O : rec[p] = rec[q] => p = q
    <3>1. \A p, q \in P : rec[p] = rec[q] => p[1] = q[1]
      BY <2>3
    <3> QED
      BY <1>2, <2>4, <3>1
  <2>15. ASSUME NEW u,
                NEW l, l = InUnit(left, u), NEW r, r = InUnit(right, u),
                NEW e, e = [v \in V |-> IF v.difference.unit = u THEN v.difference.minor ELSE 0]
         PROVE  /\ SumFunctionOnSet(l, A) - SumFunctionOnSet(r, C)
                     = SumFunction(e) + SumFunctionOnSet(l, U) - SumFunctionOnSet(r, W)
                /\ {p[1] : p \in Q} \union U = A /\ {p[2] : p \in Q} \union W = C
                /\ Cardinality(Q) + Cardinality(U) = Cardinality(A)
                /\ IsFiniteSet(O) /\ Cardinality(Q) = Cardinality(E) + Cardinality(O)
    <3>1. PICK d : d = [p \in Q |-> IF D[p].unit = u THEN D[p].minor ELSE 0]
      OBVIOUS
    <3>2. Differs(d, l, r, Q, A, C)
      <4>1. \A k \in A : l[k] \in Int
        BY <1>1, <2>10, <2>15, SafeIsAnInteger DEF InUnit
      <4>2. \A k \in C : r[k] \in Int
        BY <1>1, <1>3, <2>10, <2>15, SafeIsAnInteger DEF InUnit
      <4>3. ASSUME NEW p \in Q
            PROVE  d[p] = l[p[1]] - r[p[2]]
        <5>1. PICK x, y : x = left[p[1]].amount /\ y = right[p[2]].amount
          OBVIOUS
        <5>2. /\ D[p].minor = x.minor - y.minor /\ D[p].unit = x.unit /\ x.unit = y.unit
              /\ x.minor \in Int /\ y.minor \in Int
          BY <1>6, <1>8, <2>10, <5>1
        <5>3. p[1] \in DOMAIN left /\ p[2] \in DOMAIN right
          BY <1>2, <1>3, <2>10
        <5>4. x.minor # Inexact /\ y.minor # Inexact
          BY <5>2, CalcConstants
        <5>5. l[p[1]] = IF x.unit = u THEN x.minor ELSE 0
          BY <2>15, <5>1, <5>3, <5>4 DEF InUnit
        <5>6. r[p[2]] = IF y.unit = u THEN y.minor ELSE 0
          BY <2>15, <5>1, <5>3, <5>4 DEF InUnit
        <5> QED
          BY <3>1, <5>2, <5>5, <5>6
      <4> QED
        BY <4>1, <4>2, <4>3 DEF Differs
    <3>3. /\ SumFunctionOnSet(l, A) - SumFunctionOnSet(r, C)
               = SumFunctionOnSet(d, Q) + SumFunctionOnSet(l, U) - SumFunctionOnSet(r, W)
          /\ {p[1] : p \in Q} \union U = A /\ {p[2] : p \in Q} \union W = C
          /\ Cardinality(Q) + Cardinality(U) = Cardinality(A)
      BY <2>11, <2>12, <3>2, PairsBalance
    <3>4. \A p \in Q : d[p] \in Int
      BY <1>6, <1>8, <2>10, <3>1
    <3>5. EvenPairs(E, Q, d)
      BY <2>1, <2>10, <2>13, <3>1, <3>4 DEF EvenPairs
    <3>6. IsFiniteSet(Q)
      BY <2>11 DEF Pairing
    <3>7. /\ IsFiniteSet(O) /\ SumFunctionOnSet(d, Q) = SumFunctionOnSet(d, O)
          /\ Cardinality(Q) = Cardinality(E) + Cardinality(O)
      BY <2>13, <3>5, <3>6, EvenPairsAddNothing
    <3>8. \A p \in O : e[rec[p]] \in Int /\ d[p] = e[rec[p]]
      <4>1. \A p \in O : rec[p] \in V /\ p \in Q /\ rec[p].difference = D[p]
        BY <2>3, <2>5, <2>10, <2>13
      <4>2. \A p \in O : e[rec[p]] = IF D[p].unit = u THEN D[p].minor ELSE 0
        BY <2>15, <4>1
      <4> QED
        BY <3>1, <3>4, <4>1, <4>2
    <3>9. SumFunctionOnSet(d, O) = SumFunctionOnSet(e, V)
      <4>1. Renames(rec, O, d, e)
        BY <2>14, <3>8 DEF Renames
      <4> QED
        BY <2>5, <3>7, <4>1, SumOverNames
    <3>10. SumFunction(e) = SumFunctionOnSet(e, V)
      BY <2>15 DEF SumFunction
    <3> QED
      BY <3>3, <3>7, <3>9, <3>10
  <2>16. /\ {p[1] : p \in Q} \union U = A /\ {p[2] : p \in Q} \union W = C
         /\ Cardinality(Q) + Cardinality(U) = Cardinality(A)
         /\ IsFiniteSet(O) /\ Cardinality(Q) = Cardinality(E) + Cardinality(O)
    <3>1. PICK u, l, r, e : /\ l = InUnit(left, u) /\ r = InUnit(right, u)
                            /\ e = [v \in V |-> IF v.difference.unit = u THEN v.difference.minor ELSE 0]
      OBVIOUS
    <3> QED
      BY <2>15, <3>1
  <2>17. Cardinality(V) = Cardinality(O)
    BY <2>5, <2>14, <2>16, NamesCounted
  <2>18. PICK lefts, rights : /\ lefts = {p[1] : p \in E} \union {v.left : v \in V}
                              /\ rights = {p[2] : p \in E} \union {v.right : v \in V}
    OBVIOUS
  <2>19. lefts = {p[1] : p \in Q} /\ rights = {p[2] : p \in Q}
    BY <2>3, <2>5, <2>10, <2>13, <2>18
  <2>20. PICK last : last = LastOnes(right)
    OBVIOUS
  <2>21. last = C
    BY <1>1, <2>10, <2>20, KeptAreTheLast
  <2>22. /\ c.answer.matched = E /\ c.answer.variances = V
         /\ c.answer.unmatchedLeft = U /\ c.answer.unmatchedRight = W /\ ~c.answer.thrown
    BY <2>8
  <2>23. last = {Max({j \in DOMAIN c.right : c.right[j].key = k}) :
                  k \in {item.key : item \in Range(c.right)}}
    BY <2>20 DEF LastOnes
  <2>24. Cardinality(c.answer.matched) + Cardinality(c.answer.variances)
           + Cardinality(c.answer.unmatchedLeft) = Len(c.left)
    BY <2>9, <2>10, <2>16, <2>17, <2>22
  <2>25. /\ lefts \union c.answer.unmatchedLeft = DOMAIN c.left
         /\ rights \union c.answer.unmatchedRight = last
    BY <2>10, <2>16, <2>19, <2>21, <2>22
  <2>26. ASSUME NEW u
         PROVE  SumFunctionOnSet(InUnit(c.left, u), DOMAIN c.left)
                  - SumFunctionOnSet(InUnit(c.right, u), last)
                = SumFunction([v \in c.answer.variances |->
                                 IF v.difference.unit = u THEN v.difference.minor ELSE 0])
                  + SumFunctionOnSet(InUnit(c.left, u), c.answer.unmatchedLeft)
                  - SumFunctionOnSet(InUnit(c.right, u), c.answer.unmatchedRight)
    <3>1. PICK l, r, e : /\ l = InUnit(left, u) /\ r = InUnit(right, u)
                         /\ e = [v \in V |-> IF v.difference.unit = u THEN v.difference.minor ELSE 0]
      OBVIOUS
    <3>2. SumFunctionOnSet(l, A) - SumFunctionOnSet(r, C)
            = SumFunction(e) + SumFunctionOnSet(l, U) - SumFunctionOnSet(r, W)
      BY <2>15, <3>1
    <3>3. e = [v \in c.answer.variances |-> IF v.difference.unit = u THEN v.difference.minor ELSE 0]
      BY <2>22, <3>1
    <3> QED
      BY <2>10, <2>21, <2>22, <3>1, <3>2, <3>3
  <2>27. ASSUME NEW v \in c.answer.variances
         PROVE  /\ Safe(v.difference.minor) /\ v.difference.minor # 0
                /\ v.within <=> /\ c.tolerance # NoTolerance
                                /\ Magnitude(v.difference.minor) <= Magnitude(c.tolerance)
    <3>1. PICK p \in O : v = rec[p]
      BY <2>5, <2>22
    <3>2. p \in P /\ D[p].minor # 0 /\ Safe(D[p].minor)
      BY <1>6, <1>8, <2>1, <2>4, <3>1
    <3>3. v.difference = D[p] /\ v.within = Within(D[p].minor, tolerance)
      BY <2>3, <3>1, <3>2
    <3> QED
      BY <3>2, <3>3 DEF Within
  <2>28. AllAccountedFor(c)
    BY <2>18, <2>22, <2>23, <2>24, <2>25, <2>26, <2>27, Zenon DEF AllAccountedFor
  <2> QED
    BY <2>22, <2>28 DEF ReconciliationIsComplete
<1> QED
  BY <1>7, <1>8

-----------------------------------------------------------------------------
(* Calculation: amounts added up, one after the other.                     *)

\* The places of a sequence are finitely many.
LEMMA IntervalIsFinite == \A n \in Nat : IsFiniteSet(1..n)
BY FS_Interval

\* The first places of a sequence, and the last of them.
Initial(s, k, n) == s \in SUBSET (1..n) /\ s # {} /\ Max(s) = k /\ k \in s /\ s \ {k} = 1..(k - 1)
LEMMA FirstPlaces ==
  ASSUME NEW n \in Nat, NEW k \in 1..n, NEW s, s = 1..k
  PROVE  Initial(s, k, n)
<1>1. k \in Nat /\ k >= 1 /\ k <= n
  OBVIOUS
<1>2. s \in SUBSET (1..n) /\ k \in s
  BY <1>1
<1>3. PICK x : x = Max(s)
  OBVIOUS
<1>4. x \in s /\ \A j \in s : j <= x
  BY <1>2, <1>3, MaxOfNumbers
<1>5. x = k
  BY <1>1, <1>2, <1>4
<1>6. s \ {k} = 1..(k - 1)
  BY <1>1
<1> QED
  BY <1>2, <1>3, <1>5, <1>6 DEF Initial

\* A fold from the left over n places: the last place is combined with the rest.
Stepwise(h, n, base, F) ==
  h[{}] = base /\ \A s \in SUBSET (1..n) : s # {} => h[s] = F[<<Max(s), h[s \ {Max(s)}]>>]

\* There is one.
LEMMA FoldsExist ==
  ASSUME NEW n \in Nat, NEW V, NEW base \in V, NEW F, Combines(F, 1..n, V)
  PROVE  \E g \in [SUBSET (1..n) -> V] : Stepwise(g, n, base, F)
<1>1. IsFiniteSet(1..n)
  BY FS_Interval
<1>2. PICK c : c = [s \in SUBSET (1..n) |-> Max(s)]
  OBVIOUS
<1>3. Chooses(c, 1..n)
  <2>1. ASSUME NEW s \in SUBSET (1..n), s # {}  PROVE  c[s] \in s
    <3>1. Max(s) \in s
      BY <2>1, MaxOfNumbers
    <3> QED
      BY <1>2, <3>1
  <2> QED
    BY <2>1 DEF Chooses
<1>4. PICK g \in [SUBSET (1..n) -> V] : Recurs(g, 1..n, base, c, F)
  BY <1>1, <1>3, SubsetRecursion
<1>5. \A s \in SUBSET (1..n) : c[s] = Max(s)
  BY <1>2
<1>6. Stepwise(g, n, base, F)
  BY <1>4, <1>5 DEF Recurs, Stepwise
<1> QED
  BY <1>4, <1>6

\* What the fold of the community modules unfolds to.
LEMMA SumIsFolded ==
  ASSUME NEW values, NEW unit
  PROVE  Sum(values, unit) =
           (CHOOSE h : h = [s \in SUBSET DOMAIN values |-> IF s = {} THEN Made(0, unit)
              ELSE Combined(h[s \ {Max(s)}], Given(values[Max(s)]), 1)])[DOMAIN values]
BY DEF Sum, FoldLeft, MapThenFoldSet

\* One amount more.
LEMMA RunningStep ==
  ASSUME NEW n \in Nat, NEW values, DOMAIN values = 1..n, NEW k \in 1..n,
         \A j \in 1..k : values[j].minor \in Int
  PROVE  /\ RunningTotal(values, k) \in Int /\ RunningTotal(values, k - 1) \in Int
         /\ RunningTotal(values, k) = RunningTotal(values, k - 1) + values[k].minor
<1>1. PICK f : f = [j \in DOMAIN values |-> values[j].minor]
  OBVIOUS
<1>2. PICK s, r : s = 1..k /\ r = 1..(k - 1)
  OBVIOUS
<1>3. Initial(s, k, n)
  BY <1>2, FirstPlaces, Zenon
<1>4. s \in SUBSET (1..n) /\ k \in s /\ r = s \ {k}
  BY <1>2, <1>3 DEF Initial
<1>5. \A j \in s : f[j] \in Int /\ f[j] = values[j].minor
  BY <1>1, <1>2, <1>4
<1>6. IsFiniteSet(s) /\ IsFiniteSet(r)
  <2>1. k \in Nat /\ k - 1 \in Nat
    OBVIOUS
  <2> QED
    BY <1>2, <2>1, IntervalIsFinite
<1>7. \A j \in r : f[j] \in Int
  BY <1>4, <1>5
<1>8. SumFunctionOnSet(f, s) \in Int /\ SumFunctionOnSet(f, s) = f[k] + SumFunctionOnSet(f, s \ {k})
  BY <1>4, <1>5, <1>6, SumWithElement
<1>9. SumFunctionOnSet(f, r) \in Int
  BY <1>6, <1>7, SumWithElement
<1>10. PICK x, y : x = SumFunctionOnSet(f, s) /\ y = SumFunctionOnSet(f, r)
  OBVIOUS
<1>11. x = y + values[k].minor /\ x \in Int /\ y \in Int
  BY <1>4, <1>5, <1>8, <1>9, <1>10
<1>12. x = RunningTotal(values, k) /\ y = RunningTotal(values, k - 1)
  BY <1>1, <1>2, <1>10 DEF RunningTotal
<1> QED
  BY <1>11, <1>12

Figure(minor, unit) == [thrown |-> FALSE, minor |-> minor, unit |-> unit]
FirstAddUp(values, unit, k) ==
  \A j \in 1..k : Safe(values[j].minor) /\ values[j].unit = unit /\ Safe(RunningTotal(values, j))

\* One amount more, on what the ones before it came to.
LEMMA SumStep ==
  ASSUME NEW n \in Nat, NEW values, DOMAIN values = 1..n,
         \A k \in 1..n : values[k].minor \in Numbers,
         NEW unit, NEW k \in 1..n, NEW before,
         before = IF FirstAddUp(values, unit, k - 1)
                  THEN Figure(RunningTotal(values, k - 1), unit) ELSE Thrown
  PROVE  Combined(before, Given(values[k]), 1)
           = IF FirstAddUp(values, unit, k) THEN Figure(RunningTotal(values, k), unit) ELSE Thrown
<1>1. PICK v : v = values[k]
  OBVIOUS
<1>2. FirstAddUp(values, unit, k) <=>
        /\ FirstAddUp(values, unit, k - 1)
        /\ Safe(v.minor) /\ v.unit = unit /\ Safe(RunningTotal(values, k))
  <2>1. 1..k = (1..(k - 1)) \union {k}
    OBVIOUS
  <2> QED
    BY <1>1, <2>1, Zenon DEF FirstAddUp
<1>3. CASE ~FirstAddUp(values, unit, k - 1)
  <2>1. before.thrown
    BY <1>3 DEF Thrown
  <2> QED
    BY <1>2, <1>3, <2>1 DEF Combined
<1>4. CASE FirstAddUp(values, unit, k - 1) /\ ~Safe(v.minor)
  <2>1. Given(v).thrown
    BY <1>4 DEF Given, Made, Thrown
  <2> QED
    BY <1>1, <1>2, <1>4, <2>1 DEF Combined
<1>5. CASE FirstAddUp(values, unit, k - 1) /\ Safe(v.minor)
  <2>1. Given(v) = Figure(v.minor, v.unit)
    BY <1>5 DEF Given, Made, Figure
  <2>2. \A j \in 1..k : values[j].minor \in Int
    <3>1. \A j \in 1..(k - 1) : Safe(values[j].minor)
      BY <1>5 DEF FirstAddUp
    <3>2. \A j \in 1..k : Safe(values[j].minor) /\ values[j].minor \in Numbers
      BY <1>1, <1>5, <3>1
    <3> QED
      BY <3>2, SafeIsAnInteger
  <2>3. RunningTotal(values, k) = RunningTotal(values, k - 1) + v.minor
        /\ RunningTotal(values, k) \in Int
    BY <1>1, <2>2, RunningStep
  <2>4. PICK t : t = RunningTotal(values, k - 1)
    OBVIOUS
  <2>5. before = Figure(t, unit)
    BY <1>5, <2>4
  <2>6. Combined(before, Given(v), 1) = IF unit # v.unit THEN Thrown ELSE Made(t + 1 * v.minor, unit)
    BY <2>1, <2>5 DEF Combined, Figure
  <2>7. t + 1 * v.minor = RunningTotal(values, k)
    <3>1. v.minor \in Int
      BY <1>1, <2>2
    <3> QED
      BY <2>3, <2>4, <3>1
  <2> QED
    BY <1>1, <1>2, <1>5, <2>6, <2>7 DEF Made, Figure
<1> QED
  BY <1>3, <1>4, <1>5

\* The sum of a list of amounts is their total if they are all of its unit and
\* safe, and safe on the way; else there is no sum.
LEMMA SumOfValues ==
  ASSUME NEW n \in Nat, NEW values, DOMAIN values = 1..n,
         \A k \in 1..n : values[k].minor \in Numbers, NEW unit
  PROVE  Sum(values, unit)
           = IF AddsUp(values, unit) THEN Figure(RunningTotal(values, n), unit) ELSE Thrown
<1> DEFINE D == 1..n
           V == {Thrown} \union {Figure(x, unit) : x \in Int}
           After(t, k) == Combined(t, Given(values[k]), 1)
           Rec(h) == h = [s \in SUBSET D |-> IF s = {} THEN Made(0, unit)
                                             ELSE After(h[s \ {Max(s)}], Max(s))]
<1>1. Made(0, unit) = Figure(0, unit)
  BY CalcConstants DEF Made, Safe, Magnitude, Figure
<1>2. Made(0, unit) \in V
  BY <1>1
<1>3. PICK F : F = [p \in D \X V |-> After(p[2], p[1])]
  OBVIOUS
<1>4. ASSUME NEW k \in D, NEW t \in V
      PROVE  F[<<k, t>>] = After(t, k) /\ After(t, k) \in V
  <2>1. F[<<k, t>>] = After(t, k)
    BY <1>3
  <2>2. PICK v : v = values[k] /\ v.minor \in Numbers
    OBVIOUS
  <2>3. CASE t = Thrown \/ ~Safe(v.minor)
    <3>1. t.thrown \/ Given(v).thrown
      BY <2>3 DEF Thrown, Given, Made
    <3>2. After(t, k) = Thrown
      BY <2>2, <3>1 DEF Combined
    <3> QED
      BY <2>1, <3>2
  <2>4. CASE t # Thrown /\ Safe(v.minor)
    <3>1. PICK x \in Int : t = Figure(x, unit)
      BY <2>4
    <3>2. Given(v) = Figure(v.minor, v.unit) /\ v.minor \in Int
      BY <2>2, <2>4, SafeIsAnInteger DEF Given, Made, Figure
    <3>3. After(t, k) = IF unit # v.unit THEN Thrown ELSE Made(x + 1 * v.minor, unit)
      BY <2>2, <3>1, <3>2 DEF Combined, Figure
    <3>4. x + 1 * v.minor \in Int
      BY <3>2
    <3>5. After(t, k) = Thrown \/ After(t, k) = Figure(x + 1 * v.minor, unit)
      BY <3>3 DEF Made, Figure
    <3> QED
      BY <2>1, <3>4, <3>5
  <2> QED
    BY <2>3, <2>4
<1> HIDE DEF V, After
<1>5. Combines(F, D, V)
  BY <1>4, Zenon DEF Combines
<1>6. PICK g \in [SUBSET D -> V] : Stepwise(g, n, Made(0, unit), F)
  BY <1>2, <1>5, FoldsExist
<1>7. Rec(g)
  <2>1. g[{}] = Made(0, unit)
    BY <1>6 DEF Stepwise
  <2>2. ASSUME NEW s \in SUBSET D, s # {}
        PROVE  g[s] = After(g[s \ {Max(s)}], Max(s))
    <3>1. g[s] = F[<<Max(s), g[s \ {Max(s)}]>>]
      BY <1>6, <2>2 DEF Stepwise
    <3>2. Max(s) \in D /\ g[s \ {Max(s)}] \in V
      <4>1. Max(s) \in s
        BY <2>2, MaxOfNumbers
      <4> QED
        BY <1>6, <4>1
    <3> QED
      BY <1>4, <3>1, <3>2
  <2>3. g = [s \in SUBSET D |-> g[s]]
    BY <1>6
  <2> QED
    BY <2>1, <2>2, <2>3
<1>8. PICK h : h = CHOOSE k : Rec(k)
  OBVIOUS
<1>9. Rec(h)
  BY <1>7, <1>8
<1>10. Sum(values, unit) = h[D]
  BY <1>8, SumIsFolded DEF After
<1>11. h[{}] = Made(0, unit) /\ \A s \in SUBSET D : s # {} => h[s] = After(h[s \ {Max(s)}], Max(s))
  BY <1>9
<1> HIDE DEF Rec
<1> DEFINE Right(k) == h[1..k] = IF FirstAddUp(values, unit, k)
                                 THEN Figure(RunningTotal(values, k), unit) ELSE Thrown
           bad == {k \in 0..n : ~Right(k)}
<1>12. ASSUME bad # {}  PROVE  FALSE
  <2>1. PICK k \in bad : \A j \in bad : k <= j
    <3>1. bad \subseteq Nat
      OBVIOUS
    <3> HIDE DEF bad
    <3> QED
      BY <1>12, <3>1, LeastNumber
  <2>2. CASE k = 0
    <3>1. 1..0 = {}
      OBVIOUS
    <3>2. RunningTotal(values, 0) = 0
      BY <3>1, SumOfNone DEF RunningTotal
    <3>3. FirstAddUp(values, unit, 0)
      BY <3>1 DEF FirstAddUp
    <3>4. Right(0)
      BY <1>1, <1>11, <3>1, <3>2, <3>3
    <3> QED
      BY <2>2, <3>4
  <2>3. CASE k # 0
    <3>1. k \in 1..n /\ k - 1 \in 0..n /\ ~(k <= k - 1)
      <4>1. k \in 0..n
        OBVIOUS
      <4> QED
        BY <2>3, <4>1
    <3>2. Right(k - 1)
      BY <2>1, <3>1
    <3>3. h[1..k] = After(h[1..(k - 1)], k)
      <4>1. PICK s : s = 1..k
        OBVIOUS
      <4>2. Initial(s, k, n)
        BY <3>1, <4>1, FirstPlaces, Zenon
      <4>4. s \in SUBSET D /\ s # {} /\ Max(s) = k /\ s \ {k} = 1..(k - 1)
        BY <4>2 DEF Initial
      <4>3. h[s] = After(h[s \ {Max(s)}], Max(s))
        BY <1>11, <4>4
      <4> QED
        BY <4>1, <4>3, <4>4
    <3>4. PICK before : before = h[1..(k - 1)]
      OBVIOUS
    <3>5. before = IF FirstAddUp(values, unit, k - 1)
                   THEN Figure(RunningTotal(values, k - 1), unit) ELSE Thrown
      BY <3>2, <3>4
    <3>6. Combined(before, Given(values[k]), 1)
            = IF FirstAddUp(values, unit, k) THEN Figure(RunningTotal(values, k), unit) ELSE Thrown
      BY <3>1, <3>5, SumStep
    <3>7. Right(k)
      BY <3>3, <3>4, <3>6 DEF After
    <3> QED
      BY <3>7
  <2> QED
    BY <2>2, <2>3
<1>13. Right(n)
  BY <1>12
<1>14. FirstAddUp(values, unit, n) <=> AddsUp(values, unit)
  BY DEF FirstAddUp, AddsUp
<1> QED
  BY <1>10, <1>13, <1>14

\* The amounts of a list are a sequence of numbers of minor units.
LEMMA FiguresOfAList ==
  ASSUME NEW list \in Lists
  PROVE  \E n \in Nat : /\ DOMAIN Figures(list) = 1..n /\ Len(Figures(list)) = n
                        /\ \A k \in 1..n : Figures(list)[k].minor \in Numbers
<1>1. PICK n \in Nat : DOMAIN list = 1..n /\ \A k \in 1..n : list[k].amount.minor \in Numbers
  BY ListsAreLists
<1>2. PICK values : values = Figures(list)
  OBVIOUS
<1>3. values = [k \in 1..n |-> list[k].amount]
  BY <1>1, <1>2 DEF Figures
<1>4. DOMAIN values = 1..n /\ Len(values) = n /\ \A k \in 1..n : values[k].minor \in Numbers
  BY <1>1, <1>3
<1> QED
  BY <1>2, <1>4

\* A sum that is handed back, and one that is refused.
LEMMA SumsAreExact ==
  ASSUME NEW list \in Lists, NEW unit, NEW c,
         c.of = Figures(list), c.unit = unit, c.answer = Sum(Figures(list), unit)
  PROVE  SumIsExact(c)
<1>1. PICK values : values = Figures(list)
  OBVIOUS
<1>2. PICK n \in Nat : /\ DOMAIN values = 1..n /\ Len(values) = n
                       /\ \A k \in 1..n : values[k].minor \in Numbers
  BY <1>1, FiguresOfAList
<1>3. c.answer = IF AddsUp(values, unit) THEN Figure(RunningTotal(values, n), unit) ELSE Thrown
  BY <1>1, <1>2, SumOfValues
<1>4. c.answer.thrown <=> ~AddsUp(values, unit)
  BY <1>3 DEF Figure, Thrown
<1>5. ~c.answer.thrown => c.answer.minor = RunningTotal(values, n) /\ c.answer.unit = unit
  BY <1>3, <1>4 DEF Figure
<1> QED
  BY <1>1, <1>2, <1>4, <1>5 DEF SumIsExact

\* A difference.
LEMMA DifferencesAreExact ==
  ASSUME NEW v \in Values, NEW w \in Values, NEW c, c.of = v, c.by = w,
         c.answer = Combined(Given(v), Given(w), -1)
  PROVE  DifferenceIsExact(c)
<1>1. v.minor \in Numbers /\ w.minor \in Numbers
  BY CalcConstants
<1>2. PICK e : e = c.answer
  OBVIOUS
<1>3. /\ e.thrown <=> ~Combinable(v, w, -1)
      /\ ~e.thrown => e.minor = v.minor + (-1) * w.minor /\ e.unit = v.unit
  BY <1>1, <1>2, CombinedAmounts
<1>4. Safe(v.minor) /\ Safe(w.minor) => v.minor + (-1) * w.minor = v.minor - w.minor
  BY <1>1, SafeIsAnInteger
<1> QED
  BY <1>2, <1>3, <1>4 DEF Combinable, DifferenceIsExact

\* A verdict on a stated total.
LEMMA VerdictsAreRight ==
  ASSUME NEW list \in Lists, NEW stated \in Values, NEW c,
         c.of = Figures(list), c.unit = stated.unit, c.stated = stated,
         c.answer = Verified(Figures(list), stated)
  PROVE  VerdictIsRight(c)
<1>1. PICK values : values = Figures(list)
  OBVIOUS
<1>2. PICK n \in Nat : /\ DOMAIN values = 1..n /\ Len(values) = n
                       /\ \A k \in 1..n : values[k].minor \in Numbers
  BY <1>1, FiguresOfAList
<1>3. stated.minor \in Numbers
  BY CalcConstants
<1>4. PICK total, t : total = Sum(values, stated.unit) /\ t = RunningTotal(values, n)
  OBVIOUS
<1>5. total = IF AddsUp(values, stated.unit) THEN Figure(t, stated.unit) ELSE Thrown
  BY <1>2, <1>4, SumOfValues
<1>6. PICK e : e = Combined(Given(stated), total, -1)
  OBVIOUS
<1>7. c.answer = IF e.thrown THEN Thrown ELSE [thrown |-> FALSE, agrees |-> e.minor = 0]
  BY <1>1, <1>4, <1>6 DEF Verified
<1>8. CASE ~(Safe(stated.minor) /\ AddsUp(values, stated.unit))
  <2>1. Given(stated).thrown \/ total.thrown
    BY <1>5, <1>8 DEF Given, Made, Thrown
  <2>2. c.answer = Thrown
    BY <1>6, <1>7, <2>1 DEF Combined, Thrown
  <2> QED
    BY <1>1, <1>8, <2>2 DEF VerdictIsRight, Thrown
<1>9. CASE Safe(stated.minor) /\ AddsUp(values, stated.unit)
  <2>1. Given(stated) = Figure(stated.minor, stated.unit) /\ stated.minor \in Int
    BY <1>3, <1>9, SafeIsAnInteger DEF Given, Made, Figure
  <2>2. e = Made(stated.minor + (-1) * t, stated.unit)
    BY <1>5, <1>6, <1>9, <2>1 DEF Combined, Figure
  <2>3. t \in Int
    <3>1. CASE n = 0
      <4>1. 1..n = {}
        BY <3>1
      <4>2. t = 0
        BY <1>4, <4>1, SumOfNone DEF RunningTotal
      <4> QED
        BY <4>2
    <3>2. CASE n # 0
      <4>1. n \in 1..n
        BY <3>2
      <4>2. \A j \in 1..n : values[j].minor \in Int
        BY <1>2, <1>9, SafeIsAnInteger DEF AddsUp
      <4> QED
        BY <1>2, <1>4, <4>1, <4>2, RunningStep
    <3> QED
      BY <3>1, <3>2
  <2>4. stated.minor + (-1) * t = stated.minor - t
    BY <2>1, <2>3
  <2>5. c.answer.thrown <=> ~Safe(stated.minor - t)
    BY <1>7, <2>2, <2>4 DEF Made, Thrown
  <2>6. ~c.answer.thrown => (c.answer.agrees <=> stated.minor = t)
    <3>1. SUFFICES ASSUME ~c.answer.thrown  PROVE  c.answer.agrees <=> stated.minor = t
      OBVIOUS
    <3>2. Safe(stated.minor - t)
      BY <2>5, <3>1
    <3>3. e = Figure(stated.minor - t, stated.unit)
      BY <2>2, <2>4, <3>2 DEF Made, Figure
    <3>4. ~e.thrown /\ e.minor = stated.minor - t
      BY <3>3 DEF Figure
    <3>6. PICK same : same = (e.minor = 0)
      OBVIOUS
    <3>7. c.answer = [thrown |-> FALSE, agrees |-> same]
      BY <1>7, <3>4, <3>6
    <3>8. c.answer.agrees = same
      BY <3>7
    <3>5. c.answer.agrees <=> e.minor = 0
      BY <3>6, <3>8
    <3> QED
      BY <2>1, <2>3, <3>4, <3>5
  <2> QED
    BY <1>1, <1>2, <1>4, <1>9, <2>5, <2>6 DEF VerdictIsRight
<1> QED
  BY <1>8, <1>9

-----------------------------------------------------------------------------
(* Calculation: the ERP's accounts.                                        *)

\* What the first k lines move on account a, if all of it are integers.
Lines(lines, n) ==
  DOMAIN lines = 1..n /\ \A k \in 1..n : lines[k].account \in Accounts /\ lines[k].amount \in Numbers
LinesOn(lines, k, a) == {j \in 1..k : lines[j].account = a}
AmountsOf(lines) == [j \in DOMAIN lines |-> lines[j].amount]
MovedBy(lines, k, a) == SumFunctionOnSet(AmountsOf(lines), LinesOn(lines, k, a))
Whole(lines, k, a) == \A j \in LinesOn(lines, k, a) : lines[j].amount # Inexact

\* It is a number.
LEMMA MovedByIsANumber ==
  ASSUME NEW n \in Nat, NEW lines, Lines(lines, n), NEW k \in 0..n, NEW a, Whole(lines, k, a)
  PROVE  MovedBy(lines, k, a) \in Int
<1>1. PICK S, f : S = LinesOn(lines, k, a) /\ f = AmountsOf(lines)
  OBVIOUS
<1>2. S \in SUBSET (1..n)
  BY <1>1 DEF LinesOn
<1>3. IsFiniteSet(S)
  BY <1>2, IntervalIsFinite, FS_Subset
<1>4. \A j \in S : f[j] \in Int
  <2>1. \A j \in S : f[j] = lines[j].amount /\ lines[j].amount \in Numbers
    BY <1>1, <1>2 DEF AmountsOf, Lines
  <2>2. \A j \in S : lines[j].amount # Inexact
    BY <1>1 DEF Whole
  <2> QED
    BY <2>1, <2>2 DEF Numbers
<1>5. SumFunctionOnSet(f, S) \in Int
  BY <1>3, <1>4, SumWithElement
<1> QED
  BY <1>1, <1>5 DEF MovedBy

\* A line of another account moves nothing on this one.
LEMMA AnotherLine ==
  ASSUME NEW n \in Nat, NEW lines, NEW k \in 1..n, NEW a, lines[k].account # a
  PROVE  /\ MovedBy(lines, k, a) = MovedBy(lines, k - 1, a)
         /\ Whole(lines, k, a) <=> Whole(lines, k - 1, a)
<1>1. PICK S, R : S = LinesOn(lines, k, a) /\ R = LinesOn(lines, k - 1, a)
  OBVIOUS
<1>2. 1..k = (1..(k - 1)) \union {k}
  OBVIOUS
<1>3. S = R
  BY <1>1, <1>2 DEF LinesOn
<1> QED
  BY <1>1, <1>3 DEF MovedBy, Whole

\* A line of this one moves its amount.
LEMMA OneLineMore ==
  ASSUME NEW n \in Nat, NEW lines, Lines(lines, n), NEW k \in 1..n, NEW a,
         lines[k].account = a, Whole(lines, k - 1, a), lines[k].amount # Inexact
  PROVE  Whole(lines, k, a) /\ MovedBy(lines, k, a) = MovedBy(lines, k - 1, a) + lines[k].amount
<1>1. PICK S, R, f : S = LinesOn(lines, k, a) /\ R = LinesOn(lines, k - 1, a) /\ f = AmountsOf(lines)
  OBVIOUS
<1>2. 1..k = (1..(k - 1)) \union {k} /\ k \notin 1..(k - 1)
  OBVIOUS
<1>3. S = R \union {k} /\ k \notin R
  BY <1>1, <1>2 DEF LinesOn
<1>4. Whole(lines, k, a)
  BY <1>1, <1>3 DEF Whole
<1>5. S \in SUBSET (1..n)
  BY <1>1 DEF LinesOn
<1>6. IsFiniteSet(S)
  BY <1>5, IntervalIsFinite, FS_Subset
<1>7. \A j \in S : f[j] \in Int /\ f[j] = lines[j].amount
  <2>1. \A j \in S : f[j] = lines[j].amount /\ lines[j].amount \in Numbers
    BY <1>1, <1>5 DEF AmountsOf, Lines
  <2>2. \A j \in S : lines[j].amount # Inexact
    BY <1>1, <1>4 DEF Whole
  <2> QED
    BY <2>1, <2>2 DEF Numbers
<1>8. k \in S /\ S \ {k} = R
  BY <1>3
<1>9. SumFunctionOnSet(f, S) = f[k] + SumFunctionOnSet(f, S \ {k})
  BY <1>6, <1>7, <1>8, SumWithElement
<1>10. SumFunctionOnSet(f, R) \in Int
  <2>1. IsFiniteSet(R)
    BY <1>3, <1>6, FS_Subset
  <2>2. \A j \in R : f[j] \in Int
    BY <1>3, <1>7
  <2> QED
    BY <2>1, <2>2, SumWithElement
<1>11. PICK x, y : x = MovedBy(lines, k, a) /\ y = MovedBy(lines, k - 1, a)
  OBVIOUS
<1>12. x = SumFunctionOnSet(f, S) /\ y = SumFunctionOnSet(f, R)
  BY <1>1, <1>11 DEF MovedBy
<1>13. x = lines[k].amount + y /\ y \in Int /\ lines[k].amount \in Int
  BY <1>7, <1>8, <1>9, <1>10, <1>12
<1> QED
  BY <1>4, <1>11, <1>13

\* What an account holds after the first k lines, if it is an integer.
Accounted(before, after, lines, k, a) ==
  after # Inexact =>
    before # Inexact /\ Whole(lines, k, a) /\ after = before + MovedBy(lines, k, a)

\* One line more.
LEMMA AccountStep ==
  ASSUME NEW n \in Nat, NEW lines, Lines(lines, n), NEW k \in 1..n, NEW a,
         NEW before \in Numbers, NEW b \in Numbers, Accounted(before, b, lines, k - 1, a),
         NEW after, after = IF lines[k].account = a THEN Plus(b, lines[k].amount) ELSE b
  PROVE  after \in Numbers /\ Accounted(before, after, lines, k, a)
<1>1. CASE lines[k].account # a
  BY <1>1, AnotherLine DEF Accounted
<1>2. CASE lines[k].account = a
  <2>1. PICK x : x = lines[k].amount
    OBVIOUS
  <2>2. x \in Numbers /\ after = Plus(b, x)
    BY <1>2, <2>1 DEF Lines
  <2>3. after \in Numbers
    BY <2>2 DEF Plus, Numbers
  <2>4. after # Inexact => b # Inexact /\ x # Inexact /\ after = b + x
    BY <2>2 DEF Plus
  <2>5. SUFFICES ASSUME after # Inexact
                 PROVE  before # Inexact /\ Whole(lines, k, a) /\ after = before + MovedBy(lines, k, a)
    BY <2>3 DEF Accounted
  <2>6. before # Inexact /\ Whole(lines, k - 1, a) /\ b = before + MovedBy(lines, k - 1, a)
    BY <2>4, <2>5 DEF Accounted
  <2>7. Whole(lines, k, a) /\ MovedBy(lines, k, a) = MovedBy(lines, k - 1, a) + x
    BY <1>2, <2>1, <2>4, <2>5, <2>6, OneLineMore
  <2>8. MovedBy(lines, k - 1, a) \in Int
    <3>1. k - 1 \in 0..n
      OBVIOUS
    <3> QED
      BY <2>6, <3>1, MovedByIsANumber
  <2>9. before \in Int /\ x \in Int
    BY <2>2, <2>4, <2>5, <2>6 DEF Numbers
  <2> QED
    BY <2>4, <2>5, <2>6, <2>7, <2>8, <2>9
<1> QED
  BY <1>1, <1>2

\* What the fold of the community modules unfolds to.
LEMMA MovedIsFolded ==
  ASSUME NEW held, NEW lines
  PROVE  Moved(held, lines) =
           (CHOOSE h : h = [s \in SUBSET DOMAIN lines |-> IF s = {} THEN held
              ELSE [h[s \ {Max(s)}] EXCEPT ![lines[Max(s)].account] = Plus(@, lines[Max(s)].amount)]])
             [DOMAIN lines]
BY DEF Moved, FoldLeft, MapThenFoldSet

\* A list of lines, applied one after the other, moves every account that ends
\* as an integer by the sum of its lines.
LEMMA LinesAddUp ==
  ASSUME NEW n \in Nat, NEW lines, Lines(lines, n), NEW held \in [Accounts -> Numbers]
  PROVE  /\ Moved(held, lines) \in [Accounts -> Numbers]
         /\ \A a \in Accounts : Accounted(held[a], Moved(held, lines)[a], lines, n, a)
<1> DEFINE D == 1..n
           V == [Accounts -> Numbers]
           After(b, k) == [b EXCEPT ![lines[k].account] = Plus(@, lines[k].amount)]
           Rec(h) == h = [s \in SUBSET D |-> IF s = {} THEN held ELSE After(h[s \ {Max(s)}], Max(s))]
<1>1. PICK F : F = [p \in D \X V |-> After(p[2], p[1])]
  OBVIOUS
<1>2. ASSUME NEW k \in D, NEW b \in V
      PROVE  /\ F[<<k, b>>] = After(b, k) /\ After(b, k) \in V
             /\ \A a \in Accounts :
                  After(b, k)[a] = IF lines[k].account = a THEN Plus(b[a], lines[k].amount) ELSE b[a]
  <2>1. F[<<k, b>>] = After(b, k)
    BY <1>1
  <2>2. PICK x, y : x = lines[k].account /\ y = lines[k].amount
    OBVIOUS
  <2>3. x \in Accounts /\ y \in Numbers
    BY <2>2 DEF Lines
  <2>4. PICK z : z = Plus(b[x], y)
    OBVIOUS
  <2>5. z \in Numbers
    BY <2>3, <2>4 DEF Plus, Numbers
  <2>6. After(b, k) = [b EXCEPT ![x] = z]
    BY <2>2, <2>4
  <2>7. [b EXCEPT ![x] = z] \in V /\ \A a \in Accounts : [b EXCEPT ![x] = z][a] = IF x = a THEN z ELSE b[a]
    BY <2>5
  <2>8. \A a \in Accounts : x = a => z = Plus(b[a], y)
    BY <2>4
  <2> QED
    BY <2>1, <2>2, <2>6, <2>7, <2>8
<1> HIDE DEF V, After
<1>3. Combines(F, D, V)
  BY <1>2, Zenon DEF Combines
<1>4. PICK g \in [SUBSET D -> V] : Stepwise(g, n, held, F)
  <2>1. held \in V
    BY DEF V
  <2> QED
    BY <1>3, <2>1, FoldsExist
<1>5. Rec(g)
  <2>1. g[{}] = held
    BY <1>4 DEF Stepwise
  <2>2. ASSUME NEW s \in SUBSET D, s # {}
        PROVE  g[s] = After(g[s \ {Max(s)}], Max(s))
    <3>1. g[s] = F[<<Max(s), g[s \ {Max(s)}]>>]
      BY <1>4, <2>2 DEF Stepwise
    <3>2. Max(s) \in D /\ g[s \ {Max(s)}] \in V
      <4>1. Max(s) \in s
        BY <2>2, MaxOfNumbers
      <4> QED
        BY <1>4, <4>1
    <3> QED
      BY <1>2, <3>1, <3>2
  <2>3. g = [s \in SUBSET D |-> g[s]]
    BY <1>4
  <2> QED
    BY <2>1, <2>2, <2>3
<1>6. PICK h : h = CHOOSE k : Rec(k)
  OBVIOUS
<1>7. Rec(h)
  BY <1>5, <1>6
<1>8. Moved(held, lines) = h[D]
  BY <1>6, MovedIsFolded DEF After, Lines
<1>9. h[{}] = held /\ \A s \in SUBSET D : s # {} => h[s] = After(h[s \ {Max(s)}], Max(s))
  BY <1>7
<1> HIDE DEF Rec
<1> DEFINE Right(k) == /\ h[1..k] \in V
                       /\ \A a \in Accounts : Accounted(held[a], h[1..k][a], lines, k, a)
           bad == {k \in 0..n : ~Right(k)}
<1>10. ASSUME bad # {}  PROVE  FALSE
  <2>1. PICK k \in bad : \A j \in bad : k <= j
    <3>1. bad \subseteq Nat
      OBVIOUS
    <3> HIDE DEF bad
    <3> QED
      BY <1>10, <3>1, LeastNumber
  <2>2. CASE k = 0
    <3>1. 1..0 = {}
      OBVIOUS
    <3>2. ASSUME NEW a \in Accounts
          PROVE  Accounted(held[a], held[a], lines, 0, a)
      <4>1. LinesOn(lines, 0, a) = {}
        BY <3>1 DEF LinesOn
      <4>2. MovedBy(lines, 0, a) = 0 /\ Whole(lines, 0, a)
        BY <4>1, SumOfNone DEF MovedBy, Whole
      <4>3. held[a] # Inexact => held[a] \in Int
        BY DEF Numbers
      <4> QED
        BY <4>2, <4>3 DEF Accounted
    <3>3. h[1..0] = held /\ held \in V
      BY <1>9, <3>1 DEF V
    <3>4. Right(0)
      BY <3>2, <3>3
    <3> QED
      BY <2>2, <3>4
  <2>3. CASE k # 0
    <3>1. k \in 1..n /\ k - 1 \in 0..n /\ ~(k <= k - 1)
      <4>1. k \in 0..n
        OBVIOUS
      <4> QED
        BY <2>3, <4>1
    <3>2. Right(k - 1)
      BY <2>1, <3>1
    <3>3. PICK b, e : b = h[1..(k - 1)] /\ e = h[1..k]
      OBVIOUS
    <3>4. e = After(b, k)
      <4>1. PICK s : s = 1..k
        OBVIOUS
      <4>2. Initial(s, k, n)
        BY <3>1, <4>1, FirstPlaces, Zenon
      <4>3. s \in SUBSET D /\ s # {} /\ Max(s) = k /\ s \ {k} = 1..(k - 1)
        BY <4>2 DEF Initial
      <4>4. h[s] = After(h[s \ {Max(s)}], Max(s))
        BY <1>9, <4>3
      <4> QED
        BY <3>3, <4>1, <4>3, <4>4
    <3>5. b \in V /\ \A a \in Accounts : Accounted(held[a], b[a], lines, k - 1, a)
      BY <3>2, <3>3
    <3>6. e \in V
      BY <1>2, <3>1, <3>4, <3>5
    <3>7. ASSUME NEW a \in Accounts
          PROVE  Accounted(held[a], e[a], lines, k, a)
      <4>1. e[a] = IF lines[k].account = a THEN Plus(b[a], lines[k].amount) ELSE b[a]
        BY <1>2, <3>1, <3>4, <3>5
      <4>2. held[a] \in Numbers /\ b[a] \in Numbers
        BY <3>5 DEF V
      <4>3. Accounted(held[a], b[a], lines, k - 1, a)
        BY <3>5
      <4> QED
        BY <3>1, <4>1, <4>2, <4>3, AccountStep
    <3>8. Right(k)
      BY <3>3, <3>6, <3>7
    <3> QED
      BY <3>8
  <2> QED
    BY <2>2, <2>3
<1>11. Right(n)
  BY <1>10
<1> QED
  BY <1>8, <1>11 DEF V

\* The lines of a posting are a sequence of amounts on accounts.
LEMMA PostingLines ==
  ASSUME NEW call \in Postings
  PROVE  \E n \in Nat : Lines(call.lines, n)
<1>1. PICK lines : lines = call.lines
  OBVIOUS
<1>2. PICK Line : Line = [account : Accounts, amount : Numbers]
  OBVIOUS
<1>3. lines \in Seq(Line)
  BY <1>1, <1>2, CalcConstants
<1>4. Len(lines) \in Nat /\ DOMAIN lines = 1..Len(lines) /\ \A k \in 1..Len(lines) : lines[k] \in Line
  BY <1>3
<1>5. \A x \in Line : x.account \in Accounts /\ x.amount \in Numbers
  BY <1>2
<1> QED
  BY <1>1, <1>4, <1>5 DEF Lines

\* A call moves the sum of its lines if it is live and posts, else nothing.
WholeCall(call, a) == \A k \in PostedLines(call, a) : call.lines[k].amount # Inexact
LEMMA PostedAmount ==
  ASSUME NEW call \in Postings, NEW a, NEW n \in Nat, Lines(call.lines, n)
  PROVE  /\ call.live /\ call.posts => /\ WholeCall(call, a) <=> Whole(call.lines, n, a)
                                       /\ WholeCall(call, a) => Posted(call, a) = MovedBy(call.lines, n, a)
         /\ ~(call.live /\ call.posts) => WholeCall(call, a) /\ Posted(call, a) = 0
         /\ WholeCall(call, a) => Posted(call, a) \in Int
<1>1. PICK lines, S : lines = call.lines /\ S = PostedLines(call, a)
  OBVIOUS
<1>2. PICK f : f = [k \in S |-> lines[k].amount]
  OBVIOUS
<1>3. Posted(call, a) = SumFunctionOnSet(f, S)
  BY <1>1, <1>2 DEF Posted, SumFunction
<1>4. CASE call.live /\ call.posts
  <2>1. S = LinesOn(lines, n, a) /\ S \in SUBSET (1..n)
    BY <1>1, <1>4 DEF PostedLines, LinesOn, Lines
  <2>2. WholeCall(call, a) <=> Whole(lines, n, a)
    BY <1>1, <2>1 DEF WholeCall, Whole
  <2>3. ASSUME WholeCall(call, a)  PROVE  Posted(call, a) = MovedBy(lines, n, a)
    <3>1. IsFiniteSet(S)
      BY <2>1, IntervalIsFinite, FS_Subset
    <3>2. \A k \in S : f[k] = AmountsOf(lines)[k] /\ f[k] \in Int
      <4>1. \A k \in S : f[k] = lines[k].amount /\ lines[k].amount \in Numbers
        BY <1>1, <1>2, <2>1 DEF Lines
      <4>2. \A k \in S : lines[k].amount # Inexact
        BY <1>1, <2>3 DEF WholeCall
      <4>3. \A k \in S : AmountsOf(lines)[k] = lines[k].amount
        BY <1>1, <2>1 DEF AmountsOf, Lines
      <4> QED
        BY <4>1, <4>2, <4>3 DEF Numbers
    <3>3. SumFunctionOnSet(f, S) = SumFunctionOnSet(AmountsOf(lines), S)
      BY <3>1, <3>2, SumsAgree
    <3> QED
      BY <1>3, <2>1, <3>3 DEF MovedBy
  <2>4. Whole(lines, n, a) => MovedBy(lines, n, a) \in Int
    <3>1. n \in 0..n
      OBVIOUS
    <3> QED
      BY <1>1, <3>1, MovedByIsANumber
  <2> QED
    BY <1>1, <1>4, <2>2, <2>3, <2>4
<1>5. CASE ~(call.live /\ call.posts)
  <2>1. S = {}
    BY <1>1, <1>5 DEF PostedLines
  <2> QED
    BY <1>1, <1>3, <1>5, <2>1, SumOfNone DEF WholeCall
<1> QED
  BY <1>4, <1>5

\* What the journal es adds to account a.
Held(es, a) == SumFunction([j \in DOMAIN es |-> Posted(es[j], a)])
WholeJournal(es, a) == \A j \in DOMAIN es : WholeCall(es[j], a)

\* An empty one adds nothing.
LEMMA HeldOfNone == \A a : Held(<<>>, a) = 0 /\ WholeJournal(<<>>, a)
<1> SUFFICES ASSUME NEW a  PROVE  Held(<<>>, a) = 0 /\ WholeJournal(<<>>, a)
  OBVIOUS
<1>1. PICK f : f = [k \in DOMAIN << >> |-> Posted(<< >>[k], a)]
  OBVIOUS
<1>2. DOMAIN f = {} /\ WholeJournal(<< >>, a)
  BY <1>1 DEF WholeJournal
<1>3. SumFunctionOnSet(f, {}) = 0
  BY SumOfNone
<1> QED
  BY <1>1, <1>2, <1>3 DEF Held, SumFunction

\* One entry more, its amounts more.
LEMMA HeldAfter ==
  ASSUME NEW es \in Seq(Postings), NEW call \in Postings, NEW a,
         WholeJournal(es, a), WholeCall(call, a)
  PROVE  /\ WholeJournal(Append(es, call), a)
         /\ Held(Append(es, call), a) = Held(es, a) + Posted(call, a)
         /\ Held(es, a) \in Int /\ Posted(call, a) \in Int
<1>1. PICK n : n = Len(es)
  OBVIOUS
<1>2. n \in Nat /\ DOMAIN es = 1..n
  BY <1>1
<1>3. PICK fs : fs = Append(es, call)
  OBVIOUS
<1>4. DOMAIN fs = 1..(n + 1) /\ fs[n + 1] = call /\ \A k \in 1..n : fs[k] = es[k] /\ es[k] \in Postings
  BY <1>1, <1>2, <1>3
<1>5. PICK f : f = [k \in DOMAIN es |-> Posted(es[k], a)]
  OBVIOUS
<1>6. PICK g : g = [k \in DOMAIN fs |-> Posted(fs[k], a)]
  OBVIOUS
<1>7. DOMAIN f = 1..n /\ DOMAIN g = 1..(n + 1) /\ g[n + 1] = Posted(call, a)
  BY <1>2, <1>4, <1>5, <1>6
<1>8. \A c \in Postings : WholeCall(c, a) => Posted(c, a) \in Int
  BY PostingLines, PostedAmount
<1>9. \A k \in 1..n : g[k] \in Int /\ g[k] = f[k]
  <2>1. \A k \in 1..n : g[k] = Posted(es[k], a) /\ f[k] = Posted(es[k], a)
    BY <1>2, <1>4, <1>5, <1>6
  <2>2. \A k \in 1..n : es[k] \in Postings /\ WholeCall(es[k], a)
    BY <1>2, <1>4 DEF WholeJournal
  <2> QED
    BY <1>8, <2>1, <2>2
<1>10. IsFiniteSet(1..n)
  BY <1>2, IntervalIsFinite
<1>11. SumFunctionOnSet(g, 1..n) = SumFunctionOnSet(f, 1..n)
  BY <1>9, <1>10, SumsAgree
<1>12. SumFunctionOnSet(g, (1..n) \union {n + 1}) = g[n + 1] + SumFunctionOnSet(g, 1..n)
  <2>1. n + 1 \notin 1..n
    BY <1>2
  <2>2. \A k \in (1..n) \union {n + 1} : g[k] \in Int
    BY <1>7, <1>8, <1>9
  <2> QED
    BY <1>10, <2>1, <2>2, SumAdding
<1>13. (1..n) \union {n + 1} = 1..(n + 1)
  BY <1>2
<1>14. SumFunctionOnSet(g, DOMAIN g) = SumFunctionOnSet(g, (1..n) \union {n + 1})
  BY <1>7, <1>13, Zenon
<1>15. SumFunctionOnSet(f, 1..n) \in Int
  <2>1. \A k \in 1..n : f[k] \in Int
    BY <1>9
  <2> QED
    BY <1>10, <2>1, SumWithElement
<1>16. Held(fs, a) = SumFunctionOnSet(g, DOMAIN g) /\ Held(es, a) = SumFunctionOnSet(f, 1..n)
  BY <1>5, <1>6, <1>7 DEF Held, SumFunction
<1>17. WholeJournal(fs, a)
  <2>1. \A k \in 1..(n + 1) : k = n + 1 \/ k \in 1..n
    BY <1>2
  <2> QED
    BY <1>2, <1>4, <2>1 DEF WholeJournal
<1> QED
  BY <1>3, <1>7, <1>8, <1>11, <1>12, <1>14, <1>15, <1>16, <1>17

-----------------------------------------------------------------------------
(* Calculation: a rate applied to an amount.                               *)

Modes == {"half_up", "half_even", "up", "down"}

\* What RateIsApplied asks of q, as the quotient of n by d.
WithinRounding(n, d, mode, q) ==
  LET off  == Magnitude(q * d - n)
      past == Magnitude(q) * d - Magnitude(n)
  IN  /\ off < d
      /\ mode \in {"half_up", "half_even"} => 2 * off <= d
      /\ mode = "half_up" /\ 2 * off = d => past > 0
      /\ mode = "half_even" /\ 2 * off = d => q % 2 = 0
      /\ mode = "up" => past >= 0
      /\ mode = "down" => past <= 0

\* On magnitudes: a is the quotient k, or one more where the remainder r says so.
LEMMA RoundedMagnitude ==
  ASSUME NEW k \in Int, k >= 0, NEW r \in Int, r >= 0, NEW d \in Int, d > 0, r < d,
         NEW mode \in Modes, NEW a, a = IF Further(k, 2 * r, d, mode) THEN k + 1 ELSE k
  PROVE  /\ a \in Int /\ a >= 0
         /\ \/ a = k /\ a * d - (d * k + r) = -r
            \/ a = k + 1 /\ a * d - (d * k + r) = d - r /\ r > 0
         /\ a = k =>
              /\ mode # "up" \/ r = 0
              /\ mode = "half_up" => 2 * r < d
              /\ mode = "half_even" => 2 * r < d \/ (2 * r = d /\ a % 2 = 0)
         /\ a = k + 1 =>
              /\ mode # "down"
              /\ mode = "half_up" => 2 * r >= d
              /\ mode = "half_even" => 2 * r > d \/ (2 * r = d /\ a % 2 = 0)
<1>1. CASE Further(k, 2 * r, d, mode)
  <2>1. a = k + 1 /\ r > 0 /\ a * d - (d * k + r) = d - r
    BY <1>1 DEF Further
  <2>2. k % 2 = 1 => (k + 1) % 2 = 0
    BY Z3
  <2> QED
    BY <1>1, <2>1, <2>2 DEF Further
<1>2. CASE ~Further(k, 2 * r, d, mode)
  <2>1. a = k /\ a * d - (d * k + r) = -r
    BY <1>2
  <2>2. k % 2 = 0 \/ k % 2 = 1
    BY Z3
  <2> QED
    BY <1>2, <2>1, <2>2 DEF Further, Modes
<1> QED
  BY <1>1, <1>2

\* A rounded quotient is within the rounding, for either sign.
LEMMA DivisionIsApplied ==
  ASSUME NEW n \in Int, NEW d \in Int, d > 0, NEW mode \in Modes
  PROVE  /\ DivideRounded(n, d, mode) \in Int
         /\ WithinRounding(n, d, mode, DivideRounded(n, d, mode))
<1>1. PICK m : m = Magnitude(n)
  OBVIOUS
<1>2. m \in Int /\ m >= 0 /\ (n = m \/ n = -m) /\ (n < 0 => n = -m) /\ (~(n < 0) => n = m)
  BY <1>1 DEF Magnitude
<1>3. PICK k, r : k = m \div d /\ r = m % d
  OBVIOUS
<1>4. /\ k \in Int /\ k >= 0 /\ r \in Int /\ r >= 0 /\ r < d /\ m = d * k + r
  BY <1>2, <1>3, EuclideanDivision
<1>5. PICK a : a = IF Further(k, 2 * r, d, mode) THEN k + 1 ELSE k
  OBVIOUS
<1>6. DivideRounded(n, d, mode) = Signed(n < 0, a)
  BY <1>1, <1>3, <1>5 DEF DivideRounded
<1>7. PICK q : q = Signed(n < 0, a)
  OBVIOUS
<1>8. /\ a \in Int /\ a >= 0
      /\ \/ a = k /\ a * d - m = -r
         \/ a = k + 1 /\ a * d - m = d - r /\ r > 0
  BY <1>4, <1>5, RoundedMagnitude
<1>9. PICK e : e = a * d - m
  OBVIOUS
<1>10. e \in Int /\ q \in Int
  BY <1>2, <1>7, <1>8, <1>9 DEF Signed
<1>11. Magnitude(q) = a /\ Magnitude(q * d - n) = Magnitude(e) /\ (a % 2 = 0 => q % 2 = 0)
  <2>1. CASE n < 0
    <3>1. q = -a /\ n = -m
      BY <1>2, <1>7, <2>1 DEF Signed
    <3>2. (-a) * d - (-m) = -(a * d - m)
      BY <1>2, <1>8
    <3>3. a % 2 = 0 => (-a) % 2 = 0
      BY <1>8, Z3
    <3> QED
      BY <1>8, <1>9, <1>10, <3>1, <3>2, <3>3 DEF Magnitude
  <2>2. CASE ~(n < 0)
    BY <1>2, <1>7, <1>8, <1>9, <2>2 DEF Signed, Magnitude
  <2> QED
    BY <2>1, <2>2
<1>12. /\ a = k =>
              /\ mode # "up" \/ r = 0
              /\ mode = "half_up" => 2 * r < d
              /\ mode = "half_even" => 2 * r < d \/ (2 * r = d /\ a % 2 = 0)
       /\ a = k + 1 =>
              /\ mode # "down"
              /\ mode = "half_up" => 2 * r >= d
              /\ mode = "half_even" => 2 * r > d \/ (2 * r = d /\ a % 2 = 0)
  BY <1>4, <1>5, RoundedMagnitude
<1>13. WithinRounding(n, d, mode, q) =
         LET off  == Magnitude(e)
             past == e
         IN  /\ off < d
             /\ mode \in {"half_up", "half_even"} => 2 * off <= d
             /\ mode = "half_up" /\ 2 * off = d => past > 0
             /\ mode = "half_even" /\ 2 * off = d => q % 2 = 0
             /\ mode = "up" => past >= 0
             /\ mode = "down" => past <= 0
  BY <1>1, <1>9, <1>11 DEF WithinRounding
<1>14. ASSUME a = k  PROVE  WithinRounding(n, d, mode, q)
  <2>1. e = -r /\ Magnitude(e) = r
    BY <1>4, <1>8, <1>9, <1>14 DEF Magnitude
  <2>2. r < d /\ (mode \in {"half_up", "half_even"} => 2 * r <= d)
    BY <1>4, <1>12, <1>14
  <2>3. /\ mode = "half_up" => 2 * r # d
        /\ mode = "half_even" /\ 2 * r = d => q % 2 = 0
    BY <1>4, <1>11, <1>12, <1>14
  <2>4. (mode = "up" => e >= 0) /\ e <= 0
    BY <1>4, <1>12, <1>14, <2>1
  <2> QED
    BY <1>13, <2>1, <2>2, <2>3, <2>4
<1>15. ASSUME a = k + 1  PROVE  WithinRounding(n, d, mode, q)
  <2>1. e = d - r /\ Magnitude(e) = d - r /\ r > 0
    BY <1>4, <1>8, <1>9, <1>15 DEF Magnitude
  <2>2. d - r < d /\ (mode \in {"half_up", "half_even"} => 2 * (d - r) <= d)
    BY <1>4, <1>12, <1>15, <2>1
  <2>3. mode = "half_even" /\ 2 * (d - r) = d => q % 2 = 0
    BY <1>4, <1>11, <1>12, <1>15
  <2>4. mode # "down" /\ e > 0
    BY <1>4, <1>12, <1>15, <2>1
  <2> QED
    BY <1>13, <2>1, <2>2, <2>3, <2>4
<1> QED
  BY <1>6, <1>7, <1>8, <1>10, <1>14, <1>15

\* A product at a rate that was not refused.
LEMMA ProductIsExact ==
  ASSUME NEW v \in Values, Safe(v.minor), NEW rate \in Rates, NEW mode \in Modes,
         NEW c, c.of = v, c.rate = rate, c.mode = mode, NEW unit, NEW product,
         product = DivideRounded(v.minor * rate.digits, 10 ^ rate.exponent, mode),
         c.answer = Made(product, unit), ~c.answer.thrown
  PROVE  RateIsApplied(c) /\ Safe(c.of.minor) /\ Safe(c.answer.minor)
<1>1. PICK n, d : n = v.minor * rate.digits /\ d = 10 ^ rate.exponent
  OBVIOUS
<1>2. v.minor \in Int
  BY CalcConstants, SafeIsAnInteger
<1>3. n \in Int /\ d \in Int /\ d > 0
  BY <1>1, <1>2, CalcConstants
<1>4. product \in Int /\ WithinRounding(n, d, mode, product)
  BY <1>1, <1>3, DivisionIsApplied
<1>5. Safe(product) /\ c.answer.minor = product
  BY DEF Made, Thrown
<1>6. RateIsApplied(c) = WithinRounding(n, d, mode, product)
  BY <1>1, <1>5 DEF RateIsApplied, WithinRounding
<1> QED
  BY <1>4, <1>5, <1>6

\* What is right of a call of the connector and its answer.
RateRight(c) ==
  c.tool \in {"rate", "translate"} /\ ~c.answer.thrown =>
    RateIsApplied(c) /\ Safe(c.of.minor) /\ Safe(c.answer.minor)
FigureRight(c) ==
  /\ RateRight(c)
  /\ c.tool = "shares" => SharesAddUp(c)
  /\ c.tool = "sum" => SumIsExact(c)
  /\ c.tool = "subtract" => DifferenceIsExact(c)
  /\ c.tool = "verify" => VerdictIsRight(c)
  /\ c.tool = "reconcile" => ReconciliationIsComplete(c)

\* A rate applied, and a translation: of an amount that is safe, or refused.
LEMMA AppliedRateIsRight ==
  ASSUME ApplyRate
  PROVE  FigureRight(calc')
<1>1. PICK v \in Values, rate \in Rates, mode \in Modes :
        calc' = [tool |-> "rate", of |-> v, rate |-> rate, mode |-> mode,
                 answer |-> MultiplyByRate(v, rate, mode)]
  BY DEF ApplyRate, Computes, Modes
<1>2. PICK c, product : /\ c = calc'
                        /\ product = DivideRounded(v.minor * rate.digits, 10 ^ rate.exponent, mode)
  OBVIOUS
<1>3. /\ c.tool = "rate" /\ c.of = v /\ c.rate = rate /\ c.mode = mode
      /\ c.answer = MultiplyByRate(v, rate, mode)
  BY <1>1, <1>2
<1>4. c.answer = IF Safe(v.minor) THEN Made(product, v.unit) ELSE Thrown
  BY <1>2, <1>3 DEF MultiplyByRate, Given, Made, Thrown
<1>5. ~c.answer.thrown => RateIsApplied(c) /\ Safe(c.of.minor) /\ Safe(c.answer.minor)
  <2>1. ~c.answer.thrown => Safe(v.minor) /\ c.answer = Made(product, v.unit)
    BY <1>4 DEF Thrown
  <2> QED
    BY <1>2, <1>3, <2>1, ProductIsExact
<1> QED
  BY <1>2, <1>3, <1>5 DEF FigureRight, RateRight
LEMMA TranslationIsRight ==
  ASSUME Translate
  PROVE  FigureRight(calc')
<1>1. PICK v \in Values, rate \in Rates, currency \in Currencies :
        calc' = [tool |-> "translate", of |-> v, rate |-> rate, mode |-> "half_up",
                 answer |-> LET converted == MultiplyByRate(v, rate, "half_up")
                            IN  IF converted.thrown THEN Thrown
                                ELSE Made(converted.minor, [currency |-> currency, scale |-> v.unit.scale])]
  BY DEF Translate, Computes
<1>2. PICK c, product, converted, unit :
        /\ c = calc' /\ product = DivideRounded(v.minor * rate.digits, 10 ^ rate.exponent, "half_up")
        /\ converted = MultiplyByRate(v, rate, "half_up")
        /\ unit = [currency |-> currency, scale |-> v.unit.scale]
  OBVIOUS
<1>3. /\ c.tool = "translate" /\ c.of = v /\ c.rate = rate /\ c.mode = "half_up"
      /\ c.answer = IF converted.thrown THEN Thrown ELSE Made(converted.minor, unit)
  BY <1>1, <1>2
<1>4. converted = IF Safe(v.minor) THEN Made(product, v.unit) ELSE Thrown
  BY <1>2 DEF MultiplyByRate, Given, Made, Thrown
<1>5. ~c.answer.thrown => Safe(v.minor) /\ c.answer = Made(product, unit)
  BY <1>3, <1>4 DEF Made, Thrown
<1>6. ~c.answer.thrown => RateIsApplied(c) /\ Safe(c.of.minor) /\ Safe(c.answer.minor)
  <2>1. "half_up" \in Modes
    BY DEF Modes
  <2> QED
    BY <1>2, <1>3, <1>5, <2>1, ProductIsExact
<1> QED
  BY <1>2, <1>3, <1>6 DEF FigureRight, RateRight

\* Shares, sums, differences, verdicts and reconciliations.
LEMMA OtherFiguresAreRight ==
  ASSUME Allocate \/ AddUp \/ Subtract \/ Reconcile \/ VerifyTotal
  PROVE  FigureRight(calc')
<1>1. CASE Allocate
  <2>1. PICK v \in Values, parts \in Splits :
          ~Given(v).thrown /\ calc' = [tool |-> "shares", of |-> v, answer |-> Shares(v, parts)]
    BY <1>1 DEF Allocate, Computes
  <2>2. PICK c : c = calc'
    OBVIOUS
  <2>3. c.tool = "shares" /\ c.of = v /\ c.answer = Shares(v, parts)
    BY <2>1, <2>2
  <2>4. Safe(v.minor) /\ v.minor \in Int /\ parts \in Nat \ {0}
    BY <2>1, CalcConstants, SafeIsAnInteger DEF Given, Made, Thrown
  <2>5. SharesAddUp(c)
    BY <2>3, <2>4, SharesAreExact
  <2> QED
    BY <2>2, <2>3, <2>5 DEF FigureRight, RateRight
<1>2. CASE AddUp
  <2>1. PICK list \in Lists :
          \E unit : calc' = [tool |-> "sum", of |-> Figures(list), unit |-> unit,
                             answer |-> Sum(Figures(list), unit)]
    BY <1>2 DEF AddUp, Computes
  <2>2. PICK unit : calc' = [tool |-> "sum", of |-> Figures(list), unit |-> unit,
                             answer |-> Sum(Figures(list), unit)]
    BY <2>1
  <2>3. PICK c : c = calc'
    OBVIOUS
  <2>4. c.tool = "sum" /\ c.of = Figures(list) /\ c.unit = unit /\ c.answer = Sum(Figures(list), unit)
    BY <2>2, <2>3
  <2>5. SumIsExact(c)
    BY <2>4, SumsAreExact
  <2> QED
    BY <2>3, <2>4, <2>5 DEF FigureRight, RateRight
<1>3. CASE Subtract
  <2>1. PICK v \in Values, w \in Values :
          calc' = [tool |-> "subtract", of |-> v, by |-> w, answer |-> Combined(Given(v), Given(w), -1)]
    BY <1>3 DEF Subtract, Computes
  <2>2. PICK c : c = calc'
    OBVIOUS
  <2>3. c.tool = "subtract" /\ c.of = v /\ c.by = w /\ c.answer = Combined(Given(v), Given(w), -1)
    BY <2>1, <2>2
  <2>4. DifferenceIsExact(c)
    BY <2>3, DifferencesAreExact
  <2> QED
    BY <2>2, <2>3, <2>4 DEF FigureRight, RateRight
<1>4. CASE Reconcile
  <2>1. PICK left \in Lists, right \in Lists, tolerance \in Tolerances :
          calc' = [tool |-> "reconcile", left |-> left, right |-> right, tolerance |-> tolerance,
                   answer |-> Reconciled(left, right, tolerance)]
    BY <1>4 DEF Reconcile, Computes
  <2>2. PICK c, told : c = calc' /\ told = Reconciled(left, right, tolerance)
    OBVIOUS
  <2>3. /\ c.tool = "reconcile" /\ c.left = left /\ c.right = right /\ c.tolerance = tolerance
        /\ c.answer = told
    BY <2>1, <2>2
  <2>4. ReconciliationIsComplete(c)
    BY <2>2, <2>3, ReconciliationsAreComplete
  <2> QED
    BY <2>2, <2>3, <2>4 DEF FigureRight, RateRight
<1>5. CASE VerifyTotal
  <2>1. PICK list \in Lists, stated \in Values :
          calc' = [tool |-> "verify", of |-> Figures(list), unit |-> stated.unit, stated |-> stated,
                   answer |-> Verified(Figures(list), stated)]
    BY <1>5 DEF VerifyTotal, Computes
  <2>2. PICK c, told : c = calc' /\ told = Verified(Figures(list), stated)
    OBVIOUS
  <2>3. /\ c.tool = "verify" /\ c.of = Figures(list) /\ c.unit = stated.unit /\ c.stated = stated
        /\ c.answer = told
    BY <2>1, <2>2
  <2>4. VerdictIsRight(c)
    BY <2>2, <2>3, VerdictsAreRight
  <2> QED
    BY <2>2, <2>3, <2>4 DEF FigureRight, RateRight
<1> QED
  BY <1>1, <1>2, <1>3, <1>4, <1>5

-----------------------------------------------------------------------------
\* The accounts, by what is in the journal; and the figures handed back.
Booked(b, o, es, a) ==
  b # Inexact => o # Inexact /\ WholeJournal(es, a) /\ b = o + Held(es, a)
BooksInv ==
  /\ balances \in [Accounts -> Numbers] /\ opening \in [Accounts -> Numbers]
  /\ entries \in Seq(Postings)
  /\ Len(entries) <= MaxPostings /\ resets \in 0..MaxResets /\ calcs \in 0..MaxCalcs
  /\ \A a \in Accounts : Booked(balances[a], opening[a], entries, a)
FigureInv == FigureRight(calc)

\* With nothing in the journal an account is as it was opened.
LEMMA NothingBooked ==
  ASSUME NEW o \in Numbers, NEW a
  PROVE  Booked(o, o, <<>>, a)
<1>1. Held(<<>>, a) = 0 /\ WholeJournal(<<>>, a)
  BY HeldOfNone
<1>2. o # Inexact => o + 0 = o
  BY DEF Numbers
<1> QED
  BY <1>1, <1>2 DEF Booked

\* The books start as they were opened and the figures right.
LEMMA BooksInit == CalcInit => BooksInv /\ FigureInv
<1> SUFFICES ASSUME CalcInit  PROVE  BooksInv /\ FigureInv
  OBVIOUS
<1>1. /\ balances = Opening /\ opening = Opening /\ entries = <<>> /\ resets = 0 /\ calcs = 0
      /\ calc = NoCalc
  BY DEF CalcInit
<1>2. Opening \in [Accounts -> Numbers]
  BY CalcConstants DEF Numbers
<1>3. \A a \in Accounts : Booked(balances[a], opening[a], entries, a)
  BY <1>1, <1>2, NothingBooked
<1>4. entries \in Seq(Postings) /\ Len(entries) <= MaxPostings
  BY <1>1, CalcConstants
<1>5. resets \in 0..MaxResets /\ calcs \in 0..MaxCalcs
  BY <1>1, CalcConstants
<1>6. FigureInv
  BY <1>1 DEF NoCalc, FigureInv, FigureRight, RateRight
<1> QED
  BY <1>1, <1>2, <1>3, <1>4, <1>5, <1>6 DEF BooksInv

\* A posting moves the accounts by what the entry it adds says.
LEMMA WriteKeepsBooks ==
  ASSUME NEW call \in Postings, BooksInv, Write(call)
  PROVE  BooksInv'
<1>1. PICK es, fs, b, bb, o : /\ es = entries /\ fs = entries' /\ b = balances /\ bb = balances'
                              /\ o = opening
  OBVIOUS
<1>2. es \in Seq(Postings) /\ fs = Append(es, call) /\ Len(es) < MaxPostings
  BY <1>1 DEF BooksInv, Write
<1>3. fs \in Seq(Postings) /\ Len(fs) <= MaxPostings
  <2>1. Len(es) \in Nat /\ Len(fs) = Len(es) + 1 /\ MaxPostings \in Nat
    BY <1>2, CalcConstants
  <2> QED
    BY <1>2, <2>1
<1>4. /\ b \in [Accounts -> Numbers] /\ o \in [Accounts -> Numbers]
      /\ \A a \in Accounts : Booked(b[a], o[a], es, a)
  BY <1>1 DEF BooksInv
<1>5. PICK n \in Nat : Lines(call.lines, n)
  BY PostingLines
<1>6. /\ bb \in [Accounts -> Numbers]
      /\ \A a \in Accounts :
           bb[a] # Inexact => b[a] # Inexact /\ WholeCall(call, a) /\ bb[a] = b[a] + Posted(call, a)
  <2>1. CASE call.live /\ call.posts
    <3>1. bb = Moved(b, call.lines)
      BY <1>1, <2>1 DEF Write
    <3>2. /\ bb \in [Accounts -> Numbers]
          /\ \A a \in Accounts : Accounted(b[a], bb[a], call.lines, n, a)
      BY <1>4, <1>5, <3>1, LinesAddUp
    <3>3. \A a : /\ WholeCall(call, a) <=> Whole(call.lines, n, a)
                 /\ WholeCall(call, a) => Posted(call, a) = MovedBy(call.lines, n, a)
      BY <1>5, <2>1, PostedAmount
    <3> QED
      BY <3>2, <3>3 DEF Accounted
  <2>2. CASE ~(call.live /\ call.posts)
    <3>1. bb = b
      BY <1>1, <2>2 DEF Write
    <3>2. \A a : WholeCall(call, a) /\ Posted(call, a) = 0
      BY <1>5, <2>2, PostedAmount
    <3>3. \A x \in Numbers : x # Inexact => x = x + 0
      BY DEF Numbers
    <3>4. \A a \in Accounts : b[a] \in Numbers
      BY <1>4
    <3> QED
      BY <1>4, <3>1, <3>2, <3>3, <3>4
  <2> QED
    BY <2>1, <2>2
<1>7. ASSUME NEW a \in Accounts
      PROVE  Booked(bb[a], o[a], fs, a)
  <2>1. SUFFICES ASSUME bb[a] # Inexact
                 PROVE  o[a] # Inexact /\ WholeJournal(fs, a) /\ bb[a] = o[a] + Held(fs, a)
    BY DEF Booked
  <2>2. b[a] # Inexact /\ WholeCall(call, a) /\ bb[a] = b[a] + Posted(call, a)
    BY <1>6, <2>1
  <2>3. Booked(b[a], o[a], es, a)
    BY <1>4
  <2>4. o[a] # Inexact /\ WholeJournal(es, a) /\ b[a] = o[a] + Held(es, a)
    BY <2>2, <2>3 DEF Booked
  <2>5. /\ WholeJournal(fs, a) /\ Held(fs, a) = Held(es, a) + Posted(call, a)
        /\ Held(es, a) \in Int /\ Posted(call, a) \in Int
    BY <1>2, <2>2, <2>4, HeldAfter
  <2>6. o[a] \in Int
    BY <1>4, <2>4 DEF Numbers
  <2> QED
    BY <2>2, <2>4, <2>5, <2>6
<1>8. calcs' = calcs /\ resets' = resets /\ opening' = opening
  BY DEF Write
<1> QED
  BY <1>1, <1>3, <1>4, <1>6, <1>7, <1>8 DEF BooksInv

\* A reset opens the accounts at what they hold.
LEMMA ResetKeepsBooks ==
  ASSUME BooksInv, Reset
  PROVE  BooksInv'
<1>1. /\ balances' = balances /\ opening' = balances /\ entries' = <<>> /\ calcs' = calcs
      /\ resets < MaxResets /\ resets' = resets + 1
  BY DEF Reset
<1>2. balances \in [Accounts -> Numbers] /\ resets \in 0..MaxResets /\ calcs \in 0..MaxCalcs
  BY DEF BooksInv
<1>3. resets' \in 0..MaxResets
  BY <1>1, <1>2, CalcConstants
<1>4. \A a \in Accounts : Booked(balances'[a], opening'[a], entries', a)
  BY <1>1, <1>2, NothingBooked
<1>5. entries' \in Seq(Postings) /\ Len(entries') <= MaxPostings
  BY <1>1, CalcConstants
<1> QED
  BY <1>1, <1>2, <1>3, <1>4, <1>5 DEF BooksInv

\* A calculation leaves the books alone.
LEMMA CalcKeepsBooks ==
  ASSUME BooksInv, NEW call, Computes(call)
  PROVE  BooksInv'
<1>1. UNCHANGED erpVars /\ calcs' \in 0..MaxCalcs
  BY CalcConstants DEF BooksInv, Computes
<1> QED
  BY <1>1 DEF BooksInv, Booked, Held, WholeJournal, erpVars

\* So every step keeps both.
LEMMA FiguresStep ==
  ASSUME FigureInv, CalcNext
  PROVE  FigureInv'
<1>1. CASE ApplyRate
  BY <1>1, AppliedRateIsRight DEF FigureInv
<1>2. CASE Translate
  BY <1>2, TranslationIsRight DEF FigureInv
<1>3. CASE Allocate \/ AddUp \/ Subtract \/ Reconcile \/ VerifyTotal
  BY <1>3, OtherFiguresAreRight DEF FigureInv
<1>4. CASE Reset \/ \E call \in Postings : Write(call)
  <2>1. calc' = calc
    BY <1>4 DEF Write, Reset
  <2> QED
    BY <2>1 DEF FigureInv
<1> QED
  BY <1>1, <1>2, <1>3, <1>4 DEF CalcNext
LEMMA BooksStep ==
  ASSUME BooksInv, CalcNext
  PROVE  BooksInv'
<1>1. CASE \E call \in Postings : Write(call)
  BY <1>1, WriteKeepsBooks
<1>2. CASE Reset
  BY <1>2, ResetKeepsBooks
<1>3. CASE ApplyRate \/ Allocate \/ Translate \/ AddUp \/ Subtract \/ Reconcile \/ VerifyTotal
  <2>1. \E call : Computes(call)
    BY <1>3 DEF ApplyRate, Allocate, Translate, AddUp, Subtract, Reconcile, VerifyTotal
  <2> QED
    BY <2>1, CalcKeepsBooks
<1> QED
  BY <1>1, <1>2, <1>3 DEF CalcNext

\* The invariant of the module: the accounts and the figures.
LEMMA FiguresInvariance == CalcSpec => [](BooksInv /\ FigureInv)
<1>1. (BooksInv /\ FigureInv) /\ [CalcNext]_calcVars => (BooksInv /\ FigureInv)'
  <2> SUFFICES ASSUME BooksInv, FigureInv, [CalcNext]_calcVars
               PROVE  BooksInv' /\ FigureInv'
    OBVIOUS
  <2>1. CASE CalcNext
    BY <2>1, FiguresStep, BooksStep
  <2>2. CASE UNCHANGED calcVars
    <3>1. BooksInv'
      BY <2>2 DEF BooksInv, Booked, Held, WholeJournal, calcVars, erpVars
    <3>2. FigureInv'
      BY <2>2 DEF FigureInv, calcVars
    <3> QED
      BY <3>1, <3>2
  <2> QED
    BY <2>1, <2>2
<1> QED
  BY <1>1, BooksInit, PTL DEF CalcSpec

\* The ERP's accounts hold numbers, and the journal and the counts of resets
\* and calculations stay within their bounds.
THEOREM CalculationIsTyped == CalcSpec => []CalcTypeOK
<1>1. BooksInv => CalcTypeOK
  BY DEF BooksInv, CalcTypeOK
<1> QED
  BY <1>1, FiguresInvariance, PTL

\* Whatever is multiplied, by whichever rate and rounding: the figure is the
\* exact product to within less than a unit, within half a unit where the
\* rounding promises it, on the side the rounding names, and a safe integer.
THEOREM RatesStayExact == CalcSpec => []RatesAreApplied
<1>1. FigureInv => RatesAreApplied
  BY DEF FigureInv, FigureRight, RateRight, RatesAreApplied
<1> QED
  BY <1>1, FiguresInvariance, PTL

\* Every figure the tools return is exact and a safe integer, and what cannot
\* be is refused, for the causes named and no other: rates to within their
\* rounding, shares to the last unit, sums, differences and verdicts on totals
\* exactly, reconciliations with nothing lost.  The ERP's accounts, which
\* nothing guards, hold what was posted since the last reset on top of what
\* they held then, unless they hold something inexact; for all amounts, rates,
\* lists and sequences of postings.
THEOREM FiguresStayExact == CalcSpec => []FiguresAreExact
<1>1. BooksInv => \A a \in Accounts : LedgerHolds(a)
  BY DEF BooksInv, Booked, Held, WholeJournal, WholeCall, LedgerHolds
<1>2. FigureInv => /\ RatesAreApplied
                   /\ calc.tool = "shares" => SharesAddUp(calc)
                   /\ calc.tool = "sum" => SumIsExact(calc)
                   /\ calc.tool = "subtract" => DifferenceIsExact(calc)
                   /\ calc.tool = "verify" => VerdictIsRight(calc)
                   /\ calc.tool = "reconcile" => ReconciliationIsComplete(calc)
  BY DEF FigureInv, FigureRight, RateRight, RatesAreApplied
<1>3. BooksInv /\ FigureInv => FiguresAreExact
  BY <1>1, <1>2 DEF FiguresAreExact
<1> QED
  BY <1>3, FiguresInvariance, PTL
=============================================================================
