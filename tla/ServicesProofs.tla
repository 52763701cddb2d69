--------------------------- MODULE ServicesProofs ---------------------------
(***************************************************************************)
(* The tenant services together: a behaviour of all of them is one of each *)
(* (they share no table), so what AccessProofs, ExchangeProofs and         *)
(* StoresProofs prove of each holds beside the others, and of the          *)
(* specification the run tenant_services checks.                           *)
(***************************************************************************)
EXTENDS AccessProofs, ExchangeProofs, StoresProofs, MCTenantServices

allVars == <<service, configVars, cardVars, signInVars, intakeVars, deliveryVars, gateVars, planVars,
             corpusVars, runVars, graphVars, calcVars, migrationVars, gateRunVars>>

\* Each service starts as it does alone.
LEMMA EachStarts ==
  Init => ConfigInit /\ CardInit /\ SignInInit /\ IntakeInit /\ DeliveryInit /\ GateInit /\ PlanInit
            /\ CorpusInit /\ RunInit /\ GraphInit /\ CalcInit /\ MigrationInit /\ ReleaseInit
BY DEF Init

\* A step of the whole is a step of the service that takes it, and leaves
\* every other as it is.
LEMMA EachSteps ==
  [Next]_allVars =>
    /\ [ConfigNext]_configVars
    /\ [CardNext]_cardVars
    /\ [SignInNext]_signInVars
    /\ [IntakeNext]_intakeVars
    /\ [DeliveryNext]_deliveryVars
    /\ [GateNext]_gateVars
    /\ [PlanNext]_planVars
    /\ [CorpusNext]_corpusVars
    /\ [RunNext]_runVars
    /\ [GraphNext]_graphVars
    /\ [CalcNext]_calcVars
    /\ [MigrationNext]_migrationVars
    /\ [ReleaseNext]_gateRunVars
<1> SUFFICES ASSUME [Next]_allVars
             PROVE  /\ [ConfigNext]_configVars
                    /\ [CardNext]_cardVars
                    /\ [SignInNext]_signInVars
                    /\ [IntakeNext]_intakeVars
                    /\ [DeliveryNext]_deliveryVars
                    /\ [GateNext]_gateVars
                    /\ [PlanNext]_planVars
                    /\ [CorpusNext]_corpusVars
                    /\ [RunNext]_runVars
                    /\ [GraphNext]_graphVars
                    /\ [CalcNext]_calcVars
                    /\ [MigrationNext]_migrationVars
                    /\ [ReleaseNext]_gateRunVars
  OBVIOUS
<1>1. CASE UNCHANGED allVars
  BY <1>1 DEF allVars
<1>2. CASE Next
  <2>1. [ConfigNext]_configVars
    BY <1>2 DEF Next
  <2>2. [CardNext]_cardVars
    BY <1>2 DEF Next
  <2>3. [SignInNext]_signInVars
    BY <1>2 DEF Next
  <2>4. [IntakeNext]_intakeVars
    BY <1>2 DEF Next
  <2>5. [DeliveryNext]_deliveryVars
    BY <1>2 DEF Next
  <2>6. [GateNext]_gateVars
    BY <1>2 DEF Next
  <2>7. [PlanNext]_planVars
    BY <1>2 DEF Next
  <2>8. [CorpusNext]_corpusVars
    BY <1>2 DEF Next
  <2>9. [RunNext]_runVars
    BY <1>2 DEF Next
  <2>10. [GraphNext]_graphVars
    BY <1>2 DEF Next
  <2>11. [CalcNext]_calcVars
    BY <1>2 DEF Next
  <2>12. [MigrationNext]_migrationVars
    BY <1>2 DEF Next
  <2>13. [ReleaseNext]_gateRunVars
    BY <1>2 DEF Next
  <2> QED
    BY <2>1, <2>2, <2>3, <2>4, <2>5, <2>6, <2>7, <2>8, <2>9, <2>10, <2>11, <2>12, <2>13
<1> QED
  BY <1>1, <1>2

\* So the whole refines the specification of each service.
THEOREM EachServiceIsItself ==
  Spec => /\ ConfigSpec
          /\ CardSpec
          /\ SignInSpec
          /\ IntakeSpec
          /\ DeliverySpec
          /\ GateSpec
          /\ PlanSpec
          /\ CorpusSpec
          /\ RunSpec
          /\ GraphSpec
          /\ CalcSpec
          /\ MigrationSpec
          /\ ReleaseSpec
<1>1. Spec => ConfigSpec
  BY EachStarts, EachSteps, PTL DEF Spec, ConfigSpec, allVars
<1>2. Spec => CardSpec
  BY EachStarts, EachSteps, PTL DEF Spec, CardSpec, allVars
<1>3. Spec => SignInSpec
  BY EachStarts, EachSteps, PTL DEF Spec, SignInSpec, allVars
<1>4. Spec => IntakeSpec
  BY EachStarts, EachSteps, PTL DEF Spec, IntakeSpec, allVars
<1>5. Spec => DeliverySpec
  BY EachStarts, EachSteps, PTL DEF Spec, DeliverySpec, allVars
<1>6. Spec => GateSpec
  BY EachStarts, EachSteps, PTL DEF Spec, GateSpec, allVars
<1>7. Spec => PlanSpec
  BY EachStarts, EachSteps, PTL DEF Spec, PlanSpec, allVars
<1>8. Spec => CorpusSpec
  BY EachStarts, EachSteps, PTL DEF Spec, CorpusSpec, allVars
<1>9. Spec => RunSpec
  BY EachStarts, EachSteps, PTL DEF Spec, RunSpec, allVars
<1>10. Spec => GraphSpec
  BY EachStarts, EachSteps, PTL DEF Spec, GraphSpec, allVars
<1>11. Spec => CalcSpec
  BY EachStarts, EachSteps, PTL DEF Spec, CalcSpec, allVars
<1>12. Spec => MigrationSpec
  BY EachStarts, EachSteps, PTL DEF Spec, MigrationSpec, allVars
<1>13. Spec => ReleaseSpec
  BY EachStarts, EachSteps, PTL DEF Spec, ReleaseSpec, allVars
<1> QED
  BY <1>1, <1>2, <1>3, <1>4, <1>5, <1>6, <1>7, <1>8, <1>9, <1>10, <1>11, <1>12, <1>13

\* Every service keeps its types beside the others.
THEOREM ServicesAreTyped == Spec => []TypeOK
BY EachServiceIsItself,
   ConfigurationIsTyped, CardsAreTyped, SignInIsTyped, IntakeIsTyped, DeliveryIsTyped,
   GatesAreTyped, PlansAreTyped, CorpusIsTyped, SkillRunIsTyped, GraphIsTyped,
   CalculationIsTyped, MigrationIsTyped, ReleaseIsTyped, PTL DEF TypeOK

\* And its safety property: all that the run asks of them.
THEOREM ServicesKeepTheirProperties ==
  Spec => [](/\ OneCurrentSnapshot
             /\ CompleteMeansResolvable
             /\ NoGapInCards
             /\ LockTakesItsFailures
             /\ SessionsComeOfSpentLinks
             /\ DuplicateNamesItsOriginal
             /\ OutputReceivedOnce
             /\ PinnedVerdictIsTheSnapshots
             /\ AutonomyIsBacked
             /\ NewestVersionIsOpen
             /\ NoAnswerShopping
             /\ DeliveredAsDecided
             /\ FiguresAreExact
             /\ SchemaIsTheFiles
             /\ NothingBrokenIsReleased)
BY EachServiceIsItself,
   OneSnapshotIsCurrent, HealthMeansResolvable, NoDateUncovered, NoLockWithoutFailures,
   NoSessionBeforeALink, OneDecisionPerMessage, NothingArrivesTwice, PinnedGatesAreFrozen,
   AutonomyStaysBacked, NewestIsOpen, NoModelIsShoppedFor, RunsDeliverWhatWasDecided,
   FiguresStayExact, SchemaFollowsTheFiles, TheGateHolds, PTL

=============================================================================
