----------------------------- MODULE PolicyRules -----------------------------
(***************************************************************************)
(* What the worker may do: the output-class register (packages/registry    *)
(* output-classes.ts), the eleven immutable rules, the autonomy and        *)
(* service-class computations (packages/policy immutable-rules.ts,         *)
(* autonomy.ts) and the authorisation decision (packages/authorisation     *)
(* handoff.ts).  Pure definitions.  A subject's requested action is the    *)
(* set of words the rules' patterns look for in it:                        *)
(*   approve   an approval verb other than the next                        *)
(*   certify   certify or sign off, which is an approval verb too          *)
(*   release, submit, markDone   the other verbs                           *)
(*   payment, filing, payroll, reconciliation   what they act on           *)
(***************************************************************************)
EXTENDS Naturals, FiniteSets

Levels == {"observe", "draft", "execute"}
AutonomyRank == [observe |-> 0, draft |-> 1, execute |-> 2]
Lower(a, b) == IF AutonomyRank[a] <= AutonomyRank[b] THEN a ELSE b

\* The register: the classes a rule names, and one of each other kind.
NoCeiling == {"payment_release", "payroll_approval", "filing_submission", "attestation"}
DraftCeiling == {"reconciliation_certification", "payment_destination_change",
                 "contribution_schedule", "external_communication", "judgmental_entry",
                 "payroll_pack"}
ExecuteCeiling == {"informational_answer", "routine_entry"}
OutputClasses == NoCeiling \union DraftCeiling \union ExecuteCeiling

\* lookupOutputClass: a class nobody registered is reserved, with no ceiling.
Ceiling(class) == IF class \in ExecuteCeiling THEN "execute"
                  ELSE IF class \in DraftCeiling THEN "draft" ELSE "none"
Reserved(class) == class \notin ExecuteCeiling \union {"payroll_pack"}

\* autonomyPermitsClass.
PermitsClass(level, ceiling) ==
  ceiling # "none" /\ AutonomyRank[level] <= AutonomyRank[ceiling]

\* IMMUTABLE_RULES: when each engages.
Asks(s, verbs, objects) ==
  verbs \intersect s.words # {} /\ objects \intersect s.words # {}

NeverAnApprover(s, c) == s.words \intersect {"approve", "certify"} # {}
NeverReleasesPayment(s, c) ==
  \/ s.class = "payment_release"
  \/ Asks(s, {"release"}, {"payment"})
  \/ s.scope = "payment:release"
NeverSubmitsFiling(s, c) ==
  \/ s.class \in {"filing_submission", "contribution_schedule"}
  \/ Asks(s, {"submit"}, {"filing"})
  \/ s.scope = "tax:submit"
NeverApprovesPayroll(s, c) ==
  \/ s.class = "payroll_approval"
  \/ Asks(s, {"approve", "certify"}, {"payroll"})
NeverCertifies(s, c) ==
  \/ s.class = "reconciliation_certification"
  \/ Asks(s, {"certify", "markDone"}, {"reconciliation"})
\* The md:write scope engages only where a field already does.
NeverRedirectsMoney(s, c) == s.class = "payment_destination_change" \/ s.redirects
NeverSendsOutside(s, c) == s.class = "external_communication" \/ s.external
NamedSupervisor(s, c) == s.autonomy # "observe" /\ ~(c.named /\ c.active)
RaiseOnRecord(s, c) == s.autonomy # "observe" /\ ~(c.raised /\ c.parallel)
StaleRateHalts(s, c) == c.stale
NamedAccountability(s, c) == s.class # "none" /\ ~c.accountable

\* evaluateImmutableRules: the lowest number that engages, 0 for none.
Engages(s, c) ==
  <<NeverAnApprover(s, c), NeverReleasesPayment(s, c), NeverSubmitsFiling(s, c),
    NeverApprovesPayroll(s, c), NeverCertifies(s, c), NeverRedirectsMoney(s, c),
    NeverSendsOutside(s, c), NamedSupervisor(s, c), RaiseOnRecord(s, c),
    StaleRateHalts(s, c), NamedAccountability(s, c)>>
Engaged(s, c) ==
  LET numbers == {n \in 1..11 : Engages(s, c)[n]}
  IN  IF numbers = {} THEN 0 ELSE CHOOSE n \in numbers : \A m \in numbers : n <= m

\* computeAutonomy: what the ceilings and the grant allow, "observe" without
\* any of the records rules 8, 9 and 11 ask for, one level down on a breach
\* of the accuracy floor, and no higher than a pending revalidation lets it.
OneLevelDown(level) == IF level = "execute" THEN "draft" ELSE "observe"
ComputeAutonomy(i) ==
  LET granted == IF i.grant = "none" THEN "observe" ELSE i.grant
      capped  == Lower(Lower(i.platform, i.skill), granted)
      backed  == IF i.named /\ i.active /\ i.raised /\ i.parallel /\ i.accountable
                 THEN capped ELSE "observe"
      pulled  == IF i.breached THEN OneLevelDown(backed) ELSE backed
  IN  IF i.pending = "none" THEN pulled ELSE Lower(pulled, i.pending)

\* classifyService: the class of service, and whether it was degraded to it.
ClassifyService(i) ==
  CASE i.effect = "none" -> [class |-> "ANSWER", degraded |-> FALSE]
    [] i.effect = "proposed" -> [class |-> "PREPARE", degraded |-> i.autonomy = "observe"]
    [] OTHER ->
         LET all == i.autonomy = "execute" /\ i.withinLimits /\ i.undoable /\ ~i.reserved
         IN  [class |-> IF all THEN "EXECUTE" ELSE "PREPARE", degraded |-> ~all]

\* authorise.
MayIssue(class, autonomy, engaged, gatesPassed) ==
  /\ engaged = 0 /\ gatesPassed
  /\ ~Reserved(class)
  /\ autonomy = "execute" /\ Ceiling(class) = "execute"
=============================================================================
