------------------------------ MODULE Planning ------------------------------
(***************************************************************************)
(* The context resolver (packages/context resolver.ts, contracts           *)
(* builders.ts, table contexts), the planner (packages/planner planner.ts, *)
(* tables task_graphs and task_nodes) and the part of the skill registry   *)
(* it asks (packages/registry skills.ts, table skill_revalidations).       *)
(* A compile is a walk of queries, each a transaction of its own, while    *)
(* the organisation's settings change and revalidations are raised.  What  *)
(* the configuration service resolves is the variable org: here every date *)
(* it needs is given.                                                      *)
(***************************************************************************)
EXTENDS PolicyRules, Sequences

CONSTANTS Plans,         \* requests being resolved and compiled
          PlanRequests,  \* what they ask: see BeginPlan
          Skills,        \* table skill_registry, one record per version
          Entities,      \* that may be registered
          OrgStates,     \* the settings the tenant may be in: see PlanInit
          NoValue,       \* a setting without a value, a hint not given
          ForceDryRun,   \* the environment forces every write dry
          MaxOrgEdits,   \* bound: changes of settings
          MaxRaised      \* bound: revalidations raised

\* The levels are those of the register; an entity in scope is a registered one.
ASSUME PlanConstants ==
  /\ MaxOrgEdits \in Nat /\ MaxRaised \in Nat /\ Skills # {}
  /\ \A s \in Skills : s.max \in Levels /\ s.tools \in Seq({s.tools[i] : i \in DOMAIN s.tools})
  /\ \A o \in OrgStates : o.register \subseteq Entities /\ o.grant \in Levels \union {"none"}

VARIABLES org,            \* what the settings resolve to now
          orgEdits,       \* changes so far
          revalidations,  \* table skill_revalidations
          plans,          \* each compile
          contexts,       \* table contexts
          graphs          \* tables task_graphs and task_nodes

planVars == <<org, orgEdits, revalidations, plans, contexts, graphs>>

ContextAxes == <<"jurisdiction", "framework", "currency">>
NoPlan == [pc |-> "idle", request |-> CHOOSE r \in PlanRequests : TRUE,
           entity |-> NoValue, pinned |-> FALSE, skill |-> CHOOSE s \in Skills : TRUE,
           read |-> <<>>, level |-> "observe", before |-> {}]

PlanInit ==
  /\ org \in OrgStates /\ orgEdits = 0
  /\ revalidations = {}
  /\ plans = [p \in Plans |-> NoPlan]
  /\ contexts = {} /\ graphs = {}

PlanAt(p, pc) == plans[p].pc = pc
PlanStep(p, record) == plans' = [plans EXCEPT ![p] = record]
TenantUnchanged == UNCHANGED <<org, orgEdits, revalidations>>

\* #persist of a context, resolved or refused: the row, then the answer.
PersistContext(p, status) ==
  contexts' = contexts \union {[by |-> p, status |-> status, pinned |-> plans[p].pinned]}
RefuseContext(p) ==
  /\ PersistContext(p, "refused")
  /\ PlanStep(p, [plans[p] EXCEPT !.pc = "refused"])
  /\ UNCHANGED graphs

\* resolve: a tenant of another zone is refused before anything is read.
BeginPlan(p, request) ==
  /\ PlanAt(p, "idle")
  /\ TenantUnchanged
  /\ IF request.zone
     THEN /\ PlanStep(p, [NoPlan EXCEPT !.pc = "entity", !.request = request])
          /\ UNCHANGED <<contexts, graphs>>
     ELSE RefuseContext(p)

\* #resolveEntity: the one named, or the only one in the principal's scope.
ResolveEntity(p) ==
  /\ PlanAt(p, "entity")
  /\ LET r == plans[p].request
         inScope == IF r.scope = {} THEN org.register ELSE org.register \intersect r.scope
         found == IF r.entity # NoValue THEN org.register \intersect {r.entity}
                  ELSE IF Cardinality(inScope) = 1 THEN inScope ELSE {}
     IN  IF found = {} THEN RefuseContext(p)
         ELSE \E e \in found :
                /\ PlanStep(p, [plans[p] EXCEPT !.pc = "axes", !.entity = e])
                /\ UNCHANGED <<contexts, graphs>>
  /\ TenantUnchanged

\* One axis after the other: a hint that contradicts the setting refuses.
ResolveAxis(p) ==
  /\ PlanAt(p, "axes")
  /\ LET axis  == ContextAxes[Len(plans[p].read) + 1]
         value == org.axes[axis]
         hint  == plans[p].request.hints[axis]
         read  == Append(plans[p].read, value)
     IN  IF value = NoValue \/ hint \notin {NoValue, value} THEN RefuseContext(p)
         ELSE /\ PlanStep(p, IF Len(read) < Len(ContextAxes) THEN [plans[p] EXCEPT !.read = read]
                         ELSE [plans[p] EXCEPT !.pc = "date", !.read = <<>>])
              /\ UNCHANGED <<contexts, graphs>>
  /\ TenantUnchanged

\* #resolveAsOfDate, #evaluateAsOfRule: a date, else a period, else a rule of
\* the closed set; never today because nothing was said.
StatesADate(request) == request.date \in {"date", "period", "rule"}

\* #selectPack and #pinModules for that date: which pack is published, and
\* which of its modules are in force, is the corpus's affair.
PinPack(p) ==
  /\ PlanAt(p, "date")
  /\ \E published, pinned \in BOOLEAN :
       IF ~StatesADate(plans[p].request) \/ ~published THEN RefuseContext(p)
       ELSE /\ contexts' = contexts \union {[by |-> p, status |-> "resolved", pinned |-> pinned]}
            /\ PlanStep(p, [plans[p] EXCEPT !.pc = "skill", !.pinned = pinned])
            /\ UNCHANGED graphs
  /\ TenantUnchanged

\* lookupInvocable: the greatest version in text order of those that may run.
Invocable(skill) ==
  {s \in Skills : /\ s.id = skill /\ s.status \in {"active", "restricted"}
                  /\ \A t \in Skills : (t.id = skill /\ t.status \in {"active", "restricted"})
                                          => t.order <= s.order}
LookupSkill(p) ==
  /\ PlanAt(p, "skill")
  /\ LET found == Invocable(plans[p].request.skill)
     IN  \/ /\ found = {}
            /\ PlanStep(p, [plans[p] EXCEPT !.pc = "refused"])
         \/ \E s \in found :
              PlanStep(p, [plans[p] EXCEPT
                         !.pc = "settings", !.skill = s,
                         !.before = {r \in revalidations : r.skill = s.id}])
  /\ TenantUnchanged /\ UNCHANGED <<contexts, graphs>>

\* pendingRevalidation: a revalidation stays pending, nothing resolves one.
Bug_LatestRaised(skill, raised) ==
  LET mine == {r \in raised : r.skill = skill}
  IN  IF mine = {} THEN "none" ELSE (CHOOSE r \in mine : \A s \in mine : s.n <= r.n).interim
Pending(skill, raised) ==
  LET interims == {r.interim : r \in {q \in raised : q.skill = skill}}
  IN  IF interims = {} THEN "none" ELSE IF "observe" \in interims THEN "observe" ELSE "draft"

\* #resolveAutonomy: grant, supervisor, raise, accountable human, then the
\* revalidations of the skill.
AutonomySettings == <<"grant", "supervisor", "raise", "accountable">>
Level(skill, read, pending) ==
  ComputeAutonomy(
    [grant |-> read[1], platform |-> IF Ceiling(skill.class) = "none" THEN "observe"
                                     ELSE Ceiling(skill.class),
     skill |-> skill.max, named |-> read[2] = "usr", active |-> read[2] # "none",
     raised |-> read[3], parallel |-> read[3], accountable |-> read[4],
     breached |-> FALSE, pending |-> pending])
ReadSetting(p) ==
  /\ PlanAt(p, "settings") /\ Len(plans[p].read) < Len(AutonomySettings)
  /\ PlanStep(p, [plans[p] EXCEPT !.read = Append(@, org[AutonomySettings[Len(@) + 1]])])
  /\ TenantUnchanged /\ UNCHANGED <<contexts, graphs>>
ReadPending(p) ==
  /\ PlanAt(p, "settings") /\ Len(plans[p].read) = Len(AutonomySettings)
  /\ LET pending == Pending(plans[p].skill.id, revalidations)
     IN  PlanStep(p, [plans[p] EXCEPT !.pc = "admission", !.read = <<>>,
                                  !.level = Level(plans[p].skill, plans[p].read, pending)])
  /\ TenantUnchanged /\ UNCHANGED <<contexts, graphs>>

\* #buildNodes: each node depends on the one before it.
Node(kind, rank) == [kind |-> kind, rank |-> rank, writes |-> FALSE,
                     irreversible |-> FALSE, live |-> FALSE]
WriteNode(tool, level) ==
  [kind |-> "tool_call", rank |-> IF tool.irreversible THEN 900 ELSE 60, writes |-> TRUE,
   irreversible |-> tool.irreversible, live |-> ~ForceDryRun /\ level = "execute"]
WhenSo(condition, nodes) == IF condition THEN nodes ELSE <<>>
\* Array.filter: the tools at these places, in the order they are in.
ToolsAt(tools, places) ==
  [k \in 1..Cardinality(places) |->
     tools[CHOOSE i \in places : Cardinality({j \in places : j <= i}) = k]]
BuildNodes(skill, level) ==
  LET mode   == IF level = "execute" THEN "execute" ELSE "draft"
      places == DOMAIN skill.tools
      reads  == ToolsAt(skill.tools, {i \in places : ~skill.tools[i].writes})
      writes == ToolsAt(skill.tools, {i \in places : /\ skill.tools[i].writes
                                                     /\ mode \in skill.tools[i].modes})
  IN  WhenSo(skill.knowledge, <<Node("grounding", 10)>>)
      \o [i \in DOMAIN reads |-> Node("tool_call", 50)]
      \o <<Node("skill", 30)>>
      \o WhenSo(writes # <<>>, <<Node("gate", 40)>>)
      \o [i \in DOMAIN writes |-> WriteNode(writes[i], level)]
      \o <<Node("assurance", 70), Node("authorisation", 80)>>
      \o WhenSo(level # "execute" \/ Reserved(skill.class), <<Node("handoff", 85)>>)
      \o <<Node("delivery", 90)>>
IrreversibleLast(nodes) ==
  \A i, j \in DOMAIN nodes :
    nodes[i].irreversible /\ nodes[j].writes /\ ~nodes[j].irreversible
      => nodes[i].rank > nodes[j].rank

\* The admission checks that can fail: the class's ceiling; the accountable
\* human, resolved once more; the reserved act; the pin; the budget; the
\* order of the writes.  The first that fails refuses.
CheckedAgain == <<"accountable", "budget">>
FailsAdmission(p) ==
  LET s == plans[p].skill
      read == plans[p].read
  IN  \/ Ceiling(s.class) = "none"
      \/ read # <<>> /\ \/ ~read[1]
                        \/ Reserved(s.class) /\ plans[p].level = "execute"
                        \/ s.knowledge /\ ~plans[p].pinned
      \/ Len(read) = 2 /\ (~read[2] \/ ~IrreversibleLast(BuildNodes(s, plans[p].level)))
CheckAgain(p) ==
  /\ PlanAt(p, "admission") /\ ~FailsAdmission(p) /\ Len(plans[p].read) < 2
  /\ PlanStep(p, [plans[p] EXCEPT !.read = Append(@, org[CheckedAgain[Len(@) + 1]])])
  /\ TenantUnchanged /\ UNCHANGED <<contexts, graphs>>

\* #persist of a graph: one transaction writes it and its nodes; a refused
\* one has none.
PersistGraph(p, state, nodes) ==
  /\ graphs' = graphs \union
       {[by |-> p, state |-> state, level |-> plans[p].level, nodes |-> nodes]}
  /\ PlanStep(p, [plans[p] EXCEPT !.pc = state])
  /\ TenantUnchanged /\ UNCHANGED contexts
RefuseGraph(p) ==
  /\ PlanAt(p, "admission") /\ FailsAdmission(p)
  /\ PersistGraph(p, "refused", <<>>)
AdmitGraph(p) ==
  /\ PlanAt(p, "admission") /\ ~FailsAdmission(p) /\ Len(plans[p].read) = 2
  /\ PersistGraph(p, "admitted", BuildNodes(plans[p].skill, plans[p].level))

\* The process stops in the middle of a compile.
StopPlan(p) ==
  /\ plans[p].pc \notin {"idle", "refused", "admitted", "stopped"}
  /\ PlanStep(p, [plans[p] EXCEPT !.pc = "stopped"])
  /\ TenantUnchanged /\ UNCHANGED <<contexts, graphs>>

\* Somebody changes a setting; a watch raises a revalidation.
EditOrg(next) ==
  /\ orgEdits < MaxOrgEdits /\ next # org
  /\ org' = next /\ orgEdits' = orgEdits + 1
  /\ UNCHANGED <<revalidations, plans, contexts, graphs>>
RaiseRevalidation(skill, interim) ==
  /\ Cardinality(revalidations) < MaxRaised
  /\ revalidations' = revalidations \union
       {[n |-> Cardinality(revalidations), skill |-> skill, interim |-> interim]}
  /\ UNCHANGED <<org, orgEdits, plans, contexts, graphs>>

PlanNext ==
  \/ \E p \in Plans, request \in PlanRequests : BeginPlan(p, request)
  \/ \E p \in Plans : \/ ResolveEntity(p) \/ ResolveAxis(p) \/ PinPack(p) \/ LookupSkill(p)
                      \/ ReadSetting(p) \/ ReadPending(p)
                      \/ CheckAgain(p) \/ RefuseGraph(p) \/ AdmitGraph(p) \/ StopPlan(p)
  \/ \E next \in OrgStates : EditOrg(next)
  \/ \E s \in Skills, interim \in {"observe", "draft"} : RaiseRevalidation(s.id, interim)

PlanSpec == PlanInit /\ [][PlanNext]_planVars

PlanTypeOK ==
  /\ org \in OrgStates /\ orgEdits \in 0..MaxOrgEdits
  /\ Cardinality(revalidations) <= MaxRaised
  /\ \A p \in Plans : /\ plans[p].entity \in Entities \union {NoValue}
                      /\ plans[p].level \in Levels /\ plans[p].skill \in Skills
  /\ \A g \in graphs : g.state \in {"admitted", "refused"} /\ g.level \in Levels
  /\ \A c \in contexts : c.status \in {"resolved", "refused"}

\* A graph is admitted on a resolved context only, and no higher than its
\* class, its skill and every revalidation raised before its compile looked
\* the skill up allow, whatever changed while it was compiled; what it
\* writes for real it writes at "execute", and otherwise a human decides
\* (skills.ts: "while pending, the skill runs at its interim ceiling rather
\* than its granted level").
AutonomyIsBacked ==
  \A g \in graphs : g.state = "admitted" =>
    LET s == plans[g.by].skill
    IN  /\ \E c \in contexts : /\ c.by = g.by /\ c.status = "resolved"
                               /\ s.knowledge => c.pinned
        /\ PermitsClass(g.level, Ceiling(s.class))
        /\ AutonomyRank[g.level] <= AutonomyRank[s.max]
        /\ \A r \in plans[g.by].before : AutonomyRank[g.level] <= AutonomyRank[r.interim]
        /\ \/ \E i \in DOMAIN g.nodes : g.nodes[i].kind = "handoff"
           \/ g.level = "execute" /\ ~Reserved(s.class)
        /\ \A i \in DOMAIN g.nodes : g.nodes[i].live => g.level = "execute"
=============================================================================
