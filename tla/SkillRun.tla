------------------------------ MODULE SkillRun ------------------------------
(***************************************************************************)
(* One invocation of a skill (packages/skills runtime.ts, table            *)
(* skill_invocations), the model gateway with its chain of providers       *)
(* (packages/llm gateway.ts) and the gates its output passes               *)
(* (packages/assurance gates.ts).  What the corpus answers and what a      *)
(* provider does are choices; an output is the claims a gate finds in it   *)
(* and the quantities it names.  The totals a gate adds up are the ones    *)
(* the caller declared with the request, before any model was asked.       *)
(***************************************************************************)
EXTENDS Integers, Sequences, FiniteSets, SequencesExt

CONSTANTS SkillCalls,   \* invocations
          Routes,       \* what buildRoute made of the settings: see CallModel
          Registered,   \* the providers of this process
          Budgets,      \* what is left of a graph's tokens and cost: see FitsBudget
          PromptTokens, \* sizes of assembled prompts
          Groundings,   \* sets of chunks the corpus may return
          Declared,     \* sets of totals a caller declares: see ArithmeticFails
          ModelOutputs, \* what a model may answer: see the gates
          Failures      \* the kinds of a ProviderError

ASSUME SkillConstants ==
  /\ Routes # {} /\ Budgets # {} /\ ModelOutputs # {}
  /\ \A r \in Routes : Len(r.chain) \in Nat

VARIABLES runs,        \* each invocation
          invocations  \* table skill_invocations

runVars == <<runs, invocations>>

NoRun == [pc |-> "idle", route |-> CHOOSE r \in Routes : TRUE, budget |-> CHOOSE b \in Budgets : TRUE,
          live |-> FALSE, totals |-> {}, grounding |-> {}, tried |-> <<>>, output |-> CHOOSE o \in ModelOutputs : TRUE,
          downgrade |-> FALSE]
RunInit == runs = [i \in SkillCalls |-> NoRun] /\ invocations = {}

RunGoes(i, record) == runs' = [runs EXCEPT ![i] = record]

\* #persist: the invocation's row, then the answer to the caller.
Conclude(i, record, status) ==
  /\ invocations' = invocations \union {[by |-> i, status |-> status]}
  /\ RunGoes(i, [record EXCEPT !.pc = status])

\* ground, for the modules of the skill: nothing to cite is a refusal.
BeginRun(i, route, budget, live, totals) ==
  /\ runs[i].pc = "idle"
  /\ \E grounding \in Groundings :
       LET run == [NoRun EXCEPT !.route = route, !.budget = budget, !.live = live,
                                !.totals = totals, !.grounding = grounding]
       IN  IF grounding = {} THEN Conclude(i, run, "refused")
           ELSE RunGoes(i, [run EXCEPT !.pc = "budget"]) /\ UNCHANGED invocations

\* The budget, before the spend: the prompt fits the route's context and the
\* graph's tokens, and the primary's worst case the graph's budget, the
\* call's ceiling and the platform's.  A fallback's price is not asked.
FitsBudget(route, budget, tokens) ==
  /\ tokens <= route.context /\ tokens <= budget.tokens
  /\ route.chain[1].price <= budget.cost
  /\ route.chain[1].price <= route.ceiling /\ route.chain[1].price <= budget.platform
CheckBudget(i) ==
  /\ runs[i].pc = "budget"
  /\ \E tokens \in PromptTokens :
       IF FitsBudget(runs[i].route, runs[i].budget, tokens)
       THEN RunGoes(i, [runs[i] EXCEPT !.pc = "chain"]) /\ UNCHANGED invocations
       ELSE Conclude(i, runs[i], "halted")

\* The chain: the next target is asked only for a failure it declares, and
\* whatever it declares not after a filter or a refusal.
Bug_AsDeclared(kind) == FALSE
EndsTheChain(kind) == kind \in {"content_filter", "answer"}
MayTry(run) ==
  LET k == Len(run.tried)
  IN  /\ k < Len(run.route.chain)
      /\ k > 0 => /\ ~EndsTheChain(run.tried[k])
                  /\ run.tried[k] \in run.route.chain[k + 1].conditions
Target(run) == run.route.chain[Len(run.tried) + 1]
Tried(run, outcome) == [run EXCEPT !.tried = Append(@, outcome)]

\* A target whose provider is not registered fails as an invalid request; a
\* model that declines is recorded as a filter.
AskModel(i) ==
  /\ runs[i].pc = "chain" /\ MayTry(runs[i])
  /\ IF Target(runs[i]).provider \notin Registered
     THEN RunGoes(i, Tried(runs[i], "invalid_request"))
     ELSE \/ \E kind \in Failures : RunGoes(i, Tried(runs[i], kind))
          \/ \E output \in ModelOutputs :
               RunGoes(i, [Tried(runs[i], "answer") EXCEPT
                             !.pc = "gates", !.output = output,
                             !.downgrade = runs[i].tried # <<>> /\ runs[i].live])
  /\ UNCHANGED invocations
\* No target is left that may be asked: the task halts and hands off.
ChainExhausted(i) ==
  /\ runs[i].pc = "chain" /\ ~MayTry(runs[i])
  /\ Conclude(i, runs[i], "failed")

\* groundingGate: each substantive claim cites, and cites chunks retrieved
\* for this answer and in force; a refusal need not, and an output with one
\* line that opens as a refusal is taken for one.
GroundingFails(output, grounding) ==
  /\ ~output.refusalLine
  /\ \E claim \in output.claims :
       \/ claim.cites = {}
       \/ \E c \in claim.cites : c \notin grounding \/ ~c.covers
\* arithmeticGate: a declared total is a whole number of minor units and the
\* sum of its components, whatever the model wrote.
ArithmeticFails(totals) ==
  \E t \in totals : ~t.whole \/ FoldLeft(+, 0, t.components) # t.stated
\* consistencyGate: one value for one name; no dates are handed to it.
ConsistencyFails(quantities) ==
  \E q, r \in quantities : q.name = r.name /\ q.value # r.value
PassesGates(output, grounding, totals) ==
  /\ ~GroundingFails(output, grounding)
  /\ ~ArithmeticFails(totals) /\ ~ConsistencyFails(output.quantities)
JudgeOutput(i) ==
  /\ runs[i].pc = "gates"
  /\ Conclude(i, runs[i], IF PassesGates(runs[i].output, runs[i].grounding, runs[i].totals)
                          THEN "succeeded" ELSE "halted")

\* The process stops: the caller has no answer and the table no row.
StopRun(i) ==
  /\ runs[i].pc \in {"budget", "chain", "gates"}
  /\ RunGoes(i, [runs[i] EXCEPT !.pc = "stopped"])
  /\ UNCHANGED invocations

RunNext ==
  \E i \in SkillCalls :
    \/ \E route \in Routes, budget \in Budgets, live \in BOOLEAN, totals \in Declared :
         BeginRun(i, route, budget, live, totals)
    \/ CheckBudget(i) \/ AskModel(i) \/ ChainExhausted(i) \/ JudgeOutput(i) \/ StopRun(i)

RunSpec == RunInit /\ [][RunNext]_runVars

RunTypeOK ==
  /\ \A i \in SkillCalls : /\ runs[i].route \in Routes /\ runs[i].output \in ModelOutputs
                           /\ Len(runs[i].tried) <= Len(runs[i].route.chain)
  /\ \A v \in invocations : v.status \in {"refused", "halted", "failed", "succeeded"}

\* No other model is asked for what one declined: whatever a route declares,
\* nothing follows a filter, a refusal or an answer, each fallback follows a
\* failure it names, and an answer that a fallback gave on a live node asks
\* for the downgrade (gateway.ts: "Trying another model to get a different
\* answer is exactly what this forbids").
NoAnswerShopping ==
  \A i \in SkillCalls :
    LET tried == runs[i].tried
    IN  /\ \A k \in 2..Len(tried) :
             /\ tried[k - 1] \notin {"content_filter", "answer"}
             /\ tried[k - 1] \in runs[i].route.chain[k].conditions
        /\ runs[i].pc = "succeeded" =>
             /\ tried # <<>> /\ Last(tried) = "answer"
             /\ Len(tried) > 1 /\ runs[i].live => runs[i].downgrade
=============================================================================
