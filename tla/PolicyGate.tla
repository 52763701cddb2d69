----------------------------- MODULE PolicyGate -----------------------------
(***************************************************************************)
(* The policy engine (packages/policy engine.ts, tables policy_rules of    *)
(* migration 0005 and policy_verdicts of 0006).  A gate looks at the       *)
(* immutable rules first, then walks the configured rules that select its  *)
(* context, highest rank first, resolving their thresholds one query at a  *)
(* time while settings change under it, from the settings snapshot of its  *)
(* graph where it names one.  The verdict is a row before it is an answer. *)
(***************************************************************************)
EXTENDS PolicyRules, Integers, Sequences, SequencesExt

CONSTANTS Gates,       \* evaluations
          Calls,       \* what they are asked: see BeginGate
          Rules,       \* table policy_rules: see Selects and Outcome
          Thresholds,  \* the settings the rules refer to
          Amounts,     \* their values
          Unset,       \* no value resolves
          NotANumber,  \* a value or a fact that is not a number
          MaxEdits     \* bound: changes of settings

ASSUME GateConstants ==
  /\ Calls # {} /\ IsFiniteSet(Rules) /\ MaxEdits \in Nat
  /\ \A r \in Rules : /\ r.rank \in Int /\ r.needs \in Seq(Thresholds)
                      /\ {r.onPass, r.onFail} \subseteq {"allow", "dual_control", "escalate", "refuse"}

VARIABLES limits,   \* settings: threshold -> what resolves today
          frozen,   \* the settings snapshot a gate may be pinned to
          edits,    \* changes so far
          gates,    \* each evaluation
          verdicts  \* table policy_verdicts

gateVars == <<limits, frozen, edits, gates, verdicts>>

Settings == [Thresholds -> Amounts \union {Unset, NotANumber}]
NoGate == [pc |-> "idle", call |-> CHOOSE c \in Calls : TRUE, queue |-> <<>>,
           read |-> <<>>, verdict |-> "none", engaged |-> 0]

GateInit ==
  /\ limits \in Settings
  /\ frozen = limits /\ edits = 0
  /\ gates = [g \in Gates |-> NoGate]
  /\ verdicts = {}

\* #selectRules: the rules in force on the date that select the context, a
\* key the request lacks selecting nothing; highest rank first, equal ranks
\* in whatever order the table gives them.
Selects(r, call) ==
  /\ r.active
  /\ r.from <= call.day /\ call.day <= r.to
  /\ r.process \in {"*", call.process}
InOrder(rules) == {q \in SetToSeqs(rules) :
                     \A i, j \in DOMAIN q : i < j => q[i].rank >= q[j].rank}
SelectedRules(call) == InOrder({r \in Rules : Selects(r, call)})

\* evaluateCondition, toNumber, compare: an amount against a threshold, or
\* its distance from one against another; false of anything that is not a
\* number, and where the condition is no condition at all.
Distance(a, b) == IF a <= b THEN b - a ELSE a - b
Passes(r, amount, values) ==
  \/ r.condition = "true"
  \/ /\ r.condition \in {"within", "near"}
     /\ NotANumber \notin {amount} \union {values[i] : i \in DOMAIN values}
     /\ IF r.condition = "within" THEN amount <= values[1]
        ELSE Distance(amount, values[1]) <= values[2]

Outcome(r, amount, values) == IF Passes(r, amount, values) THEN r.onPass ELSE r.onFail

\* evaluate: the immutable rules, before anything configured.
BeginGate(g, call) ==
  /\ gates[g].pc = "idle"
  /\ LET n == Engaged(call.subject, call.context)
     IN  IF n # 0
         THEN gates' = [gates EXCEPT ![g] = [NoGate EXCEPT
                          !.pc = "emit", !.call = call, !.verdict = "refuse", !.engaged = n]]
         ELSE \E queue \in SelectedRules(call) :
                gates' = [gates EXCEPT ![g] = [NoGate EXCEPT
                            !.pc = "rules", !.call = call, !.queue = queue]]
  /\ UNCHANGED <<limits, frozen, edits, verdicts>>

\* The setting in force now, whatever the gate is pinned to.
Bug_ReadLive(g) == limits

\* resolveFromSnapshot for a pinned gate, resolve for the others.
SettingsOf(g) == IF gates[g].call.pinned THEN frozen ELSE limits

\* #resolveThresholds: one field; an absent one refuses.
ReadThreshold(g) ==
  /\ gates[g].pc = "rules" /\ gates[g].queue # <<>>
  /\ Len(gates[g].read) < Len(Head(gates[g].queue).needs)
  /\ LET field == Head(gates[g].queue).needs[Len(gates[g].read) + 1]
         value == SettingsOf(g)[field]
     IN  gates' = [gates EXCEPT ![g] =
           IF value = Unset THEN [@ EXCEPT !.pc = "emit", !.verdict = "refuse"]
           ELSE [@ EXCEPT !.read = Append(gates[g].read, value)]]
  /\ UNCHANGED <<limits, frozen, edits, verdicts>>

\* The first rule that does not allow decides; when none is left, allow.
Judge(g) ==
  /\ gates[g].pc = "rules"
  /\ IF gates[g].queue = <<>>
     THEN gates' = [gates EXCEPT ![g].pc = "emit", ![g].verdict = "allow"]
     ELSE LET r == Head(gates[g].queue)
              outcome == Outcome(r, gates[g].call.amount, gates[g].read)
          IN  /\ Len(gates[g].read) = Len(r.needs)
              /\ gates' = [gates EXCEPT ![g] =
                   IF outcome # "allow" THEN [@ EXCEPT !.pc = "emit", !.verdict = outcome]
                   ELSE [@ EXCEPT !.queue = Tail(gates[g].queue), !.read = <<>>]]
  /\ UNCHANGED <<limits, frozen, edits, verdicts>>

\* #emit, and the answer; or the process stops, or the insert fails, and the
\* caller has neither verdict nor row.
EmitVerdict(g) ==
  /\ gates[g].pc = "emit"
  /\ verdicts' = verdicts \union {[by |-> g, verdict |-> gates[g].verdict,
                                   engaged |-> gates[g].engaged]}
  /\ gates' = [gates EXCEPT ![g].pc = "done"]
  /\ UNCHANGED <<limits, frozen, edits>>
LoseGate(g) ==
  /\ gates[g].pc \in {"rules", "emit"}
  /\ gates' = [gates EXCEPT ![g].pc = "lost"]
  /\ UNCHANGED <<limits, frozen, edits, verdicts>>

\* Somebody sets, changes or withdraws a setting.
EditLimit(field, value) ==
  /\ edits < MaxEdits
  /\ limits[field] # value
  /\ limits' = [limits EXCEPT ![field] = value]
  /\ edits' = edits + 1
  /\ UNCHANGED <<frozen, gates, verdicts>>

GateNext ==
  \/ \E g \in Gates, call \in Calls : BeginGate(g, call)
  \/ \E g \in Gates : ReadThreshold(g) \/ Judge(g) \/ EmitVerdict(g) \/ LoseGate(g)
  \/ \E field \in Thresholds, value \in Amounts \union {Unset} : EditLimit(field, value)

GateSpec == GateInit /\ [][GateNext]_gateVars

GateTypeOK ==
  /\ limits \in Settings /\ frozen \in Settings /\ edits \in 0..MaxEdits
  /\ \A g \in Gates : /\ gates[g].pc \in {"idle", "rules", "emit", "done", "lost"}
                      /\ gates[g].call \in Calls /\ gates[g].engaged \in 0..11
  /\ \A v \in verdicts : v.verdict \in {"allow", "dual_control", "escalate", "refuse"}

\* The verdict a call deserves under given settings, whatever the walk: the
\* immutable rules refuse; else the objection of a rule of the highest rank
\* that objects, an unresolved threshold being an objection; else allow.
ObjectionOf(r, call, settings) ==
  IF \E i \in DOMAIN r.needs : settings[r.needs[i]] = Unset THEN "refuse"
  ELSE Outcome(r, call.amount, [i \in DOMAIN r.needs |-> settings[r.needs[i]]])
Deserved(call, settings) ==
  LET objecting == {r \in Rules : Selects(r, call) /\ ObjectionOf(r, call, settings) # "allow"}
      highest == {r \in objecting : \A s \in objecting : s.rank <= r.rank}
  IN  IF Engaged(call.subject, call.context) # 0 THEN {"refuse"}
      ELSE IF objecting = {} THEN {"allow"}
      ELSE {ObjectionOf(r, call, settings) : r \in highest}

\* A setting changed after a graph was admitted does not reach the gates
\* pinned to its snapshot: their verdicts are the ones the snapshot deserves,
\* however the reads of the thresholds fell between the changes
\* (resolveFromSnapshot: "proceeding on live settings would let a mid-run
\* change alter a decision halfway").
PinnedVerdictIsTheSnapshots ==
  \A v \in verdicts :
    gates[v.by].call.pinned => v.verdict \in Deserved(gates[v.by].call, frozen)
=============================================================================
