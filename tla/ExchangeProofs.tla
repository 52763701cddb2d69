--------------------------- MODULE ExchangeProofs ---------------------------
(***************************************************************************)
(* The way of a request through the worker, proved for every value of the  *)
(* constants: the intake of webhooks (Intake), the invocation of a skill   *)
(* (SkillRun), the task-graph workflow (TaskGraph) and the delivery        *)
(* service (Delivery).                                                     *)
(***************************************************************************)
EXTENDS Intake, SkillRun, TaskGraph, Delivery, SequenceTheorems, TLAPS

-----------------------------------------------------------------------------
(* Intake.                                                                 *)

MessageKeys == {DedupeKey(m) : m \in Messages}
Claim == [key : MessageKeys, by : Webhooks]
Decisions == {"signature_invalid", "replay_window_exceeded", "loop_detected",
              "payload_too_large", "authentication_failed", "sender_unknown", "admitted"}
Hook == [pc : {"start", "claim", "emit", "reply", "replied", "lost"}, m : Messages,
         answer : {"none", "duplicate", "classified"} \union Decisions, original : Nat]

\* What a handler's state says of the claims.
HookInv(w) ==
  /\ hooks[w].pc \in {"start", "claim"} => hooks[w].answer = "none" /\ hooks[w].original = 0
  /\ hooks[w].answer \in Decisions =>
       \E i \in 1..Len(claims) : claims[i].by = w /\ claims[i].key = DedupeKey(hooks[w].m)
  /\ hooks[w].original # 0 =>
       /\ hooks[w].original \in 1..Len(claims) /\ hooks[w].answer = "duplicate"
       /\ claims[hooks[w].original].key = DedupeKey(hooks[w].m)

\* A key is claimed once, by the handler that decided its message.
IntakeInv ==
  /\ claims \in Seq(Claim)
  /\ hooks \in [Webhooks -> Hook]
  /\ settled \subseteq Messages
  /\ \A i, j \in 1..Len(claims) : claims[i].key = claims[j].key => i = j
  /\ \A i \in 1..Len(claims) :
       /\ hooks[claims[i].by].answer \in Decisions
       /\ claims[i].key = DedupeKey(hooks[claims[i].by].m)
  /\ \A w \in Webhooks : HookInv(w)

LEMMA IntakeInitially == IntakeInit => IntakeInv
<1> SUFFICES ASSUME IntakeInit
             PROVE  IntakeInv
  OBVIOUS
<1>1. NoMessage \in Hook
  BY IntakeConstants DEF NoMessage, Hook
<1>2. claims = <<>> /\ Len(claims) = 0 /\ claims \in Seq(Claim)
  BY DEF IntakeInit
<1>3. hooks \in [Webhooks -> Hook] /\ settled = {}
  BY <1>1 DEF IntakeInit
<1>4. \A w \in Webhooks :
        hooks[w].answer = "none" /\ hooks[w].original = 0 /\ hooks[w].answer \notin Decisions
  BY DEF IntakeInit, NoMessage, Decisions
<1>5. \A w \in Webhooks : HookInv(w)
  BY <1>4 DEF HookInv
<1> QED
  BY <1>2, <1>3, <1>5 DEF IntakeInv

LEMMA ClaimedByAHandler ==
  ASSUME IntakeInv, NEW i \in 1..Len(claims)
  PROVE  /\ claims[i].by \in Webhooks /\ hooks[claims[i].by].answer \in Decisions
         /\ claims[i].key = DedupeKey(hooks[claims[i].by].m)
<1>1. claims[i] \in Claim
  BY DEF IntakeInv
<1>2. claims[i].by \in Webhooks
  BY <1>1 DEF Claim
<1> QED
  BY <1>2 DEF IntakeInv

LEMMA AdmissionDecides ==
  ASSUME NEW verified, NEW m
  PROVE  Admission(verified, m) \in Decisions
BY DEF Admission, Decisions

\* A handler moves and claims nothing: what it is answered does not change,
\* or it takes a message and has no answer yet.
LEMMA HookMoves ==
  ASSUME IntakeInv, NEW w \in Webhooks, NEW h \in Hook, hooks' = [hooks EXCEPT ![w] = h],
         claims' = claims, settled' \subseteq Messages,
         \/ h.m = hooks[w].m /\ h.answer = hooks[w].answer /\ h.original = hooks[w].original
            /\ h.pc \notin {"start", "claim"}
         \/ hooks[w].answer \notin Decisions /\ h.answer \notin Decisions /\ h.original = 0
            /\ (h.pc \in {"start", "claim"} => h.answer = "none")
  PROVE  IntakeInv'
<1>1. hooks' \in [Webhooks -> Hook] /\ hooks'[w] = h
      /\ \A v \in Webhooks \ {w} : hooks'[v] = hooks[v]
  BY DEF IntakeInv
<1>2. \A v \in Webhooks : HookInv(v)'
  BY <1>1 DEF IntakeInv, HookInv
<1>3. ASSUME NEW i \in 1..Len(claims)
      PROVE  hooks'[claims[i].by].answer \in Decisions
             /\ claims[i].key = DedupeKey(hooks'[claims[i].by].m)
  <2>1. claims[i].by \in Webhooks /\ hooks[claims[i].by].answer \in Decisions
        /\ claims[i].key = DedupeKey(hooks[claims[i].by].m)
    BY ClaimedByAHandler
  <2> QED
    BY <1>1, <2>1
<1> QED
  BY <1>1, <1>2, <1>3 DEF IntakeInv

LEMMA IntakePreserved == IntakeInv /\ [IntakeNext]_intakeVars => IntakeInv'
<1> SUFFICES ASSUME IntakeInv, [IntakeNext]_intakeVars
             PROVE  IntakeInv'
  OBVIOUS
<1>1. ASSUME NEW w \in Webhooks, NEW m \in Messages, Deliver(w, m)
      PROVE  IntakeInv'
  <2> DEFINE h == [NoMessage EXCEPT !.pc = "claim", !.m = m]
  <2>1. h \in Hook /\ h.answer = "none" /\ h.original = 0 /\ hooks[w].answer = "none"
    BY <1>1, IntakeConstants DEF Deliver, NoMessage, Hook, IntakeInv, HookInv
  <2>2. hooks' = [hooks EXCEPT ![w] = h] /\ claims' = claims /\ settled' \subseteq Messages
    BY <1>1 DEF Deliver, IntakeInv
  <2> HIDE DEF h
  <2> QED
    BY <2>1, <2>2, HookMoves DEF Decisions
<1>2. ASSUME NEW w \in Webhooks, CheckDuplicate(w)
      PROVE  IntakeInv'
  <2> DEFINE key == DedupeKey(hooks[w].m)
  <2>1. hooks[w] \in Hook /\ hooks[w].pc = "claim" /\ hooks[w].answer = "none"
        /\ hooks[w].original = 0 /\ key \in MessageKeys /\ settled' = settled
    BY <1>2 DEF CheckDuplicate, IntakeInv, HookInv, Hook, MessageKeys
  <2>2. CASE ClaimsOf(key) = {}
    <3> DEFINE row == [key |-> key, by |-> w]
               h == [hooks[w] EXCEPT !.pc = "emit",
                                     !.answer = Admission(~Production, AsRouted(hooks[w].m))]
    <3>1. claims' = Append(claims, row) /\ hooks' = [hooks EXCEPT ![w] = h]
      BY <1>2, <2>1, <2>2 DEF CheckDuplicate
    <3>2. h \in Hook /\ h.pc = "emit" /\ h.answer \in Decisions /\ h.m = hooks[w].m
          /\ h.original = 0
      BY <2>1, AdmissionDecides DEF Hook
    <3>3. row \in Claim /\ row.key = key /\ row.by = w
      BY <2>1 DEF Claim
    <3>4. \A i \in 1..Len(claims) : claims[i].key # key
      BY <2>2 DEF ClaimsOf
    <3> HIDE DEF row, h, key
    <3>5. /\ claims' \in Seq(Claim) /\ Len(claims') = Len(claims) + 1
          /\ \A i \in 1..Len(claims) : claims'[i] = claims[i]
          /\ claims'[Len(claims) + 1] = row /\ Len(claims) \in Nat
      BY <3>1, <3>3 DEF IntakeInv
    <3>6. \A i, j \in 1..Len(claims') : claims'[i].key = claims'[j].key => i = j
      BY <3>3, <3>4, <3>5 DEF IntakeInv
    <3>7. hooks' \in [Webhooks -> Hook] /\ hooks'[w] = h
          /\ \A v \in Webhooks \ {w} : hooks'[v] = hooks[v]
      BY <3>1, <3>2 DEF IntakeInv
    <3>8. ASSUME NEW i \in 1..Len(claims')
          PROVE  hooks'[claims'[i].by].answer \in Decisions
                 /\ claims'[i].key = DedupeKey(hooks'[claims'[i].by].m)
      <4>1. CASE i = Len(claims) + 1
        BY <3>2, <3>3, <3>5, <3>7, <4>1 DEF key
      <4>2. CASE i \in 1..Len(claims)
        <5>1. claims[i].by \in Webhooks /\ hooks[claims[i].by].answer \in Decisions
              /\ claims[i].key = DedupeKey(hooks[claims[i].by].m)
          BY <4>2, ClaimedByAHandler
        <5>2. claims[i].by # w
          BY <5>1, <2>1 DEF Decisions
        <5> QED
          BY <3>5, <3>7, <4>2, <5>1, <5>2
      <4> QED
        BY <3>5, <4>1, <4>2
    <3>9. ASSUME NEW v \in Webhooks
          PROVE  HookInv(v)'
      <4>1. CASE v = w
        BY <3>2, <3>3, <3>5, <3>7, <4>1 DEF HookInv, key
      <4>2. CASE v # w
        <5>1. hooks'[v] = hooks[v] /\ HookInv(v)
          BY <3>7, <4>2 DEF IntakeInv
        <5>2. \A i \in 1..Len(claims) : i \in 1..Len(claims') /\ claims'[i] = claims[i]
          BY <3>5
        <5> QED
          BY <5>1, <5>2 DEF HookInv
      <4> QED
        BY <4>1, <4>2
    <3> QED
      BY <2>1, <3>5, <3>6, <3>7, <3>8, <3>9 DEF IntakeInv
  <2>3. CASE ClaimsOf(key) # {}
    <3> DEFINE first == CHOOSE i \in ClaimsOf(key) : TRUE
               h == [hooks[w] EXCEPT !.pc = "reply", !.answer = "duplicate", !.original = first]
    <3>1. claims' = claims /\ hooks' = [hooks EXCEPT ![w] = h]
      BY <1>2, <2>1, <2>3 DEF CheckDuplicate
    <3>2. first \in 1..Len(claims) /\ claims[first].key = key
      BY <2>3 DEF ClaimsOf
    <3>3. first \in Nat
      BY <3>2
    <3> HIDE DEF first
    <3>4. h \in Hook /\ h.pc = "reply" /\ h.answer = "duplicate" /\ h.m = hooks[w].m
          /\ h.original = first
      BY <2>1, <3>3 DEF Hook
    <3> HIDE DEF h
    <3>5. hooks' \in [Webhooks -> Hook] /\ hooks'[w] = h
          /\ \A v \in Webhooks \ {w} : hooks'[v] = hooks[v]
      BY <3>1, <3>4 DEF IntakeInv
    <3>6. ASSUME NEW i \in 1..Len(claims)
          PROVE  hooks'[claims[i].by].answer \in Decisions
                 /\ claims[i].key = DedupeKey(hooks'[claims[i].by].m)
      <4>1. claims[i].by \in Webhooks /\ hooks[claims[i].by].answer \in Decisions
            /\ claims[i].key = DedupeKey(hooks[claims[i].by].m)
        BY ClaimedByAHandler
      <4>2. claims[i].by # w
        BY <4>1, <2>1 DEF Decisions
      <4> QED
        BY <3>5, <4>1, <4>2
    <3>7. ASSUME NEW v \in Webhooks
          PROVE  HookInv(v)'
      <4>1. CASE v = w
        BY <3>1, <3>2, <3>4, <3>5, <4>1 DEF HookInv, Decisions
      <4>2. CASE v # w
        BY <3>1, <3>5, <4>2 DEF HookInv, IntakeInv
      <4> QED
        BY <4>1, <4>2
    <3> QED
      BY <2>1, <3>1, <3>5, <3>6, <3>7 DEF IntakeInv
  <2> QED
    BY <2>2, <2>3
<1>3. ASSUME NEW w \in Webhooks, NEW pc \in {"reply", "replied", "lost"},
             hooks' = [hooks EXCEPT ![w].pc = pc], claims' = claims, settled' \subseteq Messages
      PROVE  IntakeInv'
  <2> DEFINE h == [hooks[w] EXCEPT !.pc = pc]
  <2>1. h \in Hook /\ h.pc = pc /\ h.m = hooks[w].m /\ h.answer = hooks[w].answer
        /\ h.original = hooks[w].original /\ hooks' = [hooks EXCEPT ![w] = h]
    BY <1>3 DEF IntakeInv, Hook
  <2> HIDE DEF h
  <2> QED
    BY <1>3, <2>1, HookMoves
<1>4. ASSUME NEW w \in Webhooks, EmitDecision(w) \/ Reply(w) \/ LoseHook(w)
      PROVE  IntakeInv'
  <2>1. hooks[w].m \in Messages
    BY DEF IntakeInv, Hook
  <2> QED
    BY <1>3, <1>4, <2>1 DEF EmitDecision, Reply, LoseHook, IntakeInv
<1>5. ASSUME NEW w \in Webhooks, NEW t \in ChatTexts, ChatMessage(w, t)
      PROVE  IntakeInv'
  <2> DEFINE h == [hooks[w] EXCEPT !.pc = "replied", !.answer = "classified"]
  <2>1. hooks[w] \in Hook /\ hooks[w].answer = "none" /\ hooks[w].original = 0
    BY <1>5 DEF ChatMessage, IntakeInv, HookInv
  <2>2. h \in Hook /\ h.pc = "replied" /\ h.answer = "classified" /\ h.original = 0
    BY <2>1 DEF Hook
  <2>3. hooks' = [hooks EXCEPT ![w] = h] /\ claims' = claims /\ settled' \subseteq Messages
    BY <1>5 DEF ChatMessage, IntakeInv
  <2> HIDE DEF h
  <2> QED
    BY <2>1, <2>2, <2>3, HookMoves DEF Decisions
<1>6. CASE UNCHANGED intakeVars
  BY <1>6 DEF intakeVars, IntakeInv, HookInv
<1> QED
  BY <1>1, <1>2, <1>4, <1>5, <1>6 DEF IntakeNext

\* The intake's state is well formed.
THEOREM IntakeIsTyped == IntakeSpec => []IntakeTypeOK
<1>1. IntakeInv => IntakeTypeOK
  BY DEF IntakeInv, IntakeTypeOK, HookInv, Hook, MessageKeys, Claim
<1> QED
  BY <1>1, IntakeInitially, IntakePreserved, PTL DEF IntakeSpec

\* A handler that answers 409 names the request that was decided for this
\* message, and a message is decided once, for any number of redeliveries.
THEOREM OneDecisionPerMessage == IntakeSpec => []DuplicateNamesItsOriginal
<1>1. IntakeInv => DuplicateNamesItsOriginal
  <2> SUFFICES ASSUME IntakeInv, NEW w \in Webhooks
               PROVE  /\ hooks[w].original # 0 =>
                           LET v == claims[hooks[w].original].by
                           IN  v # w /\ SameMessage(hooks[v].m, hooks[w].m)
                      /\ \A v \in Webhooks \ {w} :
                           ({hooks[v].answer, hooks[w].answer}
                             \intersect {"none", "duplicate", "classified"} = {})
                               => ~SameMessage(hooks[v].m, hooks[w].m)
    BY DEF DuplicateNamesItsOriginal
  <2>1. \A m, n \in Messages : DedupeKey(m) = DedupeKey(n) <=> SameMessage(m, n)
    BY DEF DedupeKey, SameMessage
  <2>2. HookInv(w) /\ hooks[w].m \in Messages
    BY DEF IntakeInv, Hook
  <2>3. ASSUME hooks[w].original # 0
        PROVE  LET v == claims[hooks[w].original].by
               IN  v # w /\ SameMessage(hooks[v].m, hooks[w].m)
    <3> DEFINE i == hooks[w].original
               v == claims[i].by
    <3>1. i \in 1..Len(claims) /\ hooks[w].answer = "duplicate"
          /\ claims[i].key = DedupeKey(hooks[w].m)
      BY <2>2, <2>3 DEF HookInv
    <3>2. v \in Webhooks /\ hooks[v].answer \in Decisions /\ claims[i].key = DedupeKey(hooks[v].m)
      BY <3>1, ClaimedByAHandler
    <3>3. hooks[v].m \in Messages
      BY <3>2 DEF IntakeInv, Hook
    <3> QED
      BY <2>1, <2>2, <3>1, <3>2, <3>3 DEF Decisions
  <2>4. ASSUME NEW v \in Webhooks \ {w},
               {hooks[v].answer, hooks[w].answer} \intersect {"none", "duplicate", "classified"} = {},
               SameMessage(hooks[v].m, hooks[w].m)
        PROVE  FALSE
    <3>1. hooks[v].answer \in Decisions /\ hooks[w].answer \in Decisions /\ hooks[v].m \in Messages
      BY <2>4 DEF IntakeInv, Hook
    <3>2. PICK i \in 1..Len(claims) : claims[i].by = w /\ claims[i].key = DedupeKey(hooks[w].m)
      BY <2>2, <3>1 DEF HookInv
    <3>3. PICK j \in 1..Len(claims) : claims[j].by = v /\ claims[j].key = DedupeKey(hooks[v].m)
      BY <3>1 DEF IntakeInv, HookInv
    <3>4. claims[i].key = claims[j].key
      BY <2>1, <2>2, <2>4, <3>1, <3>2, <3>3
    <3> QED
      BY <3>2, <3>3, <3>4 DEF IntakeInv
  <2> QED
    BY <2>3, <2>4
<1> QED
  BY <1>1, IntakeInitially, IntakePreserved, PTL DEF IntakeSpec

-----------------------------------------------------------------------------
(* An invocation of a skill.                                               *)

RunFields == {"pc", "route", "budget", "live", "totals", "grounding", "tried", "output", "downgrade"}
TryOutcomes == Failures \union {"answer", "invalid_request"}
RunStatuses == {"refused", "halted", "failed", "succeeded"}

\* Each target after the first was asked for a failure it declares.
AskedAsDeclared(tried, route) ==
  \A k \in 2..Len(tried) : /\ ~EndsTheChain(tried[k - 1])
                           /\ tried[k - 1] \in route.chain[k].conditions

\* A run that has an answer has it from the last target it asked.
RunInv(run) ==
  /\ DOMAIN run = RunFields
  /\ run.route \in Routes /\ run.output \in ModelOutputs
  /\ run.tried \in Seq(TryOutcomes) /\ Len(run.tried) <= Len(run.route.chain)
  /\ AskedAsDeclared(run.tried, run.route)
  /\ run.pc \in {"gates", "succeeded"} =>
       /\ Len(run.tried) > 0 /\ run.tried[Len(run.tried)] = "answer"
       /\ Len(run.tried) > 1 /\ run.live => run.downgrade

SkillInv ==
  /\ runs = [i \in SkillCalls |-> runs[i]]
  /\ \A i \in SkillCalls : RunInv(runs[i])
  /\ \A v \in invocations : v.status \in RunStatuses

LEMMA NoRunIsARun ==
  /\ DOMAIN NoRun = RunFields /\ NoRun.pc = "idle" /\ NoRun.tried = <<>>
  /\ NoRun.route \in Routes /\ NoRun.output \in ModelOutputs
BY SkillConstants DEF NoRun, RunFields

LEMMA NothingTried ==
  ASSUME NEW run, DOMAIN run = RunFields, run.route \in Routes, run.output \in ModelOutputs,
         run.tried = <<>>, run.pc \notin {"gates", "succeeded"}
  PROVE  RunInv(run)
<1>1. run.tried \in Seq(TryOutcomes) /\ Len(run.tried) = 0
  OBVIOUS
<1>2. Len(run.route.chain) \in Nat
  BY SkillConstants
<1> QED
  BY <1>1, <1>2 DEF RunInv, AskedAsDeclared

\* One invocation moves, and its row is written if it concludes.
LEMMA OneRunMoves ==
  ASSUME SkillInv, NEW i \in SkillCalls, NEW run, RunInv(run), RunGoes(i, run),
         \A v \in invocations' : v \in invocations \/ v.status \in RunStatuses
  PROVE  SkillInv'
<1>1. /\ runs' = [j \in SkillCalls |-> runs'[j]] /\ runs'[i] = run
      /\ \A j \in SkillCalls \ {i} : runs'[j] = runs[j]
  BY DEF SkillInv, RunGoes
<1> QED
  BY <1>1 DEF SkillInv

\* It moves on, or ends as its gates say.
LEMMA RunMovesOn ==
  ASSUME NEW run, RunInv(run), NEW pc, pc \notin {"gates", "succeeded"} \/ run.pc = "gates"
  PROVE  RunInv([run EXCEPT !.pc = pc])
<1>1. PICK r : r = [run EXCEPT !.pc = pc]
  OBVIOUS
<1>2. /\ DOMAIN r = RunFields /\ r.pc = pc /\ r.route = run.route /\ r.live = run.live
      /\ r.tried = run.tried /\ r.output = run.output /\ r.downgrade = run.downgrade
  BY <1>1 DEF RunInv, RunFields
<1>3. RunInv(r)
  BY <1>2 DEF RunInv
<1> QED
  BY <1>1, <1>3

LEMMA RunConcludes ==
  ASSUME SkillInv, NEW i \in SkillCalls, NEW run, RunInv(run), NEW status \in RunStatuses,
         Conclude(i, run, status), status # "succeeded" \/ run.pc = "gates"
  PROVE  SkillInv'
<1>1. RunInv([run EXCEPT !.pc = status])
  BY RunMovesOn DEF RunStatuses
<1>2. \A v \in invocations' : v \in invocations \/ v.status \in RunStatuses
  BY DEF Conclude
<1> QED
  BY <1>1, <1>2, OneRunMoves DEF Conclude

\* The next target is asked.
LEMMA AskedNext ==
  ASSUME NEW run, RunInv(run), MayTry(run), NEW outcome \in TryOutcomes,
         NEW tried, tried = Append(run.tried, outcome)
  PROVE  /\ tried \in Seq(TryOutcomes) /\ Len(tried) = Len(run.tried) + 1
         /\ Len(tried) <= Len(run.route.chain)
         /\ AskedAsDeclared(tried, run.route) /\ tried[Len(tried)] = outcome
<1>1. /\ run.tried \in Seq(TryOutcomes) /\ Len(run.tried) \in Nat /\ Len(run.route.chain) \in Nat
      /\ Len(run.tried) < Len(run.route.chain)
  BY SkillConstants DEF RunInv, MayTry
<1>2. /\ tried \in Seq(TryOutcomes) /\ Len(tried) = Len(run.tried) + 1
      /\ tried[Len(tried)] = outcome
      /\ \A k \in 1..Len(run.tried) : tried[k] = run.tried[k]
  BY <1>1
<1>3. ASSUME NEW k \in 2..Len(tried)
      PROVE  ~EndsTheChain(tried[k - 1]) /\ tried[k - 1] \in run.route.chain[k].conditions
  <2>1. k - 1 \in 1..Len(run.tried) /\ tried[k - 1] = run.tried[k - 1]
    BY <1>1, <1>2, <1>3
  <2>2. CASE k \in 2..Len(run.tried)
    BY <2>1, <2>2 DEF RunInv, AskedAsDeclared
  <2>3. CASE k = Len(run.tried) + 1
    BY <1>1, <2>1, <2>3 DEF MayTry
  <2> QED
    BY <1>1, <1>2, <2>2, <2>3
<1> QED
  BY <1>1, <1>2, <1>3 DEF AskedAsDeclared

\* A target fails: the chain goes on with it recorded.
LEMMA TargetFails ==
  ASSUME NEW run, RunInv(run), run.pc = "chain", MayTry(run), NEW outcome \in TryOutcomes
  PROVE  RunInv(Tried(run, outcome))
<1>1. PICK tried : tried = Append(run.tried, outcome)
  OBVIOUS
<1>2. PICK r : r = [run EXCEPT !.tried = tried]
  OBVIOUS
<1>3. /\ DOMAIN r = RunFields /\ r.pc = "chain" /\ r.route = run.route
      /\ r.tried = tried /\ r.output = run.output
  BY <1>2 DEF RunInv, RunFields
<1>4. /\ tried \in Seq(TryOutcomes) /\ Len(tried) <= Len(run.route.chain)
      /\ AskedAsDeclared(tried, run.route)
  BY <1>1, AskedNext
<1>5. RunInv(r)
  BY <1>3, <1>4 DEF RunInv
<1>6. r = Tried(run, outcome)
  BY <1>1, <1>2 DEF Tried
<1> QED
  BY <1>5, <1>6

\* A target answers: on a live node, one that is not the first asks for the
\* downgrade.
LEMMA TargetAnswers ==
  ASSUME NEW run, RunInv(run), MayTry(run), NEW output \in ModelOutputs
  PROVE  RunInv([Tried(run, "answer") EXCEPT !.pc = "gates", !.output = output,
                                            !.downgrade = run.tried # <<>> /\ run.live])
<1>1. PICK tried : tried = Append(run.tried, "answer")
  OBVIOUS
<1>2. PICK r : r = [run EXCEPT !.tried = tried, !.pc = "gates", !.output = output,
                               !.downgrade = run.tried # <<>> /\ run.live]
  OBVIOUS
<1>3. /\ DOMAIN r = RunFields /\ r.pc = "gates" /\ r.route = run.route /\ r.live = run.live
      /\ r.tried = tried /\ r.output = output
      /\ r.downgrade = (run.tried # <<>> /\ run.live)
  BY <1>2 DEF RunInv, RunFields
<1>4. "answer" \in TryOutcomes
  BY DEF TryOutcomes
<1>5. /\ tried \in Seq(TryOutcomes) /\ Len(tried) = Len(run.tried) + 1
      /\ Len(tried) <= Len(run.route.chain)
      /\ AskedAsDeclared(tried, run.route) /\ tried[Len(tried)] = "answer"
  BY <1>1, <1>4, AskedNext
<1>6. run.tried \in Seq(TryOutcomes) /\ Len(run.tried) \in Nat
  BY DEF RunInv
<1>7. Len(tried) > 1 => run.tried # <<>>
  BY <1>5, <1>6
<1>8. Len(r.tried) > 1 /\ r.live => r.downgrade
  BY <1>3, <1>7
<1>9. RunInv(r)
  BY <1>3, <1>5, <1>6, <1>8 DEF RunInv
<1>10. r = [Tried(run, "answer") EXCEPT !.pc = "gates", !.output = output,
                                        !.downgrade = run.tried # <<>> /\ run.live]
  BY <1>1, <1>2 DEF Tried
<1> QED
  BY <1>9, <1>10

LEMMA SkillInitially == RunInit => SkillInv
BY NoRunIsARun, NothingTried DEF RunInit, SkillInv

LEMMA SkillPreserved == SkillInv /\ [RunNext]_runVars => SkillInv'
<1> SUFFICES ASSUME SkillInv, [RunNext]_runVars
             PROVE  SkillInv'
  OBVIOUS
<1>0. \A i \in SkillCalls : RunInv(runs[i])
  BY DEF SkillInv
<1>1. ASSUME NEW i \in SkillCalls, NEW route \in Routes, NEW budget \in Budgets,
             NEW live \in BOOLEAN, NEW totals \in Declared,
             BeginRun(i, route, budget, live, totals)
      PROVE  SkillInv'
  <2>1. PICK grounding \in Groundings :
          LET run == [NoRun EXCEPT !.route = route, !.budget = budget, !.live = live,
                                   !.totals = totals, !.grounding = grounding]
          IN  IF grounding = {} THEN Conclude(i, run, "refused")
              ELSE RunGoes(i, [run EXCEPT !.pc = "budget"]) /\ UNCHANGED invocations
    BY <1>1 DEF BeginRun
  <2>2. PICK run : run = [NoRun EXCEPT !.route = route, !.budget = budget, !.live = live,
                                       !.totals = totals, !.grounding = grounding]
    OBVIOUS
  <2>3. \/ Conclude(i, run, "refused")
        \/ RunGoes(i, [run EXCEPT !.pc = "budget"]) /\ UNCHANGED invocations
    BY <2>1, <2>2
  <2>4. /\ DOMAIN run = RunFields /\ run.route \in Routes /\ run.output \in ModelOutputs
        /\ run.tried = <<>> /\ run.pc = "idle"
    BY <2>2, NoRunIsARun DEF RunFields
  <2>5. RunInv(run)
    BY <2>4, NothingTried
  <2>6. CASE Conclude(i, run, "refused")
    BY <2>5, <2>6, RunConcludes DEF RunStatuses
  <2>7. CASE RunGoes(i, [run EXCEPT !.pc = "budget"]) /\ UNCHANGED invocations
    BY <2>5, <2>7, RunMovesOn, OneRunMoves
  <2> QED
    BY <2>3, <2>6, <2>7
<1>2. ASSUME NEW i \in SkillCalls, CheckBudget(i)
      PROVE  SkillInv'
  <2>1. CASE RunGoes(i, [runs[i] EXCEPT !.pc = "chain"]) /\ UNCHANGED invocations
    BY <1>0, <2>1, RunMovesOn, OneRunMoves
  <2>2. CASE Conclude(i, runs[i], "halted")
    BY <1>0, <2>2, RunConcludes DEF RunStatuses
  <2> QED
    BY <1>2, <2>1, <2>2 DEF CheckBudget
<1>3. ASSUME NEW i \in SkillCalls, AskModel(i)
      PROVE  SkillInv'
  <2>1. MayTry(runs[i]) /\ UNCHANGED invocations /\ RunInv(runs[i]) /\ runs[i].pc = "chain"
    BY <1>0, <1>3 DEF AskModel
  <2>2. ASSUME NEW outcome \in TryOutcomes, RunGoes(i, Tried(runs[i], outcome))
        PROVE  SkillInv'
    BY <2>1, <2>2, TargetFails, OneRunMoves
  <2>3. ASSUME NEW output \in ModelOutputs,
               RunGoes(i, [Tried(runs[i], "answer") EXCEPT
                             !.pc = "gates", !.output = output,
                             !.downgrade = runs[i].tried # <<>> /\ runs[i].live])
        PROVE  SkillInv'
    BY <2>1, <2>3, TargetAnswers, OneRunMoves
  <2> QED
    BY <1>3, <2>2, <2>3 DEF AskModel, TryOutcomes
<1>4. ASSUME NEW i \in SkillCalls, ChainExhausted(i)
      PROVE  SkillInv'
    BY <1>0, <1>4, RunConcludes DEF ChainExhausted, RunStatuses
<1>5. ASSUME NEW i \in SkillCalls, JudgeOutput(i)
      PROVE  SkillInv'
  <2>1. PICK status \in {"succeeded", "halted"} : Conclude(i, runs[i], status)
    BY <1>5 DEF JudgeOutput
  <2> QED
    BY <1>0, <1>5, <2>1, RunConcludes DEF JudgeOutput, RunStatuses
<1>6. ASSUME NEW i \in SkillCalls, StopRun(i)
      PROVE  SkillInv'
    BY <1>0, <1>6, RunMovesOn, OneRunMoves DEF StopRun
<1>7. CASE UNCHANGED runVars
  BY <1>7 DEF runVars, SkillInv
<1> QED
  BY <1>1, <1>2, <1>3, <1>4, <1>5, <1>6, <1>7 DEF RunNext

\* The invocations' state is well formed.
THEOREM SkillRunIsTyped == RunSpec => []RunTypeOK
<1>1. SkillInv => RunTypeOK
  BY DEF SkillInv, RunInv, RunTypeOK, RunStatuses
<1> QED
  BY <1>1, SkillInitially, SkillPreserved, PTL DEF RunSpec

\* No model is asked for what another declined, whatever the chain of a
\* route declares, and an answer of a fallback on a live node is downgraded.
THEOREM NoModelIsShoppedFor == RunSpec => []NoAnswerShopping
<1>1. SkillInv => NoAnswerShopping
  <2>1. ASSUME SkillInv, NEW i \in SkillCalls, Len(runs[i].tried) > 0
        PROVE  runs[i].tried # <<>> /\ Last(runs[i].tried) = runs[i].tried[Len(runs[i].tried)]
    BY <2>1 DEF Last
  <2> QED
    BY <2>1 DEF SkillInv, RunInv, AskedAsDeclared, EndsTheChain, NoAnswerShopping
<1> QED
  BY <1>1, SkillInitially, SkillPreserved, PTL DEF RunSpec

-----------------------------------------------------------------------------
(* The task graph.                                                         *)

Said == Verdicts \union ReviewMoves \union {"none"}
ResultFields == {"done", "yes", "said", "engaged", "hour", "downgraded", "passed"}
Result(r) == /\ DOMAIN r = ResultFields
             /\ r.done \in BOOLEAN /\ r.yes \in BOOLEAN /\ r.said \in Said
             /\ r.hour \in Nat

\* What is recorded was recorded in the order of the function: each step
\* after what leads to it.
StepsInOrder(r) ==
  /\ \A s \in GraphSteps : ~r[s].done => ~r[s].yes /\ r[s].said = "none"
  /\ r["gate"].done => r["resolve"].yes
  /\ r["refusal"].done => r["gate"].said = "refuse"
  /\ r["invoke"].done => r["gate"].done /\ r["gate"].said # "refuse"
  /\ r["halt"].done => r["invoke"].done /\ ~r["invoke"].yes
  /\ r["authorise"].done => r["invoke"].yes
  /\ r["deliver"].done => r["authorise"].yes
  /\ r["handoff"].done => r["authorise"].done /\ ~r["authorise"].yes
  /\ r["wait"].done => r["handoff"].done
  /\ r["recheck"].done => r["wait"].done /\ r["wait"].said # "reject_with_reason"
  /\ r["approved"].done => r["recheck"].yes

\* What leads to a step is on record, and the step is not.
Due(r, step) ==
  /\ ~r[step].done
  /\ step = "gate" => r["resolve"].yes
  /\ step = "refusal" => r["gate"].said = "refuse"
  /\ step = "invoke" => r["gate"].done /\ r["gate"].said # "refuse"
  /\ step = "halt" => r["invoke"].done /\ ~r["invoke"].yes
  /\ step = "authorise" => r["invoke"].yes
  /\ step = "deliver" => r["authorise"].yes
  /\ step = "handoff" => r["authorise"].done /\ ~r["authorise"].yes
  /\ step = "wait" => r["handoff"].done
  /\ step = "recheck" => r["wait"].done /\ r["wait"].said # "reject_with_reason"
  /\ step = "approved" => r["recheck"].yes

\* What an effect rests on.
RunRefused(r) == r["gate"].said = "refuse" \/ (r["invoke"].done /\ ~r["invoke"].yes)
Cleared(r) == r["authorise"].yes \/ r["recheck"].yes
Warranted(effect, r) == \/ effect = "refusal" /\ RunRefused(r)
                        \/ effect = "output" /\ Cleared(r)

\* A context is found live no earlier than the approval, and before it ends.
FoundLive(result, r) ==
  /\ result.hour >= r["wait"].hour
  /\ result.yes => result.hour < pinned.expires

FlightInv ==
  \/ flight = Nothing
  \/ /\ flight.step \in GraphSteps /\ Due(record, flight.step)
     /\ Result(flight.result) /\ flight.result.done /\ flight.result.hour <= hour
     /\ flight.step = "recheck" => FoundLive(flight.result, record)

GraphInv ==
  /\ runInput \in GraphInputs /\ hour \in Hours /\ pinned.expires \in Hours
  /\ stops \in 0..MaxStops /\ tries \in 0..MaxTries
  /\ record = [s \in GraphSteps |-> record[s]]
  /\ \A s \in GraphSteps : Result(record[s]) /\ record[s].hour <= hour
  /\ StepsInOrder(record)
  /\ record["recheck"].done => FoundLive(record["recheck"], record)
  /\ FlightInv
  /\ effects \in Seq({"refusal", "output"})
  /\ \A k \in 1..Len(effects) : Warranted(effects[k], record)

LEMMA UnrecordedIsAResult ==
  Result(Unrecorded) /\ ~Unrecorded.done /\ ~Unrecorded.yes /\ Unrecorded.said = "none"
  /\ Unrecorded.hour = 0
BY DEF Unrecorded, Result, ResultFields, Said

\* The function stops at a step that what is recorded leads to.
LEMMA StopsAtWhatIsDue ==
  ASSUME NEW r, StepsInOrder(r), NEW step \in GraphSteps, Reaches(r) = step,
         \A s \in GraphSteps : Result(r[s])
  PROVE  Due(r, step)
BY DEF StepsInOrder, Due, Reaches, AfterApproval, GraphSteps, Result

\* Recording what is due keeps the order, and what other results rest on.
LEMMA RecordedInOrder ==
  ASSUME NEW r, NEW q, StepsInOrder(r), NEW step \in GraphSteps, Due(r, step), q[step].done,
         \A s \in GraphSteps \ {step} : q[s] = r[s]
  PROVE  /\ StepsInOrder(q)
         /\ RunRefused(r) => RunRefused(q)
         /\ Cleared(r) => Cleared(q)
<1>1. StepsInOrder(q)
  BY DEF StepsInOrder, Due, GraphSteps
<1>2. (RunRefused(r) => RunRefused(q)) /\ (Cleared(r) => Cleared(q))
  BY DEF StepsInOrder, Due, GraphSteps, RunRefused, Cleared
<1> QED
  BY <1>1, <1>2

LEMMA GraphInitially == GraphInit => GraphInv
<1> SUFFICES ASSUME GraphInit
             PROVE  GraphInv
  OBVIOUS
<1>1. /\ record = [s \in GraphSteps |-> record[s]]
      /\ \A s \in GraphSteps : record[s] = Unrecorded
  BY DEF GraphInit
<1>2. StepsInOrder(record) /\ ~record["recheck"].done
  BY <1>1, UnrecordedIsAResult DEF StepsInOrder, GraphSteps
<1>3. effects \in Seq({"refusal", "output"}) /\ Len(effects) = 0
  BY DEF GraphInit
<1>4. /\ runInput \in GraphInputs /\ hour = 1 /\ pinned.expires \in Hours
      /\ stops = 0 /\ tries = 0 /\ flight = Nothing
  BY DEF GraphInit
<1> QED
  BY <1>1, <1>2, <1>3, <1>4, GraphConstants, UnrecordedIsAResult DEF GraphInv, FlightInv

\* An activity runs, with what the code decides for it.
LEMMA ActivityRuns ==
  ASSUME GraphInv, NEW step \in GraphSteps, Stopped(step), NEW result, Result(result),
         NEW events \in Seq({"refusal", "output"}), Ran(step, result, events),
         step = "recheck" /\ result.yes => hour < pinned.expires,
         \A k \in 1..Len(events) : Warranted(events[k], record)
  PROVE  GraphInv'
<1>1. Due(record, step)
  BY StopsAtWhatIsDue DEF GraphInv, Stopped
<1>2. PICK r : r = [result EXCEPT !.done = TRUE, !.hour = hour]
  OBVIOUS
<1>3. hour \in Nat /\ \A s \in GraphSteps : record[s].hour <= hour /\ record[s].hour \in Nat
  BY GraphConstants DEF GraphInv, Result
<1>4. Result(r) /\ r.done /\ r.hour = hour /\ r.yes = result.yes
  BY <1>2, <1>3 DEF Result, ResultFields
<1>5. flight' = [step |-> step, result |-> r] /\ effects' = effects \o events
      /\ UNCHANGED <<runInput, pinned, record, tries, stops, hour>>
  BY <1>2 DEF Ran
<1>6. flight'.step = step /\ flight'.result = r
  BY <1>5
<1>7. FlightInv'
  BY <1>1, <1>3, <1>4, <1>5, <1>6 DEF FlightInv, FoundLive, Due, GraphSteps
<1>8. /\ effects \in Seq({"refusal", "output"}) /\ Len(effects) \in Nat /\ Len(events) \in Nat
      /\ effects' \in Seq({"refusal", "output"}) /\ Len(effects') = Len(effects) + Len(events)
      /\ \A k \in 1..Len(effects') :
           effects'[k] = IF k <= Len(effects) THEN effects[k] ELSE events[k - Len(effects)]
  BY <1>5, ConcatProperties DEF GraphInv
<1>9. ASSUME NEW k \in 1..Len(effects')
      PROVE  Warranted(effects'[k], record)
  <2>1. CASE k <= Len(effects)
    BY <1>8, <2>1 DEF GraphInv
  <2>2. CASE k > Len(effects)
    <3>1. k - Len(effects) \in 1..Len(events) /\ effects'[k] = events[k - Len(effects)]
      BY <1>8, <2>2
    <3> QED
      BY <3>1
  <2> QED
    BY <1>8, <2>1, <2>2
<1> QED
  BY <1>5, <1>7, <1>8, <1>9 DEF GraphInv, FoundLive, Warranted, RunRefused, Cleared

LEMMA ActivityRunsQuietly ==
  ASSUME GraphInv, NEW step \in GraphSteps, Stopped(step), NEW result, Result(result),
         Quietly(step, result), step = "recheck" /\ result.yes => hour < pinned.expires
  PROVE  GraphInv'
<1>1. PICK events : events = <<>>
  OBVIOUS
<1>2. /\ events \in Seq({"refusal", "output"}) /\ Ran(step, result, events)
      /\ \A k \in 1..Len(events) : Warranted(events[k], record)
  BY <1>1 DEF Quietly
<1> HIDE <1>1
<1> QED
  BY <1>2, ActivityRuns

\* A result is recorded: that of the activity in flight, or the signal.
LEMMA ResultRecorded ==
  ASSUME GraphInv, NEW step \in GraphSteps, Due(record, step), NEW result, Result(result),
         result.done, result.hour <= hour, record' = [record EXCEPT ![step] = result],
         step = "recheck" => FoundLive(result, record),
         flight' = Nothing, tries' \in 0..MaxTries,
         UNCHANGED <<runInput, pinned, stops, hour, effects>>
  PROVE  GraphInv'
<1>1. /\ record' = [s \in GraphSteps |-> record'[s]] /\ record'[step] = result
      /\ \A s \in GraphSteps \ {step} : record'[s] = record[s]
  BY DEF GraphInv
<1>2. /\ StepsInOrder(record')
      /\ RunRefused(record) => RunRefused(record')
      /\ Cleared(record) => Cleared(record')
  BY <1>1, RecordedInOrder DEF GraphInv
<1>3. \A k \in 1..Len(effects) : Warranted(effects[k], record')
  BY <1>2 DEF GraphInv, Warranted
<1>4. record'["recheck"].done => FoundLive(record'["recheck"], record')
  <2>1. CASE step = "recheck"
    BY <1>1, <2>1 DEF FoundLive, GraphSteps
  <2>2. CASE step # "recheck"
    <3>1. record'["recheck"] = record["recheck"]
      BY <1>1, <2>2 DEF GraphSteps
    <3>2. record["recheck"].done => step # "wait"
      BY DEF GraphInv, StepsInOrder, Due
    <3> QED
      BY <1>1, <3>1, <3>2 DEF GraphInv, FoundLive, GraphSteps
  <2> QED
    BY <2>1, <2>2
<1>5. \A s \in GraphSteps : Result(record'[s]) /\ record'[s].hour <= hour
  BY <1>1 DEF GraphInv
<1>6. FoundLive(record["recheck"], record)' <=> FoundLive(record'["recheck"], record')
  BY DEF FoundLive
<1> QED
  BY <1>1, <1>2, <1>3, <1>4, <1>5, <1>6 DEF GraphInv, FlightInv, Warranted, RunRefused, Cleared

LEMMA GraphPreserved == GraphInv /\ [GraphNext]_graphVars => GraphInv'
<1> SUFFICES ASSUME GraphInv, [GraphNext]_graphVars
             PROVE  GraphInv'
  OBVIOUS
<1>1. ASSUME NEW step \in {"resolve", "recheck"}, ResolveContext(step)
      PROVE  GraphInv'
  <2>1. PICK yes \in BOOLEAN : yes = (pinned.status = "resolved" /\ hour < pinned.expires)
    OBVIOUS
  <2>2. PICK r : r = [Unrecorded EXCEPT !.yes = yes]
    OBVIOUS
  <2>3. Result(r) /\ r.yes = yes
    BY <2>2 DEF Unrecorded, Result, ResultFields, Said
  <2>4. Quietly(step, r) /\ Stopped(step)
    BY <1>1, <2>1, <2>2 DEF ResolveContext
  <2> QED
    BY <2>1, <2>3, <2>4, ActivityRunsQuietly DEF GraphSteps
<1>2. ASSUME AskGate
      PROVE  GraphInv'
  <2>0. PICK n : n = Engaged(SubjectOf(runInput), InOrderContext)
    OBVIOUS
  <2>1. PICK verdict \in Verdicts :
          Quietly("gate", [Unrecorded EXCEPT !.said = verdict, !.engaged = n])
    <3>1. \E verdict \in (IF n # 0 THEN {"refuse"} ELSE Verdicts) :
            Quietly("gate", [Unrecorded EXCEPT !.said = verdict, !.engaged = n])
      BY <1>2, <2>0 DEF AskGate
    <3>2. (IF n # 0 THEN {"refuse"} ELSE Verdicts) \subseteq Verdicts
      BY DEF Verdicts
    <3> QED
      BY <3>1, <3>2
  <2>2. PICK r : r = [Unrecorded EXCEPT !.said = verdict, !.engaged = n]
    OBVIOUS
  <2>3. Result(r)
    BY <2>2 DEF Unrecorded, Result, ResultFields, Said
  <2> QED
    BY <1>2, <2>1, <2>2, <2>3, ActivityRunsQuietly DEF AskGate, GraphSteps
<1>3. ASSUME InvokeSkill
      PROVE  GraphInv'
  <2>1. PICK ok, downgraded, passed \in BOOLEAN :
          Quietly("invoke", [Unrecorded EXCEPT !.yes = ok, !.downgraded = downgraded,
                                               !.passed = passed])
    BY <1>3 DEF InvokeSkill
  <2>2. PICK r : r = [Unrecorded EXCEPT !.yes = ok, !.downgraded = downgraded, !.passed = passed]
    OBVIOUS
  <2>3. Result(r)
    BY <2>2 DEF Unrecorded, Result, ResultFields, Said
  <2> QED
    BY <1>3, <2>1, <2>2, <2>3, ActivityRunsQuietly DEF InvokeSkill, GraphSteps
<1>4. ASSUME Authorise
      PROVE  GraphInv'
  <2>1. PICK level : level = IF record["invoke"].downgraded THEN "draft" ELSE runInput.autonomy
    OBVIOUS
  <2>2. PICK yes \in BOOLEAN : yes = MayIssue(runInput.class, level, record["gate"].engaged,
                                              record["invoke"].passed)
    BY DEF MayIssue
  <2>3. PICK r : r = [Unrecorded EXCEPT !.yes = yes]
    OBVIOUS
  <2>4. Result(r)
    BY <2>3 DEF Unrecorded, Result, ResultFields, Said
  <2>5. Quietly("authorise", r) /\ Stopped("authorise")
    BY <1>4, <2>1, <2>2, <2>3 DEF Authorise
  <2> QED
    BY <2>4, <2>5, ActivityRunsQuietly DEF GraphSteps
<1>5. ASSUME IssueHandoff
      PROVE  GraphInv'
    BY <1>5, ActivityRunsQuietly, UnrecordedIsAResult DEF IssueHandoff, GraphSteps
<1>6. ASSUME NEW step \in {"refusal", "halt"}, DeliverRefusal(step)
      PROVE  GraphInv'
  <2>1. Stopped(step) /\ Due(record, step)
    BY <1>6, StopsAtWhatIsDue DEF DeliverRefusal, Stopped, GraphInv, GraphSteps
  <2>2. Warranted("refusal", record)
    BY <2>1 DEF Due, Warranted, RunRefused
  <2>3. /\ <<"refusal">> \in Seq({"refusal", "output"})
        /\ \A k \in 1..Len(<<"refusal">>) : <<"refusal">>[k] = "refusal"
    OBVIOUS
  <2> QED
    BY <1>6, <2>1, <2>2, <2>3, ActivityRuns, UnrecordedIsAResult DEF DeliverRefusal, GraphSteps
<1>7. ASSUME NEW step \in {"approved", "deliver"}, DeliverOutput(step)
      PROVE  GraphInv'
  <2>1. Stopped(step) /\ Due(record, step)
    BY <1>7, StopsAtWhatIsDue DEF DeliverOutput, Stopped, GraphInv, GraphSteps
  <2>2. Warranted("output", record)
    BY <2>1 DEF Due, Warranted, Cleared
  <2>3. /\ <<"output">> \in Seq({"refusal", "output"})
        /\ \A k \in 1..Len(<<"output">>) : <<"output">>[k] = "output"
    OBVIOUS
  <2> QED
    BY <1>7, <2>1, <2>2, <2>3, ActivityRuns, UnrecordedIsAResult DEF DeliverOutput, GraphSteps
<1>8. ASSUME Record
      PROVE  GraphInv'
  <2>1. /\ flight.step \in GraphSteps /\ Due(record, flight.step)
        /\ Result(flight.result) /\ flight.result.done /\ flight.result.hour <= hour
        /\ flight.step = "recheck" => FoundLive(flight.result, record)
    BY <1>8 DEF Record, GraphInv, FlightInv
  <2>2. 0 \in 0..MaxTries
    BY GraphConstants
  <2> QED
    BY <1>8, <2>1, <2>2, ResultRecorded DEF Record
<1>9. ASSUME NEW step \in GraphSteps, AttemptFails(step)
      PROVE  GraphInv'
  <2>1. tries' \in 0..MaxTries
    BY <1>9, GraphConstants DEF AttemptFails, Stopped, GraphInv
  <2> QED
    BY <1>9, <2>1 DEF AttemptFails, GraphInv, FlightInv, FoundLive, Due, Warranted, RunRefused, Cleared
<1>10. ASSUME StopUnrecorded
       PROVE  GraphInv'
  <2>1. stops' \in 0..MaxStops /\ flight' = Nothing
    BY <1>10, GraphConstants DEF StopUnrecorded, GraphInv
  <2> QED
    BY <1>10, <2>1 DEF StopUnrecorded, GraphInv, FlightInv, FoundLive, Warranted, RunRefused, Cleared
<1>11. ASSUME NEW move \in ReviewMoves, ReviewerActs(move)
       PROVE  GraphInv'
  <2>1. PICK r : r = [Unrecorded EXCEPT !.done = TRUE, !.said = move, !.hour = hour]
    OBVIOUS
  <2>2. hour \in Nat
    BY GraphConstants DEF GraphInv
  <2>3. Result(r) /\ r.done /\ r.hour <= hour
    BY <2>1, <2>2 DEF Unrecorded, Result, ResultFields, Said
  <2>4. record' = [record EXCEPT !["wait"] = r] /\ flight' = Nothing /\ tries' \in 0..MaxTries
        /\ UNCHANGED <<runInput, pinned, stops, hour, effects>>
    BY <1>11, <2>1 DEF ReviewerActs, Stopped, GraphInv
  <2>5. Due(record, "wait")
    BY <1>11, StopsAtWhatIsDue DEF ReviewerActs, Stopped, GraphInv, GraphSteps
  <2> QED
    BY <2>3, <2>4, <2>5, ResultRecorded DEF GraphSteps
<1>12. ASSUME HourPasses
       PROVE  GraphInv'
  <2>1. hour \in Nat /\ hour' = hour + 1 /\ hour' \in Hours
        /\ UNCHANGED <<runInput, pinned, record, flight, tries, stops, effects>>
    BY <1>12, GraphConstants DEF HourPasses, GraphInv
  <2>2. FlightInv'
    BY <2>1 DEF GraphInv, FlightInv, FoundLive, Due, Result
  <2>3. \A s \in GraphSteps : record[s].hour <= hour'
    BY <2>1 DEF GraphInv, Result
  <2> QED
    BY <2>1, <2>2, <2>3 DEF GraphInv, FoundLive, Warranted, RunRefused, Cleared
<1>13. CASE UNCHANGED graphVars
  BY <1>13 DEF graphVars, GraphInv, FlightInv, FoundLive, Due, Warranted, RunRefused, Cleared
<1> QED
  BY <1>1, <1>2, <1>3, <1>4, <1>5, <1>6, <1>7, <1>8, <1>9, <1>10, <1>11, <1>12, <1>13
     DEF GraphNext

\* The run's state is well formed.
THEOREM GraphIsTyped == GraphSpec => []GraphTypeOK
<1>1. GraphInv => GraphTypeOK
  <2> SUFFICES ASSUME GraphInv
               PROVE  GraphTypeOK
    OBVIOUS
  <2>1. flight.step \in GraphSteps \union {"none"}
    BY DEF GraphInv, FlightInv, Nothing
  <2>2. \A k \in DOMAIN effects : effects[k] \in {"refusal", "output"}
    BY DEF GraphInv
  <2> QED
    BY <2>1, <2>2 DEF GraphInv, GraphTypeOK, Result, Said
<1> QED
  BY <1>1, GraphInitially, GraphPreserved, PTL DEF GraphSpec

\* A run delivers what was decided, however often its activities are run
\* again: its output or a refusal, and after a human's approval only on a
\* context found live since.
THEOREM RunsDeliverWhatWasDecided == GraphSpec => []DeliveredAsDecided
<1>1. GraphInv => DeliveredAsDecided
  <2> SUFFICES ASSUME GraphInv, "output" \in {effects[k] : k \in DOMAIN effects}
               PROVE  /\ "refusal" \notin {effects[k] : k \in DOMAIN effects}
                      /\ record["gate"].said # "refuse" /\ record["invoke"].yes
                      /\ ~record["authorise"].yes =>
                           /\ record["wait"].done /\ record["wait"].said # "reject_with_reason"
                           /\ record["recheck"].yes
                           /\ record["recheck"].hour >= record["wait"].hour
                           /\ record["recheck"].hour < pinned.expires
    BY DEF DeliveredAsDecided
  <2>1. \A k \in DOMAIN effects : Warranted(effects[k], record)
    BY DEF GraphInv
  <2>2. Cleared(record)
    BY <2>1 DEF Warranted
  <2>3. record["gate"].said # "refuse" /\ record["invoke"].yes /\ record["invoke"].done
    BY <2>2 DEF GraphInv, StepsInOrder, Cleared, GraphSteps
  <2>4. ~RunRefused(record)
    BY <2>3 DEF RunRefused
  <2>5. "refusal" \notin {effects[k] : k \in DOMAIN effects}
    BY <2>1, <2>4 DEF Warranted
  <2>6. ASSUME ~record["authorise"].yes
        PROVE  /\ record["wait"].done /\ record["wait"].said # "reject_with_reason"
               /\ record["recheck"].yes
               /\ record["recheck"].hour >= record["wait"].hour
               /\ record["recheck"].hour < pinned.expires
    <3>1. record["recheck"].yes /\ record["recheck"].done
      BY <2>2, <2>6 DEF Cleared, GraphInv, StepsInOrder, GraphSteps
    <3> QED
      BY <3>1 DEF GraphInv, StepsInOrder, FoundLive
  <2> QED
    BY <2>3, <2>5, <2>6
<1> QED
  BY <1>1, GraphInitially, GraphPreserved, PTL DEF GraphSpec

-----------------------------------------------------------------------------
(* Delivery.                                                               *)

ChannelNames == {"chat", "email", "telegram", "whatsapp"}
Statuses == {"queued", "accepted", "delivered", "read", "failed", "expired"}
AnyKey == {DeliveryKey(o, c) : o \in Outputs, c \in ChannelNames}
Message == [key : AnyKey, told : Nat]
DeliveryRow == [key : AnyKey, status : Statuses, ref : Nat, by : Deliveries]
CallPlaces == {"start", "reserve", "send", "mark", "answered", "lost"}

\* What an output that has a channel has passed.
MayShow(o, channel) == o \in Outputs /\ o.decided /\ CanRenderPayload(o.classes, channel)

\* A call past its checks has an output its channel may show; one that sends
\* has the row of its key, and the provider has what it was said to accept.
CallInv(d) ==
  /\ outbox[d].channel # "none" => MayShow(outbox[d].o, outbox[d].channel)
  /\ outbox[d].pc = "start" => outbox[d].channel = "none"
  /\ outbox[d].pc = "mark" => outbox[d].result # "none"
  /\ outbox[d].pc \in {"reserve", "send", "mark"} => outbox[d].channel \in ChannelNames
  /\ outbox[d].pc = "send" => \E r \in rows : r.by = d /\ r.key = KeyOf(d)
  /\ outbox[d].pc = "mark" /\ outbox[d].result = "accepted" =>
       \E i \in 1..Len(provider) : provider[i].key = KeyOf(d)

\* A row belongs to the call that wrote it, and a key to a row.
RowInv(r) ==
  /\ outbox[r.by].pc \notin {"start", "reserve"} /\ outbox[r.by].channel \in ChannelNames
  /\ r.key = KeyOf(r.by)
  /\ r.ref \in 0..Len(provider)

\* What arrived was sent by the call whose row has its key.
SentBy(key) == \E r \in rows : r.key = key /\ outbox[r.by].pc \in {"mark", "answered", "lost"}

DeliveryInv ==
  /\ outbox = [d \in Deliveries |-> outbox[d]]
  /\ \A d \in Deliveries :
       /\ DOMAIN outbox[d] = {"pc", "o", "channel", "result", "answer"}
       /\ outbox[d].pc \in CallPlaces /\ outbox[d].channel \in ChannelNames \union {"none"}
       /\ outbox[d].result \in {"none", "accepted", "failed"}
  /\ rows \subseteq DeliveryRow /\ provider \in Seq(Message) /\ received \in Seq(AnyKey)
  /\ \A d \in Deliveries : CallInv(d)
  /\ \A r \in rows : RowInv(r)
  /\ \A r, s \in rows : r.key = s.key => r.by = s.by
  /\ \A i \in 1..Len(received) : SentBy(received[i])
  /\ \A i, j \in 1..Len(received) : received[i] = received[j] => i = j

LEMMA TheChannels == Range(AllChannels) = ChannelNames
BY DEF Range, AllChannels, ChannelNames

\* Only an output that passed every check gets a channel.
LEMMA CheckedOutput ==
  ASSUME NEW o \in Outputs, CheckOutput(o) \in ChannelNames
  PROVE  MayShow(o, CheckOutput(o))
<1> DEFINE c == Head(Candidates(o))
<1>1. CheckOutput(o) = c /\ o.decided /\ CanRenderPayload(o.classes, c)
  BY DEF CheckOutput, ChannelNames
<1> QED
  BY <1>1 DEF MayShow

LEMMA ACallBegins ==
  /\ DOMAIN NoCall = {"pc", "o", "channel", "result", "answer"}
  /\ NoCall.pc = "start" /\ NoCall.channel = "none" /\ NoCall.result = "none"
<1>1. PICK o : NoCall = [pc |-> "start", o |-> o, channel |-> "none",
                         result |-> "none", answer |-> "none"]
  BY DEF NoCall
<1> QED
  BY <1>1

LEMMA DeliveryInitially == DeliveryInit => DeliveryInv
<1> SUFFICES ASSUME DeliveryInit
             PROVE  DeliveryInv
  OBVIOUS
<1>1. Len(received) = 0 /\ rows = {} /\ provider \in Seq(Message) /\ received \in Seq(AnyKey)
  BY DEF DeliveryInit
<1>2. \A d \in Deliveries : outbox[d] = NoCall
  BY DEF DeliveryInit
<1>3. \A d \in Deliveries : CallInv(d)
  BY <1>2, ACallBegins DEF CallInv
<1>4. \A d \in Deliveries :
        /\ DOMAIN outbox[d] = {"pc", "o", "channel", "result", "answer"}
        /\ outbox[d].pc \in CallPlaces /\ outbox[d].channel \in ChannelNames \union {"none"}
        /\ outbox[d].result \in {"none", "accepted", "failed"}
  BY <1>2, ACallBegins DEF CallPlaces
<1>5. outbox = [d \in Deliveries |-> outbox[d]]
  BY DEF DeliveryInit
<1> QED
  BY <1>1, <1>3, <1>4, <1>5 DEF DeliveryInv

Called(c) ==
  /\ DOMAIN c = {"pc", "o", "channel", "result", "answer"}
  /\ c.pc \in CallPlaces /\ c.channel \in ChannelNames \union {"none"}
  /\ c.result \in {"none", "accepted", "failed"}

\* Rows and messages are changed and added, and keep their keys.
KeysKept ==
  /\ \A r \in rows : \E s \in rows' : s.by = r.by /\ s.key = r.key
  /\ Len(provider) <= Len(provider')
  /\ \A i \in 1..Len(provider) : provider'[i].key = provider[i].key

\* When one call moves, the others stay what they are.
LEMMA OtherCallsKeep ==
  ASSUME DeliveryInv, NEW d \in Deliveries, NEW c, Called(c),
         outbox' = [outbox EXCEPT ![d] = c], KeysKept, provider' \in Seq(Message)
  PROVE  /\ outbox' = [q \in Deliveries |-> outbox'[q]]
         /\ \A q \in Deliveries : Called(outbox'[q])
         /\ outbox'[d] = c
         /\ \A q \in Deliveries \ {d} : outbox'[q] = outbox[q] /\ KeyOf(q)' = KeyOf(q)
         /\ \A q \in Deliveries \ {d} : CallInv(q)'
<1>1. /\ outbox' = [q \in Deliveries |-> outbox'[q]]
      /\ outbox'[d] = c
      /\ \A q \in Deliveries \ {d} : outbox'[q] = outbox[q]
  BY DEF DeliveryInv
<1>2. \A q \in Deliveries : Called(outbox'[q])
  BY <1>1 DEF DeliveryInv, Called
<1>3. \A q \in Deliveries \ {d} : KeyOf(q)' = KeyOf(q)
  BY <1>1 DEF KeyOf
<1>4. ASSUME NEW q \in Deliveries \ {d}
      PROVE  CallInv(q)'
  <2>1. outbox'[q] = outbox[q] /\ KeyOf(q)' = KeyOf(q) /\ CallInv(q)
    BY <1>1, <1>3 DEF DeliveryInv
  <2>2. outbox[q].pc = "send" => \E r \in rows' : r.by = q /\ r.key = KeyOf(q)
    BY <2>1 DEF CallInv, KeysKept
  <2>3. ASSUME outbox[q].pc = "mark", outbox[q].result = "accepted"
        PROVE  \E i \in 1..Len(provider') : provider'[i].key = KeyOf(q)
    <3>1. PICK i \in 1..Len(provider) : provider[i].key = KeyOf(q)
      BY <2>1, <2>3 DEF CallInv
    <3>2. i \in 1..Len(provider')
      BY DEF KeysKept, DeliveryInv
    <3> QED
      BY <3>1, <3>2 DEF KeysKept
  <2> QED
    BY <2>1, <2>2, <2>3 DEF CallInv
<1> QED
  BY <1>1, <1>2, <1>3, <1>4

\* The call that moves has no row yet, or keeps its key and has sent.
LEMMA RowsStayBacked ==
  ASSUME DeliveryInv, NEW d \in Deliveries, NEW c, Called(c),
         outbox' = [outbox EXCEPT ![d] = c], KeysKept, provider' \in Seq(Message),
         \/ outbox[d].pc \in {"start", "reserve"}
         \/ /\ c.o = outbox[d].o /\ c.channel = outbox[d].channel
            /\ c.pc \in {"mark", "answered", "lost"}
  PROVE  /\ \A r \in rows : /\ r.by \in Deliveries
                            /\ outbox'[r.by].pc \notin {"start", "reserve"}
                            /\ outbox'[r.by].channel \in ChannelNames
                            /\ r.key = KeyOf(r.by)'
         /\ \A key : SentBy(key) => SentBy(key)'
<1>1. /\ outbox'[d] = c
      /\ \A q \in Deliveries \ {d} : outbox'[q] = outbox[q] /\ KeyOf(q)' = KeyOf(q)
  BY OtherCallsKeep
<1>2. \A r \in rows : r.by \in Deliveries /\ RowInv(r)
  BY DEF DeliveryInv, DeliveryRow
<1>3. ASSUME NEW r \in rows
      PROVE  /\ outbox'[r.by].pc \notin {"start", "reserve"}
             /\ outbox'[r.by].channel \in ChannelNames
             /\ r.key = KeyOf(r.by)'
             /\ outbox[r.by].pc \in {"mark", "answered", "lost"} =>
                  outbox'[r.by].pc \in {"mark", "answered", "lost"}
  <2>1. CASE r.by # d
    BY <1>1, <1>2, <2>1 DEF RowInv
  <2>2. CASE r.by = d
    <3>1. /\ c.o = outbox[d].o /\ c.channel = outbox[d].channel
          /\ c.pc \in {"mark", "answered", "lost"}
      BY <1>2, <2>2 DEF RowInv
    <3>2. KeyOf(d)' = KeyOf(d)
      BY <1>1, <3>1 DEF KeyOf
    <3> QED
      BY <1>1, <1>2, <2>2, <3>1, <3>2 DEF RowInv
  <2> QED
    BY <2>1, <2>2
<1>4. ASSUME NEW key, SentBy(key)
      PROVE  SentBy(key)'
  <2>1. PICK r \in rows : r.key = key /\ outbox[r.by].pc \in {"mark", "answered", "lost"}
    BY <1>4 DEF SentBy
  <2>2. PICK s \in rows' : s.by = r.by /\ s.key = r.key
    BY DEF KeysKept
  <2> QED
    BY <1>3, <2>1, <2>2 DEF SentBy
<1> QED
  BY <1>2, <1>3, <1>4

\* The rows and the messages a step leaves alone.
LEMMA NothingMoved ==
  ASSUME DeliveryInv, rows' = rows, provider' = provider
  PROVE  KeysKept /\ provider' \in Seq(Message)
BY DEF DeliveryInv, KeysKept

\* Rows get another status or reference, the provider counts a callback, and
\* a call that was marking answers.
LEMMA RowsUpdated ==
  ASSUME DeliveryInv, outbox' = [q \in Deliveries |-> outbox'[q]], received' = received,
         \A q \in Deliveries :
           /\ Called(outbox'[q])
           /\ \/ outbox'[q] = outbox[q]
              \/ /\ outbox'[q].o = outbox[q].o /\ outbox'[q].channel = outbox[q].channel
                 /\ outbox[q].pc = "mark" /\ outbox'[q].pc = "answered",
         NEW upd, upd = [r \in rows |-> upd[r]], rows' = {upd[r] : r \in rows},
         \A r \in rows : /\ upd[r] \in DeliveryRow /\ upd[r].key = r.key /\ upd[r].by = r.by
                         /\ upd[r].ref \in 0..Len(provider),
         provider' \in Seq(Message), Len(provider') = Len(provider),
         \A i \in 1..Len(provider) : provider'[i].key = provider[i].key
  PROVE  DeliveryInv'
<1>1. \A q \in Deliveries : KeyOf(q)' = KeyOf(q)
  BY DEF KeyOf
<1>2. \A r \in rows : upd[r] \in rows' /\ r.by \in Deliveries /\ RowInv(r)
  BY DEF DeliveryInv, DeliveryRow
<1>3. \A q \in Deliveries : CallInv(q)'
  <2> TAKE q \in Deliveries
  <2>1. CallInv(q)
    BY DEF DeliveryInv
  <2>2. CASE outbox'[q] = outbox[q]
    <3>1. outbox[q].pc = "send" => \E r \in rows' : r.by = q /\ r.key = KeyOf(q)
      BY <1>2, <2>1 DEF CallInv
    <3>2. outbox[q].pc = "mark" /\ outbox[q].result = "accepted" =>
            \E i \in 1..Len(provider') : provider'[i].key = KeyOf(q)
      BY <2>1 DEF CallInv
    <3> QED
      BY <1>1, <2>1, <2>2, <3>1, <3>2 DEF CallInv
  <2>3. CASE /\ outbox'[q].o = outbox[q].o /\ outbox'[q].channel = outbox[q].channel
             /\ outbox[q].pc = "mark" /\ outbox'[q].pc = "answered"
    BY <2>1, <2>3 DEF CallInv
  <2> QED
    BY <2>2, <2>3
<1>4. \A s \in rows' : RowInv(s)'
  <2> TAKE s \in rows'
  <2>1. PICK r \in rows : s = upd[r]
    OBVIOUS
  <2>2. s.by = r.by /\ s.key = r.key /\ s.ref \in 0..Len(provider')
    BY <2>1
  <2>3. outbox'[s.by].pc \notin {"start", "reserve"} /\ outbox'[s.by].channel \in ChannelNames
    BY <1>2, <2>2 DEF RowInv
  <2> QED
    BY <1>1, <1>2, <2>2, <2>3 DEF RowInv
<1>5. \A r, s \in rows' : r.key = s.key => r.by = s.by
  <2> SUFFICES ASSUME NEW r \in rows, NEW s \in rows, upd[r].key = upd[s].key
               PROVE  upd[r].by = upd[s].by
    OBVIOUS
  <2>1. r.key = s.key
    OBVIOUS
  <2> QED
    BY <2>1 DEF DeliveryInv
<1>6. \A i \in 1..Len(received) : SentBy(received[i])'
  <2> TAKE i \in 1..Len(received)
  <2>1. PICK r \in rows : r.key = received[i] /\ outbox[r.by].pc \in {"mark", "answered", "lost"}
    BY DEF DeliveryInv, SentBy
  <2>2. upd[r] \in rows' /\ upd[r].key = received[i] /\ upd[r].by = r.by
        /\ outbox'[r.by].pc \in {"mark", "answered", "lost"}
    BY <1>2, <2>1
  <2> QED
    BY <2>2 DEF SentBy
<1>7. rows' \subseteq DeliveryRow
  OBVIOUS
<1> QED
  BY <1>3, <1>4, <1>5, <1>6, <1>7 DEF DeliveryInv, Called

LEMMA DeliveryPreserved == DeliveryInv /\ [DeliveryNext]_deliveryVars => DeliveryInv'
<1> SUFFICES ASSUME DeliveryInv, [DeliveryNext]_deliveryVars
             PROVE  DeliveryInv'
  OBVIOUS
<1>0. \A d \in Deliveries : Called(outbox[d]) /\ CallInv(d)
  BY DEF DeliveryInv, Called
<1>1. ASSUME NEW d \in Deliveries, NEW c, Called(c), outbox' = [outbox EXCEPT ![d] = c],
             rows' = rows, provider' = provider, received' = received,
             \/ outbox[d].pc \in {"start", "reserve"}
             \/ /\ c.o = outbox[d].o /\ c.channel = outbox[d].channel
                /\ c.pc \in {"mark", "answered", "lost"},
             CallInv(d)'
      PROVE  DeliveryInv'
  <2>1. KeysKept /\ provider' \in Seq(Message)
    BY <1>1, NothingMoved
  <2>2. /\ outbox' = [q \in Deliveries |-> outbox'[q]]
        /\ \A q \in Deliveries : Called(outbox'[q])
        /\ \A q \in Deliveries \ {d} : CallInv(q)'
    BY <1>1, <2>1, OtherCallsKeep
  <2>3. /\ \A r \in rows : /\ outbox'[r.by].pc \notin {"start", "reserve"}
                           /\ outbox'[r.by].channel \in ChannelNames
                           /\ r.key = KeyOf(r.by)'
        /\ \A key : SentBy(key) => SentBy(key)'
    BY <1>1, <2>1, RowsStayBacked
  <2>4. \A r \in rows : r.ref \in 0..Len(provider)
    BY DEF DeliveryInv, RowInv
  <2>5. \A r \in rows' : RowInv(r)'
    BY <1>1, <2>3, <2>4 DEF RowInv
  <2> QED
    BY <1>1, <2>2, <2>3, <2>5 DEF DeliveryInv, Called
<1>2. ASSUME NEW d \in Deliveries, NEW o \in Outputs, BeginDelivery(d, o)
      PROVE  DeliveryInv'
  <2> DEFINE verdict == CheckOutput(o)
  <2>1. PICK any : NoCall = [pc |-> "start", o |-> any, channel |-> "none",
                             result |-> "none", answer |-> "none"]
    BY DEF NoCall
  <2>2. outbox[d].pc = "start" /\ rows' = rows /\ provider' = provider /\ received' = received
    BY <1>2 DEF BeginDelivery
  <2>3. CASE verdict \in ChannelNames
    <3> DEFINE c == [NoCall EXCEPT !.pc = "reserve", !.o = o, !.channel = verdict]
    <3>1. outbox' = [outbox EXCEPT ![d] = c]
      BY <1>2, <2>3, TheChannels DEF BeginDelivery
    <3>2. MayShow(o, verdict)
      BY <2>3, CheckedOutput
    <3> HIDE DEF verdict
    <3>3. Called(c) /\ c.pc = "reserve" /\ c.o = o /\ c.channel = verdict
      BY <2>1, <2>3 DEF Called, CallPlaces
    <3> HIDE DEF c
    <3>4. outbox'[d] = c
      BY <3>1 DEF DeliveryInv
    <3>5. CallInv(d)'
      BY <2>3, <3>2, <3>3, <3>4 DEF CallInv
    <3> QED
      BY <1>1, <2>2, <3>1, <3>3, <3>5
  <2>4. CASE verdict \notin ChannelNames
    <3> DEFINE c == [NoCall EXCEPT !.pc = "answered", !.o = o, !.answer = verdict]
    <3>1. outbox' = [outbox EXCEPT ![d] = c]
      BY <1>2, <2>4, TheChannels DEF BeginDelivery
    <3> HIDE DEF verdict
    <3>2. Called(c) /\ c.pc = "answered" /\ c.channel = "none"
      BY <2>1 DEF Called, CallPlaces
    <3> HIDE DEF c
    <3>3. outbox'[d] = c
      BY <3>1 DEF DeliveryInv
    <3>4. CallInv(d)'
      BY <3>2, <3>3 DEF CallInv
    <3> QED
      BY <1>1, <2>2, <3>1, <3>2, <3>4
  <2> QED
    BY <2>3, <2>4
<1>3. ASSUME NEW d \in Deliveries, LoseDelivery(d)
      PROVE  DeliveryInv'
  <2> DEFINE c == [outbox[d] EXCEPT !.pc = "lost"]
  <2>1. outbox' = [outbox EXCEPT ![d] = c] /\ rows' = rows /\ provider' = provider
        /\ received' = received
    BY <1>3 DEF LoseDelivery
  <2>2. Called(c) /\ c.pc = "lost" /\ c.o = outbox[d].o /\ c.channel = outbox[d].channel
    BY <1>0 DEF Called, CallPlaces
  <2> HIDE DEF c
  <2>3. outbox'[d] = c
    BY <2>1 DEF DeliveryInv
  <2>4. CallInv(d)'
    BY <1>0, <2>2, <2>3 DEF CallInv
  <2> QED
    BY <1>1, <2>1, <2>2, <2>4
<1>4. ASSUME NEW d \in Deliveries, Reserve(d)
      PROVE  DeliveryInv'
  <2>1. outbox[d].pc = "reserve" /\ provider' = provider /\ received' = received
    BY <1>4 DEF Reserve
  <2>2. outbox[d].channel \in ChannelNames /\ MayShow(outbox[d].o, outbox[d].channel)
    BY <1>0, <2>1 DEF CallInv, ChannelNames
  <2>3. CASE RowsOf(KeyOf(d)) # {}
    <3> DEFINE c == [outbox[d] EXCEPT !.pc = "answered", !.answer = "duplicate_request"]
    <3>1. outbox' = [outbox EXCEPT ![d] = c] /\ rows' = rows
      BY <1>4, <2>3 DEF Reserve
    <3>2. Called(c) /\ c.pc = "answered" /\ c.o = outbox[d].o /\ c.channel = outbox[d].channel
      BY <1>0 DEF Called, CallPlaces
    <3> HIDE DEF c
    <3>3. outbox'[d] = c
      BY <3>1 DEF DeliveryInv
    <3>4. CallInv(d)'
      BY <1>0, <3>2, <3>3 DEF CallInv
    <3> QED
      BY <1>1, <2>1, <3>1, <3>2, <3>4
  <2>4. CASE RowsOf(KeyOf(d)) = {}
    <3> DEFINE c == [outbox[d] EXCEPT !.pc = "send"]
    <3> PICK row : row = [key |-> KeyOf(d), status |-> "queued", ref |-> 0, by |-> d]
      OBVIOUS
    <3>1. outbox' = [outbox EXCEPT ![d] = c] /\ rows' = rows \union {row}
      BY <1>4, <2>4 DEF Reserve
    <3>2. Called(c) /\ c.pc = "send" /\ c.o = outbox[d].o /\ c.channel = outbox[d].channel
      BY <1>0 DEF Called, CallPlaces
    <3>3. KeyOf(d) \in AnyKey
      BY <2>2 DEF KeyOf, AnyKey, MayShow
    <3>4. row \in DeliveryRow /\ row.key = KeyOf(d) /\ row.by = d /\ row.ref = 0
      BY <3>3 DEF DeliveryRow, Statuses
    <3>5. \A r \in rows : r.key # KeyOf(d)
      BY <2>4 DEF RowsOf
    <3> HIDE DEF c
    <3>6. KeysKept /\ provider' \in Seq(Message)
      BY <2>1, <3>1 DEF KeysKept, DeliveryInv
    <3>7. /\ outbox' = [q \in Deliveries |-> outbox'[q]]
          /\ \A q \in Deliveries : Called(outbox'[q])
          /\ outbox'[d] = c
          /\ \A q \in Deliveries \ {d} : CallInv(q)'
      BY <3>1, <3>2, <3>6, OtherCallsKeep
    <3>8. /\ \A r \in rows : /\ outbox'[r.by].pc \notin {"start", "reserve"}
                             /\ outbox'[r.by].channel \in ChannelNames
                             /\ r.key = KeyOf(r.by)'
          /\ \A key : SentBy(key) => SentBy(key)'
      BY <2>1, <3>1, <3>2, <3>6, RowsStayBacked
    <3>9. KeyOf(d)' = KeyOf(d)
      BY <3>2, <3>7 DEF KeyOf
    <3>10. CallInv(d)'
      BY <2>2, <3>1, <3>2, <3>4, <3>7, <3>9 DEF CallInv
    <3>11. \A r \in rows' : RowInv(r)'
      <4>1. RowInv(row)'
        BY <2>1, <2>2, <3>2, <3>4, <3>7, <3>9 DEF RowInv, DeliveryInv
      <4>2. \A r \in rows : r.ref \in 0..Len(provider)
        BY DEF RowInv, DeliveryInv
      <4>3. \A r \in rows : RowInv(r)'
        BY <2>1, <3>8, <4>2 DEF RowInv
      <4> QED
        BY <3>1, <4>1, <4>3
    <3>12. \A r, s \in rows' : r.key = s.key => r.by = s.by
      BY <3>1, <3>4, <3>5 DEF DeliveryInv
    <3>13. rows' \subseteq DeliveryRow
      BY <3>1, <3>4 DEF DeliveryInv
    <3>14. \A q \in Deliveries : CallInv(q)'
      BY <3>7, <3>10
    <3> QED
      BY <2>1, <3>6, <3>7, <3>8, <3>11, <3>12, <3>13, <3>14 DEF DeliveryInv, Called
  <2> QED
    BY <2>3, <2>4
<1>5. ASSUME NEW d \in Deliveries, Send(d)
      PROVE  DeliveryInv'
  <2> DEFINE key == KeyOf(d)
  <2>1. outbox[d].pc = "send" /\ rows' = rows
    BY <1>5 DEF Send
  <2>2. outbox[d].channel \in ChannelNames /\ MayShow(outbox[d].o, outbox[d].channel)
        /\ \E r \in rows : r.by = d /\ r.key = key
    BY <1>0, <2>1 DEF CallInv, ChannelNames
  <2>3. key \in AnyKey
    BY <2>2 DEF KeyOf, AnyKey, MayShow
  <2>4. ASSUME outbox' = [outbox EXCEPT ![d].pc = "mark", ![d].result = "failed"],
               provider' = provider, received' = received
        PROVE  DeliveryInv'
    <3> DEFINE c == [outbox[d] EXCEPT !.pc = "mark", !.result = "failed"]
    <3>1. outbox' = [outbox EXCEPT ![d] = c]
      BY <2>4 DEF DeliveryInv
    <3>2. Called(c) /\ c.pc = "mark" /\ c.result = "failed"
          /\ c.o = outbox[d].o /\ c.channel = outbox[d].channel
      BY <1>0 DEF Called, CallPlaces
    <3> HIDE DEF c
    <3>3. outbox'[d] = c
      BY <3>1 DEF DeliveryInv
    <3>4. CallInv(d)'
      BY <2>2, <3>2, <3>3 DEF CallInv
    <3> QED
      BY <1>1, <2>1, <2>4, <3>1, <3>2, <3>4
  <2>5. ASSUME NEW result \in {"accepted", "failed"},
               outbox' = [outbox EXCEPT ![d].pc = "mark", ![d].result = result],
               provider' = Append(provider, [key |-> key, told |-> 0]),
               received' = Append(received, key)
        PROVE  DeliveryInv'
    <3> DEFINE c == [outbox[d] EXCEPT !.pc = "mark", !.result = result]
               message == [key |-> key, told |-> 0]
    <3>1. outbox' = [outbox EXCEPT ![d] = c] /\ provider' = Append(provider, message)
      BY <2>5 DEF DeliveryInv
    <3>2. Called(c) /\ c.pc = "mark" /\ c.result = result
          /\ c.o = outbox[d].o /\ c.channel = outbox[d].channel
      BY <1>0 DEF Called, CallPlaces
    <3>3. message \in Message /\ message.key = key
      BY <2>3 DEF Message
    <3>4. \A i \in 1..Len(received) : received[i] # key
      <4> SUFFICES ASSUME NEW i \in 1..Len(received), received[i] = key
                   PROVE  FALSE
        OBVIOUS
      <4>1. PICK r \in rows : r.key = key /\ outbox[r.by].pc \in {"mark", "answered", "lost"}
        BY DEF DeliveryInv, SentBy
      <4>2. PICK s \in rows : s.by = d /\ s.key = key
        BY <2>2
      <4>3. r.by = d
        BY <4>1, <4>2 DEF DeliveryInv
      <4> QED
        BY <2>1, <4>1, <4>3
    <3> HIDE DEF c, message, key
    <3>5. /\ provider' \in Seq(Message) /\ Len(provider') = Len(provider) + 1
          /\ \A i \in 1..Len(provider) : provider'[i] = provider[i]
          /\ provider'[Len(provider) + 1] = message /\ Len(provider) \in Nat
      BY <3>1, <3>3 DEF DeliveryInv
    <3>6. /\ received' \in Seq(AnyKey) /\ Len(received') = Len(received) + 1
          /\ \A i \in 1..Len(received) : received'[i] = received[i]
          /\ received'[Len(received) + 1] = key /\ Len(received) \in Nat
      BY <2>3, <2>5 DEF DeliveryInv
    <3>7. KeysKept /\ provider' \in Seq(Message)
      BY <2>1, <3>5 DEF KeysKept
    <3>8. /\ outbox' = [q \in Deliveries |-> outbox'[q]]
          /\ \A q \in Deliveries : Called(outbox'[q])
          /\ outbox'[d] = c
          /\ \A q \in Deliveries \ {d} : CallInv(q)'
      BY <3>1, <3>2, <3>7, OtherCallsKeep
    <3>9. /\ \A r \in rows : /\ outbox'[r.by].pc \notin {"start", "reserve"}
                             /\ outbox'[r.by].channel \in ChannelNames
                             /\ r.key = KeyOf(r.by)'
          /\ \A k : SentBy(k) => SentBy(k)'
      BY <3>1, <3>2, <3>7, RowsStayBacked
    <3>10. KeyOf(d)' = key
      BY <3>2, <3>8 DEF KeyOf, key
    <3>11. CallInv(d)'
      <4>1. Len(provider) + 1 \in 1..Len(provider') /\ provider'[Len(provider) + 1].key = KeyOf(d)'
        BY <3>3, <3>5, <3>10
      <4> QED
        BY <2>2, <3>2, <3>8, <4>1 DEF CallInv
    <3>12. \A r \in rows' : RowInv(r)'
      <4>1. \A r \in rows : r.ref \in 0..Len(provider')
        BY <3>5 DEF RowInv, DeliveryInv
      <4> QED
        BY <2>1, <3>9, <4>1 DEF RowInv
    <3>13. ASSUME NEW i \in 1..Len(received')
           PROVE  SentBy(received[i])'
      <4>1. PICK k : k = received'[i]
        OBVIOUS
      <4>2. CASE i \in 1..Len(received)
        <5>1. SentBy(k)
          BY <3>6, <4>1, <4>2 DEF DeliveryInv, SentBy
        <5>2. SentBy(k)'
          BY <3>9, <5>1
        <5> QED
          BY <4>1, <5>2 DEF SentBy
      <4>3. CASE i = Len(received) + 1
        <5>1. PICK r \in rows : r.by = d /\ r.key = key
          BY <2>2
        <5>2. r \in rows' /\ outbox'[r.by].pc = "mark" /\ r.key = received'[i]
          BY <2>1, <3>2, <3>6, <3>8, <4>3, <5>1
        <5> QED
          BY <5>2 DEF SentBy
      <4> QED
        BY <3>6, <4>2, <4>3
    <3>14. \A i, j \in 1..Len(received') : received'[i] = received'[j] => i = j
      BY <3>4, <3>6 DEF DeliveryInv
    <3>15. \A q \in Deliveries : CallInv(q)'
      BY <3>8, <3>11
    <3> QED
      BY <2>1, <3>5, <3>6, <3>8, <3>12, <3>13, <3>14, <3>15 DEF DeliveryInv, Called
  <2> QED
    BY <1>5, <2>4, <2>5 DEF Send
<1>6. ASSUME NEW d \in Deliveries, Mark(d)
      PROVE  DeliveryInv'
  <2> DEFINE result == outbox[d].result
             ref == IF result = "accepted" THEN ReferenceOf(d) ELSE 0
             c   == [outbox[d] EXCEPT !.pc = "answered", !.answer = result]
             upd == [r \in rows |-> IF r.by = d THEN [r EXCEPT !.status = result, !.ref = ref] ELSE r]
  <2>1. outbox[d].pc = "mark" /\ result \in {"accepted", "failed"} /\ CallInv(d)
    BY <1>0, <1>6 DEF Mark, CallInv, Called
  <2>2. ref \in 0..Len(provider)
    <3>1. CASE result = "accepted"
      <4>1. \E i \in 1..Len(provider) : provider[i].key = KeyOf(d)
        BY <2>1, <3>1 DEF CallInv
      <4>2. ReferenceOf(d) \in 1..Len(provider)
        BY <4>1 DEF ReferenceOf
      <4> QED
        BY <3>1, <4>2
    <3>2. CASE result # "accepted"
      BY <3>2 DEF DeliveryInv
    <3> QED
      BY <3>1, <3>2
  <2>3. /\ rows' = {upd[r] : r \in rows} /\ outbox' = [outbox EXCEPT ![d] = c]
        /\ received' = received /\ provider' = provider
    <3>1. rows' = {upd[r] : r \in rows}
      BY <1>6 DEF Mark
    <3>2. outbox' = [outbox EXCEPT ![d] = c]
      BY <1>6 DEF Mark, DeliveryInv
    <3> QED
      BY <1>6, <3>1, <3>2 DEF Mark
  <2>4. upd = [r \in rows |-> upd[r]]
    OBVIOUS
  <2>5. Called(c) /\ c.pc = "answered" /\ c.o = outbox[d].o /\ c.channel = outbox[d].channel
    BY <1>0 DEF Called, CallPlaces
  <2> HIDE DEF c, ref
  <2>6. ASSUME NEW r \in rows
        PROVE  /\ upd[r] \in DeliveryRow /\ upd[r].key = r.key /\ upd[r].by = r.by
               /\ upd[r].ref \in 0..Len(provider)
    <3>1. r \in DeliveryRow /\ r.ref \in 0..Len(provider)
      BY DEF DeliveryInv, RowInv
    <3>2. ref \in Nat /\ result \in Statuses
      BY <2>1, <2>2 DEF Statuses
    <3> HIDE DEF result
    <3> QED
      BY <2>2, <3>1, <3>2 DEF DeliveryRow
  <2> HIDE DEF result, upd
  <2>7. outbox' = [q \in Deliveries |-> outbox'[q]] /\ outbox'[d] = c
        /\ \A q \in Deliveries \ {d} : outbox'[q] = outbox[q]
    BY <2>3 DEF DeliveryInv
  <2>8. ASSUME NEW q \in Deliveries
        PROVE  /\ Called(outbox'[q])
               /\ \/ outbox'[q] = outbox[q]
                  \/ /\ outbox'[q].o = outbox[q].o /\ outbox'[q].channel = outbox[q].channel
                     /\ outbox[q].pc = "mark" /\ outbox'[q].pc = "answered"
    BY <1>0, <2>1, <2>5, <2>7
  <2>9. provider' \in Seq(Message) /\ Len(provider') = Len(provider)
        /\ \A k \in 1..Len(provider) : provider'[k].key = provider[k].key
    BY <2>3 DEF DeliveryInv
  <2> QED
    BY <2>3, <2>4, <2>6, <2>7, <2>8, <2>9, RowsUpdated
<1>7. ASSUME NEW i \in 1..Len(provider), NEW status \in {"delivered", "read", "failed", "expired"},
             RecordStatus(i, status)
      PROVE  DeliveryInv'
  <2> DEFINE upd == [r \in rows |-> IF r.ref = i THEN [r EXCEPT !.status = status] ELSE r]
  <2>1. rows' = {upd[r] : r \in rows} /\ UNCHANGED <<outbox, received>>
    BY <1>7 DEF RecordStatus
  <2>2. \A r \in rows : /\ upd[r] \in DeliveryRow /\ upd[r].key = r.key /\ upd[r].by = r.by
                        /\ upd[r].ref = r.ref
    BY DEF DeliveryInv, DeliveryRow, Statuses
  <2>3. upd = [r \in rows |-> upd[r]]
    OBVIOUS
  <2> HIDE DEF upd
  <2>4. provider' \in Seq(Message) /\ Len(provider') = Len(provider)
        /\ \A k \in 1..Len(provider) : provider'[k].key = provider[k].key
    <3>1. provider[i] \in Message
      BY DEF DeliveryInv
    <3>2. PICK told \in Nat : provider' = [provider EXCEPT ![i].told = told]
      <4>1. provider[i].told + 1 \in Nat
        BY <3>1 DEF Message
      <4>2. provider' = [provider EXCEPT ![i].told = provider[i].told + 1]
        BY <1>7 DEF RecordStatus
      <4> QED
        BY <4>1, <4>2
    <3> DEFINE m == [provider[i] EXCEPT !.told = told]
    <3>3. m \in Message /\ m.key = provider[i].key
      BY <3>1, <3>2 DEF Message
    <3>4. provider' = [provider EXCEPT ![i] = m] /\ provider \in Seq(Message)
      BY <3>2 DEF DeliveryInv
    <3> HIDE DEF m
    <3> QED
      BY <3>3, <3>4
  <2>5. /\ outbox' = [q \in Deliveries |-> outbox'[q]]
        /\ \A q \in Deliveries : Called(outbox'[q])
    BY <1>0, <2>1 DEF DeliveryInv
  <2>6. \A r \in rows : upd[r].ref \in 0..Len(provider)
    BY <2>2 DEF DeliveryInv, RowInv
  <2> QED
    BY <2>1, <2>2, <2>3, <2>4, <2>5, <2>6, RowsUpdated
<1>8. CASE UNCHANGED deliveryVars
  BY <1>8
  DEF deliveryVars, DeliveryInv, CallInv, RowInv, SentBy, KeyOf
<1> QED
  BY <1>2, <1>3, <1>4, <1>5, <1>6, <1>7, <1>8 DEF DeliveryNext

\* The delivery's state is well formed.
THEOREM DeliveryIsTyped == DeliverySpec => []DeliveryTypeOK
<1>1. DeliveryInv => DeliveryTypeOK
  BY TheChannels DEF DeliveryInv, DeliveryTypeOK, DeliveryRow, RowInv, Statuses
<1> QED
  BY <1>1, DeliveryInitially, DeliveryPreserved, PTL DEF DeliverySpec

\* A recipient gets an output once per channel and attempt group, with a row
\* for it and nothing its channel may not show, for any number of calls.
THEOREM NothingArrivesTwice == DeliverySpec => []OutputReceivedOnce
<1>1. DeliveryInv => OutputReceivedOnce
  <2> SUFFICES ASSUME DeliveryInv, NEW i \in 1..Len(received)
               PROVE  \E r \in RowsOf(received[i]) :
                        /\ outbox[r.by].o.decided
                        /\ CanRenderPayload(outbox[r.by].o.classes, outbox[r.by].channel)
    BY DEF OutputReceivedOnce, DeliveryInv
  <2>1. PICK r \in rows : r.key = received[i]
    BY DEF DeliveryInv, SentBy
  <2>2. r.by \in Deliveries /\ outbox[r.by].channel \in ChannelNames
    BY DEF DeliveryInv, DeliveryRow, RowInv
  <2>3. MayShow(outbox[r.by].o, outbox[r.by].channel)
    BY <2>2 DEF DeliveryInv, CallInv, ChannelNames
  <2> QED
    BY <2>1, <2>3 DEF MayShow, RowsOf
<1> QED
  BY <1>1, DeliveryInitially, DeliveryPreserved, PTL DEF DeliverySpec

=============================================================================
