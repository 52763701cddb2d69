------------------------------- MODULE Intake -------------------------------
(***************************************************************************)
(* What comes in (packages/intake admission.ts and classifier.ts, the      *)
(* webhook and chat routes of apps/api server.ts, the dedupe key of        *)
(* packages/core hash.ts).  A provider redelivers a webhook until it is    *)
(* answered with a status it takes as final.  The handler claims the       *)
(* message's key, decides, writes the audit event in a transaction of its  *)
(* own and answers; it may be lost between any two of these.               *)
(***************************************************************************)
EXTENDS Integers, FiniteSets, Sequences

CONSTANTS Webhooks,     \* runs of the webhook handler
          Messages,     \* what providers send: see MessageShape
          ChatTexts,    \* what people write in the chat: see TextShape
          InScope,      \* the processes switched on
          Production    \* deployEnvironment is prod

Channels == {"email", "chat", "telegram", "whatsapp"}

\* A provider's message.  Two may share a transport id.
MessageShape ==
  [channel : Channels, id : STRING, content : STRING, loop : BOOLEAN, external : BOOLEAN,
   oversized : BOOLEAN, replayed : BOOLEAN, late : BOOLEAN, dmarc : {"pass", "fail"},
   member : BOOLEAN]

\* A chat message: the signal patterns it matches, in the text alone.
TextShape ==
  [empty : BOOLEAN, callback : BOOLEAN, signals : SUBSET {"status", "feedback", "execute",
   "prepare", "question"}, processes : SUBSET (1..8), claims : BOOLEAN]

ASSUME IntakeConstants ==
  /\ Messages # {}
  /\ \A m \in Messages : DOMAIN m = {"channel", "id", "content", "loop", "external", "oversized",
                                     "replayed", "late", "dmarc", "member"} /\ m.channel \in Channels
  /\ \A t \in ChatTexts : t.processes \subseteq 1..8 /\ t.signals \subseteq
       {"status", "feedback", "execute", "prepare", "question"}
  /\ Production \in BOOLEAN

VARIABLES claims,     \* idempotency_records of family inbound_dedupe
          hooks,      \* each handler: its place, its message, its answer
          settled,    \* messages whose provider has stopped
          intakeLog   \* audit events of requests, in order

intakeVars == <<claims, hooks, settled, intakeLog>>

Bug_KeyById(m) == <<m.channel, m.id>>
\* inboundDedupeKey: the content hash too, so that a provider that uses an id
\* for another message does not have it swallowed.
DedupeKey(m) == <<m.channel, m.id, m.content>>

\* evaluateAdmission: the first reason that applies.  The handler itself
\* passes no skew, no flag and no sender: they are FALSE there.
Admission(verified, m) ==
  IF ~verified THEN "signature_invalid"
  ELSE IF m.late \/ m.replayed THEN "replay_window_exceeded"
  ELSE IF m.loop THEN "loop_detected"
  ELSE IF m.oversized THEN "payload_too_large"
  ELSE IF m.channel = "email" /\ m.external /\ m.dmarc = "fail" THEN "authentication_failed"
  ELSE IF m.channel = "email" /\ m.external /\ ~m.member THEN "sender_unknown"
  ELSE "admitted"

\* What the route knows of a message when it asks: its size, nothing else.
AsRouted(m) == [m EXCEPT !.late = FALSE, !.replayed = FALSE, !.loop = FALSE, !.external = FALSE]

\* deriveConversationKey: an unbound sender gets a conversation per message.
ConversationKey(principal, thread, channel, id) ==
  IF principal = "none" THEN <<channel, id>>
  ELSE <<principal, IF thread = "none" THEN id ELSE thread>>

-----------------------------------------------------------------------------
(* classify.                                                               *)

FamilyOrder == <<"status", "feedback", "execute", "prepare", "question">>

\* The first signal in this order, the strongest effect after the two kinds
\* of message that ask for none.
Family(t) ==
  IF t.signals = {} THEN "unclear"
  ELSE LET i == CHOOSE i \in 1..5 : FamilyOrder[i] \in t.signals
                                    /\ \A j \in 1..(i - 1) : FamilyOrder[j] \notin t.signals
       IN  FamilyOrder[i]

\* The first process whose vocabulary occurs; 0 for none.
ProcessHint(t) ==
  IF t.processes = {} THEN 0 ELSE CHOOSE p \in t.processes : \A q \in t.processes : p <= q

Classify(t) ==
  LET family  == Family(t)
      process == ProcessHint(t)
  IN  IF t.callback
      THEN [family |-> "approval_response", process |-> 0, confidence |-> "high", claims |-> FALSE]
      ELSE IF t.empty
      THEN [family |-> "unclear", process |-> process, confidence |-> "high", claims |-> t.claims]
      ELSE IF family \in {"prepare", "execute"} /\ process # 0 /\ process \notin InScope
      THEN [family |-> "out_of_scope", process |-> process, confidence |-> "high", claims |-> t.claims]
      ELSE [family |-> family, process |-> process, claims |-> t.claims,
            confidence |-> IF family = "unclear" THEN "low"
                           ELSE IF process = 0 /\ family # "question" THEN "medium" ELSE "high"]

-----------------------------------------------------------------------------
(* The routes.                                                             *)

NoMessage == [pc |-> "start", m |-> CHOOSE m \in Messages : TRUE, answer |-> "none", original |-> 0]

IntakeInit ==
  /\ claims = <<>> /\ settled = {} /\ intakeLog = <<>>
  /\ hooks = [w \in Webhooks |-> NoMessage]

\* The provider delivers a message it has no final answer for.
Deliver(w, m) ==
  /\ hooks[w].pc = "start" /\ m \notin settled /\ m.channel # "chat"
  /\ hooks' = [hooks EXCEPT ![w] = [NoMessage EXCEPT !.pc = "claim", !.m = m]]
  /\ UNCHANGED <<claims, settled, intakeLog>>

ClaimsOf(key) == {i \in 1..Len(claims) : claims[i].key = key}

\* checkDuplicate: INSERT ... ON CONFLICT DO NOTHING, or the original's id.
CheckDuplicate(w) ==
  LET key == DedupeKey(hooks[w].m)
  IN  /\ hooks[w].pc = "claim"
      /\ IF ClaimsOf(key) = {}
         THEN /\ claims' = Append(claims, [key |-> key, by |-> w])
              /\ hooks' = [hooks EXCEPT ![w].pc = "emit",
                                        ![w].answer = Admission(~Production, AsRouted(hooks[w].m))]
         ELSE /\ hooks' = [hooks EXCEPT ![w].pc = "reply", ![w].answer = "duplicate",
                                        ![w].original = CHOOSE i \in ClaimsOf(key) : TRUE]
              /\ UNCHANGED claims
      /\ UNCHANGED <<settled, intakeLog>>

\* emitter('C1').emit: request.admitted or request.rejected.
EmitDecision(w) ==
  /\ hooks[w].pc = "emit"
  /\ intakeLog' = Append(intakeLog, [of |-> w, event |-> hooks[w].answer])
  /\ hooks' = [hooks EXCEPT ![w].pc = "reply"]
  /\ UNCHANGED <<claims, settled>>

\* 200, 202 or 409: final for the provider.  Nothing is enqueued.
Reply(w) ==
  /\ hooks[w].pc = "reply"
  /\ hooks' = [hooks EXCEPT ![w].pc = "replied"]
  /\ settled' = settled \union {hooks[w].m}
  /\ UNCHANGED <<claims, intakeLog>>

\* The audit write fails, the process stops or the answer is lost.
LoseHook(w) ==
  /\ hooks[w].pc \in {"claim", "emit", "reply"}
  /\ hooks' = [hooks EXCEPT ![w].pc = "lost"]
  /\ UNCHANGED <<claims, settled, intakeLog>>

\* POST /v1/chat/messages classifies and records; it has no deduplication.
ChatMessage(w, t) ==
  /\ hooks[w].pc = "start"
  /\ intakeLog' = Append(intakeLog, [of |-> w, event |-> Classify(t).family])
  /\ hooks' = [hooks EXCEPT ![w].pc = "replied", ![w].answer = "classified"]
  /\ UNCHANGED <<claims, settled>>

IntakeNext ==
  \E w \in Webhooks :
    \/ \E m \in Messages : Deliver(w, m)
    \/ CheckDuplicate(w) \/ EmitDecision(w) \/ Reply(w) \/ LoseHook(w)
    \/ \E t \in ChatTexts : ChatMessage(w, t)

IntakeSpec == IntakeInit /\ [][IntakeNext]_intakeVars

-----------------------------------------------------------------------------
(* Properties.                                                             *)

IntakeTypeOK ==
  /\ claims \in Seq([key : {DedupeKey(m) : m \in Messages}, by : Webhooks])
  /\ \A w \in Webhooks : hooks[w].original \in 0..Len(claims) /\ hooks[w].m \in Messages
  /\ settled \subseteq Messages

\* "a duplicate webhook returns 409 with the ORIGINAL request_id": whatever
\* overlaps, a handler told it is a duplicate is told the request of another
\* that came first with this very content, and a message is decided once.
SameMessage(m, n) == m.channel = n.channel /\ m.id = n.id /\ m.content = n.content
DuplicateNamesItsOriginal ==
  \A w \in Webhooks :
    /\ hooks[w].original # 0 =>
         LET v == claims[hooks[w].original].by IN v # w /\ SameMessage(hooks[v].m, hooks[w].m)
    /\ \A v \in Webhooks \ {w} : ({hooks[v].answer, hooks[w].answer}
         \intersect {"none", "duplicate", "classified"} = {}) => ~SameMessage(hooks[v].m, hooks[w].m)
=============================================================================
