------------------------------ MODULE Delivery ------------------------------
(***************************************************************************)
(* What goes out (packages/delivery service.ts, the channel capabilities   *)
(* and router of packages/channels, the data classes of packages/core      *)
(* sensitivity.ts, the status route, table deliveries of migration 0007).  *)
(* A delivery is refused, or reserved under its key, sent and marked, each *)
(* of the last three on its own; the provider's callbacks come when they   *)
(* come and are applied as they come.                                      *)
(***************************************************************************)
EXTENDS Integers, FiniteSets, Sequences, SequencesExt

CONSTANTS Deliveries,  \* calls of deliver
          Outputs,     \* what they deliver: see CheckOutput
          MaxCallbacks \* bound: callbacks a provider sends for a message

TierRank == [public |-> 0, internal |-> 1, confidential |-> 2, restricted |-> 3]

\* The data-class register D01..D22.
Tier(class) ==
  CASE class \in 1..2 -> "public" [] class \in 3..5 -> "internal"
    [] class \in 6..12 -> "confidential" [] OTHER -> "restricted"

Mode(class, channel) ==
  CASE class = 18 -> "never"
    [] class \in 1..2 -> "allow"
    [] class \in 3..5 -> IF channel = "whatsapp" THEN "pointer_only" ELSE "allow"
    [] class \in (6..12) \union {21} /\ channel \in {"email", "chat"} -> "allow"
    [] class \in {13, 14, 20} /\ channel \in {"email", "chat"} ->
         IF channel = "email" THEN "conditional" ELSE "step_up"
    [] class = 15 /\ channel = "chat" -> "masked"
    [] class \in {16, 19, 22} /\ channel = "chat" -> "step_up"
    [] class = 17 -> IF channel \in {"email", "chat"} THEN "minimised" ELSE "self_only"
    [] OTHER -> "deny"

\* canRender, canRenderPayload: an unknown class (0) is denied everywhere.
CanRender(class, channel) == class # 0 /\ Mode(class, channel) \notin {"never", "deny"}
CanRenderPayload(classes, channel) == \A c \in classes : CanRender(c, channel)

\* ALL_CAPABILITIES, in its order, what the checks look at.
Capabilities ==
  [chat     |-> [ceiling |-> "restricted",   chars |-> 500000, bundle |-> TRUE],
   email    |-> [ceiling |-> "confidential", chars |-> 100000, bundle |-> TRUE],
   telegram |-> [ceiling |-> "internal",     chars |-> 4096,   bundle |-> FALSE],
   whatsapp |-> [ceiling |-> "internal",     chars |-> 4096,   bundle |-> FALSE]]
AllChannels == <<"chat", "email", "telegram", "whatsapp">>

\* checkCapability for what deliver asks: not proactive, no session age, and
\* attachments every channel carries up to a size.
Carries(channel, o, length) ==
  /\ TierRank[o.sensitivity] <= TierRank[Capabilities[channel].ceiling]
  /\ o.bundle => Capabilities[channel].bundle
  /\ length <= Capabilities[channel].chars

\* selectChannel: the preferred channels first, the rest in register order;
\* the router asks before rendering, with an empty body.
Ordered(preference) ==
  preference \o SelectSeq(AllChannels, LAMBDA c : ~Contains(preference, c))
Candidates(o) == SelectSeq(Ordered(o.preference), LAMBDA c : Carries(c, o, 0))

\* validateResponseContract: the elements that are missing.
MissingElements(o) ==
  {e \in {"answer", "status", "exclusions", "next"} : e \notin o.parts}
    \union (IF o.refusal \/ {"citations", "records"} \intersect o.parts # {} THEN {} ELSE {"basis"})

\* #deliver up to the reservation: what refuses it, or the channel.
CheckOutput(o) ==
  IF ~o.decided THEN "authority_insufficient"
  ELSE IF MissingElements(o) # {} THEN "unprocessable_content"
  ELSE IF Candidates(o) = <<>> THEN "sensitivity_ceiling"
  ELSE LET c == Head(Candidates(o))
       IN  IF ~CanRenderPayload(o.classes, c) THEN "sensitivity_ceiling"
           ELSE IF ~Carries(c, o, o.length) THEN "sensitivity_ceiling"
           ELSE c

\* deliveryIdempotencyKey.
DeliveryKey(o, channel) == <<o.graph, o.class, o.recipient, channel, o.group>>

ASSUME DeliveryConstants == MaxCallbacks \in Nat

VARIABLES rows,      \* deliveries: a row per key
          outbox,    \* each call: its place, output, channel, answer
          provider,  \* messages a provider has taken, in order, with callbacks to come
          received   \* what recipients have: keys, in order

deliveryVars == <<rows, outbox, provider, received>>

NoCall == [pc |-> "start", o |-> CHOOSE o \in Outputs : TRUE, channel |-> "none",
           result |-> "none", answer |-> "none"]

DeliveryInit ==
  /\ rows = {} /\ provider = <<>> /\ received = <<>>
  /\ outbox = [d \in Deliveries |-> NoCall]

KeyOf(d) == DeliveryKey(outbox[d].o, outbox[d].channel)
RowsOf(key) == {r \in rows : r.key = key}

\* Checks 1 to 4.
BeginDelivery(d, o) ==
  /\ outbox[d].pc = "start"
  /\ LET verdict == CheckOutput(o)
     IN  outbox' = [outbox EXCEPT ![d] = IF verdict \in Range(AllChannels)
           THEN [NoCall EXCEPT !.pc = "reserve", !.o = o, !.channel = verdict]
           ELSE [NoCall EXCEPT !.pc = "answered", !.o = o, !.answer = verdict]]
  /\ UNCHANGED <<rows, provider, received>>

Bug_ReserveAnyway(d) ==
  /\ outbox[d].pc = "reserve"
  /\ rows' = {r \in rows : r.key # KeyOf(d)}
             \union {[key |-> KeyOf(d), status |-> "queued", ref |-> 0, by |-> d]}
  /\ outbox' = [outbox EXCEPT ![d].pc = "send"]
  /\ UNCHANGED <<provider, received>>

\* #reserve: deliveries_idempotency_idx lets one call through.
Reserve(d) ==
  /\ outbox[d].pc = "reserve"
  /\ IF RowsOf(KeyOf(d)) = {}
     THEN /\ rows' = rows \union {[key |-> KeyOf(d), status |-> "queued", ref |-> 0, by |-> d]}
          /\ outbox' = [outbox EXCEPT ![d].pc = "send"]
     ELSE /\ outbox' = [outbox EXCEPT ![d].pc = "answered", ![d].answer = "duplicate_request"]
          /\ UNCHANGED rows
  /\ UNCHANGED <<provider, received>>

\* adapter.send: the provider takes the message and will tell of it, or
\* rejects it, or takes it and its answer is lost.
Send(d) ==
  /\ outbox[d].pc = "send"
  /\ \/ /\ provider' = Append(provider, [key |-> KeyOf(d), told |-> 0])
        /\ received' = Append(received, KeyOf(d))
        /\ \E result \in {"accepted", "failed"} :
             outbox' = [outbox EXCEPT ![d].pc = "mark", ![d].result = result]
     \/ /\ outbox' = [outbox EXCEPT ![d].pc = "mark", ![d].result = "failed"]
        /\ UNCHANGED <<provider, received>>
  /\ UNCHANGED rows

\* The reference the provider gave: the message's number.
ReferenceOf(d) == CHOOSE i \in 1..Len(provider) : provider[i].key = KeyOf(d)

\* #updateStatus, then the answer.  A failure clears the reference.
Mark(d) ==
  /\ outbox[d].pc = "mark"
  /\ LET result == outbox[d].result
     IN  /\ rows' = {IF r.by = d
                     THEN [r EXCEPT !.status = result,
                                    !.ref = IF result = "accepted" THEN ReferenceOf(d) ELSE 0]
                     ELSE r : r \in rows}
         /\ outbox' = [outbox EXCEPT ![d].pc = "answered", ![d].answer = result]
  /\ UNCHANGED <<provider, received>>

\* The process stops.
LoseDelivery(d) ==
  /\ outbox[d].pc \in {"reserve", "send", "mark"}
  /\ outbox' = [outbox EXCEPT ![d].pc = "lost"]
  /\ UNCHANGED <<rows, provider, received>>

\* POST /v1/channels/:channel/status, recordStatus: by the reference, in any
\* order, whatever the row says now; a reference no row has changes nothing.
RecordStatus(i, status) ==
  /\ provider[i].told < MaxCallbacks
  /\ provider' = [provider EXCEPT ![i].told = @ + 1]
  /\ rows' = {IF r.ref = i THEN [r EXCEPT !.status = status] ELSE r : r \in rows}
  /\ UNCHANGED <<outbox, received>>

DeliveryNext ==
  \/ \E d \in Deliveries :
       \/ \E o \in Outputs : BeginDelivery(d, o)
       \/ Reserve(d) \/ Send(d) \/ Mark(d) \/ LoseDelivery(d)
  \/ \E i \in 1..Len(provider), status \in {"delivered", "read", "failed", "expired"} :
       RecordStatus(i, status)

DeliverySpec == DeliveryInit /\ [][DeliveryNext]_deliveryVars

-----------------------------------------------------------------------------
(* Properties.                                                             *)

DeliveryTypeOK ==
  /\ \A r \in rows : /\ r.status \in {"queued", "accepted", "delivered", "read", "failed", "expired"}
                     /\ r.by \in Deliveries /\ r.ref \in 0..Len(provider)
  /\ \A d \in Deliveries : outbox[d].channel \in Range(AllChannels) \union {"none"}

\* A recipient gets an output at most once per channel and attempt group,
\* whatever is retried, lost or overlaps, also when the provider took the
\* message and its answer said otherwise or never came; and nothing arrives
\* that has no row or carries a class its channel may not show.
OutputReceivedOnce ==
  /\ \A i, j \in 1..Len(received) : received[i] = received[j] => i = j
  /\ \A i \in 1..Len(received) :
       \E r \in RowsOf(received[i]) : /\ outbox[r.by].o.decided
                                      /\ CanRenderPayload(outbox[r.by].o.classes, outbox[r.by].channel)
=============================================================================
