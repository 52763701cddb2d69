------------------------------ MODULE ScopeCard ------------------------------
(***************************************************************************)
(* The Scope Card of one tenant (packages/authorisation scope-card.ts, the *)
(* table of migration 0005, the /v1/scope-card routes): what the worker    *)
(* may do on a date.  Publishing closes the open card at the new card's    *)
(* date and inserts the new one, in one transaction under READ COMMITTED.  *)
(***************************************************************************)
EXTENDS Integers, FiniteSets, Sequences

CONSTANTS Publishers,  \* requests in POST /v1/scope-card, each one card
          CardInputs,  \* the generator's inputs cards are generated from
          LastCardDay  \* bound: dates

CardDays == 1..LastCardDay
Forever  == LastCardDay + 1   \* effective_to IS NULL

ASSUME CardConstants == LastCardDay \in Nat \ {0}

VARIABLES cards,    \* scope_cards
          request,  \* each publisher: its place, its card and what it closes
          cardDay

cardVars == <<cards, request, cardDay>>

\* The references of a generator input that do not resolve.  A row above
\* Observe needs a named supervisor, one at Execute a sample rate, every
\* output class the worker can produce an accountable human.
Unresolved(in) ==
  (IF in.byWorker THEN {"generated_by"} ELSE {})
    \union (IF in.manager THEN {} ELSE {"manager of record"})
    \union {<<"supervisor", r.sop>> : r \in {q \in in.rows : q.autonomy # "observe" /\ ~q.supervised}}
    \union {<<"sample rate", r.sop>> : r \in {q \in in.rows : q.autonomy = "execute" /\ ~q.sampled}}
    \union {<<"accountable", c>> : c \in in.producible \ in.accountable}
    \union (IF in.owner THEN {} ELSE {"accountable owner"})

\* A worker-made input is refused before anything else is looked at.
Generates(in) == Unresolved(in) = {}

\* deriveVersion: without the old content to compare, any row above Observe
\* is a change of authority.
NextCardVersion(old, in) ==
  IF old = <<>> THEN <<1, 0, 0>>
  ELSE IF \E r \in in.rows : r.autonomy # "observe" THEN <<old[1] + 1, 0, 0>>
  ELSE <<old[1], old[2] + 1, old[3]>>

\* current: the open card with the latest date, which may lie ahead.
OpenCards == {c \in cards : c.to = Forever}
CurrentCard == {c \in OpenCards : \A d \in OpenCards : d.from <= c.from}

\* asAt: point-in-time retrieval.
InForceOn(date) == {c \in cards : c.from <= date /\ date < c.to}
CardAsAt(date)  == {c \in InForceOn(date) : \A d \in InForceOn(date) : d.from <= c.from}

Unsent == [pc |-> "start", from |-> 0, version |-> <<>>,
           found |-> {}, closes |-> {}]

CardInit ==
  /\ cards = {} /\ cardDay = 1
  /\ request = [p \in Publishers |-> Unsent]

\* A human generates a card from the current one and posts it.  publish
\* refuses a date in the past.
PostCard(p, in, from) ==
  /\ request[p].pc = "start" /\ Generates(in) /\ from >= cardDay
  /\ \E old \in {c.version : c \in CurrentCard} \union {<<>>} :
       /\ old = <<>> => CurrentCard = {}
       /\ request' = [request EXCEPT ![p] = [Unsent EXCEPT !.pc = "posted", !.from = from,
                                             !.version = NextCardVersion(old, in)]]
  /\ UNCHANGED <<cards, cardDay>>

\* UPDATE ... WHERE effective_to IS NULL finds the cards open and committed.
FindOpen(p) ==
  /\ request[p].pc = "posted"
  /\ request' = [request EXCEPT ![p].pc = "closing", ![p].found = OpenCards]
  /\ UNCHANGED <<cards, cardDay>>

\* It waits for a row another publication holds, and skips the row if that
\* one closed it; the card that one added it does not see.
CloseFound(p) ==
  /\ request[p].pc = "closing"
  /\ \A q \in Publishers : request[q].closes \intersect request[p].found = {}
  /\ request' = [request EXCEPT ![p].pc = "closed", ![p].closes = request[p].found \intersect OpenCards]
  /\ UNCHANGED <<cards, cardDay>>

\* scope_cards_version_idx and the CHECK against backdating.
Insertable(p) ==
  /\ \A c \in cards : c.version # request[p].version
  /\ request[p].from >= cardDay

\* (A fault a run puts in.)  The open card is closed today instead of at the new card's date.
Bug_CloseToday(p) ==
  /\ request[p].pc = "closed"
  /\ cards' = {IF c \in request[p].closes THEN [c EXCEPT !.to = cardDay] ELSE c : c \in cards}
              \union {[version |-> request[p].version, from |-> request[p].from, to |-> Forever]}
  /\ request' = [request EXCEPT ![p].pc = "published", ![p].closes = {}]
  /\ UNCHANGED cardDay

\* INSERT and COMMIT; or the rollback of both statements.
CommitCard(p) ==
  /\ request[p].pc = "closed"
  /\ IF Insertable(p)
     THEN /\ cards' = {IF c \in request[p].closes THEN [c EXCEPT !.to = request[p].from] ELSE c
                         : c \in cards}
                      \union {[version |-> request[p].version, from |-> request[p].from,
                               to |-> Forever]}
          /\ request' = [request EXCEPT ![p].pc = "published", ![p].closes = {}]
     ELSE /\ request' = [request EXCEPT ![p].pc = "refused", ![p].closes = {}]
          /\ UNCHANGED cards
  /\ UNCHANGED cardDay

NextCardDay ==
  /\ cardDay < LastCardDay
  /\ cardDay' = cardDay + 1
  /\ UNCHANGED <<cards, request>>

CardNext ==
  \/ \E p \in Publishers, in \in CardInputs, d \in CardDays : PostCard(p, in, d)
  \/ \E p \in Publishers : FindOpen(p) \/ CloseFound(p) \/ CommitCard(p)
  \/ NextCardDay

CardSpec == CardInit /\ [][CardNext]_cardVars

-----------------------------------------------------------------------------
(* Properties.                                                             *)

CardTypeOK ==
  /\ cardDay \in CardDays
  /\ cards \subseteq [version : Seq(Nat), from : CardDays, to : 1..Forever]
  /\ \A p \in Publishers :
       /\ request[p].pc \in {"start", "posted", "closing", "closed", "published", "refused"}
       /\ request[p].from \in 0..LastCardDay /\ request[p].closes \subseteq request[p].found

\* From the first card's date on there is, for every date, a card that says
\* what the worker may do on it, however publications with dates ahead and
\* out of order overlap: closing a card at the new one's date never uncovers
\* a date (ScopeCardService.publish and asAt).
NoGapInCards ==
  \A date \in CardDays :
    (\E c \in cards : c.from <= date) => \E c \in cards : c.from <= date /\ date < c.to

=============================================================================
