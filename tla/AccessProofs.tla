---------------------------- MODULE AccessProofs ----------------------------
(***************************************************************************)
(* What gives access to the worker and what limits it, proved for every    *)
(* value of the constants: the Scope Card that is in force on a date       *)
(* (ScopeCard), the console's sign-in (ConsoleSignIn), the verdicts of the *)
(* policy gate (PolicyGate) and the autonomy of a task graph (Planning).   *)
(***************************************************************************)
EXTENDS ScopeCard, ConsoleSignIn, PolicyGate, Planning,
        FiniteSetTheorems, SequenceTheorems, WellFoundedInduction, TLAPS

-----------------------------------------------------------------------------
(* The Scope Card.                                                         *)

CardVersions == Nat \X Nat \X Nat
Card == [version : CardVersions, from : CardDays, to : 1..Forever]
Publication ==
  [pc : {"start", "posted", "closing", "closed", "published", "refused"},
   from : 0..LastCardDay, version : CardVersions \union {<<>>},
   found : SUBSET Card, closes : SUBSET Card]

\* A publication on its way has a date of the calendar and a version, and
\* holds rows between its two statements only.
Orderly(r) ==
  /\ r.closes \subseteq r.found
  /\ r.pc # "closed" => r.closes = {}
  /\ r.pc \in {"posted", "closing", "closed"} => r.from \in CardDays /\ r.version \in CardVersions

CardInv ==
  /\ cardDay \in CardDays
  /\ cards \subseteq Card
  /\ request \in [Publishers -> Publication]
  /\ \A p \in Publishers : Orderly(request[p])

LEMMA NextVersionTyped ==
  ASSUME NEW old \in CardVersions \union {<<>>}, NEW in
  PROVE  NextCardVersion(old, in) \in CardVersions
<1>1. CASE old = <<>>
  BY <1>1 DEF NextCardVersion, CardVersions
<1>2. CASE old \in CardVersions
  <2>1. old[1] \in Nat /\ old[2] \in Nat /\ old[3] \in Nat
    BY <1>2 DEF CardVersions
  <2>2. old # <<>>
    BY <1>2 DEF CardVersions
  <2> QED
    BY <2>1, <2>2 DEF NextCardVersion, CardVersions
<1> QED
  BY <1>1, <1>2

LEMMA CardInitially == CardInit => CardInv
BY CardConstants DEF CardInit, CardInv, CardDays, Publication, Unsent, Orderly

\* A step of one publication leaves the others as they are.
LEMMA PublicationStep ==
  ASSUME CardInv, NEW p \in Publishers, NEW r \in Publication, Orderly(r),
         request' = [request EXCEPT ![p] = r], cards' \subseteq Card, cardDay' \in CardDays
  PROVE  CardInv'
BY DEF CardInv, Orderly

LEMMA CardPreserved == CardInv /\ [CardNext]_cardVars => CardInv'
<1> SUFFICES ASSUME CardInv, [CardNext]_cardVars
             PROVE  CardInv'
  OBVIOUS
<1>1. ASSUME NEW p \in Publishers, NEW in \in CardInputs, NEW d \in CardDays, PostCard(p, in, d)
      PROVE  CardInv'
  <2>1. PICK old \in {c.version : c \in CurrentCard} \union {<<>>} :
          request' = [request EXCEPT ![p] = [Unsent EXCEPT !.pc = "posted", !.from = d,
                                             !.version = NextCardVersion(old, in)]]
    BY <1>1 DEF PostCard
  <2>2. old \in CardVersions \union {<<>>}
    BY <2>1 DEF CurrentCard, OpenCards, Card, CardInv
  <2>3. NextCardVersion(old, in) \in CardVersions
    BY <2>2, NextVersionTyped
  <2>4. d \in CardDays /\ d \in 0..LastCardDay
    BY CardConstants DEF CardDays
  <2> DEFINE r == [Unsent EXCEPT !.pc = "posted", !.from = d,
                                 !.version = NextCardVersion(old, in)]
  <2>5. r \in Publication /\ Orderly(r)
    BY <2>3, <2>4 DEF Publication, Unsent, Orderly
  <2>6. request' = [request EXCEPT ![p] = r] /\ UNCHANGED <<cards, cardDay>>
    BY <1>1, <2>1 DEF PostCard
  <2>7. cards' \subseteq Card /\ cardDay' \in CardDays
    BY <2>6 DEF CardInv
  <2> HIDE DEF r
  <2> QED
    BY <2>5, <2>6, <2>7, PublicationStep
<1>2. ASSUME NEW p \in Publishers, FindOpen(p)
      PROVE  CardInv'
  <2> DEFINE r == [request[p] EXCEPT !.pc = "closing", !.found = OpenCards]
  <2>1. OpenCards \in SUBSET Card /\ request[p] \in Publication /\ Orderly(request[p])
    BY DEF OpenCards, CardInv
  <2>2. r \in Publication /\ Orderly(r)
    BY <1>2, <2>1 DEF FindOpen, Publication, Orderly
  <2>3. request' = [request EXCEPT ![p] = r] /\ cards' \subseteq Card /\ cardDay' \in CardDays
    BY <1>2 DEF FindOpen, CardInv
  <2> HIDE DEF r
  <2> QED
    BY <2>2, <2>3, PublicationStep
<1>3. ASSUME NEW p \in Publishers, CloseFound(p)
      PROVE  CardInv'
  <2> DEFINE held == request[p].found \intersect OpenCards
             r == [request[p] EXCEPT !.pc = "closed", !.closes = held]
  <2>1. held \in SUBSET Card /\ held \subseteq request[p].found
        /\ request[p] \in Publication /\ Orderly(request[p])
    BY DEF OpenCards, CardInv
  <2>2. request' = [request EXCEPT ![p] = r] /\ cards' \subseteq Card /\ cardDay' \in CardDays
    BY <1>3 DEF CloseFound, CardInv
  <2> HIDE DEF held
  <2>3. r \in Publication /\ Orderly(r)
    BY <1>3, <2>1 DEF CloseFound, Publication, Orderly
  <2> HIDE DEF r
  <2> QED
    BY <2>2, <2>3, PublicationStep
<1>4. ASSUME NEW p \in Publishers, CommitCard(p)
      PROVE  CardInv'
  <2>1. request[p] \in Publication /\ Orderly(request[p]) /\ request[p].pc = "closed"
    BY <1>4 DEF CommitCard, CardInv
  <2>2. request[p].from \in 1..Forever /\ request[p].from \in CardDays
        /\ request[p].version \in CardVersions /\ Forever \in 1..Forever
    BY <2>1, CardConstants DEF CardDays, Forever, Orderly
  <2>3. cards' \subseteq Card
    BY <1>4, <2>2 DEF CommitCard, Card, CardInv
  <2>4. PICK pc \in {"published", "refused"} :
          request' = [request EXCEPT ![p].pc = pc, ![p].closes = {}]
    BY <1>4 DEF CommitCard
  <2> DEFINE r == [request[p] EXCEPT !.pc = pc, !.closes = {}]
  <2>5. r \in Publication /\ Orderly(r)
    BY <2>1 DEF Publication, Orderly
  <2>6. request' = [request EXCEPT ![p] = r] /\ cardDay' \in CardDays
    BY <1>4, <2>4 DEF CommitCard, CardInv
  <2> HIDE DEF r
  <2> QED
    BY <2>3, <2>5, <2>6, PublicationStep
<1>5. ASSUME NextCardDay
      PROVE  CardInv'
  BY <1>5, CardConstants DEF NextCardDay, CardDays, CardInv
<1>6. CASE UNCHANGED cardVars
  BY <1>6 DEF cardVars, CardInv
<1> QED
  BY <1>1, <1>2, <1>3, <1>4, <1>5, <1>6 DEF CardNext

\* The state of the cards and of the publications is well formed.
THEOREM CardsAreTyped == CardSpec => []CardTypeOK
<1>1. CardInv => CardTypeOK
  <2>1. CardVersions \subseteq Seq(Nat)
    <3> SUFFICES ASSUME NEW v \in CardVersions
                 PROVE  v \in Seq(Nat)
      OBVIOUS
    <3>1. PICK a, b, c \in Nat : v = <<a, b, c>>
      BY DEF CardVersions
    <3>2. <<a, b, c>> \in Seq(Nat)
      OBVIOUS
    <3> QED
      BY <3>1, <3>2
  <2> QED
    BY <2>1 DEF CardInv, CardTypeOK, Card, Publication, Orderly
<1> QED
  BY <1>1, CardInitially, CardPreserved, PTL DEF CardSpec

\* Closing a card at the date of the new one covers every date it covered
\* before the new one and leaves the rest to the new one, whichever cards a
\* publication found and whatever was committed since.
LEMMA CommitCovers ==
  ASSUME CardInv, NoGapInCards, NEW p \in Publishers, CommitCard(p)
  PROVE  NoGapInCards'
<1>1. CASE cards' = cards
  BY <1>1 DEF NoGapInCards
<1>2. CASE cards' # cards
  <2> DEFINE new == [version |-> request[p].version, from |-> request[p].from, to |-> Forever]
             after(c) == IF c \in request[p].closes THEN [c EXCEPT !.to = request[p].from] ELSE c
  <2>1. cards' = {after(c) : c \in cards} \union {new}
    BY <1>2 DEF CommitCard
  <2>2. new.from \in CardDays /\ new.from = request[p].from
    BY DEF CommitCard, CardInv, Orderly
  <2>3. \A c \in cards : after(c).from = c.from /\ after(c).to \in {c.to, request[p].from}
    BY DEF CardInv, Card
  <2> SUFFICES ASSUME NEW date \in CardDays, NEW c \in cards', c.from <= date
               PROVE  \E e \in cards' : e.from <= date /\ date < e.to
    BY DEF NoGapInCards
  <2>4. CASE new.from <= date
    <3>1. new \in cards' /\ new.from <= date /\ date < new.to
      BY <2>1, <2>4, CardConstants DEF CardDays, Forever
    <3> QED
      BY <3>1
  <2>5. CASE date < new.from
    <3>1. PICK b \in cards : b.from <= date
      <4>1. new.from \in Int /\ date \in Int
        BY <2>2 DEF CardDays
      <4>2. c # new
        BY <2>5, <4>1
      <4>3. PICK b \in cards : c = after(b)
        BY <2>1, <4>2
      <4> QED
        BY <2>3, <4>3
    <3>2. PICK e \in cards : e.from <= date /\ date < e.to
      BY <3>1 DEF NoGapInCards
    <3>3. after(e).from <= date /\ date < after(e).to
      BY <2>2, <2>3, <2>5, <3>2
    <3> QED
      BY <2>1, <3>3
  <2> QED
    BY <2>2, <2>4, <2>5 DEF CardDays
<1> QED
  BY <1>1, <1>2

\* From the first card's date on some card says, for every date, what the
\* worker may do on it, for any number of overlapping publications.
THEOREM NoDateUncovered == CardSpec => []NoGapInCards
<1>1. CardInit => NoGapInCards
  BY DEF CardInit, NoGapInCards
<1>2. CardInv /\ NoGapInCards /\ [CardNext]_cardVars => NoGapInCards'
  <2> SUFFICES ASSUME CardInv, NoGapInCards, [CardNext]_cardVars
               PROVE  NoGapInCards'
    OBVIOUS
  <2>1. ASSUME NEW p \in Publishers, CommitCard(p)
        PROVE  NoGapInCards'
    BY <2>1, CommitCovers
  <2>2. CASE UNCHANGED cards
    BY <2>2 DEF NoGapInCards
  <2> QED
    BY <2>1, <2>2 DEF CardNext, PostCard, FindOpen, CloseFound, NextCardDay, cardVars
<1> QED
  BY <1>1, <1>2, CardInitially, CardPreserved, PTL DEF CardSpec

-----------------------------------------------------------------------------
(* Console sign-in.                                                        *)

LinkRecord == [id : Nat, expires : Nat, spent : BOOLEAN]
Afterwards == {"refused", "done", "awaiting_totp", "awaiting_totp_enrolment", "session"}
Asking ==
  [pc : {"start", "inviting", "failing", "clearing", "confirming", "password", "consume",
         "seed"} \union Afterwards,
   link : Nat, found : SUBSET LinkRecord, failed : Nat, at : Nat, seed : Nat, wrong : BOOLEAN,
   then : Afterwards]
SessionRecord == [by : Requests, seed : Nat, expires : Nat, revoked : BOOLEAN]

SignInInv ==
  /\ account \in [password : {Null, 1}, seed : Nat, confirmed : BOOLEAN,
                  failed : Nat, lockedUntil : Nat]
  /\ links \subseteq LinkRecord /\ IsFiniteSet(links)
  /\ sessions \subseteq SessionRecord
  /\ minute \in 1..LastMinute
  /\ asked \in [Requests -> Asking]
  /\ drawn \in Seq(Nat)

LEMMA ImageIsFinite ==
  ASSUME NEW S, IsFiniteSet(S), NEW f, f = [x \in S |-> f[x]]
  PROVE  IsFiniteSet({f[x] : x \in S})
<1> DEFINE T == {f[x] : x \in S}
<1>1. f \in Surjection(S, T)
  BY DEF Surjection
<1> QED
  BY <1>1, FS_Surjection

\* Links are spent and added, never taken away.
LEMMA SpendingKeepsLinks ==
  ASSUME SignInInv, NEW mark, mark = [k \in links |-> mark[k]],
         \A k \in links : mark[k] \in {k, [k EXCEPT !.spent = TRUE]}
  PROVE  /\ {mark[k] : k \in links} \subseteq LinkRecord
         /\ IsFiniteSet({mark[k] : k \in links})
<1>1. IsFiniteSet(links)
  BY DEF SignInInv
<1>2. IsFiniteSet({mark[k] : k \in links})
  BY <1>1, ImageIsFinite
<1>3. \A k \in links : mark[k] \in LinkRecord
  <2>1. links \subseteq LinkRecord
    BY DEF SignInInv
  <2>2. \A k \in LinkRecord : [k EXCEPT !.spent = TRUE] \in LinkRecord
    BY DEF LinkRecord
  <2> QED
    BY <2>1, <2>2
<1> QED
  BY <1>2, <1>3

LEMMA SignInInitially == SignInInit => SignInInv
<1> SUFFICES ASSUME SignInInit
             PROVE  SignInInv
  OBVIOUS
<1> DEFINE first == [id |-> 1, expires |-> 2, spent |-> FALSE]
           used  == [id |-> 1, expires |-> 1, spent |-> TRUE]
<1>1. links \in {{}, {first}, {used}}
  BY DEF SignInInit
<1>2. links \subseteq LinkRecord /\ IsFiniteSet(links)
  <2>1. first \in LinkRecord /\ used \in LinkRecord
    BY DEF LinkRecord
  <2> HIDE DEF first, used
  <2>2. IsFiniteSet({}) /\ IsFiniteSet({first}) /\ IsFiniteSet({used})
    BY FS_EmptySet, FS_Singleton
  <2> QED
    BY <1>1, <2>1, <2>2
<1>3. asked \in [Requests -> Asking]
  BY DEF SignInInit, Fresh, Asking, Afterwards, Null
<1>4. account \in [password : {Null, 1}, seed : Nat, confirmed : BOOLEAN,
                   failed : Nat, lockedUntil : Nat]
  <2> DEFINE new(n, b) ==
        [password |-> n, seed |-> n, confirmed |-> b, failed |-> 0, lockedUntil |-> Null]
  <2>1. account = new(Null, FALSE) \/ account = new(1, TRUE)
    BY Zenon DEF SignInInit
  <2>2. \A n \in {Null, 1}, b \in BOOLEAN :
          new(n, b) \in [password : {Null, 1}, seed : Nat, confirmed : BOOLEAN,
                         failed : Nat, lockedUntil : Nat]
    BY DEF Null
  <2> HIDE DEF new
  <2> QED
    BY <2>1, <2>2
<1>5. minute \in 1..LastMinute /\ sessions = {}
  BY SignInConstants DEF SignInInit
<1>6. drawn \in Seq(Nat)
  <2>1. drawn = <<>> \/ drawn = <<1>>
    BY Zenon DEF SignInInit
  <2>2. <<>> \in Seq(Nat) /\ <<1>> \in Seq(Nat)
    OBVIOUS
  <2> QED
    BY <2>1, <2>2
<1> QED
  BY <1>2, <1>3, <1>4, <1>5, <1>6 DEF SignInInv

\* A request goes on, and nothing else of it changes; or it starts afresh
\* with what it has read.
LEMMA RequestGoesOn ==
  ASSUME SignInInv, NEW r \in Requests, NEW a \in Asking, asked' = [asked EXCEPT ![r] = a]
  PROVE  asked' \in [Requests -> Asking]
BY DEF SignInInv

LEMMA GoesTyped ==
  ASSUME SignInInv, NEW r \in Requests,
         NEW pc \in {"consume", "seed", "clearing"} \union Afterwards, Goes(r, pc)
  PROVE  asked' \in [Requests -> Asking]
<1> DEFINE a == [asked[r] EXCEPT !.pc = pc]
<1>1. a \in Asking
  BY DEF SignInInv, Asking
<1>2. asked' = [asked EXCEPT ![r] = a]
  BY DEF Goes
<1> HIDE DEF a
<1> QED
  BY <1>1, <1>2, RequestGoesOn

LEMMA KeepsTyped ==
  ASSUME SignInInv, NEW r \in Requests, NEW pc \in {"failing", "clearing", "confirming"},
         NEW then \in Afterwards, Keeps(r, pc, then)
  PROVE  asked' \in [Requests -> Asking]
<1> DEFINE a == [Fresh EXCEPT
             !.pc = pc, !.failed = account.failed, !.at = minute, !.then = then,
             !.seed = IF then = "session" THEN account.seed ELSE Null, !.wrong = (pc = "failing")]
<1>1. account.failed \in Nat /\ minute \in Nat /\ account.seed \in Nat
  BY SignInConstants DEF SignInInv
<1>2. a \in Asking
  <2>1. PICK seed, wrong : /\ seed = IF then = "session" THEN account.seed ELSE Null
                           /\ wrong = (pc = "failing")
    OBVIOUS
  <2>2. seed \in Nat /\ wrong \in BOOLEAN
    BY <1>1, <2>1 DEF Null
  <2>3. a = [Fresh EXCEPT !.pc = pc, !.failed = account.failed, !.at = minute, !.then = then,
                          !.seed = seed, !.wrong = wrong]
    BY <2>1
  <2> HIDE DEF a
  <2> QED
    BY <1>1, <2>2, <2>3 DEF Asking, Fresh
<1>3. asked' = [asked EXCEPT ![r] = a]
  BY DEF Keeps
<1> HIDE DEF a
<1> QED
  BY <1>2, <1>3, RequestGoesOn

LEMMA SignInPreserved == SignInInv /\ [SignInNext]_signInVars => SignInInv'
<1> SUFFICES ASSUME SignInInv, [SignInNext]_signInVars
             PROVE  SignInInv'
  OBVIOUS
<1> USE DEF Afterwards
<1>1. ASSUME NEW r \in Requests, FindOutstanding(r)
      PROVE  SignInInv'
  <2> DEFINE a == [Fresh EXCEPT !.pc = "inviting", !.found = Outstanding]
  <2>1. a \in Asking /\ asked' = [asked EXCEPT ![r] = a]
    <3>1. PICK found : found = Outstanding
      OBVIOUS
    <3>2. found \in SUBSET LinkRecord
      BY <3>1 DEF Outstanding, SignInInv
    <3>3. [Fresh EXCEPT !.pc = "inviting", !.found = found] \in Asking
      BY <3>2 DEF Asking, Fresh, Null
    <3>4. asked' = [asked EXCEPT ![r] = a]
      BY <1>1 DEF FindOutstanding
    <3> QED
      BY <3>1, <3>3, <3>4
  <2> HIDE DEF a
  <2>2. asked' \in [Requests -> Asking]
    BY <2>1, RequestGoesOn
  <2> QED
    BY <1>1, <2>2 DEF FindOutstanding, SignInInv
<1>2. ASSUME NEW r \in Requests, SaveInvite(r)
      PROVE  SignInInv'
  <2> DEFINE mark == [k \in links |-> IF k \in asked[r].found THEN [k EXCEPT !.spent = TRUE] ELSE k]
             new  == [id |-> Cardinality(links) + 1, expires |-> minute + LinkTtl, spent |-> FALSE]
  <2>1. links' = {mark[k] : k \in links} \union {new}
    BY <1>2 DEF SaveInvite
  <2>2. \A k \in links : mark[k] \in {k, [k EXCEPT !.spent = TRUE]}
    OBVIOUS
  <2>3. mark = [k \in links |-> mark[k]]
    OBVIOUS
  <2> HIDE DEF mark
  <2>4. {mark[k] : k \in links} \subseteq LinkRecord /\ IsFiniteSet({mark[k] : k \in links})
    BY <2>2, <2>3, SpendingKeepsLinks
  <2>5. new \in LinkRecord
    BY FS_CardinalityType, SignInConstants DEF SignInInv, LinkRecord
  <2> HIDE DEF new
  <2>6. links' \subseteq LinkRecord /\ IsFiniteSet(links')
    BY <2>1, <2>4, <2>5, FS_AddElement
  <2>7. asked' \in [Requests -> Asking]
    BY <1>2, GoesTyped DEF SaveInvite
  <2> QED
    BY <1>2, <2>6, <2>7 DEF SaveInvite, SignInInv
<1>3. ASSUME NEW r \in Requests, NEW right \in BOOLEAN, SignIn(r, right)
      PROVE  SignInInv'
  <2>1. asked' \in [Requests -> Asking]
    BY <1>3, GoesTyped, KeepsTyped DEF SignIn
  <2> QED
    BY <1>3, <2>1 DEF SignIn, SignInInv
<1>4. ASSUME NEW r \in Requests, NEW seed, CompleteSignIn(r, seed)
      PROVE  SignInInv'
  <2>1. asked' \in [Requests -> Asking]
    BY <1>4, GoesTyped, KeepsTyped DEF CompleteSignIn
  <2> QED
    BY <1>4, <2>1 DEF CompleteSignIn, SignInInv
<1>5. ASSUME NEW r \in Requests, NEW seed, ConfirmEnrolment(r, seed)
      PROVE  SignInInv'
  <2>1. asked' \in [Requests -> Asking]
    BY <1>5, GoesTyped, KeepsTyped DEF ConfirmEnrolment
  <2> QED
    BY <1>5, <2>1 DEF ConfirmEnrolment, SignInInv
<1>6. ASSUME NEW r \in Requests, ConfirmTotp(r)
      PROVE  SignInInv'
  <2>1. asked' \in [Requests -> Asking]
    BY <1>6, GoesTyped DEF ConfirmTotp
  <2> QED
    BY <1>6, <2>1 DEF ConfirmTotp, SignInInv
<1>7. ASSUME NEW r \in Requests, RecordFailure(r)
      PROVE  SignInInv'
  <2>1. asked' \in [Requests -> Asking]
    BY <1>7, GoesTyped DEF RecordFailure
  <2>2. PICK f, u : /\ f = IF Locks(asked[r].failed + 1) THEN 0 ELSE asked[r].failed + 1
                    /\ u = IF Locks(asked[r].failed + 1) THEN asked[r].at + Lockout ELSE Null
    OBVIOUS
  <2>3. f \in Nat /\ u \in Nat
    <3>1. asked[r].failed \in Nat /\ asked[r].at \in Nat
      BY DEF SignInInv, Asking
    <3>2. Lockout \in Nat
      BY SignInConstants
    <3>3. asked[r].failed + 1 \in Nat /\ asked[r].at + Lockout \in Nat
      BY <3>1, <3>2
    <3> QED
      BY <2>2, <3>3 DEF Null
  <2>4. account' = [account EXCEPT !.failed = f, !.lockedUntil = u]
    BY <1>7, <2>2 DEF RecordFailure
  <2> QED
    BY <1>7, <2>1, <2>3, <2>4 DEF RecordFailure, SignInInv
<1>8. ASSUME NEW r \in Requests, ClearFailures(r)
      PROVE  SignInInv'
  <2>1. asked[r].then \in Afterwards
    BY DEF SignInInv, Asking
  <2>2. asked' \in [Requests -> Asking]
    BY <1>8, <2>1, GoesTyped DEF ClearFailures
  <2> QED
    BY <1>8, <2>2 DEF ClearFailures, SignInInv, Null
<1>9. ASSUME NEW r \in Requests, IssueChallenge(r)
      PROVE  SignInInv'
  <2>1. asked' \in [Requests -> Asking]
    BY <1>9, GoesTyped DEF IssueChallenge
  <2> QED
    BY <1>9, <2>1 DEF IssueChallenge, SignInInv
<1>10. ASSUME NEW r \in Requests, OpenSession(r)
       PROVE  SignInInv'
  <2>1. asked' \in [Requests -> Asking]
    BY <1>10, GoesTyped DEF OpenSession
  <2>2. asked[r].at + SessionTtl \in Nat /\ asked[r].seed \in Nat
    BY SignInConstants DEF SignInInv, Asking
  <2> DEFINE s == [by |-> r, seed |-> asked[r].seed, expires |-> asked[r].at + SessionTtl,
                   revoked |-> FALSE]
  <2>3. sessions' = sessions \union {s}
    BY <1>10 DEF OpenSession
  <2>4. s \in SessionRecord
    BY <2>2 DEF SessionRecord
  <2> HIDE DEF s
  <2> QED
    BY <1>10, <2>1, <2>3, <2>4 DEF OpenSession, SignInInv
<1>11. ASSUME NEW r \in Requests, NEW k \in links, AcceptInvite(r, k)
       PROVE  SignInInv'
  <2> DEFINE a == [Fresh EXCEPT !.pc = "password", !.link = k.id]
  <2>1. a \in Asking /\ asked' = [asked EXCEPT ![r] = a]
    BY <1>11 DEF AcceptInvite, Asking, Fresh, SignInInv, LinkRecord, Null
  <2> HIDE DEF a
  <2>2. asked' \in [Requests -> Asking]
    BY <2>1, RequestGoesOn
  <2> QED
    BY <1>11, <2>2 DEF AcceptInvite, SignInInv
<1>12. ASSUME NEW r \in Requests, SetPassword(r)
       PROVE  SignInInv'
  <2>1. asked' \in [Requests -> Asking]
    BY <1>12, GoesTyped DEF SetPassword
  <2> QED
    BY <1>12, <2>1 DEF SetPassword, SignInInv, Null
<1>13. ASSUME NEW r \in Requests, ConsumeInvite(r)
       PROVE  SignInInv'
  <2> DEFINE mark == [k \in links |-> IF k.id = asked[r].link THEN [k EXCEPT !.spent = TRUE] ELSE k]
  <2>1. links' = {mark[k] : k \in links}
    BY <1>13 DEF ConsumeInvite
  <2>2. \A k \in links : mark[k] \in {k, [k EXCEPT !.spent = TRUE]}
    OBVIOUS
  <2>3. mark = [k \in links |-> mark[k]]
    OBVIOUS
  <2> HIDE DEF mark
  <2>4. links' \subseteq LinkRecord /\ IsFiniteSet(links')
    BY <2>1, <2>2, <2>3, SpendingKeepsLinks
  <2>5. asked' \in [Requests -> Asking]
    BY <1>13, GoesTyped DEF ConsumeInvite
  <2> QED
    BY <1>13, <2>4, <2>5 DEF ConsumeInvite, SignInInv
<1>14. ASSUME NEW r \in Requests, SetTotpSecret(r)
       PROVE  SignInInv'
  <2>1. asked' \in [Requests -> Asking]
    BY <1>14, GoesTyped DEF SetTotpSecret
  <2>2. account' \in [password : {Null, 1}, seed : Nat, confirmed : BOOLEAN,
                      failed : Nat, lockedUntil : Nat]
    <3>1. PICK n : n = Len(drawn) + 1
      OBVIOUS
    <3>2. n \in Nat
      BY <3>1 DEF SignInInv
    <3>3. account' = [account EXCEPT !.seed = n, !.confirmed = FALSE]
      BY <1>14, <3>1 DEF SetTotpSecret
    <3> QED
      BY <3>2, <3>3 DEF SignInInv
  <2>3. drawn' \in Seq(Nat)
    <3>1. asked[r].link \in Nat /\ drawn \in Seq(Nat)
      BY DEF SignInInv, Asking
    <3> QED
      BY <1>14, <3>1 DEF SetTotpSecret
  <2> QED
    BY <1>14, <2>1, <2>2, <2>3 DEF SetTotpSecret, SignInInv
<1>15. ASSUME NEW s \in sessions, SignOut(s)
       PROVE  SignInInv'
  BY <1>15 DEF SignOut, SignInInv, SessionRecord
<1>16. ASSUME PassMinute
       PROVE  SignInInv'
  BY <1>16, SignInConstants DEF PassMinute, SignInInv
<1>17. CASE UNCHANGED signInVars
  BY <1>17 DEF signInVars, SignInInv
<1> QED
  BY <1>1, <1>2, <1>3, <1>4, <1>5, <1>6, <1>7, <1>8, <1>9, <1>10, <1>11, <1>12, <1>13,
     <1>14, <1>15, <1>16, <1>17 DEF SignInNext

\* How a request goes on, or what it keeps.
LEMMA GoesMoves ==
  ASSUME SignInInv, NEW r \in Requests, NEW pc, Goes(r, pc)
  PROVE  /\ asked' = [asked EXCEPT ![r] = asked'[r]]
         /\ asked'[r].pc = pc /\ asked'[r].then = asked[r].then
         /\ asked'[r].seed = asked[r].seed /\ asked'[r].link = asked[r].link
         /\ asked'[r].wrong = asked[r].wrong /\ asked'[r].failed = asked[r].failed
BY DEF Goes, SignInInv, Asking

LEMMA KeepsMoves ==
  ASSUME SignInInv, NEW r \in Requests, NEW pc, NEW then, Keeps(r, pc, then)
  PROVE  /\ asked' = [asked EXCEPT ![r] = asked'[r]]
         /\ asked'[r].pc = pc /\ asked'[r].then = then /\ asked'[r].failed = account.failed
         /\ asked'[r].seed = IF then = "session" THEN account.seed ELSE Null
         /\ asked'[r].wrong <=> pc = "failing"
<1>1. PICK seed, wrong : /\ seed = IF then = "session" THEN account.seed ELSE Null
                         /\ wrong = (pc = "failing")
  OBVIOUS
<1>2. PICK a : a = [Fresh EXCEPT !.pc = pc, !.failed = account.failed, !.at = minute, !.then = then,
                                 !.seed = seed, !.wrong = wrong]
  OBVIOUS
<1>3. asked' = [asked EXCEPT ![r] = a]
  BY <1>1, <1>2 DEF Keeps
<1>4. asked'[r] = a
  BY <1>3 DEF SignInInv
<1>5. a.pc = pc /\ a.then = then /\ a.failed = account.failed /\ a.seed = seed /\ a.wrong = wrong
  BY <1>2 DEF Fresh
<1> QED
  BY <1>1, <1>3, <1>4, <1>5

\* A step is of one request, of a session or of the clock.
OtherRequestsStay(r) == asked' = [asked EXCEPT ![r] = asked'[r]]

-----------------------------------------------------------------------------
(* Failures, and the locks they lead to.                                   *)

\* What an attempt that failed will write is no more than was written before,
\* and one more.
FailInv ==
  /\ LockTakesItsFailures
  /\ \A r \in Requests : At(r, "failing") => asked[r].wrong /\ asked[r].failed <= Cardinality(Written)

\* Attempts are finitely many, and the more have been written the larger their
\* number.
LEMMA WrittenIsFinite ==
  /\ IsFiniteSet(Written) /\ Cardinality(Written) \in Nat
  /\ \A S \in SUBSET Requests :
       /\ IsFiniteSet(S) /\ Cardinality(S) \in Nat
       /\ \A T \in SUBSET S : Cardinality(T) <= Cardinality(S)
       /\ \A r \in Requests \ S : Cardinality(S \union {r}) = Cardinality(S) + 1
<1>1. ASSUME NEW S \in SUBSET Requests
      PROVE  /\ IsFiniteSet(S) /\ Cardinality(S) \in Nat
             /\ \A T \in SUBSET S : Cardinality(T) <= Cardinality(S)
             /\ \A r \in Requests \ S : Cardinality(S \union {r}) = Cardinality(S) + 1
  <2>1. IsFiniteSet(S)
    BY SignInConstants, FS_Subset
  <2>2. Cardinality(S) \in Nat
    BY <2>1, FS_CardinalityType
  <2>3. \A T \in SUBSET S : Cardinality(T) <= Cardinality(S)
    BY <2>1, FS_Subset
  <2>4. \A r \in Requests \ S : Cardinality(S \union {r}) = Cardinality(S) + 1
    BY <2>1, FS_AddElement
  <2> QED
    BY <2>1, <2>2, <2>3, <2>4
<1>2. Written \in SUBSET Requests
  BY DEF Written
<1> QED
  BY <1>1, <1>2

\* It is enough to look at the request that moved, and at the row.
LEMMA NoFailureWritten ==
  ASSUME SignInInv, SignInInv', FailInv, NEW r \in Requests, OtherRequestsStay(r), ~At(r, "done"),
         account'.failed \in {0, account.failed},
         account'.lockedUntil \in {Null, account.lockedUntil},
         asked'[r].pc = "failing" => asked'[r].wrong /\ asked'[r].failed <= account.failed
  PROVE  FailInv'
<1>1. PICK W, X : W = Written /\ X = Written'
  OBVIOUS
<1>2. \A q \in Requests : q # r => asked'[q] = asked[q]
  BY DEF OtherRequestsStay, SignInInv
<1>3. W \in SUBSET X /\ X \in SUBSET Requests
  BY <1>1, <1>2 DEF Written, At
<1>4. Cardinality(W) <= Cardinality(X) /\ Cardinality(W) \in Nat /\ Cardinality(X) \in Nat
  <2>1. W \in SUBSET Requests
    BY <1>3
  <2> QED
    BY <1>3, <2>1, WrittenIsFinite
<1>5. /\ account.failed \in Nat /\ account.failed <= Cardinality(W)
      /\ account.lockedUntil # Null => Cardinality(W) >= MaxFailures
      /\ MaxFailures \in Nat
  BY <1>1, SignInConstants DEF FailInv, LockTakesItsFailures, SignInInv
<1>6. /\ account'.failed <= Cardinality(X)
      /\ account'.lockedUntil # Null => Cardinality(X) >= MaxFailures
  BY <1>4, <1>5
<1>7. ASSUME NEW q \in Requests, asked'[q].pc = "failing"
      PROVE  asked'[q].wrong /\ asked'[q].failed <= Cardinality(X)
  <2>1. asked'[q].failed \in Nat
    BY DEF SignInInv, Asking
  <2>2. CASE q = r
    BY <1>4, <1>5, <1>7, <2>1, <2>2
  <2>3. CASE q # r
    <3>1. asked[q].wrong /\ asked[q].failed <= Cardinality(W)
      BY <1>1, <1>2, <1>7, <2>3 DEF FailInv, At
    <3> QED
      BY <1>2, <1>4, <2>1, <2>3, <3>1
  <2> QED
    BY <2>2, <2>3
<1> QED
  BY <1>1, <1>6, <1>7 DEF FailInv, LockTakesItsFailures, At

\* An attempt that failed is written: there is one more.
LEMMA FailureWritten ==
  ASSUME SignInInv, SignInInv', FailInv, NEW r \in Requests, RecordFailure(r)
  PROVE  FailInv'
<1>1. PICK W, X, n : W = Written /\ X = Written' /\ n = asked[r].failed
  OBVIOUS
<1>2. /\ asked' = [asked EXCEPT ![r] = asked'[r]]
      /\ asked[r].pc = "failing" /\ asked'[r].pc = "done" /\ asked'[r].wrong = asked[r].wrong
  BY GoesMoves DEF RecordFailure, At
<1>3. \A q \in Requests : q # r => asked'[q] = asked[q]
  BY <1>2 DEF SignInInv
<1>4. asked[r].wrong /\ n <= Cardinality(W) /\ n \in Nat
  BY <1>1, <1>2 DEF FailInv, At, SignInInv, Asking
<1>5. r \notin W /\ X = W \union {r} /\ W \in SUBSET Requests
  BY <1>1, <1>2, <1>3, <1>4 DEF Written, At
<1>6. Cardinality(X) = Cardinality(W) + 1 /\ Cardinality(W) \in Nat
  BY <1>5, WrittenIsFinite
<1>7. /\ account'.failed = IF Locks(n + 1) THEN 0 ELSE n + 1
      /\ account'.lockedUntil # Null => Locks(n + 1)
  <2>1. PICK f, u : /\ f = IF Locks(n + 1) THEN 0 ELSE n + 1
                    /\ u = IF Locks(n + 1) THEN asked[r].at + Lockout ELSE Null
    OBVIOUS
  <2>2. account' = [account EXCEPT !.failed = f, !.lockedUntil = u]
    BY <1>1, <2>1 DEF RecordFailure
  <2> QED
    BY <2>1, <2>2 DEF SignInInv
<1>8. account'.failed <= Cardinality(X)
  BY <1>4, <1>6, <1>7
<1>9. account'.lockedUntil # Null => Cardinality(X) >= MaxFailures
  <2>1. MaxFailures \in Nat
    BY SignInConstants
  <2> QED
    BY <1>4, <1>6, <1>7, <2>1 DEF Locks
<1>10. ASSUME NEW q \in Requests, asked'[q].pc = "failing"
       PROVE  asked'[q].wrong /\ asked'[q].failed <= Cardinality(X)
  <2>1. q # r
    BY <1>2, <1>10
  <2>2. asked[q].wrong /\ asked[q].failed <= Cardinality(W) /\ asked[q].failed \in Nat
    BY <1>1, <1>3, <1>10, <2>1 DEF FailInv, At, SignInInv, Asking
  <2> QED
    BY <1>3, <1>6, <2>1, <2>2
<1> QED
  BY <1>1, <1>8, <1>9, <1>10 DEF FailInv, LockTakesItsFailures, At

LEMMA FailPreserved ==
  ASSUME SignInInv, SignInInv', FailInv, [SignInNext]_signInVars
  PROVE  FailInv'
<1>1. ASSUME NEW r \in Requests, FindOutstanding(r)
      PROVE  FailInv'
  <2>1. PICK a : a = [Fresh EXCEPT !.pc = "inviting", !.found = Outstanding]
    OBVIOUS
  <2>2. asked' = [asked EXCEPT ![r] = a] /\ a.pc = "inviting"
    BY <1>1, <2>1 DEF FindOutstanding, Fresh
  <2>3. OtherRequestsStay(r) /\ ~At(r, "done") /\ asked'[r].pc = "inviting"
    BY <1>1, <2>2 DEF FindOutstanding, At, SignInInv, OtherRequestsStay
  <2>4. account' = account
    BY <1>1 DEF FindOutstanding
  <2> QED
    BY <2>3, <2>4, NoFailureWritten
<1>2. ASSUME NEW r \in Requests, NEW pc \in {"failing", "clearing", "confirming"}, NEW then,
             At(r, "start"), Keeps(r, pc, then) \/ Goes(r, "done"), account' = account
      PROVE  FailInv'
  <2>1. OtherRequestsStay(r) /\ ~At(r, "done")
    BY <1>2, GoesMoves, KeepsMoves DEF OtherRequestsStay, At
  <2>2. asked'[r].pc = "failing" => asked'[r].wrong /\ asked'[r].failed = account.failed
    BY <1>2, GoesMoves, KeepsMoves
  <2>3. account.failed \in Nat
    BY DEF SignInInv
  <2> QED
    BY <1>2, <2>1, <2>2, <2>3, NoFailureWritten
<1>3. ASSUME NEW r \in Requests, NEW right \in BOOLEAN, SignIn(r, right)
      PROVE  FailInv'
  BY <1>2, <1>3 DEF SignIn
<1>4. ASSUME NEW r \in Requests, NEW seed, CompleteSignIn(r, seed) \/ ConfirmEnrolment(r, seed)
      PROVE  FailInv'
  BY <1>2, <1>4 DEF CompleteSignIn, ConfirmEnrolment
<1>5. ASSUME NEW r \in Requests, NEW pc \in {"clearing", "consume", "seed"} \union Afterwards,
             asked[r].pc # "done", Goes(r, pc),
             account'.failed \in {0, account.failed},
             account'.lockedUntil \in {Null, account.lockedUntil}
      PROVE  FailInv'
  <2>1. OtherRequestsStay(r) /\ ~At(r, "done") /\ asked'[r].pc # "failing"
    BY <1>5, GoesMoves DEF OtherRequestsStay, At, Afterwards
  <2> QED
    BY <1>5, <2>1, NoFailureWritten
<1>6. ASSUME NEW r \in Requests, ConfirmTotp(r) \/ SetTotpSecret(r)
      PROVE  FailInv'
  <2>1. account'.failed = account.failed /\ account'.lockedUntil = account.lockedUntil
    BY <1>6 DEF ConfirmTotp, SetTotpSecret, SignInInv
  <2> QED
    BY <1>5, <1>6, <2>1 DEF ConfirmTotp, SetTotpSecret, At, Afterwards
<1>7. ASSUME NEW r \in Requests, ClearFailures(r) \/ SetPassword(r)
      PROVE  FailInv'
  <2>1. account'.failed = 0 /\ account'.lockedUntil = Null
    BY <1>7 DEF ClearFailures, SetPassword, SignInInv
  <2>2. asked[r].then \in Afterwards
    BY DEF SignInInv, Asking
  <2> QED
    BY <1>5, <1>7, <2>1, <2>2 DEF ClearFailures, SetPassword, At
<1>8. ASSUME NEW r \in Requests, SaveInvite(r) \/ IssueChallenge(r) \/ OpenSession(r) \/ ConsumeInvite(r)
      PROVE  FailInv'
  BY <1>5, <1>8 DEF SaveInvite, IssueChallenge, OpenSession, ConsumeInvite, At, Afterwards
<1>9. ASSUME NEW r \in Requests, NEW k \in links, AcceptInvite(r, k)
      PROVE  FailInv'
  <2>1. /\ OtherRequestsStay(r) /\ ~At(r, "done") /\ account' = account
        /\ asked'[r].pc = "password"
    BY <1>9 DEF AcceptInvite, At, Fresh, SignInInv, Asking, OtherRequestsStay
  <2> QED
    BY <2>1, NoFailureWritten
<1>10. CASE UNCHANGED <<account, asked>>
  BY <1>10 DEF FailInv, LockTakesItsFailures, Written, At
<1> QED
  BY <1>1, <1>3, <1>4, <1>6, <1>7, <1>8, <1>9, <1>10, FailureWritten
  DEF SignInNext, SignOut, PassMinute, signInVars

\* No account is locked, and no count raised, by fewer failures than it says:
\* for any number of attempts, each writing what it made of a count it had read
\* before the others wrote theirs.
THEOREM NoLockWithoutFailures == SignInSpec => []LockTakesItsFailures
<1>1. SignInInit => FailInv
  <2> SUFFICES ASSUME SignInInit  PROVE  FailInv
    OBVIOUS
  <2>1. account.failed = 0 /\ account.lockedUntil = Null /\ \A r \in Requests : asked[r].pc = "start"
    BY DEF SignInInit, Fresh
  <2> QED
    BY <2>1, WrittenIsFinite DEF FailInv, LockTakesItsFailures, At
<1>2. SignInInv /\ FailInv /\ [SignInNext]_signInVars => FailInv'
  BY SignInPreserved, FailPreserved
<1>3. FailInv => LockTakesItsFailures
  BY DEF FailInv
<1> QED
  BY <1>1, <1>2, <1>3, SignInInitially, SignInPreserved, PTL DEF SignInSpec

-----------------------------------------------------------------------------
(* Seeds, and the links they were drawn on.                                *)

\* A link that is there, and one that is spent; once it is, it stays so.
WasIssued(id) == \E k \in links : k.id = id
SpentLink(id) == \E k \in links : k.id = id /\ k.spent

\* What a request stands for: an acceptance holds a link, which is spent when
\* it comes to draw the seed; who has shown a code goes on to a session.
Standing(r) ==
  /\ asked[r].seed <= Len(drawn)
  /\ asked[r].pc \in {"password", "consume"} => WasIssued(asked[r].link)
  /\ asked[r].pc = "seed" => SpentLink(asked[r].link)
  /\ asked[r].pc = "confirming" => asked[r].then = "session"
  /\ \/ asked[r].pc \in {"confirming", "session"}
     \/ asked[r].pc = "clearing" /\ asked[r].then = "session"
     => asked[r].seed # Null

SeedInv ==
  /\ account.seed <= Len(drawn)
  /\ \A s \in sessions : s.seed \in 1..Len(drawn)
  /\ \A n \in DOMAIN drawn : SpentLink(drawn[n])
  /\ \A r \in Requests : Standing(r)

\* A link keeps its number and stays spent whatever happens to the links.
OnlySpent == \A k \in links : \E e \in links' : e.id = k.id /\ (k.spent => e.spent)

LEMMA LinksOnlyGetSpent ==
  ASSUME SignInInv, [SignInNext]_signInVars
  PROVE  \A id : (WasIssued(id) => WasIssued(id)') /\ (SpentLink(id) => SpentLink(id)')
<1> SUFFICES OnlySpent
  BY DEF OnlySpent, WasIssued, SpentLink
<1>1. CASE links' = links
  BY <1>1 DEF OnlySpent
<1>2. ASSUME NEW r \in Requests, SaveInvite(r)
      PROVE  OnlySpent
  <2> SUFFICES ASSUME NEW k \in links
               PROVE  \E e \in links' : e.id = k.id /\ (k.spent => e.spent)
    BY DEF OnlySpent
  <2> DEFINE e == IF k \in asked[r].found THEN [k EXCEPT !.spent = TRUE] ELSE k
  <2>1. e \in links'
    BY <1>2 DEF SaveInvite
  <2>2. e.id = k.id /\ (k.spent => e.spent)
    BY DEF SignInInv, LinkRecord
  <2> QED
    BY <2>1, <2>2
<1>3. ASSUME NEW r \in Requests, ConsumeInvite(r)
      PROVE  OnlySpent
  <2> SUFFICES ASSUME NEW k \in links
               PROVE  \E e \in links' : e.id = k.id /\ (k.spent => e.spent)
    BY DEF OnlySpent
  <2> DEFINE e == IF k.id = asked[r].link THEN [k EXCEPT !.spent = TRUE] ELSE k
  <2>1. e \in links'
    BY <1>3 DEF ConsumeInvite
  <2>2. e.id = k.id /\ (k.spent => e.spent)
    BY DEF SignInInv, LinkRecord
  <2> QED
    BY <2>1, <2>2
<1>4. ASSUME NEW r \in Requests
      PROVE  /\ FindOutstanding(r) \/ ConfirmTotp(r) \/ RecordFailure(r) => links' = links
             /\ ClearFailures(r) \/ IssueChallenge(r) \/ OpenSession(r) => links' = links
             /\ SetPassword(r) \/ SetTotpSecret(r) => links' = links
             /\ \A right \in BOOLEAN : SignIn(r, right) => links' = links
             /\ \A seed : CompleteSignIn(r, seed) \/ ConfirmEnrolment(r, seed) => links' = links
             /\ \A k \in links : AcceptInvite(r, k) => links' = links
  BY Zenon DEF FindOutstanding, ConfirmTotp, RecordFailure, ClearFailures, IssueChallenge, OpenSession,
     SetPassword, SetTotpSecret, SignIn, CompleteSignIn, ConfirmEnrolment, AcceptInvite
<1>5. (\E s \in sessions : SignOut(s)) \/ PassMinute \/ UNCHANGED signInVars => links' = links
  BY DEF SignOut, PassMinute, signInVars
<1> QED
  BY <1>1, <1>2, <1>3, <1>4, <1>5 DEF SignInNext

\* It is enough to look at the request that moved and at what it touched, while
\* no seed is drawn.
LEMMA OneRequestMoves ==
  ASSUME SignInInv, [SignInNext]_signInVars, SeedInv, NEW r \in Requests, OtherRequestsStay(r),
         Standing(r)', account'.seed = account.seed, drawn' = drawn,
         sessions' = sessions \/ \A s \in sessions' : s \in sessions \/ s.seed \in 1..Len(drawn)
  PROVE  SeedInv'
<1>1. \A id : (WasIssued(id) => WasIssued(id)') /\ (SpentLink(id) => SpentLink(id)')
  BY LinksOnlyGetSpent
<1>2. ASSUME NEW q \in Requests, q # r
      PROVE  Standing(q)'
  <2>1. asked'[q] = asked[q] /\ Standing(q)
    BY <1>2 DEF SeedInv, OtherRequestsStay, SignInInv
  <2> QED
    BY <1>1, <2>1 DEF Standing
<1>3. \A q \in Requests : Standing(q)'
  BY <1>2
<1>4. (\A n \in DOMAIN drawn : SpentLink(drawn[n]))'
  <2>1. PICK seeds : seeds = drawn
    OBVIOUS
  <2>2. \A n \in DOMAIN seeds : SpentLink(seeds[n])
    BY <2>1 DEF SeedInv
  <2>3. (\A n \in DOMAIN seeds : SpentLink(seeds[n]))'
    BY <1>1, <2>2
  <2> QED
    BY <2>1, <2>3
<1>5. account.seed \in Nat /\ account'.seed <= Len(drawn')
  BY DEF SignInInv, SeedInv
<1>6. \A s \in sessions' : s.seed \in 1..Len(drawn')
  BY DEF SeedInv
<1> QED
  BY <1>3, <1>4, <1>5, <1>6 DEF SeedInv

\* A request that goes on to a place that stands for nothing.
LEMMA GoesOnFreely ==
  ASSUME SignInInv, SeedInv, NEW r \in Requests, NEW pc, Goes(r, pc), drawn' = drawn,
         pc \notin {"password", "consume", "seed", "confirming", "session", "clearing"}
  PROVE  OtherRequestsStay(r) /\ Standing(r)'
<1>1. asked'[r].pc = pc /\ asked'[r].seed = asked[r].seed /\ OtherRequestsStay(r)
  BY GoesMoves DEF OtherRequestsStay
<1>2. asked[r].seed <= Len(drawn)
  BY DEF SeedInv, Standing
<1> QED
  BY <1>1, <1>2 DEF Standing

LEMMA SeedPreserved ==
  ASSUME SignInInv, SeedInv, [SignInNext]_signInVars
  PROVE  SeedInv'
<1>0. Len(drawn) \in Nat /\ account.seed \in Nat /\ account.seed <= Len(drawn)
      /\ \A r \in Requests : asked[r].seed \in Nat /\ Standing(r) /\ asked[r].then \in Afterwards
  BY DEF SignInInv, SeedInv, Asking
<1>1. ASSUME NEW r \in Requests, FindOutstanding(r)
      PROVE  SeedInv'
  <2>1. OtherRequestsStay(r) /\ asked'[r].pc = "inviting" /\ asked'[r].seed = Null
    BY <1>1 DEF FindOutstanding, SignInInv, Asking, Fresh, OtherRequestsStay
  <2>2. drawn' = drawn /\ account' = account /\ sessions' = sessions
    BY <1>1 DEF FindOutstanding
  <2>3. Standing(r)'
    BY <1>0, <2>1, <2>2 DEF Standing, Null
  <2> QED
    BY <2>1, <2>2, <2>3, OneRequestMoves
<1>2. ASSUME NEW r \in Requests, SaveInvite(r) \/ RecordFailure(r) \/ IssueChallenge(r)
      PROVE  SeedInv'
  <2>1. Goes(r, "done")
    BY <1>2 DEF SaveInvite, RecordFailure, IssueChallenge
  <2>2. drawn' = drawn /\ account'.seed = account.seed /\ sessions' = sessions
    BY <1>2 DEF SaveInvite, RecordFailure, IssueChallenge, SignInInv
  <2> QED
    BY <2>1, <2>2, GoesOnFreely, OneRequestMoves
<1>3. ASSUME NEW r \in Requests, NEW pc \in {"failing", "clearing"}, NEW then \in Afterwards,
             Keeps(r, pc, then), then = "session" => account.seed # Null,
             UNCHANGED <<account, links, sessions, drawn>>
      PROVE  SeedInv'
  <2>1. /\ OtherRequestsStay(r) /\ asked'[r].pc = pc /\ asked'[r].then = then
        /\ asked'[r].seed = IF then = "session" THEN account.seed ELSE Null
    BY <1>3, KeepsMoves DEF OtherRequestsStay
  <2>2. Standing(r)'
    BY <1>0, <1>3, <2>1 DEF Standing, Null
  <2> QED
    BY <1>3, <2>1, <2>2, OneRequestMoves
<1>4. ASSUME NEW r \in Requests, Goes(r, "done"), UNCHANGED <<account, links, sessions, drawn>>
      PROVE  SeedInv'
  BY <1>4, GoesOnFreely, OneRequestMoves
<1>5. ASSUME NEW r \in Requests, NEW right \in BOOLEAN, SignIn(r, right)
      PROVE  SeedInv'
  BY <1>3, <1>4, <1>5 DEF SignIn, Afterwards
<1>6. ASSUME NEW r \in Requests, NEW seed, CompleteSignIn(r, seed)
      PROVE  SeedInv'
  BY <1>3, <1>4, <1>6 DEF CompleteSignIn, Afterwards
<1>7. ASSUME NEW r \in Requests, NEW seed, ConfirmEnrolment(r, seed)
      PROVE  SeedInv'
  <2>1. CASE Goes(r, "done")
    BY <1>4, <1>7, <2>1 DEF ConfirmEnrolment
  <2>2. CASE account.seed # Null /\ Keeps(r, "confirming", "session")
    <3>1. /\ OtherRequestsStay(r) /\ asked'[r].pc = "confirming" /\ asked'[r].then = "session"
          /\ asked'[r].seed = account.seed
      BY <2>2, KeepsMoves DEF OtherRequestsStay
    <3>2. drawn' = drawn /\ account' = account /\ sessions' = sessions
      BY <1>7 DEF ConfirmEnrolment
    <3>3. Standing(r)'
      BY <1>0, <2>2, <3>1, <3>2 DEF Standing
    <3> QED
      BY <2>2, <3>1, <3>2, <3>3, OneRequestMoves
  <2> QED
    BY <1>7, <2>1, <2>2 DEF ConfirmEnrolment
<1>8. ASSUME NEW r \in Requests, ConfirmTotp(r) \/ ClearFailures(r)
      PROVE  SeedInv'
  <2>1. /\ OtherRequestsStay(r) /\ asked'[r].then = asked[r].then /\ asked'[r].seed = asked[r].seed
        /\ \/ asked[r].pc = "confirming" /\ asked'[r].pc = "clearing"
           \/ asked[r].pc = "clearing" /\ asked'[r].pc = asked[r].then
    BY <1>8, GoesMoves DEF ConfirmTotp, ClearFailures, At, OtherRequestsStay
  <2>2. drawn' = drawn /\ account'.seed = account.seed /\ sessions' = sessions
    BY <1>8 DEF ConfirmTotp, ClearFailures, SignInInv
  <2>3. Standing(r)'
    BY <1>0, <2>1, <2>2 DEF Standing, Afterwards
  <2> QED
    BY <2>1, <2>2, <2>3, OneRequestMoves
<1>9. ASSUME NEW r \in Requests, OpenSession(r)
      PROVE  SeedInv'
  <2>1. Goes(r, "done") /\ drawn' = drawn /\ account' = account
    BY <1>9 DEF OpenSession
  <2>2. asked[r].seed \in 1..Len(drawn)
    BY <1>0, <1>9 DEF OpenSession, At, Standing, Null
  <2>3. PICK s : s = [by |-> r, seed |-> asked[r].seed, expires |-> asked[r].at + SessionTtl,
                      revoked |-> FALSE]
    OBVIOUS
  <2>4. sessions' = sessions \union {s} /\ s.seed = asked[r].seed
    BY <1>9, <2>3 DEF OpenSession
  <2> QED
    BY <2>1, <2>2, <2>4, GoesOnFreely, OneRequestMoves
<1>10. ASSUME NEW r \in Requests, NEW k \in links, AcceptInvite(r, k)
       PROVE  SeedInv'
  <2>1. /\ OtherRequestsStay(r) /\ asked'[r].pc = "password" /\ asked'[r].link = k.id
        /\ asked'[r].seed = Null
    BY <1>10 DEF AcceptInvite, Fresh, SignInInv, Asking, OtherRequestsStay
  <2>2. UNCHANGED <<account, links, sessions, drawn>>
    BY <1>10 DEF AcceptInvite
  <2>3. Standing(r)'
    BY <1>0, <2>1, <2>2 DEF Standing, WasIssued, Null
  <2> QED
    BY <2>1, <2>2, <2>3, OneRequestMoves
<1>11. ASSUME NEW r \in Requests, SetPassword(r)
       PROVE  SeedInv'
  <2>1. /\ OtherRequestsStay(r) /\ asked[r].pc = "password" /\ asked'[r].pc = "consume"
        /\ asked'[r].link = asked[r].link /\ asked'[r].seed = asked[r].seed
    BY <1>11, GoesMoves DEF SetPassword, At, OtherRequestsStay
  <2>2. account'.seed = account.seed /\ UNCHANGED <<links, sessions, drawn>>
    BY <1>11 DEF SetPassword, SignInInv
  <2>3. Standing(r)'
    BY <1>0, <2>1, <2>2 DEF Standing, WasIssued
  <2> QED
    BY <2>1, <2>2, <2>3, OneRequestMoves
<1>12. ASSUME NEW r \in Requests, ConsumeInvite(r)
       PROVE  SeedInv'
  <2>1. /\ OtherRequestsStay(r) /\ asked[r].pc = "consume" /\ asked'[r].pc = "seed"
        /\ asked'[r].link = asked[r].link /\ asked'[r].seed = asked[r].seed
    BY <1>12, GoesMoves DEF ConsumeInvite, At, OtherRequestsStay
  <2>2. UNCHANGED <<account, sessions, drawn>>
    BY <1>12 DEF ConsumeInvite
  <2>3. PICK k \in links : k.id = asked[r].link
    BY <1>0, <2>1 DEF Standing, WasIssued
  <2>4. [k EXCEPT !.spent = TRUE] \in links' /\ k \in LinkRecord
    BY <1>12, <2>3 DEF ConsumeInvite, SignInInv
  <2>5. [k EXCEPT !.spent = TRUE].spent /\ [k EXCEPT !.spent = TRUE].id = asked[r].link
    BY <2>3, <2>4 DEF LinkRecord
  <2>6. Standing(r)'
    BY <1>0, <2>1, <2>2, <2>4, <2>5 DEF Standing, SpentLink
  <2> QED
    BY <2>1, <2>2, <2>6, OneRequestMoves
<1>13. ASSUME NEW r \in Requests, SetTotpSecret(r)
       PROVE  SeedInv'
  <2>1. /\ OtherRequestsStay(r) /\ asked[r].pc = "seed" /\ asked'[r].pc = "awaiting_totp_enrolment"
        /\ asked'[r].seed = asked[r].seed
    BY <1>13, GoesMoves DEF SetTotpSecret, At, OtherRequestsStay
  <2>2. PICK link, n, seeds : link = asked[r].link /\ n = Len(drawn) /\ seeds = drawn'
    OBVIOUS
  <2>3. /\ link \in Nat /\ n \in Nat /\ SpentLink(link) /\ drawn \in Seq(Nat)
        /\ seeds = Append(drawn, link)
    BY <1>0, <1>13, <2>1, <2>2 DEF SetTotpSecret, Standing, SignInInv, Asking
  <2>4. /\ Len(seeds) = n + 1 /\ DOMAIN seeds = 1..(n + 1) /\ DOMAIN drawn = 1..n
        /\ \A m \in 1..n : seeds[m] = drawn[m]
        /\ seeds[n + 1] = link
    BY <2>2, <2>3
  <2>5. account'.seed = n + 1 /\ UNCHANGED <<links, sessions>>
    BY <1>13, <2>2 DEF SetTotpSecret, SignInInv
  <2>6. \A m \in DOMAIN seeds : SpentLink(seeds[m])
    <3>1. \A m \in 1..(n + 1) : m = n + 1 \/ m \in 1..n
      BY <2>3
    <3>2. \A m \in 1..n : SpentLink(drawn[m])
      BY <2>4 DEF SeedInv
    <3> QED
      BY <2>3, <2>4, <3>1, <3>2
  <2>7. ASSUME NEW q \in Requests
        PROVE  Standing(q)'
    <3>1. asked[q].seed \in Nat /\ asked[q].seed <= n /\ asked[q].seed <= Len(seeds)
      BY <1>0, <2>2, <2>3, <2>4 DEF Standing
    <3>2. CASE q = r
      BY <2>1, <2>2, <3>1, <3>2 DEF Standing
    <3>3. CASE q # r
      <4>1. asked'[q] = asked[q]
        BY <2>1, <3>3 DEF OtherRequestsStay, SignInInv
      <4> QED
        BY <1>0, <2>2, <2>5, <3>1, <4>1 DEF Standing, WasIssued, SpentLink
    <3> QED
      BY <3>2, <3>3
  <2>8. \A s \in sessions' : s.seed \in 1..Len(seeds)
    BY <2>2, <2>3, <2>4, <2>5 DEF SeedInv
  <2>9. (\A m \in DOMAIN drawn : SpentLink(drawn[m]))'
    BY <2>2, <2>5, <2>6 DEF SpentLink
  <2>10. account'.seed <= Len(drawn')
    BY <2>2, <2>3, <2>4, <2>5
  <2> QED
    BY <2>2, <2>7, <2>8, <2>9, <2>10 DEF SeedInv
<1>14. ASSUME NEW s \in sessions, SignOut(s)
       PROVE  SeedInv'
  <2>1. UNCHANGED <<account, links, asked, drawn>>
    BY <1>14 DEF SignOut
  <2>2. s \in SessionRecord
    BY DEF SignInInv
  <2>3. [s EXCEPT !.revoked = TRUE].seed = s.seed
    BY <2>2 DEF SessionRecord
  <2>4. \A e \in sessions' : e.seed \in 1..Len(drawn)
    BY <1>14, <2>3 DEF SignOut, SeedInv
  <2> QED
    BY <2>1, <2>4 DEF SeedInv, Standing, WasIssued, SpentLink
<1>15. CASE UNCHANGED <<account, links, sessions, asked, drawn>>
  BY <1>15 DEF SeedInv, Standing, WasIssued, SpentLink
<1> QED
  BY <1>1, <1>2, <1>5, <1>6, <1>7, <1>8, <1>9, <1>10, <1>11, <1>12, <1>13, <1>14, <1>15
  DEF SignInNext, PassMinute, signInVars

LEMMA SeedInitially == SignInInit => SeedInv
<1> SUFFICES ASSUME SignInInit  PROVE  SeedInv
  OBVIOUS
<1>1. sessions = {} /\ \A r \in Requests : asked[r].pc = "start" /\ asked[r].seed = 0
  BY DEF SignInInit, Fresh, Null
<1>2. CASE account.seed = 0 /\ drawn = <<>>
  <2>1. Len(drawn) = 0 /\ DOMAIN drawn = {}
    BY <1>2
  <2> QED
    BY <1>1, <1>2, <2>1 DEF SeedInv, Standing
<1>3. CASE account.seed = 1 /\ drawn = <<1>> /\ SpentLink(1)
  <2>1. Len(drawn) = 1 /\ \A n \in DOMAIN drawn : drawn[n] = 1
    BY <1>3
  <2> QED
    BY <1>1, <1>3, <2>1 DEF SeedInv, Standing
<1>4. links = {[id |-> 1, expires |-> 1, spent |-> TRUE]} => SpentLink(1)
  <2> DEFINE used == [id |-> 1, expires |-> 1, spent |-> TRUE]
  <2>1. used.spent /\ used.id = 1
    OBVIOUS
  <2> HIDE DEF used
  <2> QED
    BY <2>1 DEF SpentLink
<1> QED
  BY <1>2, <1>3, <1>4 DEF SignInInit, Null

\* The invariant of the sign-in tables and of their history.
LEMMA SignInInvariance == SignInSpec => [](SignInInv /\ SeedInv)
BY SignInInitially, SignInPreserved, SeedInitially, SeedPreserved, PTL DEF SignInSpec

\* The state of the sign-in tables is well formed.
THEOREM SignInIsTyped == SignInSpec => []SignInTypeOK
<1>1. SignInInv /\ SeedInv => SignInTypeOK
  <2> SUFFICES ASSUME SignInInv, SeedInv  PROVE  SignInTypeOK
    OBVIOUS
  <2>1. \A s \in sessions : s \in [by : Requests, seed : 1..Len(drawn), expires : Nat, revoked : BOOLEAN]
    BY DEF SignInInv, SessionRecord, SeedInv
  <2> QED
    BY <2>1 DEF SignInInv, SignInTypeOK, LinkRecord, SeedInv
<1> QED
  BY <1>1, SignInInvariance, PTL

\* Nobody has a session on the strength of a link that can still be used, for
\* any number of requests whose transactions interleave and stop anywhere.
THEOREM NoSessionBeforeALink == SignInSpec => []SessionsComeOfSpentLinks
<1>1. SeedInv => SessionsComeOfSpentLinks
  BY DEF SeedInv, SessionsComeOfSpentLinks, SpentLink
<1> QED
  BY <1>1, SignInInvariance, PTL

-----------------------------------------------------------------------------
(* The policy gate.                                                        *)

GateFields == {"pc", "call", "queue", "read", "verdict", "engaged"}
GatePlaces == {"idle", "rules", "emit", "done", "lost"}
GateVerdicts == {"allow", "dual_control", "escalate", "refuse"}
LimitValues == Amounts \union {Unset, NotANumber}
Chosen(call) == {r \in Rules : Selects(r, call)}
Allows(r, call) == ObjectionOf(r, call, frozen) = "allow"

\* What a walk has left is in order, and a rule it has passed allows the call
\* under the snapshot; of the rule it is at it has read a part.
WalkInv(r) ==
  /\ Engaged(r.call.subject, r.call.context) = 0
  /\ \A i, j \in 1..Len(r.queue) : i < j => r.queue[i].rank >= r.queue[j].rank
  /\ \A i \in 1..Len(r.queue) : r.queue[i] \in Chosen(r.call)
  /\ r.call.pinned =>
       /\ \A rule \in Chosen(r.call) :
            Allows(rule, r.call) \/ \E i \in 1..Len(r.queue) : r.queue[i] = rule
       /\ r.queue = <<>> \/ Len(r.read) <= Len(r.queue[1].needs)
       /\ r.queue # <<>> => \A i \in 1..Len(r.read) :
            r.read[i] = frozen[r.queue[1].needs[i]] /\ r.read[i] # Unset

EvaluationInv(r) ==
  /\ DOMAIN r = GateFields
  /\ r.pc \in GatePlaces /\ r.call \in Calls /\ r.engaged \in 0..11
  /\ r.queue \in Seq(Rules) /\ r.read \in Seq(LimitValues)
  /\ r.pc = "rules" => WalkInv(r)
  /\ r.pc \in {"emit", "done"} =>
       /\ r.verdict \in GateVerdicts
       /\ r.call.pinned => r.verdict \in Deserved(r.call, frozen)

GateInv ==
  /\ limits \in Settings /\ frozen \in Settings /\ edits \in 0..MaxEdits
  /\ gates = [g \in Gates |-> gates[g]]
  /\ \A g \in Gates : EvaluationInv(gates[g])
  /\ \A v \in verdicts : /\ v.by \in Gates /\ gates[v.by].pc = "done"
                         /\ v.verdict = gates[v.by].verdict

LEMMA LeastOfNaturals ==
  ASSUME NEW T, T \subseteq Nat, T # {}
  PROVE  \E n \in T : \A m \in T : n <= m
<1>1. PICK n \in T : \A m \in T : ~(<<m, n>> \in OpToRel(<, Nat))
  BY NatLessThanWellFounded, WFMin
<1>2. ASSUME NEW m \in T
      PROVE  ~(m < n)
  <2>1. m < n => <<m, n>> \in OpToRel(<, Nat)
    BY DEF OpToRel
  <2> QED
    BY <1>1, <2>1, Zenon
<1> QED
  BY <1>2

LEMMA EngagedIsARule == \A s, c : Engaged(s, c) \in 0..11
<1> SUFFICES ASSUME NEW s, NEW c
             PROVE  Engaged(s, c) \in 0..11
  OBVIOUS
<1> DEFINE numbers == {n \in 1..11 : Engages(s, c)[n]}
<1>1. CASE numbers = {}
  BY <1>1 DEF Engaged
<1>2. CASE numbers # {}
  <2>1. \E n \in numbers : \A m \in numbers : n <= m
    BY <1>2, LeastOfNaturals
  <2>2. (CHOOSE n \in numbers : \A m \in numbers : n <= m) \in numbers
    BY <2>1
  <2>3. Engaged(s, c) = CHOOSE n \in numbers : \A m \in numbers : n <= m
    BY <1>2 DEF Engaged
  <2> QED
    BY <2>2, <2>3
<1> QED
  BY <1>1, <1>2

LEMMA NoGateIsIdle ==
  /\ DOMAIN NoGate = GateFields /\ NoGate.pc = "idle" /\ NoGate.call \in Calls
  /\ NoGate.queue = <<>> /\ NoGate.read = <<>> /\ NoGate.engaged = 0
BY GateConstants DEF NoGate, GateFields

\* A walk starts with the rules that select its call, each once, in order.
LEMMA WalkStarts ==
  ASSUME NEW call, NEW queue \in SelectedRules(call)
  PROVE  /\ queue \in Seq(Rules)
         /\ \A i, j \in 1..Len(queue) : i < j => queue[i].rank >= queue[j].rank
         /\ \A i \in 1..Len(queue) : queue[i] \in Chosen(call)
         /\ \A rule \in Chosen(call) : \E i \in 1..Len(queue) : queue[i] = rule
<1> DEFINE rules == Chosen(call)
           n     == Cardinality(rules)
<1>1. IsFiniteSet(rules) /\ n \in Nat
  BY GateConstants, FS_Subset, FS_CardinalityType DEF Chosen
<1>2. /\ queue \in [1..n -> rules] /\ \A i, j \in 1..n : i # j => queue[i] # queue[j]
      /\ \A i, j \in DOMAIN queue : i < j => queue[i].rank >= queue[j].rank
  BY DEF SelectedRules, InOrder, SetToSeqs, Chosen
<1>3. queue \in Injection(1..n, rules)
  BY <1>2 DEF Injection, IsInjective
<1>4. queue \in Surjection(1..n, rules)
  <2>1. IsFiniteSet(1..n) /\ Cardinality(1..n) = n
    BY <1>1, FS_Interval
  <2> HIDE DEF rules, n
  <2> QED
    BY <1>1, <1>3, <2>1, FS_Injection DEF n
<1>5. \A rule \in rules : \E i \in 1..n : queue[i] = rule
  BY <1>4 DEF Surjection
<1>6. rules \subseteq Rules
  BY DEF Chosen
<1> HIDE DEF rules, n
<1>7. queue \in Seq(Rules) /\ Len(queue) = n
  BY <1>1, <1>2, <1>6
<1> QED
  BY <1>2, <1>5, <1>7 DEF rules

LEMMA NothingObjects ==
  ASSUME NEW call, Engaged(call.subject, call.context) = 0,
         \A rule \in Chosen(call) : Allows(rule, call)
  PROVE  "allow" \in Deserved(call, frozen)
BY DEF Deserved, Chosen, Allows

LEMMA HighestObjects ==
  ASSUME NEW call, Engaged(call.subject, call.context) = 0,
         NEW r \in Chosen(call), ~Allows(r, call),
         \A rule \in Chosen(call) : Allows(rule, call) \/ rule.rank <= r.rank
  PROVE  ObjectionOf(r, call, frozen) \in Deserved(call, frozen)
BY DEF Deserved, Chosen, Allows

\* At a rule that objects: none that objects ranks higher.
LEMMA HeadIsHighest ==
  ASSUME NEW r, r.queue \in Seq(Rules), r.queue # <<>>, WalkInv(r), r.call.pinned,
         ~Allows(r.queue[1], r.call)
  PROVE  ObjectionOf(r.queue[1], r.call, frozen) \in Deserved(r.call, frozen)
<1>1. Len(r.queue) \in Nat /\ 1 \in 1..Len(r.queue) /\ r.queue[1] \in Chosen(r.call)
  BY DEF WalkInv
<1>2. \A i \in 1..Len(r.queue) : r.queue[i].rank \in Int
  BY GateConstants
<1>3. \A i \in 1..Len(r.queue) : r.queue[i].rank <= r.queue[1].rank
  BY <1>1, <1>2 DEF WalkInv
<1>4. \A rule \in Chosen(r.call) : Allows(rule, r.call) \/ rule.rank <= r.queue[1].rank
  BY <1>3 DEF WalkInv
<1> QED
  BY <1>1, <1>4, HighestObjects DEF WalkInv

\* A gate's state is judged by a snapshot that does not change.
LEMMA SnapshotStays ==
  ASSUME frozen' = frozen, NEW h, EvaluationInv(gates'[h])
  PROVE  EvaluationInv(gates[h])'
<1>1. PICK e : e = gates'[h]
  OBVIOUS
<1>2. ASSUME WalkInv(e)
      PROVE  WalkInv(gates[h])'
  <2>1. \A rule : Allows(rule, e.call) = Allows(rule, gates[h].call)'
    BY <1>1 DEF Allows
  <2> QED
    BY <1>1, <1>2, <2>1 DEF WalkInv
<1>3. EvaluationInv(e)
  BY <1>1
<1> QED
  BY <1>1, <1>2, <1>3, Zenon DEF EvaluationInv

\* One gate moves, and its verdict is written when it is done.
LEMMA OneGateMoves ==
  ASSUME GateInv, NEW g \in Gates, NEW r, EvaluationInv(r), gates' = [gates EXCEPT ![g] = r],
         gates[g].pc # "done",
         \A v \in verdicts' : \/ v \in verdicts
                              \/ v.by = g /\ r.pc = "done" /\ v.verdict = r.verdict,
         UNCHANGED <<limits, frozen, edits>>
  PROVE  GateInv'
<1>1. /\ gates' = [h \in Gates |-> gates'[h]] /\ gates'[g] = r
      /\ \A h \in Gates \ {g} : gates'[h] = gates[h]
  BY DEF GateInv
<1>2. \A h \in Gates : EvaluationInv(gates'[h])
  BY <1>1 DEF GateInv
<1>3. \A h \in Gates : EvaluationInv(gates[h])'
  BY <1>2, SnapshotStays
<1>4. ASSUME NEW v \in verdicts'
      PROVE  /\ v.by \in Gates /\ gates'[v.by].pc = "done"
             /\ v.verdict = gates'[v.by].verdict
  <2>1. CASE v \in verdicts
    <3>1. v.by \in Gates /\ gates[v.by].pc = "done" /\ v.verdict = gates[v.by].verdict
      BY <2>1 DEF GateInv
    <3>2. v.by # g
      BY <3>1
    <3> QED
      BY <1>1, <3>1, <3>2
  <2>2. CASE v.by = g /\ r.pc = "done" /\ v.verdict = r.verdict
    BY <1>1, <2>2
  <2> QED
    BY <2>1, <2>2
<1> QED
  BY <1>1, <1>3, <1>4 DEF GateInv

LEMMA GateInitially == GateInit => GateInv
<1> SUFFICES ASSUME GateInit
             PROVE  GateInv
  OBVIOUS
<1>1. EvaluationInv(NoGate)
  BY NoGateIsIdle DEF EvaluationInv, GatePlaces
<1>2. /\ gates = [g \in Gates |-> gates[g]] /\ \A g \in Gates : gates[g] = NoGate
      /\ limits \in Settings /\ frozen = limits /\ edits = 0 /\ verdicts = {}
  BY DEF GateInit
<1> QED
  BY <1>1, <1>2, GateConstants DEF GateInv

LEMMA GatePreserved == GateInv /\ [GateNext]_gateVars => GateInv'
<1> SUFFICES ASSUME GateInv, [GateNext]_gateVars
             PROVE  GateInv'
  OBVIOUS
<1>0. \A g \in Gates : EvaluationInv(gates[g])
  BY DEF GateInv
<1>1. ASSUME NEW g \in Gates, NEW call \in Calls, BeginGate(g, call)
      PROVE  GateInv'
  <2>1. PICK n : n = Engaged(call.subject, call.context)
    OBVIOUS
  <2>2. n \in 0..11
    BY <2>1, EngagedIsARule
  <2>3. CASE n # 0
    <3>1. PICK r : r = [NoGate EXCEPT !.pc = "emit", !.call = call, !.verdict = "refuse",
                                      !.engaged = n]
      OBVIOUS
    <3>2. /\ DOMAIN r = GateFields /\ r.pc = "emit" /\ r.call = call /\ r.verdict = "refuse"
          /\ r.engaged = n /\ r.queue = <<>> /\ r.read = <<>>
      BY <3>1, NoGateIsIdle DEF GateFields
    <3>3. "refuse" \in Deserved(call, frozen)
      BY <2>1, <2>3 DEF Deserved
    <3>4. EvaluationInv(r)
      BY <2>2, <3>2, <3>3 DEF EvaluationInv, GatePlaces, GateVerdicts
    <3>5. gates' = [gates EXCEPT ![g] = r] /\ gates[g].pc = "idle"
          /\ UNCHANGED <<limits, frozen, edits, verdicts>>
      BY <1>1, <2>1, <2>3, <3>1 DEF BeginGate
    <3> QED
      BY <3>4, <3>5, OneGateMoves
  <2>4. CASE n = 0
    <3>1. PICK queue \in SelectedRules(call) :
            gates' = [gates EXCEPT ![g] = [NoGate EXCEPT
                        !.pc = "rules", !.call = call, !.queue = queue]]
      BY <1>1, <2>1, <2>4 DEF BeginGate
    <3>2. PICK r : r = [NoGate EXCEPT !.pc = "rules", !.call = call, !.queue = queue]
      OBVIOUS
    <3>3. /\ DOMAIN r = GateFields /\ r.pc = "rules" /\ r.call = call
          /\ r.engaged = 0 /\ r.queue = queue /\ r.read = <<>>
      BY <3>2, NoGateIsIdle DEF GateFields
    <3>4. /\ queue \in Seq(Rules)
          /\ \A i, j \in 1..Len(queue) : i < j => queue[i].rank >= queue[j].rank
          /\ \A i \in 1..Len(queue) : queue[i] \in Chosen(call)
          /\ \A rule \in Chosen(call) : \E i \in 1..Len(queue) : queue[i] = rule
      BY WalkStarts
    <3>5. queue = <<>> \/ 0 <= Len(queue[1].needs)
      BY <3>4, GateConstants
    <3>6. WalkInv(r)
      <4>1. Len(r.read) = 0 /\ \A i \in 1..Len(r.read) : FALSE
        BY <3>3
      <4>2. Engaged(r.call.subject, r.call.context) = 0
        BY <2>1, <2>4, <3>3
      <4> QED
        BY <3>3, <3>4, <3>5, <4>1, <4>2 DEF WalkInv
    <3>7. EvaluationInv(r)
      BY <3>3, <3>4, <3>6 DEF EvaluationInv, GatePlaces
    <3>8. gates' = [gates EXCEPT ![g] = r] /\ gates[g].pc = "idle"
          /\ UNCHANGED <<limits, frozen, edits, verdicts>>
      BY <1>1, <3>1, <3>2 DEF BeginGate
    <3> QED
      BY <3>7, <3>8, OneGateMoves
  <2> QED
    BY <2>3, <2>4
<1>2. ASSUME NEW g \in Gates, ReadThreshold(g)
      PROVE  GateInv'
  <2> DEFINE rule == Head(gates[g].queue)
             k    == Len(gates[g].read) + 1
  <2>1. /\ gates[g].pc = "rules" /\ gates[g].queue # <<>> /\ EvaluationInv(gates[g])
        /\ gates[g].queue \in Seq(Rules) /\ gates[g].read \in Seq(LimitValues)
        /\ WalkInv(gates[g]) /\ Len(gates[g].read) < Len(rule.needs)
    BY <1>0, <1>2 DEF ReadThreshold, EvaluationInv
  <2>2. rule = gates[g].queue[1] /\ rule \in Rules /\ rule.needs \in Seq(Thresholds)
        /\ 1 \in 1..Len(gates[g].queue) /\ rule \in Chosen(gates[g].call)
    BY <2>1, GateConstants DEF WalkInv
  <2>3. k \in 1..Len(rule.needs) /\ rule.needs[k] \in Thresholds
    <3>1. Len(rule.needs) \in Nat /\ Len(gates[g].read) \in Nat
      BY <2>1, <2>2
    <3>2. k \in 1..Len(rule.needs)
      BY <2>1, <3>1
    <3> HIDE DEF rule, k
    <3> QED
      BY <2>2, <3>2
  <2>4. PICK value : value = SettingsOf(g)[rule.needs[k]]
    OBVIOUS
  <2>5. value \in LimitValues /\ (gates[g].call.pinned => value = frozen[rule.needs[k]])
    BY <2>3, <2>4 DEF SettingsOf, GateInv, Settings, LimitValues
  <2>6. CASE value = Unset
    <3>1. PICK r : r = [gates[g] EXCEPT !.pc = "emit", !.verdict = "refuse"]
      OBVIOUS
    <3>2. gates' = [gates EXCEPT ![g] = r] /\ UNCHANGED <<limits, frozen, edits, verdicts>>
      BY <1>2, <2>4, <2>6, <3>1 DEF ReadThreshold, GateInv
    <3>3. /\ DOMAIN r = GateFields /\ r.pc = "emit" /\ r.verdict = "refuse"
          /\ r.call = gates[g].call /\ r.engaged = gates[g].engaged
          /\ r.queue = gates[g].queue /\ r.read = gates[g].read
      BY <2>1, <3>1 DEF EvaluationInv, GateFields
    <3>4. ASSUME gates[g].call.pinned
          PROVE  "refuse" \in Deserved(gates[g].call, frozen)
      <4>1. k \in DOMAIN rule.needs /\ frozen[rule.needs[k]] = Unset
        BY <2>2, <2>3, <2>5, <2>6, <3>4
      <4>2. ObjectionOf(rule, gates[g].call, frozen) = "refuse"
        BY <4>1 DEF ObjectionOf
      <4>3. ~Allows(rule, gates[g].call)
        BY <4>2 DEF Allows
      <4> QED
        BY <2>1, <2>2, <3>4, <4>2, <4>3, HeadIsHighest
    <3>5. EvaluationInv(r)
      BY <2>1, <3>3, <3>4 DEF EvaluationInv, GatePlaces, GateVerdicts
    <3> QED
      BY <2>1, <3>2, <3>5, OneGateMoves
  <2>7. CASE value # Unset
    <3>1. PICK read : read = Append(gates[g].read, value)
      OBVIOUS
    <3>2. PICK r : r = [gates[g] EXCEPT !.read = read]
      OBVIOUS
    <3>3. gates' = [gates EXCEPT ![g] = r] /\ UNCHANGED <<limits, frozen, edits, verdicts>>
      <4>1. gates' = [gates EXCEPT ![g] = [gates[g] EXCEPT !.read = Append(gates[g].read, value)]]
        BY <1>2, <2>4, <2>7, Zenon DEF ReadThreshold
      <4> QED
        BY <1>2, <3>1, <3>2, <4>1 DEF ReadThreshold
    <3>4. /\ DOMAIN r = GateFields /\ r.pc = "rules" /\ r.read = read
          /\ r.call = gates[g].call /\ r.engaged = gates[g].engaged
          /\ r.queue = gates[g].queue
      BY <2>1, <3>2 DEF EvaluationInv, GateFields
    <3>5. /\ read \in Seq(LimitValues) /\ Len(read) = k /\ read[k] = value /\ k \in Nat
          /\ \A i \in 1..(k - 1) : read[i] = gates[g].read[i]
      BY <2>1, <2>5, <3>1
    <3>6. ASSUME gates[g].call.pinned
          PROVE  \A i \in 1..Len(read) : read[i] = frozen[rule.needs[i]] /\ read[i] # Unset
      <4>1. \A i \in 1..Len(gates[g].read) :
              gates[g].read[i] = frozen[rule.needs[i]] /\ gates[g].read[i] # Unset
        BY <2>1, <2>2, <3>6 DEF WalkInv
      <4>2. value = frozen[rule.needs[k]]
        BY <2>5, <3>6
      <4> HIDE DEF rule
      <4>3. ASSUME NEW i \in 1..Len(read)
            PROVE  read[i] = frozen[rule.needs[i]] /\ read[i] # Unset
        <5>1. CASE i = k
          BY <2>7, <3>5, <4>2, <5>1
        <5>2. CASE i # k
          <6>1. i \in 1..(k - 1) /\ i \in 1..Len(gates[g].read)
            BY <2>1, <3>5, <5>2
          <6> QED
            BY <3>5, <4>1, <6>1
        <5> QED
          BY <5>1, <5>2
      <4> QED
        BY <4>3
    <3>7. WalkInv(r)
      <4>1. r.queue # <<>> => rule = r.queue[1]
        BY <3>4
      <4>2. k <= Len(rule.needs)
        BY <2>3
      <4> HIDE DEF rule, k
      <4>3. WalkInv(gates[g]) /\ r.queue # <<>>
        BY <2>1, <2>2, <3>4
      <4> QED
        BY <3>4, <3>5, <3>6, <4>1, <4>2, <4>3 DEF WalkInv
    <3>8. EvaluationInv(r)
      BY <2>1, <3>4, <3>5, <3>7 DEF EvaluationInv, GatePlaces
    <3> QED
      BY <2>1, <3>3, <3>8, OneGateMoves
  <2> QED
    BY <2>6, <2>7
<1>3. ASSUME NEW g \in Gates, Judge(g)
      PROVE  GateInv'
  <2>1. /\ gates[g].pc = "rules" /\ EvaluationInv(gates[g])
        /\ gates[g].queue \in Seq(Rules) /\ gates[g].read \in Seq(LimitValues)
        /\ WalkInv(gates[g]) /\ UNCHANGED <<limits, frozen, edits, verdicts>>
    BY <1>0, <1>3 DEF Judge, EvaluationInv
  <2>2. ASSUME NEW verdict \in GateVerdicts,
               gates' = [gates EXCEPT ![g] = [gates[g] EXCEPT !.pc = "emit", !.verdict = verdict]],
               gates[g].call.pinned => verdict \in Deserved(gates[g].call, frozen)
        PROVE  GateInv'
    <3>1. PICK r : r = [gates[g] EXCEPT !.pc = "emit", !.verdict = verdict]
      OBVIOUS
    <3>2. /\ DOMAIN r = GateFields /\ r.pc = "emit" /\ r.verdict = verdict
          /\ r.call = gates[g].call /\ r.engaged = gates[g].engaged
          /\ r.queue = gates[g].queue /\ r.read = gates[g].read
      BY <2>1, <3>1 DEF EvaluationInv, GateFields
    <3>3. EvaluationInv(r)
      BY <2>1, <2>2, <3>2 DEF EvaluationInv, GatePlaces
    <3> QED
      BY <2>1, <2>2, <3>1, <3>3, OneGateMoves
  <2>3. CASE gates[g].queue = <<>>
    <3>1. gates' = [gates EXCEPT ![g] = [gates[g] EXCEPT !.pc = "emit", !.verdict = "allow"]]
      BY <1>3, <2>3 DEF Judge, GateInv
    <3>2. gates[g].call.pinned => "allow" \in Deserved(gates[g].call, frozen)
      BY <2>1, <2>3, NothingObjects DEF WalkInv
    <3> QED
      BY <2>2, <3>1, <3>2 DEF GateVerdicts
  <2>4. CASE gates[g].queue # <<>>
    <3> DEFINE rule == Head(gates[g].queue)
    <3>1. PICK outcome : outcome = Outcome(rule, gates[g].call.amount, gates[g].read)
      OBVIOUS
    <3>2. rule = gates[g].queue[1] /\ rule \in Rules /\ rule.needs \in Seq(Thresholds)
          /\ 1 \in 1..Len(gates[g].queue) /\ rule \in Chosen(gates[g].call)
          /\ Len(gates[g].queue) \in Nat /\ outcome \in GateVerdicts
      BY <2>1, <2>4, <3>1, GateConstants DEF WalkInv, Outcome, GateVerdicts
    <3>3. ASSUME gates[g].call.pinned
          PROVE  ObjectionOf(rule, gates[g].call, frozen) = outcome
      <4>1. Len(gates[g].read) = Len(rule.needs)
        BY <1>3, <2>4 DEF Judge
      <4>2. /\ DOMAIN rule.needs = 1..Len(rule.needs) /\ DOMAIN gates[g].read = 1..Len(rule.needs)
            /\ gates[g].read = [i \in DOMAIN gates[g].read |-> gates[g].read[i]]
        BY <2>1, <3>2, <4>1
      <4>3. \A i \in DOMAIN rule.needs :
              gates[g].read[i] = frozen[rule.needs[i]] /\ gates[g].read[i] # Unset
        BY <2>1, <2>4, <3>2, <3>3, <4>1, <4>2 DEF WalkInv
      <4> HIDE DEF rule
      <4>4. gates[g].read = [i \in DOMAIN rule.needs |-> frozen[rule.needs[i]]]
        BY <4>2, <4>3
      <4>5. ~ \E i \in DOMAIN rule.needs : frozen[rule.needs[i]] = Unset
        BY <4>3
      <4> QED
        BY <3>1, <4>4, <4>5, Zenon DEF ObjectionOf
    <3>4. CASE outcome # "allow"
      <4>1. gates' = [gates EXCEPT ![g] = [gates[g] EXCEPT !.pc = "emit", !.verdict = outcome]]
        BY <1>3, <2>4, <3>1, <3>4 DEF Judge, GateInv
      <4>2. gates[g].call.pinned => outcome \in Deserved(gates[g].call, frozen)
        BY <2>1, <2>4, <3>2, <3>3, <3>4, HeadIsHighest DEF Allows
      <4> QED
        BY <2>2, <3>2, <4>1, <4>2
    <3>5. CASE outcome = "allow"
      <4>1. PICK rest : rest = Tail(gates[g].queue)
        OBVIOUS
      <4>2. PICK r : r = [gates[g] EXCEPT !.queue = rest, !.read = <<>>]
        OBVIOUS
      <4>3. gates' = [gates EXCEPT ![g] = r]
        <5>1. gates' = [gates EXCEPT ![g] =
                          [gates[g] EXCEPT !.queue = Tail(gates[g].queue), !.read = <<>>]]
          BY <1>3, <2>4, <3>1, <3>5, Zenon DEF Judge
        <5> QED
          BY <4>1, <4>2, <5>1
      <4>4. /\ DOMAIN r = GateFields /\ r.pc = "rules" /\ r.read = <<>>
            /\ r.call = gates[g].call /\ r.engaged = gates[g].engaged /\ r.queue = rest
        BY <2>1, <4>2 DEF EvaluationInv, GateFields
      <4>5. /\ rest \in Seq(Rules) /\ Len(rest) = Len(gates[g].queue) - 1 /\ Len(rest) \in Nat
            /\ \A i \in 1..Len(rest) : rest[i] = gates[g].queue[i + 1]
        BY <2>1, <2>4, <4>1
      <4>6. \A i, j \in 1..Len(rest) : i < j => rest[i].rank >= rest[j].rank
        <5>1. \A i, j \in 1..Len(gates[g].queue) :
                i < j => gates[g].queue[i].rank >= gates[g].queue[j].rank
          BY <2>1 DEF WalkInv
        <5>2. SUFFICES ASSUME NEW i \in 1..Len(rest), NEW j \in 1..Len(rest), i < j
                       PROVE  rest[i].rank >= rest[j].rank
          OBVIOUS
        <5>3. i + 1 \in 1..Len(gates[g].queue) /\ j + 1 \in 1..Len(gates[g].queue) /\ i + 1 < j + 1
          BY <2>1, <4>5, <5>2
        <5> QED
          BY <4>5, <5>1, <5>3
      <4>7. \A i \in 1..Len(rest) : rest[i] \in Chosen(gates[g].call)
        BY <2>1, <4>5 DEF WalkInv
      <4>8. ASSUME gates[g].call.pinned, NEW other \in Chosen(gates[g].call)
            PROVE  Allows(other, gates[g].call) \/ \E i \in 1..Len(rest) : rest[i] = other
        <5>1. CASE other = rule
          BY <3>3, <3>5, <4>8, <5>1 DEF Allows
        <5>2. CASE other # rule
          <6>1. SUFFICES ASSUME ~Allows(other, gates[g].call)
                         PROVE  \E i \in 1..Len(rest) : rest[i] = other
            OBVIOUS
          <6>2. PICK i \in 1..Len(gates[g].queue) : gates[g].queue[i] = other
            BY <2>1, <4>8, <6>1 DEF WalkInv
          <6>3. i # 1 /\ i - 1 \in 1..Len(rest) /\ rest[i - 1] = other
            BY <3>2, <4>5, <5>2, <6>2
          <6> QED
            BY <6>3
        <5> QED
          BY <5>1, <5>2
      <4>9. rest # <<>> => 0 <= Len(rest[1].needs)
        <5>1. rest # <<>> => rest[1] \in Rules
          BY <4>5
        <5> QED
          BY <5>1, GateConstants
      <4>10. WalkInv(r)
        BY <2>1, <4>4, <4>5, <4>6, <4>7, <4>8, <4>9 DEF WalkInv
      <4>11. EvaluationInv(r)
        BY <2>1, <4>4, <4>5, <4>10 DEF EvaluationInv, GatePlaces
      <4> QED
        BY <2>1, <4>3, <4>11, OneGateMoves
    <3> QED
      BY <3>4, <3>5
  <2> QED
    BY <2>3, <2>4
<1>4. ASSUME NEW g \in Gates, EmitVerdict(g)
      PROVE  GateInv'
  <2>1. PICK r : r = [gates[g] EXCEPT !.pc = "done"]
    OBVIOUS
  <2>2. /\ gates[g].pc = "emit" /\ EvaluationInv(gates[g])
        /\ gates' = [gates EXCEPT ![g] = r] /\ UNCHANGED <<limits, frozen, edits>>
    BY <1>0, <1>4, <2>1 DEF EmitVerdict, GateInv
  <2>3. /\ DOMAIN r = GateFields /\ r.pc = "done" /\ r.verdict = gates[g].verdict
        /\ r.call = gates[g].call /\ r.engaged = gates[g].engaged
        /\ r.queue = gates[g].queue /\ r.read = gates[g].read
    BY <2>1, <2>2 DEF EvaluationInv, GateFields
  <2>4. EvaluationInv(r)
    BY <2>2, <2>3 DEF EvaluationInv, GatePlaces
  <2>5. \A v \in verdicts' : v \in verdicts \/ (v.by = g /\ v.verdict = r.verdict)
    BY <1>4, <2>3 DEF EmitVerdict
  <2> QED
    BY <2>2, <2>3, <2>4, <2>5, OneGateMoves
<1>5. ASSUME NEW g \in Gates, LoseGate(g)
      PROVE  GateInv'
  <2>1. PICK r : r = [gates[g] EXCEPT !.pc = "lost"]
    OBVIOUS
  <2>2. /\ gates[g].pc # "done" /\ EvaluationInv(gates[g])
        /\ gates' = [gates EXCEPT ![g] = r] /\ UNCHANGED <<limits, frozen, edits, verdicts>>
    BY <1>0, <1>5, <2>1 DEF LoseGate, GateInv
  <2>3. /\ DOMAIN r = GateFields /\ r.pc = "lost" /\ r.verdict = gates[g].verdict
        /\ r.call = gates[g].call /\ r.engaged = gates[g].engaged
        /\ r.queue = gates[g].queue /\ r.read = gates[g].read
    BY <2>1, <2>2 DEF EvaluationInv, GateFields
  <2>4. EvaluationInv(r)
    BY <2>2, <2>3 DEF EvaluationInv, GatePlaces
  <2> QED
    BY <2>2, <2>4, OneGateMoves
<1>6. ASSUME NEW field \in Thresholds, NEW value \in Amounts \union {Unset}, EditLimit(field, value)
      PROVE  GateInv'
  <2>0. /\ limits' = [limits EXCEPT ![field] = value] /\ edits' = edits + 1
        /\ edits < MaxEdits /\ UNCHANGED <<frozen, gates, verdicts>>
        /\ limits \in Settings /\ edits \in 0..MaxEdits
    BY <1>6 DEF EditLimit, GateInv
  <2>1. limits' \in Settings /\ edits' \in 0..MaxEdits /\ UNCHANGED <<frozen, gates, verdicts>>
    BY <2>0, GateConstants DEF Settings
  <2>2. \A h \in Gates : EvaluationInv(gates[h])'
    BY <1>0, <2>1, SnapshotStays
  <2> QED
    BY <2>1, <2>2 DEF GateInv
<1>7. CASE UNCHANGED gateVars
  <2>1. \A h \in Gates : EvaluationInv(gates[h])'
    BY <1>0, <1>7, SnapshotStays DEF gateVars
  <2> QED
    BY <1>7, <2>1 DEF gateVars, GateInv
<1> QED
  BY <1>1, <1>2, <1>3, <1>4, <1>5, <1>6, <1>7 DEF GateNext

\* The gates' state is well formed.
THEOREM GatesAreTyped == GateSpec => []GateTypeOK
<1>1. GateInv => GateTypeOK
  BY DEF GateInv, EvaluationInv, GateTypeOK, GatePlaces, GateVerdicts
<1> QED
  BY <1>1, GateInitially, GatePreserved, PTL DEF GateSpec

\* A pinned gate's verdict is what the settings snapshot deserves: for any
\* rules, of any ranks and thresholds, read one at a time while the settings
\* change.
THEOREM PinnedGatesAreFrozen == GateSpec => []PinnedVerdictIsTheSnapshots
<1>1. GateInv => PinnedVerdictIsTheSnapshots
  BY DEF GateInv, EvaluationInv, PinnedVerdictIsTheSnapshots
<1> QED
  BY <1>1, GateInitially, GatePreserved, PTL DEF GateSpec

-----------------------------------------------------------------------------
(* Planning: a graph and the autonomy that backs it.                       *)

\* A node that goes live does so at "execute".
BackedNode(n, level) == n.live => level = "execute"

\* Tools are taken one place at a time.
LEMMA ToolsAreListed ==
  ASSUME NEW tools, tools \in Seq({tools[i] : i \in DOMAIN tools}),
         NEW places, places \subseteq DOMAIN tools
  PROVE  \E n \in Nat : DOMAIN ToolsAt(tools, places) = 1..n
<1>1. IsFiniteSet(places)
  BY FS_Interval, FS_Subset
<1>2. Cardinality(places) \in Nat
  BY <1>1, FS_CardinalityType
<1> QED
  BY <1>2 DEF ToolsAt

\* A node that is given by its kind and rank is not live.
LEMMA PlainNodes ==
  \A kind, rank : Node(kind, rank).kind = kind /\ ~Node(kind, rank).live
BY DEF Node

LEMMA WriteNodes ==
  \A tool, level : BackedNode(WriteNode(tool, level), level)
BY Zenon DEF WriteNode, BackedNode

\* Two lists of backed nodes are one.
HandsOff(nodes) == \E i \in 1..Len(nodes) : nodes[i].kind = "handoff"

LEMMA BackedTogether ==
  ASSUME NEW S, NEW a \in Seq(S), NEW b \in Seq(S)
  PROVE  a \o b \in Seq(S) /\ (HandsOff(a) \/ HandsOff(b) => HandsOff(a \o b))
<1>1. /\ a \o b \in Seq(S) /\ Len(a \o b) = Len(a) + Len(b)
      /\ \A i \in 1..Len(a) : (a \o b)[i] = a[i]
      /\ \A i \in 1..Len(b) : (a \o b)[Len(a) + i] = b[i]
  BY ConcatProperties
<1>2. Len(a) \in Nat /\ Len(b) \in Nat
  OBVIOUS
<1>3. ASSUME NEW i \in 1..Len(b), b[i].kind = "handoff"
      PROVE  \E k \in 1..Len(a \o b) : (a \o b)[k].kind = "handoff"
  <2>1. Len(a) + i \in 1..Len(a \o b)
    BY <1>1, <1>2
  <2> QED
    BY <1>1, <1>3, <2>1
<1>4. ASSUME NEW i \in 1..Len(a), a[i].kind = "handoff"
      PROVE  \E k \in 1..Len(a \o b) : (a \o b)[k].kind = "handoff"
  <2>1. i \in 1..Len(a \o b)
    BY <1>1, <1>2
  <2> QED
    BY <1>1, <1>4, <2>1
<1> QED
  BY <1>1, <1>3, <1>4 DEF HandsOff

LEMMA WhenSoLists ==
  ASSUME NEW S, NEW n \in S, NEW condition
  PROVE  WhenSo(condition, <<n>>) \in Seq(S) /\ (condition => WhenSo(condition, <<n>>) = <<n>>)
BY DEF WhenSo

\* The nodes of a graph: none is live below "execute", and a human decides
\* unless the level is "execute" and the class not reserved.
LEMMA NodesAreBacked ==
  ASSUME NEW skill, skill.tools \in Seq({skill.tools[i] : i \in DOMAIN skill.tools}),
         NEW level
  PROVE  LET nodes == BuildNodes(skill, level)
         IN  /\ \A i \in DOMAIN nodes : nodes[i].live => level = "execute"
             /\ level # "execute" \/ Reserved(skill.class) =>
                  \E i \in DOMAIN nodes : nodes[i].kind = "handoff"
<1> DEFINE mode   == IF level = "execute" THEN "execute" ELSE "draft"
           places == DOMAIN skill.tools
           reads  == ToolsAt(skill.tools, {i \in places : ~skill.tools[i].writes})
           writes == ToolsAt(skill.tools, {i \in places : /\ skill.tools[i].writes
                                                          /\ mode \in skill.tools[i].modes})
           Plain  == {Node(kind, rank) : kind \in {"grounding", "tool_call", "skill", "gate",
                        "assurance", "authorisation", "handoff", "delivery"},
                        rank \in {10, 50, 30, 40, 70, 80, 85, 90}}
           S == Plain \union {WriteNode(writes[i], level) : i \in DOMAIN writes}
           s1 == WhenSo(skill.knowledge, <<Node("grounding", 10)>>)
           s2 == [i \in DOMAIN reads |-> Node("tool_call", 50)]
           s3 == <<Node("skill", 30)>>
           s4 == WhenSo(writes # <<>>, <<Node("gate", 40)>>)
           s5 == [i \in DOMAIN writes |-> WriteNode(writes[i], level)]
           s6 == <<Node("assurance", 70), Node("authorisation", 80)>>
           s7 == WhenSo(level # "execute" \/ Reserved(skill.class), <<Node("handoff", 85)>>)
           s8 == <<Node("delivery", 90)>>
           nodes == s1 \o s2 \o s3 \o s4 \o s5 \o s6 \o s7 \o s8
<1>1. BuildNodes(skill, level) = nodes
  BY DEF BuildNodes
<1>2. \A n \in S : BackedNode(n, level)
  <2>1. \A n \in Plain : BackedNode(n, level)
    BY PlainNodes DEF BackedNode
  <2>2. \A i \in DOMAIN writes : BackedNode(WriteNode(writes[i], level), level)
    BY WriteNodes
  <2> HIDE DEF Plain, writes
  <2> QED
    BY <2>1, <2>2
<1>3. PICK n \in Nat : DOMAIN reads = 1..n
  <2> HIDE DEF places
  <2>1. {i \in places : ~skill.tools[i].writes} \subseteq places
    OBVIOUS
  <2> QED
    BY <2>1, ToolsAreListed DEF places
<1>4. PICK m \in Nat : DOMAIN writes = 1..m
  <2> HIDE DEF places, mode
  <2>1. {i \in places : skill.tools[i].writes /\ mode \in skill.tools[i].modes} \subseteq places
    OBVIOUS
  <2> QED
    BY <2>1, ToolsAreListed DEF places
<1> HIDE DEF reads, writes, mode, places
<1>5. /\ Node("grounding", 10) \in S /\ Node("tool_call", 50) \in S /\ Node("skill", 30) \in S
      /\ Node("gate", 40) \in S /\ Node("assurance", 70) \in S /\ Node("authorisation", 80) \in S
      /\ Node("handoff", 85) \in S /\ Node("delivery", 90) \in S
  OBVIOUS
<1>6. \A i \in DOMAIN writes : WriteNode(writes[i], level) \in S
  OBVIOUS
<1> HIDE DEF S, Plain
<1>7. /\ s1 \in Seq(S) /\ s4 \in Seq(S) /\ s7 \in Seq(S)
      /\ level # "execute" \/ Reserved(skill.class) => s7 = <<Node("handoff", 85)>>
  BY <1>5, WhenSoLists
<1>8. s2 \in Seq(S)
  BY <1>3, <1>5
<1>9. s5 \in Seq(S)
  BY <1>4, <1>6
<1>10. s3 \in Seq(S) /\ s6 \in Seq(S) /\ s8 \in Seq(S)
  BY <1>5
<1>11. level # "execute" \/ Reserved(skill.class) => HandsOff(s7)
  BY <1>7, PlainNodes DEF HandsOff
<1> HIDE DEF s1, s2, s3, s4, s5, s6, s7, s8
<1> DEFINE t2 == s1 \o s2
           t3 == t2 \o s3
           t4 == t3 \o s4
           t5 == t4 \o s5
           t6 == t5 \o s6
           t7 == t6 \o s7
<1>12. t2 \in Seq(S)
  BY <1>7, <1>8, BackedTogether
<1> HIDE DEF t2
<1>13. t3 \in Seq(S)
  BY <1>12, <1>10, BackedTogether
<1> HIDE DEF t3
<1>14. t4 \in Seq(S)
  BY <1>13, <1>7, BackedTogether
<1> HIDE DEF t4
<1>15. t5 \in Seq(S)
  BY <1>14, <1>9, BackedTogether
<1> HIDE DEF t5
<1>16. t6 \in Seq(S)
  BY <1>15, <1>10, BackedTogether
<1> HIDE DEF t6
<1>17. t7 \in Seq(S) /\ (HandsOff(s7) => HandsOff(t7))
  BY <1>16, <1>7, BackedTogether
<1> HIDE DEF t7
<1> DEFINE all == t7 \o s8
<1>18. all \in Seq(S) /\ (HandsOff(t7) => HandsOff(all))
  BY <1>17, <1>10, BackedTogether
<1>19. all = nodes
  BY DEF t2, t3, t4, t5, t6, t7
<1> HIDE DEF all, nodes
<1>20. DOMAIN nodes = 1..Len(nodes) /\ \A i \in DOMAIN nodes : nodes[i] \in S
  BY <1>18, <1>19
<1>21. \A i \in DOMAIN nodes : nodes[i].live => level = "execute"
  BY <1>2, <1>20 DEF BackedNode
<1> QED
  BY <1>1, <1>11, <1>17, <1>18, <1>19, <1>20, <1>21 DEF HandsOff

-----------------------------------------------------------------------------
(* What a compile has found out, and when it may rely on it.               *)

PlanFields == {"pc", "request", "entity", "pinned", "skill", "read", "level", "before"}
PlanPlaces == {"idle", "entity", "axes", "date", "skill", "settings", "admission",
               "refused", "admitted", "stopped"}
Readings ==
  UNION {{o.axes[ContextAxes[k]] : k \in 1..3}
           \union {o.grant, o.supervisor, o.raise, o.accountable, o.budget} : o \in OrgStates}

\* The level is one that the ceilings and the revalidations found allow.
UnderCeilings(r) ==
  /\ Ceiling(r.skill.class) # "none" => AutonomyRank[r.level] <= AutonomyRank[Ceiling(r.skill.class)]
  /\ AutonomyRank[r.level] <= AutonomyRank[r.skill.max]
  /\ \A v \in r.before : AutonomyRank[r.level] <= AutonomyRank[v.interim]
PassedChecks(r) ==
  /\ Ceiling(r.skill.class) # "none"
  /\ ~(Reserved(r.skill.class) /\ r.level = "execute")
  /\ ~(r.skill.knowledge /\ ~r.pinned)

CompileInv(r) ==
  /\ DOMAIN r = PlanFields /\ r.pc \in PlanPlaces
  /\ r.entity \in Entities \union {NoValue} /\ r.level \in Levels /\ r.skill \in Skills
  /\ r.read \in Seq(Readings)
  /\ r.pc \in {"date", "skill"} => r.read = <<>>
  /\ r.pc = "settings" =>
       /\ r.before \subseteq {v \in revalidations : v.skill = r.skill.id}
       /\ Len(r.read) > 0 => r.read[1] \in Levels \union {"none"}
  /\ r.pc \in {"admission", "admitted"} => UnderCeilings(r)
  /\ r.pc = "admitted" => PassedChecks(r)

ResolvedFor(p, r) ==
  r.pc \in {"skill", "settings", "admission", "admitted"} =>
    \E c \in contexts : c.by = p /\ c.status = "resolved" /\ c.pinned = r.pinned

GraphIsOf(g) ==
  /\ g.state \in {"admitted", "refused"} /\ g.level \in Levels
  /\ g.state = "admitted" =>
       /\ g.by \in Plans /\ plans[g.by].pc = "admitted" /\ g.level = plans[g.by].level
       /\ g.nodes = BuildNodes(plans[g.by].skill, g.level)

PlanInv ==
  /\ org \in OrgStates /\ orgEdits \in 0..MaxOrgEdits
  /\ IsFiniteSet(revalidations) /\ Cardinality(revalidations) <= MaxRaised
  /\ \A v \in revalidations : v.interim \in {"observe", "draft"}
  /\ plans = [p \in Plans |-> plans[p]]
  /\ \A p \in Plans : CompileInv(plans[p]) /\ ResolvedFor(p, plans[p])
  /\ \A c \in contexts : c.status \in {"resolved", "refused"}
  /\ \A g \in graphs : GraphIsOf(g)

LEMMA NoPlanCompiles ==
  /\ CompileInv(NoPlan) /\ NoPlan.pc = "idle" /\ NoPlan.read = <<>>
<1>1. PICK wanted, skill, none : /\ wanted = (CHOOSE r \in PlanRequests : TRUE)
                                 /\ skill = (CHOOSE s \in Skills : TRUE) /\ none = <<>>
  OBVIOUS
<1>2. skill \in Skills
  BY <1>1, PlanConstants
<1>3. NoPlan = [pc |-> "idle", request |-> wanted, entity |-> NoValue, pinned |-> FALSE,
                skill |-> skill, read |-> none, level |-> "observe", before |-> {}]
  BY <1>1 DEF NoPlan
<1>4. none \in Seq(Readings)
  BY <1>1
<1> QED
  BY <1>1, <1>2, <1>3, <1>4 DEF CompileInv, PlanFields, PlanPlaces, Levels

LEMMA PlanInitially == PlanInit => PlanInv
<1> SUFFICES ASSUME PlanInit
             PROVE  PlanInv
  OBVIOUS
<1>1. plans = [p \in Plans |-> plans[p]] /\ \A p \in Plans : plans[p] = NoPlan
  BY DEF PlanInit
<1>2. \A p \in Plans : CompileInv(plans[p]) /\ ResolvedFor(p, plans[p])
  BY <1>1, NoPlanCompiles DEF ResolvedFor
<1>3. IsFiniteSet(revalidations) /\ Cardinality(revalidations) = 0
  BY FS_EmptySet DEF PlanInit
<1> QED
  BY <1>1, <1>2, <1>3, PlanConstants DEF PlanInit, PlanInv

\* The least of three levels, and a pending one, is under each of them.
LEMMA LowerIsLower ==
  ASSUME NEW a \in Levels, NEW b \in Levels
  PROVE  /\ Lower(a, b) \in Levels
         /\ AutonomyRank[Lower(a, b)] <= AutonomyRank[a]
         /\ AutonomyRank[Lower(a, b)] <= AutonomyRank[b]
BY DEF Lower, Levels, AutonomyRank

LEMMA RanksOfLevels ==
  /\ \A a \in Levels : AutonomyRank[a] \in Nat /\ AutonomyRank["observe"] <= AutonomyRank[a]
  /\ AutonomyRank["observe"] <= AutonomyRank["draft"]
BY DEF Levels, AutonomyRank

LEMMA CeilingIsALevel == \A class : Ceiling(class) \in Levels \union {"none"}
BY DEF Ceiling, Levels

LEMMA PendingIsStrict ==
  ASSUME NEW skill, NEW raised, \A v \in raised : v.interim \in {"observe", "draft"}
  PROVE  /\ Pending(skill, raised) \in {"none", "observe", "draft"}
         /\ \A v \in raised : v.skill = skill =>
              /\ Pending(skill, raised) # "none"
              /\ AutonomyRank[Pending(skill, raised)] <= AutonomyRank[v.interim]
<1> DEFINE interims == {r.interim : r \in {q \in raised : q.skill = skill}}
<1>1. Pending(skill, raised) =
        IF interims = {} THEN "none" ELSE IF "observe" \in interims THEN "observe" ELSE "draft"
  BY DEF Pending
<1>2. ASSUME NEW v \in raised, v.skill = skill
      PROVE  v.interim \in interims
  BY <1>2
<1> HIDE DEF interims
<1> QED
  BY <1>1, <1>2 DEF AutonomyRank

\* resolveAutonomy keeps under every ceiling it is given.
LEMMA LevelIsUnder ==
  ASSUME NEW skill \in Skills, NEW read, read[1] \in Levels \union {"none"},
         NEW pending \in {"none", "observe", "draft"}
  PROVE  LET level == Level(skill, read, pending)
         IN  /\ level \in Levels
             /\ Ceiling(skill.class) # "none" => AutonomyRank[level] <= AutonomyRank[Ceiling(skill.class)]
             /\ AutonomyRank[level] <= AutonomyRank[skill.max]
             /\ pending # "none" => AutonomyRank[level] <= AutonomyRank[pending]
<1> DEFINE platform == IF Ceiling(skill.class) = "none" THEN "observe" ELSE Ceiling(skill.class)
           granted  == IF read[1] = "none" THEN "observe" ELSE read[1]
           both     == Lower(platform, skill.max)
           capped   == Lower(both, granted)
           level    == Level(skill, read, pending)
<1>1. platform \in Levels /\ granted \in Levels /\ skill.max \in Levels
  BY CeilingIsALevel, PlanConstants DEF Levels
<1>2. PICK backed \in {capped, "observe"} :
        level = IF pending = "none" THEN backed ELSE Lower(backed, pending)
  <2> DEFINE all == read[2] = "usr" /\ read[2] # "none" /\ read[3] /\ read[3] /\ read[4]
  <2>1. level = LET backed == IF all THEN capped ELSE "observe"
                IN  IF pending = "none" THEN backed ELSE Lower(backed, pending)
    BY DEF Level, ComputeAutonomy
  <2> QED
    BY <2>1
<1> HIDE DEF level, platform, granted
<1>3. /\ both \in Levels /\ AutonomyRank[both] <= AutonomyRank[platform]
      /\ AutonomyRank[both] <= AutonomyRank[skill.max]
  BY <1>1, LowerIsLower
<1> HIDE DEF both
<1>4. capped \in Levels /\ AutonomyRank[capped] <= AutonomyRank[both]
  BY <1>1, <1>3, LowerIsLower
<1> HIDE DEF capped
<1>5. /\ AutonomyRank[capped] <= AutonomyRank[platform]
      /\ AutonomyRank[capped] <= AutonomyRank[skill.max]
  BY <1>1, <1>3, <1>4, RanksOfLevels
<1>6. /\ backed \in Levels /\ AutonomyRank[backed] <= AutonomyRank[platform]
      /\ AutonomyRank[backed] <= AutonomyRank[skill.max]
  BY <1>1, <1>2, <1>4, <1>5, RanksOfLevels DEF Levels
<1>7. /\ level \in Levels /\ AutonomyRank[level] <= AutonomyRank[backed]
      /\ pending # "none" => AutonomyRank[level] <= AutonomyRank[pending]
  <2>1. pending # "none" => pending \in Levels
    BY DEF Levels
  <2> QED
    BY <1>2, <1>6, <2>1, LowerIsLower, RanksOfLevels
<1>8. /\ AutonomyRank[level] <= AutonomyRank[platform]
      /\ AutonomyRank[level] <= AutonomyRank[skill.max]
  BY <1>1, <1>6, <1>7, RanksOfLevels
<1>9. Ceiling(skill.class) # "none" => platform = Ceiling(skill.class)
  BY DEF platform
<1> QED
  BY <1>7, <1>8, <1>9 DEF level

\* One compile goes on from a place where it is not over: contexts may be
\* added, the tenant stays as it is.
LEMMA OnePlanMoves ==
  ASSUME PlanInv, NEW p \in Plans, NEW r, PlanStep(p, r), TenantUnchanged,
         plans[p].pc # "admitted", CompileInv(r), contexts \subseteq contexts',
         \A c \in contexts' : c.status \in {"resolved", "refused"},
         r.pc \in {"skill", "settings", "admission", "admitted"} =>
           \E c \in contexts' : c.by = p /\ c.status = "resolved" /\ c.pinned = r.pinned,
         \A g \in graphs' \ graphs :
           /\ g.state \in {"admitted", "refused"} /\ g.level \in Levels
           /\ g.state = "admitted" => /\ g.by = p /\ r.pc = "admitted" /\ g.level = r.level
                                      /\ g.nodes = BuildNodes(r.skill, g.level)
  PROVE  PlanInv'
<1>1. /\ plans' = [q \in Plans |-> plans'[q]] /\ plans'[p] = r
      /\ \A q \in Plans \ {p} : plans'[q] = plans[q]
  BY DEF PlanStep, PlanInv
<1>2. UNCHANGED <<org, orgEdits, revalidations>>
  BY DEF TenantUnchanged
<1>3. \A q \in Plans : CompileInv(plans'[q])
  BY <1>1 DEF PlanInv
<1>4. \A q \in Plans : CompileInv(plans[q])'
  BY <1>2, <1>3 DEF CompileInv
<1>5. \A q \in Plans : ResolvedFor(q, plans[q])'
  BY <1>1 DEF ResolvedFor, PlanInv
<1>6. ASSUME NEW g \in graphs'
      PROVE  GraphIsOf(g)'
  <2>1. CASE g \in graphs
    BY <1>1, <2>1 DEF GraphIsOf, PlanInv
  <2>2. CASE g \notin graphs
    BY <1>1, <2>2 DEF GraphIsOf
  <2> QED
    BY <2>1, <2>2
<1> QED
  BY <1>1, <1>2, <1>4, <1>5, <1>6 DEF PlanInv

\* A context is written as refused, and the compile is over.
LEMMA RefusalEnds ==
  ASSUME PlanInv, NEW p \in Plans, RefuseContext(p), TenantUnchanged, plans[p].pc # "admitted"
  PROVE  PlanInv'
<1>1. PICK r : r = [plans[p] EXCEPT !.pc = "refused"]
  OBVIOUS
<1>2. CompileInv(plans[p])
  BY DEF PlanInv
<1>3. CompileInv(r) /\ r.pc = "refused"
  BY <1>1, <1>2 DEF CompileInv, PlanFields, PlanPlaces
<1>4. PlanStep(p, r) /\ graphs' = graphs /\ contexts \subseteq contexts'
  BY <1>1 DEF RefuseContext, PersistContext
<1>5. \A c \in contexts' : c.status \in {"resolved", "refused"}
  BY DEF RefuseContext, PersistContext, PlanInv
<1> HIDE <1>1
<1> QED
  BY <1>3, <1>4, <1>5, OnePlanMoves

LEMMA SettingIsRead ==
  ASSUME PlanInv
  PROVE  /\ \A k \in 1..3 : org.axes[ContextAxes[k]] \in Readings
         /\ \A k \in 1..4 : org[AutonomySettings[k]] \in Readings
         /\ \A k \in 1..2 : org[CheckedAgain[k]] \in Readings
         /\ org[AutonomySettings[1]] \in Levels \union {"none"}
<1>1. org \in OrgStates /\ org.grant \in Levels \union {"none"}
  BY PlanConstants DEF PlanInv
<1>2. \A x \in {org.axes[ContextAxes[k]] : k \in 1..3}
           \union {org.grant, org.supervisor, org.raise, org.accountable, org.budget} : x \in Readings
  BY <1>1 DEF Readings
<1>3. \A k \in 1..3 : org.axes[ContextAxes[k]] \in Readings
  BY <1>2
<1>4. /\ org.grant \in Readings /\ org.supervisor \in Readings /\ org.raise \in Readings
      /\ org.accountable \in Readings /\ org.budget \in Readings
  BY <1>2
<1>5. /\ org[AutonomySettings[1]] = org.grant /\ org[AutonomySettings[2]] = org.supervisor
      /\ org[AutonomySettings[3]] = org.raise /\ org[AutonomySettings[4]] = org.accountable
      /\ org[CheckedAgain[1]] = org.accountable /\ org[CheckedAgain[2]] = org.budget
  BY DEF AutonomySettings, CheckedAgain
<1> QED
  BY <1>1, <1>3, <1>4, <1>5

LEMMA ResolvingPreserves ==
  ASSUME PlanInv, NEW p \in Plans,
         \/ \E wanted \in PlanRequests : BeginPlan(p, wanted)
         \/ ResolveEntity(p) \/ ResolveAxis(p) \/ PinPack(p)
  PROVE  PlanInv'
<1> USE DEF PlanAt
<1>0. /\ CompileInv(plans[p]) /\ \A c \in contexts : c.status \in {"resolved", "refused"}
      /\ org \in OrgStates
  BY DEF PlanInv
<1>1. ASSUME NEW wanted \in PlanRequests, BeginPlan(p, wanted)
      PROVE  PlanInv'
  <2>1. plans[p].pc = "idle" /\ TenantUnchanged
    BY <1>1 DEF BeginPlan
  <2>2. CASE ~wanted.zone
    BY <1>1, <2>1, <2>2, RefusalEnds DEF BeginPlan
  <2>3. CASE wanted.zone
    <3>1. PICK r : r = [NoPlan EXCEPT !.pc = "entity", !.request = wanted]
      OBVIOUS
    <3>2. CompileInv(r) /\ r.pc = "entity"
      BY <3>1, NoPlanCompiles DEF CompileInv, PlanFields, PlanPlaces
    <3>3. PlanStep(p, r) /\ UNCHANGED <<contexts, graphs>>
      BY <1>1, <2>3, <3>1 DEF BeginPlan
    <3> HIDE <3>1
    <3> QED
      BY <1>0, <2>1, <3>2, <3>3, OnePlanMoves
  <2> QED
    BY <2>2, <2>3
<1>2. CASE ResolveEntity(p)
  <2>1. plans[p].pc = "entity" /\ TenantUnchanged
    BY <1>2 DEF ResolveEntity
  <2>2. CASE RefuseContext(p)
    BY <2>1, <2>2, RefusalEnds
  <2>3. CASE ~RefuseContext(p)
    <3>1. PICK e \in org.register :
            /\ PlanStep(p, [plans[p] EXCEPT !.pc = "axes", !.entity = e])
            /\ UNCHANGED <<contexts, graphs>>
      <4> DEFINE wanted == plans[p].request
                inScope == IF wanted.scope = {} THEN org.register
                           ELSE org.register \intersect wanted.scope
                found == IF wanted.entity # NoValue THEN org.register \intersect {wanted.entity}
                         ELSE IF Cardinality(inScope) = 1 THEN inScope ELSE {}
      <4>1. found \subseteq org.register
        OBVIOUS
      <4>2. \E e \in found : /\ PlanStep(p, [plans[p] EXCEPT !.pc = "axes", !.entity = e])
                             /\ UNCHANGED <<contexts, graphs>>
        BY <1>2, <2>3 DEF ResolveEntity
      <4> HIDE DEF found
      <4> QED
        BY <4>1, <4>2
    <3>2. e \in Entities
      BY <1>0, PlanConstants
    <3>3. PICK r : r = [plans[p] EXCEPT !.pc = "axes", !.entity = e]
      OBVIOUS
    <3>4. CompileInv(r) /\ r.pc = "axes"
      BY <1>0, <3>2, <3>3 DEF CompileInv, PlanFields, PlanPlaces
    <3>5. PlanStep(p, r)
      BY <3>1, <3>3
    <3> HIDE <3>3
    <3> QED
      BY <1>0, <2>1, <3>1, <3>4, <3>5, OnePlanMoves
  <2> QED
    BY <2>2, <2>3
<1>3. CASE ResolveAxis(p)
  <2>1. plans[p].pc = "axes" /\ TenantUnchanged
    BY <1>3 DEF ResolveAxis
  <2>2. CASE RefuseContext(p)
    BY <2>1, <2>2, RefusalEnds
  <2>3. CASE ~RefuseContext(p)
    <3> DEFINE value == org.axes[ContextAxes[Len(plans[p].read) + 1]]
               read  == Append(plans[p].read, value)
               next  == IF Len(read) < Len(ContextAxes) THEN [plans[p] EXCEPT !.read = read]
                        ELSE [plans[p] EXCEPT !.pc = "date", !.read = <<>>]
    <3>1. PlanStep(p, next) /\ UNCHANGED <<contexts, graphs>>
      BY <1>3, <2>3 DEF ResolveAxis
    <3>2. plans[p].read \in Seq(Readings) /\ Len(plans[p].read) \in Nat
      BY <1>0 DEF CompileInv
    <3>3. Len(read) < 3 => read \in Seq(Readings)
      <4> SUFFICES ASSUME Len(read) < 3
                   PROVE  read \in Seq(Readings)
        OBVIOUS
      <4>1. Len(read) = Len(plans[p].read) + 1
        BY <3>2
      <4>2. value \in Readings
        BY <3>2, <4>1, SettingIsRead
      <4> HIDE DEF value
      <4> QED
        BY <3>2, <4>2
    <3>4. Len(ContextAxes) = 3
      BY DEF ContextAxes
    <3> HIDE DEF read
    <3>5. PICK r, none : r = next /\ none = <<>>
      OBVIOUS
    <3>6. CompileInv(r) /\ r.pc \in {"axes", "date"}
      <4>1. none \in Seq(Readings)
        BY <3>5
      <4>2. CASE Len(read) < 3
        BY <1>0, <2>1, <3>3, <3>4, <3>5, <4>2 DEF CompileInv, PlanFields, PlanPlaces
      <4>3. CASE ~(Len(read) < 3)
        <5>1. r = [plans[p] EXCEPT !.pc = "date", !.read = none]
          BY <3>4, <3>5, <4>3
        <5> QED
          BY <1>0, <2>1, <3>5, <4>1, <5>1 DEF CompileInv, PlanFields, PlanPlaces
      <4> QED
        BY <4>2, <4>3
    <3>7. PlanStep(p, r)
      BY <3>1, <3>5
    <3> HIDE <3>5
    <3> QED
      BY <1>0, <2>1, <3>1, <3>6, <3>7, OnePlanMoves
  <2> QED
    BY <2>2, <2>3
<1>4. CASE PinPack(p)
  <2>1. plans[p].pc = "date" /\ TenantUnchanged
    BY <1>4 DEF PinPack
  <2>2. CASE RefuseContext(p)
    BY <2>1, <2>2, RefusalEnds
  <2>3. CASE ~RefuseContext(p)
    <3>1. PICK pinned \in BOOLEAN :
            /\ contexts' = contexts \union {[by |-> p, status |-> "resolved", pinned |-> pinned]}
            /\ PlanStep(p, [plans[p] EXCEPT !.pc = "skill", !.pinned = pinned])
            /\ UNCHANGED graphs
      BY <1>4, <2>3 DEF PinPack
    <3>2. PICK r, c : /\ r = [plans[p] EXCEPT !.pc = "skill", !.pinned = pinned]
                      /\ c = [by |-> p, status |-> "resolved", pinned |-> pinned]
      OBVIOUS
    <3>3. CompileInv(r) /\ r.pc = "skill" /\ r.pinned = pinned
      BY <1>0, <2>1, <3>2 DEF CompileInv, PlanFields, PlanPlaces
    <3>4. /\ PlanStep(p, r) /\ contexts' = contexts \union {c}
          /\ c.by = p /\ c.status = "resolved" /\ c.pinned = r.pinned
      BY <3>1, <3>2, <3>3
    <3> HIDE <3>2
    <3> QED
      BY <1>0, <2>1, <3>1, <3>3, <3>4, OnePlanMoves
  <2> QED
    BY <2>2, <2>3
<1> QED
  BY <1>1, <1>2, <1>3, <1>4

LEMMA CompilingPreserves ==
  ASSUME PlanInv, NEW p \in Plans,
         LookupSkill(p) \/ ReadSetting(p) \/ ReadPending(p) \/ CheckAgain(p)
  PROVE  PlanInv'
<1> USE DEF PlanAt
<1>0. /\ CompileInv(plans[p]) /\ \A c \in contexts : c.status \in {"resolved", "refused"}
      /\ ResolvedFor(p, plans[p]) /\ plans[p].read \in Seq(Readings) /\ Len(plans[p].read) \in Nat
  BY DEF PlanInv, CompileInv
<1>1. CASE LookupSkill(p)
  <2>1. plans[p].pc = "skill" /\ TenantUnchanged /\ UNCHANGED <<contexts, graphs>>
    BY <1>1 DEF LookupSkill
  <2>2. CASE PlanStep(p, [plans[p] EXCEPT !.pc = "refused"])
    <3>1. PICK r : r = [plans[p] EXCEPT !.pc = "refused"]
      OBVIOUS
    <3>2. CompileInv(r) /\ r.pc = "refused"
      BY <1>0, <3>1 DEF CompileInv, PlanFields, PlanPlaces
    <3>3. PlanStep(p, r)
      BY <2>2, <3>1
    <3> HIDE <3>1
    <3> QED
      BY <1>0, <2>1, <3>2, <3>3, OnePlanMoves
  <2>3. ASSUME NEW s \in Invocable(plans[p].request.skill),
               PlanStep(p, [plans[p] EXCEPT !.pc = "settings", !.skill = s,
                              !.before = {r \in revalidations : r.skill = s.id}])
        PROVE  PlanInv'
    <3>1. PICK found : found = {v \in revalidations : v.skill = s.id}
      OBVIOUS
    <3>2. PICK r : r = [plans[p] EXCEPT !.pc = "settings", !.skill = s, !.before = found]
      OBVIOUS
    <3>3. s \in Skills
      BY DEF Invocable
    <3>4. r.pc = "settings" /\ r.read = <<>> /\ r.pinned = plans[p].pinned /\ r.skill = s
          /\ r.before = found
      BY <1>0, <2>1, <3>2 DEF CompileInv, PlanFields
    <3>5. CompileInv(r)
      BY <1>0, <2>1, <3>1, <3>2, <3>3, <3>4 DEF CompileInv, PlanFields, PlanPlaces
    <3>6. PlanStep(p, r)
      BY <2>3, <3>1, <3>2
    <3> HIDE <3>2
    <3> QED
      BY <1>0, <2>1, <3>4, <3>5, <3>6, OnePlanMoves DEF ResolvedFor
  <2> QED
    BY <1>1, <2>2, <2>3 DEF LookupSkill
<1>2. CASE ReadSetting(p)
  <2>1. /\ plans[p].pc = "settings" /\ TenantUnchanged /\ UNCHANGED <<contexts, graphs>>
        /\ Len(plans[p].read) < 4
    BY <1>2 DEF ReadSetting, AutonomySettings
  <2>2. PICK value : value = org[AutonomySettings[Len(plans[p].read) + 1]]
    OBVIOUS
  <2>3. value \in Readings /\ (Len(plans[p].read) = 0 => value \in Levels \union {"none"})
    BY <1>0, <2>1, <2>2, SettingIsRead
  <2>4. PICK read : read = Append(plans[p].read, value)
    OBVIOUS
  <2>5. read \in Seq(Readings) /\ read[1] \in Levels \union {"none"}
    BY <1>0, <2>1, <2>3, <2>4 DEF CompileInv
  <2>6. PICK r : r = [plans[p] EXCEPT !.read = read]
    OBVIOUS
  <2>7. /\ r.pc = "settings" /\ r.read = read /\ r.pinned = plans[p].pinned
        /\ CompileInv(r)
    BY <1>0, <2>1, <2>5, <2>6 DEF CompileInv, PlanFields
  <2>8. PlanStep(p, r)
    BY <1>2, <2>2, <2>4, <2>6 DEF ReadSetting
  <2> HIDE <2>6
  <2> QED
    BY <1>0, <2>1, <2>7, <2>8, OnePlanMoves DEF ResolvedFor
<1>3. CASE ReadPending(p)
  <2>1. /\ plans[p].pc = "settings" /\ TenantUnchanged /\ UNCHANGED <<contexts, graphs>>
        /\ Len(plans[p].read) = 4
    BY <1>3 DEF ReadPending, AutonomySettings
  <2>2. PICK pending : pending = Pending(plans[p].skill.id, revalidations)
    OBVIOUS
  <2>3. \A v \in revalidations : v.interim \in {"observe", "draft"}
    BY DEF PlanInv
  <2>4. /\ pending \in {"none", "observe", "draft"}
        /\ \A v \in plans[p].before : /\ v.interim \in {"observe", "draft"} /\ pending # "none"
                                     /\ AutonomyRank[pending] <= AutonomyRank[v.interim]
    BY <1>0, <2>1, <2>2, <2>3, PendingIsStrict DEF CompileInv
  <2>5. PICK level : level = Level(plans[p].skill, plans[p].read, pending)
    OBVIOUS
  <2>6. plans[p].skill \in Skills /\ plans[p].read[1] \in Levels \union {"none"}
    BY <1>0, <2>1 DEF CompileInv
  <2>7. /\ level \in Levels
        /\ Ceiling(plans[p].skill.class) # "none" =>
             AutonomyRank[level] <= AutonomyRank[Ceiling(plans[p].skill.class)]
        /\ AutonomyRank[level] <= AutonomyRank[plans[p].skill.max]
        /\ pending # "none" => AutonomyRank[level] <= AutonomyRank[pending]
    BY <2>4, <2>5, <2>6, LevelIsUnder
  <2>8. \A v \in plans[p].before : AutonomyRank[level] <= AutonomyRank[v.interim]
    <3> TAKE v \in plans[p].before
    <3>1. pending \in Levels /\ v.interim \in Levels /\ pending # "none"
      BY <2>4 DEF Levels
    <3> QED
      BY <2>4, <2>7, <3>1, RanksOfLevels
  <2>9. PICK r, none : /\ r = [plans[p] EXCEPT !.pc = "admission", !.read = none, !.level = level]
                       /\ none = <<>>
    OBVIOUS
  <2>10. none \in Seq(Readings)
    BY <2>9
  <2>11. /\ r.pc = "admission" /\ r.read = none /\ r.pinned = plans[p].pinned
         /\ r.level = level /\ r.skill = plans[p].skill /\ r.before = plans[p].before
         /\ r.entity = plans[p].entity /\ DOMAIN r = PlanFields
    BY <1>0, <2>9 DEF CompileInv, PlanFields
  <2>12. CompileInv(r)
    <3>1. UnderCeilings(r)
      BY <2>7, <2>8, <2>11 DEF UnderCeilings
    <3> QED
      BY <1>0, <2>7, <2>10, <2>11, <3>1 DEF CompileInv, PlanPlaces
  <2>13. PlanStep(p, r)
    BY <1>3, <2>2, <2>5, <2>9 DEF ReadPending
  <2> HIDE <2>9
  <2> QED
    BY <1>0, <2>1, <2>11, <2>12, <2>13, OnePlanMoves DEF ResolvedFor
<1>4. CASE CheckAgain(p)
  <2>1. /\ plans[p].pc = "admission" /\ TenantUnchanged /\ UNCHANGED <<contexts, graphs>>
        /\ Len(plans[p].read) < 2
    BY <1>4 DEF CheckAgain
  <2>2. PICK value : value = org[CheckedAgain[Len(plans[p].read) + 1]]
    OBVIOUS
  <2>3. value \in Readings
    BY <1>0, <2>1, <2>2, SettingIsRead
  <2>4. PICK read : read = Append(plans[p].read, value)
    OBVIOUS
  <2>5. read \in Seq(Readings)
    BY <1>0, <2>3, <2>4
  <2>6. PICK r : r = [plans[p] EXCEPT !.read = read]
    OBVIOUS
  <2>7. /\ r.pc = "admission" /\ r.pinned = plans[p].pinned
        /\ CompileInv(r)
    BY <1>0, <2>1, <2>5, <2>6 DEF CompileInv, UnderCeilings, PlanFields
  <2>8. PlanStep(p, r)
    BY <1>4, <2>2, <2>4, <2>6 DEF CheckAgain
  <2> HIDE <2>6
  <2> QED
    BY <1>0, <2>1, <2>7, <2>8, OnePlanMoves DEF ResolvedFor
<1> QED
  BY <1>1, <1>2, <1>3, <1>4

\* The checks that let a graph pass.
LEMMA AdmissionPasses ==
  ASSUME NEW p, ~FailsAdmission(p), Len(plans[p].read) = 2, plans[p].read \in Seq(Readings)
  PROVE  PassedChecks(plans[p])
<1>1. plans[p].read # <<>>
  OBVIOUS
<1>2. Ceiling(plans[p].skill.class) # "none"
  BY DEF FailsAdmission
<1>3. ~(Reserved(plans[p].skill.class) /\ plans[p].level = "execute")
  BY <1>1 DEF FailsAdmission
<1>4. ~(plans[p].skill.knowledge /\ ~plans[p].pinned)
  BY <1>1 DEF FailsAdmission
<1> QED
  BY <1>2, <1>3, <1>4 DEF PassedChecks

LEMMA PersistingPreserves ==
  ASSUME PlanInv, NEW p \in Plans, RefuseGraph(p) \/ AdmitGraph(p) \/ StopPlan(p)
  PROVE  PlanInv'
<1> USE DEF PlanAt
<1>0. /\ CompileInv(plans[p]) /\ \A c \in contexts : c.status \in {"resolved", "refused"}
      /\ ResolvedFor(p, plans[p]) /\ plans[p].read \in Seq(Readings) /\ plans[p].level \in Levels
  BY DEF PlanInv, CompileInv
<1>1. ASSUME NEW state \in {"refused", "admitted"}, NEW nodes, PersistGraph(p, state, nodes),
             plans[p].pc = "admission",
             state = "admitted" => /\ PassedChecks(plans[p])
                                   /\ nodes = BuildNodes(plans[p].skill, plans[p].level)
      PROVE  PlanInv'
  <2>1. PICK r, g : /\ r = [plans[p] EXCEPT !.pc = state]
                    /\ g = [by |-> p, state |-> state, level |-> plans[p].level, nodes |-> nodes]
    OBVIOUS
  <2>2. /\ r.pc = state /\ r.level = plans[p].level /\ r.skill = plans[p].skill
        /\ r.pinned = plans[p].pinned /\ r.read = plans[p].read /\ r.before = plans[p].before
        /\ r.entity = plans[p].entity /\ DOMAIN r = PlanFields
    BY <1>0, <2>1 DEF CompileInv, PlanFields
  <2>3. UnderCeilings(r) /\ (state = "admitted" => PassedChecks(r))
    BY <1>0, <1>1, <2>2 DEF CompileInv, UnderCeilings, PassedChecks
  <2>4. CompileInv(r)
    BY <1>0, <1>1, <2>2, <2>3 DEF CompileInv, PlanPlaces
  <2>5. /\ g.by = p /\ g.state = state /\ g.level = r.level /\ g.nodes = nodes
        /\ graphs' = graphs \union {g} /\ PlanStep(p, r) /\ TenantUnchanged /\ contexts' = contexts
    BY <1>1, <2>1, <2>2 DEF PersistGraph
  <2> HIDE <2>1
  <2> QED
    BY <1>0, <1>1, <2>2, <2>4, <2>5, OnePlanMoves DEF ResolvedFor
<1>2. CASE RefuseGraph(p)
  BY <1>1, <1>2 DEF RefuseGraph
<1>3. CASE AdmitGraph(p)
  BY <1>0, <1>1, <1>3, AdmissionPasses DEF AdmitGraph
<1>4. CASE StopPlan(p)
  <2>1. PICK r : r = [plans[p] EXCEPT !.pc = "stopped"]
    OBVIOUS
  <2>2. CompileInv(r) /\ r.pc = "stopped"
    BY <1>0, <2>1 DEF CompileInv, PlanFields, PlanPlaces
  <2>3. /\ PlanStep(p, r) /\ TenantUnchanged /\ UNCHANGED <<contexts, graphs>>
        /\ plans[p].pc # "admitted"
    BY <1>4, <2>1 DEF StopPlan
  <2> HIDE <2>1
  <2> QED
    BY <1>0, <2>2, <2>3, OnePlanMoves
<1> QED
  BY <1>2, <1>3, <1>4

\* Revalidations are only added, and one raised after a compile looked the
\* skill up is not among those it found.
LEMMA TenantPreserves ==
  ASSUME PlanInv, \/ \E next \in OrgStates : EditOrg(next)
                  \/ \E s \in Skills, interim \in {"observe", "draft"} :
                       RaiseRevalidation(s.id, interim)
  PROVE  PlanInv'
<1>1. ASSUME NEW next \in OrgStates, EditOrg(next)
      PROVE  PlanInv'
  <2>1. /\ UNCHANGED <<revalidations, plans, contexts, graphs>> /\ org' \in OrgStates
        /\ orgEdits' \in 0..MaxOrgEdits
    BY <1>1, PlanConstants DEF EditOrg, PlanInv
  <2> QED
    BY <2>1 DEF PlanInv, CompileInv, ResolvedFor, GraphIsOf
<1>2. ASSUME NEW s \in Skills, NEW interim \in {"observe", "draft"}, RaiseRevalidation(s.id, interim)
      PROVE  PlanInv'
  <2>1. PICK v : v = [n |-> Cardinality(revalidations), skill |-> s.id, interim |-> interim]
    OBVIOUS
  <2>2. /\ revalidations' = revalidations \union {v} /\ v.interim \in {"observe", "draft"}
        /\ UNCHANGED <<org, orgEdits, plans, contexts, graphs>>
        /\ IsFiniteSet(revalidations) /\ Cardinality(revalidations) < MaxRaised
    BY <1>2, <2>1 DEF RaiseRevalidation, PlanInv
  <2> HIDE <2>1
  <2>3. Cardinality(revalidations) \in Nat
    BY <2>2, FS_CardinalityType
  <2>4. IsFiniteSet(revalidations') /\ Cardinality(revalidations') <= MaxRaised
    <3>1. /\ IsFiniteSet(revalidations \union {v})
          /\ \/ Cardinality(revalidations \union {v}) = Cardinality(revalidations)
             \/ Cardinality(revalidations \union {v}) = Cardinality(revalidations) + 1
      BY <2>2, FS_AddElement
    <3> QED
      BY <2>2, <2>3, <3>1, PlanConstants
  <2>5. \A p \in Plans : CompileInv(plans[p])'
    BY <2>2 DEF CompileInv, PlanInv
  <2> QED
    BY <2>2, <2>4, <2>5 DEF PlanInv, ResolvedFor, GraphIsOf
<1> QED
  BY <1>1, <1>2

LEMMA PlanPreserved == PlanInv /\ [PlanNext]_planVars => PlanInv'
<1> SUFFICES ASSUME PlanInv, [PlanNext]_planVars
             PROVE  PlanInv'
  OBVIOUS
<1>1. CASE UNCHANGED planVars
  BY <1>1 DEF planVars, PlanInv, CompileInv, ResolvedFor, GraphIsOf
<1>2. CASE PlanNext
  BY <1>2, ResolvingPreserves, CompilingPreserves, PersistingPreserves, TenantPreserves DEF PlanNext
<1> QED
  BY <1>1, <1>2

\* The state of the planner and its tables is well formed.
THEOREM PlansAreTyped == PlanSpec => []PlanTypeOK
<1>1. PlanInv => PlanTypeOK
  BY DEF PlanInv, PlanTypeOK, CompileInv, GraphIsOf
<1> QED
  BY <1>1, PlanInitially, PlanPreserved, PTL DEF PlanSpec

\* No graph is admitted above what backs it: for any skills and settings, and
\* any number of changes and revalidations between the queries of a compile.
THEOREM AutonomyStaysBacked == PlanSpec => []AutonomyIsBacked
<1>1. PlanInv => AutonomyIsBacked
  <2> SUFFICES ASSUME PlanInv, NEW g \in graphs, g.state = "admitted"
               PROVE  LET s == plans[g.by].skill
                      IN  /\ \E c \in contexts : /\ c.by = g.by /\ c.status = "resolved"
                                                 /\ s.knowledge => c.pinned
                          /\ PermitsClass(g.level, Ceiling(s.class))
                          /\ AutonomyRank[g.level] <= AutonomyRank[s.max]
                          /\ \A r \in plans[g.by].before :
                               AutonomyRank[g.level] <= AutonomyRank[r.interim]
                          /\ \/ \E i \in DOMAIN g.nodes : g.nodes[i].kind = "handoff"
                             \/ g.level = "execute" /\ ~Reserved(s.class)
                          /\ \A i \in DOMAIN g.nodes : g.nodes[i].live => g.level = "execute"
    BY DEF AutonomyIsBacked
  <2> DEFINE p == g.by
             s == plans[p].skill
  <2>1. /\ p \in Plans /\ plans[p].pc = "admitted" /\ g.level = plans[p].level
        /\ g.nodes = BuildNodes(s, g.level)
        /\ CompileInv(plans[p]) /\ ResolvedFor(p, plans[p])
    BY DEF PlanInv, GraphIsOf
  <2>2. s \in Skills /\ UnderCeilings(plans[p]) /\ PassedChecks(plans[p])
    BY <2>1 DEF CompileInv
  <2>3. s.tools \in Seq({s.tools[i] : i \in DOMAIN s.tools})
    BY <2>2, PlanConstants
  <2>4. /\ \A i \in DOMAIN g.nodes : g.nodes[i].live => g.level = "execute"
        /\ g.level # "execute" \/ Reserved(s.class) =>
             \E i \in DOMAIN g.nodes : g.nodes[i].kind = "handoff"
    BY <2>1, <2>3, NodesAreBacked
  <2>5. \E c \in contexts : c.by = p /\ c.status = "resolved" /\ (s.knowledge => c.pinned)
    BY <2>1, <2>2 DEF ResolvedFor, PassedChecks
  <2> QED
    BY <2>1, <2>2, <2>4, <2>5 DEF UnderCeilings, PassedChecks, PermitsClass
<1> QED
  BY <1>1, PlanInitially, PlanPreserved, PTL DEF PlanSpec
=============================================================================
