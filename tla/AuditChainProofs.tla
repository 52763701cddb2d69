-------------------------- MODULE AuditChainProofs --------------------------
(* Proofs about AuditChain, for every set of writers and every bound.      *)
EXTENDS AuditChain, FiniteSetTheorems, SequenceTheorems, WellFoundedInduction, TLAPS

Fields == {"pc", "event", "scoped", "large", "attempt", "prev", "links", "from", "head"}

(* An event is in a call from the time it is issued to the time its        *)
(* append is over.                                                         *)
InCall(w) == wr[w].pc \in {"upload", "register", "append", "locked", "inserted"}
InTransaction(w) == wr[w].pc \in {"locked", "inserted"}

(* What a writer holds: an event that is not in the log, whose payload is  *)
(* where the row will say it is; under the lock, the head of the chain;    *)
(* on the way to an anchor, a head the chain has or had.                   *)
WriterInv(w) ==
    /\ DOMAIN wr[w] = Fields
    /\ wr[w].pc \in Pcs /\ wr[w].attempt \in 1..MaxAttempts /\ wr[w].large \in BOOLEAN
    /\ InCall(w) => /\ wr[w].event \in 1..issued
                    /\ \A i \in 1..Len(History) : History[i] # wr[w].event
    /\ wr[w].pc = "register" => wr[w].event \in blobs
    /\ wr[w].pc \in {"append", "locked", "inserted"} /\ wr[w].large
         => wr[w].event \in stored \intersect blobs
    /\ InTransaction(w) => wr[w].prev = History
    /\ wr[w].pc = "anchoring" => \E n \in 1..Len(History) : wr[w].prev = SubSeq(History, 1, n)

WritersInv == DOMAIN wr = Writers /\ \A w \in Writers : WriterInv(w)

(* One event is one call, and one call at a time is between lock and       *)
(* commit.                                                                 *)
Apart ==
    /\ \A v, w \in Writers : InCall(v) /\ InCall(w) /\ v # w => wr[v].event # wr[w].event
    /\ \A w \in Writers : holder = w <=> InTransaction(w)

(* The head counts the history, which is of events issued and done.        *)
HeadInv ==
    /\ tip = [seq |-> Len(History), hash |-> History]
    /\ History \in Seq(Events)
    /\ \A i \in 1..Len(History) : History[i] \in 1..issued /\ History[i] \in acted

(* A row that refers to a payload finds it.                                *)
Backed == {r \in Rows : r.ref => r.body \in (stored \intersect blobs) \union {Altered}}
RowsInv == rows \in Seq(Backed)

CountsInv ==
    /\ issued \in 0..MaxEvents
    /\ acted \subseteq Events /\ acked \subseteq Events
    /\ damage \in 0..MaxDamage /\ tries \in 0..MaxChecks

(* The inductive invariant.                                                *)
IInv == WritersInv /\ Apart /\ HeadInv /\ RowsInv /\ CountsInv /\ ChainIntact

-----------------------------------------------------------------------------
(* A sequence without one of its elements.                                 *)
LEMMA Removed ==
    ASSUME NEW S, NEW s \in Seq(S), NEW i \in 1..Len(s)
    PROVE  RemoveAt(s, i) \in Seq(S) /\ Len(RemoveAt(s, i)) = Len(s) - 1
<1>. DEFINE before == SubSeq(s, 1, i - 1)
            after  == SubSeq(s, i + 1, Len(s))
<1>1. before \in Seq(S) /\ Len(before) = i - 1
    OBVIOUS
<1>2. Len(s) \in Nat /\ i \in 1..Len(s)
    OBVIOUS
<1>3. after \in Seq(S)
    <2>1. CASE i + 1 <= Len(s)
        BY <2>1, <1>2
    <2>2. CASE i = Len(s)
        BY <2>2, <1>2
    <2>. QED
        BY <1>2, <2>1, <2>2
<1>4. Len(after) = Len(s) - i
    BY <1>2
<1>5. RemoveAt(s, i) = before \o after
    BY DEF RemoveAt
<1>. HIDE DEF before, after
<1>6. before \o after \in Seq(S) /\ Len(before \o after) = Len(before) + Len(after)
    BY <1>1, <1>3, ConcatProperties
<1>. QED
    BY <1>1, <1>2, <1>4, <1>5, <1>6

(* What a history one event longer has in common with the one before.      *)
LEMMA Longer ==
    ASSUME NEW S, NEW h \in Seq(S), NEW e \in S
    PROVE  /\ Append(h, e) \in Seq(S) /\ Len(Append(h, e)) = Len(h) + 1
           /\ \A i \in 1..Len(h) : Append(h, e)[i] = h[i]
           /\ Append(h, e)[Len(h) + 1] = e
           /\ \A i \in 0..Len(h) : SubSeq(Append(h, e), 1, i) = SubSeq(h, 1, i)
           /\ SubSeq(Append(h, e), 1, Len(h) + 1) = Append(h, e)
           /\ SubSeq(h, 1, Len(h)) = h
<1>1. /\ Append(h, e) \in Seq(S) /\ Len(Append(h, e)) = Len(h) + 1
      /\ \A i \in 1..Len(h) : Append(h, e)[i] = h[i]
      /\ Append(h, e)[Len(h) + 1] = e
    OBVIOUS
<1>2. ASSUME NEW i \in 0..Len(h)
      PROVE  SubSeq(Append(h, e), 1, i) = SubSeq(h, 1, i)
    BY <1>1
<1>3. SubSeq(Append(h, e), 1, Len(h) + 1) = Append(h, e)
    BY <1>1
<1>4. SubSeq(h, 1, Len(h)) = h
    OBVIOUS
<1>. QED
    BY <1>1, <1>2, <1>3, <1>4

(* How a sequence begins.                                                  *)
LEMMA Beginnings ==
    ASSUME NEW S, NEW s \in Seq(S), NEW n \in 0..Len(s)
    PROVE  /\ SubSeq(s, 1, n) \in Seq(S) /\ Len(SubSeq(s, 1, n)) = n
           /\ \A i \in 1..n : SubSeq(s, 1, n)[i] = s[i]
<1>1. /\ n \in Int /\ \A i \in 1..n : s[i] \in S
    OBVIOUS
<1>2. /\ SubSeq(s, 1, n) \in Seq(S) /\ Len(SubSeq(s, 1, n)) = IF 1 <= n THEN n - 1 + 1 ELSE 0
      /\ \A i \in 1..(n - 1 + 1) : SubSeq(s, 1, n)[i] = s[1 + i - 1]
    BY <1>1, SubSeqProperties
<1>. QED
    BY <1>2

-----------------------------------------------------------------------------
(* A step of one writer, the head as it was: the others keep what they     *)
(* hold, and the events stay apart when the writer's is not another's.     *)
Alone(w) ==
    /\ DOMAIN wr' = Writers
    /\ \A v \in Writers \ {w} : wr'[v] = wr[v]

Grows ==
    /\ tip' = tip
    /\ issued' \in 0..MaxEvents /\ issued <= issued'
    /\ acted \subseteq acted' /\ acted' \subseteq Events
    /\ blobs \subseteq blobs' /\ stored \subseteq stored'

LEMMA OthersKeep ==
    ASSUME IInv, NEW w \in Writers, Alone(w), Grows, WriterInv(w)'
    PROVE  WritersInv'
<1>1. ASSUME NEW v \in Writers \ {w}
      PROVE  WriterInv(v)'
    <2>1. wr'[v] = wr[v] /\ WriterInv(v)
        BY DEF Alone, IInv, WritersInv
    <2>2. issued \in Nat /\ issued' \in Nat /\ issued <= issued' /\ tip'.hash = tip.hash
        BY AuditConstants DEF IInv, CountsInv, Grows
    <2>. QED
        BY <2>1, <2>2 DEF WriterInv, Grows, InCall, InTransaction, History
<1>. QED
    BY <1>1 DEF Alone, WritersInv

LEMMA HeadKeeps ==
    ASSUME IInv, Grows
    PROVE  HeadInv'
BY AuditConstants DEF IInv, HeadInv, CountsInv, Grows, History

LEMMA RowsKeep ==
    ASSUME RowsInv, Grows, rows' = rows
    PROVE  RowsInv'
<1>1. Backed \subseteq Backed'
    BY DEF Backed, Grows, Rows, Events
<1>2. rows \in Seq(Backed')
    BY <1>1 DEF RowsInv
<1>. QED
    BY <1>2 DEF RowsInv

(* The event of the writer is the one it had, or is none any more, or the  *)
(* next one to be issued; it takes the lock, keeps it or gives it up.      *)
LEMMA StillApart ==
    ASSUME IInv, NEW w \in Writers, Alone(w), Grows,
           InCall(w)' => \/ InCall(w) /\ wr'[w].event = wr[w].event
                         \/ wr'[w].event = issued + 1,
           \/ holder' = holder /\ InTransaction(w)' = InTransaction(w)
           \/ holder \in {w, NoWriter} /\ holder' = w /\ InTransaction(w)'
           \/ holder' = (IF holder = w THEN NoWriter ELSE holder) /\ ~ InTransaction(w)'
    PROVE  Apart'
<1>1. \A v \in Writers \ {w} : wr'[v] = wr[v]
    BY DEF Alone
<1>2. \A v \in Writers : InCall(v) => wr[v].event \in 1..issued
    BY DEF IInv, WritersInv, WriterInv
<1>3. issued \in Nat
    BY AuditConstants DEF IInv, CountsInv
<1>4. ASSUME NEW u \in Writers, NEW v \in Writers, InCall(u)', InCall(v)', u # v
      PROVE  wr'[u].event # wr'[v].event
    BY <1>1, <1>2, <1>3, <1>4 DEF IInv, Apart, InCall
<1>5. ASSUME NEW v \in Writers
      PROVE  holder' = v <=> InTransaction(v)'
    BY <1>1, AuditConstants DEF IInv, Apart, InTransaction
<1>. QED
    BY <1>4, <1>5 DEF Apart

(* So a step of one writer that leaves rows and head alone keeps the       *)
(* invariant when it keeps what the writer holds.                          *)
Quiet == rows' = rows /\ damage' = damage /\ tries' \in 0..MaxChecks /\ acked' = acked

LEMMA QuietStep ==
    ASSUME IInv, NEW w \in Writers, Alone(w), Grows, Quiet, WriterInv(w)', Apart'
    PROVE  IInv'
<1>1. WritersInv' /\ HeadInv'
    BY OthersKeep, HeadKeeps
<1>2. RowsInv'
    BY RowsKeep DEF Quiet, IInv
<1>3. CountsInv'
    BY DEF IInv, CountsInv, Quiet, Grows
<1>4. ChainIntact'
    BY DEF IInv, ChainIntact, Quiet, Grows, History
<1>. QED
    BY <1>1, <1>2, <1>3, <1>4 DEF IInv

-----------------------------------------------------------------------------
(* The steps of one writer.                                                *)

(* A writer that ends what it was doing holds nothing.                     *)
LEMMA Idles ==
    ASSUME IInv, NEW w \in Writers, wr' = [wr EXCEPT ![w] = Idle]
    PROVE  Alone(w) /\ WriterInv(w)' /\ ~ InCall(w)' /\ ~ InTransaction(w)'
<1>1. DOMAIN wr = Writers
    BY DEF IInv, WritersInv
<1>2. wr'[w] = Idle /\ Alone(w)
    BY <1>1 DEF Alone
<1>3. DOMAIN Idle = Fields /\ Idle.pc = "idle" /\ Idle.attempt = 1 /\ Idle.large = FALSE
    BY DEF Idle, Fields
<1>4. /\ DOMAIN wr'[w] = Fields /\ wr'[w].pc = "idle"
      /\ wr'[w].attempt = 1 /\ wr'[w].large = FALSE
    BY <1>2, <1>3
<1>5. 1 \in 1..MaxAttempts
    BY AuditConstants
<1>. QED
    BY <1>2, <1>4, <1>5 DEF WriterInv, Pcs, InCall, InTransaction

LEMMA FinishStep ==
    ASSUME IInv, NEW w \in Writers, Finish(w), Grows, Quiet
    PROVE  IInv'
<1>1. Alone(w) /\ WriterInv(w)' /\ ~ InCall(w)' /\ ~ InTransaction(w)'
    BY Idles DEF Finish
<1>2. Apart'
    BY <1>1, StillApart DEF Finish
<1>. QED
    BY <1>1, <1>2, QuietStep

(* A writer that begins.                                                   *)
LEMMA ActStep ==
    ASSUME IInv, NEW w \in Writers, NEW scoped \in BOOLEAN, NEW large \in BOOLEAN,
           Act(w, scoped, large)
    PROVE  IInv'
<1>1. DOMAIN wr = Writers /\ issued \in Nat /\ MaxEvents \in Nat /\ wr[w].pc = "idle"
    BY AuditConstants DEF IInv, WritersInv, CountsInv, Act, At
<1>2. Grows /\ Quiet
    BY <1>1 DEF Act, Grows, Quiet, chain, objects, bounds, IInv, CountsInv, Events
<1>3. Alone(w)
    BY <1>1 DEF Act, Alone
<1>4. /\ wr'[w].pc = (IF large THEN "upload" ELSE "append") /\ wr'[w].event = issued + 1
      /\ wr'[w].large = large /\ wr'[w].attempt = 1 /\ DOMAIN wr'[w] = Fields
    BY <1>1 DEF Act, Idle, Fields
<1>5. \A i \in 1..Len(History) : History'[i] # issued + 1 /\ History' = History
    BY <1>1, <1>2 DEF IInv, HeadInv, Grows, History
<1>6. WriterInv(w)'
    BY <1>1, <1>2, <1>4, <1>5, AuditConstants
    DEF WriterInv, Pcs, InCall, InTransaction, Act, Grows, History
<1>7. holder' = holder /\ InTransaction(w)' = InTransaction(w)
    BY <1>1, <1>4 DEF Act, InTransaction
<1>8. Apart'
    BY <1>2, <1>3, <1>4, <1>7, StillApart
<1>. QED
    BY <1>2, <1>3, <1>6, <1>8, QuietStep

(* A writer that moves on with the same event.                             *)
LEMMA GotoStep ==
    ASSUME IInv, NEW w \in Writers, NEW pc \in Pcs, Goto(w, pc)
    PROVE  /\ Alone(w) /\ wr'[w].pc = pc /\ DOMAIN wr'[w] = Fields
           /\ wr'[w].event = wr[w].event /\ wr'[w].large = wr[w].large
           /\ wr'[w].attempt = wr[w].attempt /\ wr'[w].prev = wr[w].prev
<1>1. DOMAIN wr = Writers /\ DOMAIN wr[w] = Fields
    BY DEF IInv, WritersInv, WriterInv
<1>2. wr' = [wr EXCEPT ![w].pc = pc]
    BY DEF Goto
<1>3. wr'[w] = [wr[w] EXCEPT !.pc = pc]
    BY <1>1, <1>2
<1>. QED
    BY <1>1, <1>2, <1>3 DEF Alone, Fields

LEMMA UploadStep ==
    ASSUME IInv, NEW w \in Writers, Upload(w)
    PROVE  IInv'
<1>1. Grows /\ Quiet /\ holder' = holder
    BY DEF Upload, Grows, Quiet, chain, bounds, IInv, CountsInv
<1>2. /\ Alone(w) /\ wr'[w].pc = "register" /\ DOMAIN wr'[w] = Fields
      /\ wr'[w].event = wr[w].event /\ wr'[w].large = wr[w].large
      /\ wr'[w].attempt = wr[w].attempt
    BY GotoStep DEF Upload, Pcs
<1>3. wr[w].pc = "upload" /\ blobs' = blobs \union {wr[w].event} /\ WriterInv(w)
    BY DEF Upload, At, IInv, WritersInv
<1>4. WriterInv(w)'
    BY <1>1, <1>2, <1>3 DEF WriterInv, Pcs, InCall, InTransaction, Grows, History, Upload
<1>5. Apart'
    BY <1>1, <1>2, <1>3, StillApart DEF InCall, InTransaction
<1>. QED
    BY <1>1, <1>2, <1>4, <1>5, QuietStep

LEMMA RegisterStep ==
    ASSUME IInv, NEW w \in Writers, Register(w)
    PROVE  IInv'
<1>1. Grows /\ Quiet /\ holder' = holder
    BY DEF Register, Grows, Quiet, chain, bounds, IInv, CountsInv
<1>2. /\ Alone(w) /\ wr'[w].pc = "append" /\ DOMAIN wr'[w] = Fields
      /\ wr'[w].event = wr[w].event /\ wr'[w].large = wr[w].large
      /\ wr'[w].attempt = wr[w].attempt
    BY GotoStep DEF Register, Pcs
<1>3. wr[w].pc = "register" /\ stored' = stored \union {wr[w].event} /\ WriterInv(w)
    BY DEF Register, At, IInv, WritersInv
<1>4. WriterInv(w)'
    BY <1>1, <1>2, <1>3 DEF WriterInv, Pcs, InCall, InTransaction, Grows, History, Register
<1>5. Apart'
    BY <1>1, <1>2, <1>3, StillApart DEF InCall, InTransaction
<1>. QED
    BY <1>1, <1>2, <1>4, <1>5, QuietStep

LEMMA LockTipStep ==
    ASSUME IInv, NEW w \in Writers, LockTip(w)
    PROVE  IInv'
<1>1. DOMAIN wr = Writers /\ DOMAIN wr[w] = Fields /\ wr[w].pc = "append" /\ WriterInv(w)
    BY DEF IInv, WritersInv, WriterInv, LockTip, At
<1>2. Grows /\ Quiet /\ holder = NoWriter /\ holder' = w
    BY DEF LockTip, Grows, Quiet, chain, objects, bounds, IInv, CountsInv
<1>3. wr' = [wr EXCEPT ![w].pc = "locked", ![w].prev = tip.hash]
    BY DEF LockTip
<1>4. Alone(w)
    BY <1>1, <1>3 DEF Alone
<1>5. wr'[w] = [wr[w] EXCEPT !.pc = "locked", !.prev = tip.hash]
    BY <1>1, <1>3
<1>6. /\ wr'[w].pc = "locked" /\ DOMAIN wr'[w] = Fields /\ wr'[w].prev = tip.hash
      /\ wr'[w].event = wr[w].event /\ wr'[w].large = wr[w].large
      /\ wr'[w].attempt = wr[w].attempt
    BY <1>1, <1>5 DEF Fields
<1>7. WriterInv(w)'
    BY <1>1, <1>2, <1>6 DEF WriterInv, Pcs, InCall, InTransaction, Grows, History, LockTip
<1>8. Apart'
    BY <1>1, <1>2, <1>4, <1>6, StillApart DEF InCall, InTransaction
<1>. QED
    BY <1>2, <1>4, <1>7, <1>8, QuietStep

LEMMA AppendStep ==
    ASSUME IInv, NEW w \in Writers, AppendAuditEvent(w)
    PROVE  IInv'
<1>1. Grows /\ Quiet /\ holder \in {w, NoWriter} /\ holder' = w
    BY DEF AppendAuditEvent, Grows, Quiet, chain, objects, bounds, IInv, CountsInv
<1>2. /\ Alone(w) /\ wr'[w].pc = "inserted" /\ DOMAIN wr'[w] = Fields
      /\ wr'[w].event = wr[w].event /\ wr'[w].large = wr[w].large
      /\ wr'[w].attempt = wr[w].attempt /\ wr'[w].prev = wr[w].prev
    BY GotoStep DEF AppendAuditEvent, Pcs
<1>3. wr[w].pc = "locked" /\ wr[w].prev = tip.hash /\ WriterInv(w)
    BY DEF AppendAuditEvent, At, IInv, WritersInv
<1>4. WriterInv(w)'
    BY <1>1, <1>2, <1>3
    DEF WriterInv, Pcs, InCall, InTransaction, Grows, History, AppendAuditEvent
<1>5. Apart'
    BY <1>1, <1>2, <1>3, StillApart DEF InCall, InTransaction
<1>. QED
    BY <1>1, <1>2, <1>4, <1>5, QuietStep

(* The commit: the writer holds the lock, so nobody else has the head in   *)
(* hand, and its event is nobody else's.                                   *)
LEMMA CommitStep ==
    ASSUME IInv, NEW w \in Writers, NEW answered \in BOOLEAN, Commit(w, answered)
    PROVE  IInv'
<1>. DEFINE e == wr[w].event
<1>1. /\ DOMAIN wr = Writers /\ wr[w].pc = "inserted" /\ WriterInv(w) /\ holder = w
      /\ wr[w].prev = History /\ e \in 1..issued
      /\ \A i \in 1..Len(History) : History[i] # e
    BY DEF Commit, At, IInv, WritersInv, WriterInv, InCall, InTransaction, Apart
<1>2. /\ issued \in Nat /\ issued <= MaxEvents /\ MaxEvents \in Nat /\ e \in Events
      /\ History \in Seq(Events) /\ Len(History) \in Nat
      /\ tip.seq = Len(History) /\ tip.hash = History
    BY <1>1, AuditConstants DEF IInv, CountsInv, HeadInv, Events, History
<1>3. RowOf(w) = [seq |-> Len(History) + 1, body |-> e, prev |-> History,
                  hash |-> Append(History, e), ref |-> wr[w].large]
    BY <1>1, <1>2 DEF RowOf, ChainEventHash
<1>4. /\ rows' = Append(rows, RowOf(w)) /\ History' = Append(History, e)
      /\ tip' = [seq |-> Len(History) + 1, hash |-> Append(History, e)]
      /\ issued' = issued /\ damage' = damage /\ tries' = tries
      /\ blobs' = blobs /\ stored' = stored
      /\ acted' = acted \union {e} /\ acked' \in {acked, acked \union {e}}
      /\ Finish(w)
    BY <1>2, <1>3 DEF Commit, History, objects, bounds
<1>5. /\ History' \in Seq(Events) /\ Len(History') = Len(History) + 1
      /\ \A i \in 1..Len(History) : History'[i] = History[i]
      /\ History'[Len(History) + 1] = e
      /\ \A i \in 0..Len(History) : SubSeq(History', 1, i) = SubSeq(History, 1, i)
      /\ SubSeq(History', 1, Len(History) + 1) = History'
      /\ SubSeq(History, 1, Len(History)) = History
    <2>. HIDE DEF e
    <2>. QED
        BY <1>2, <1>4, Longer
<1>6. Alone(w) /\ WriterInv(w)' /\ ~ InCall(w)' /\ ~ InTransaction(w)'
    BY <1>4, Idles DEF Finish
<1>. HIDE DEF e
<1>7. ASSUME NEW v \in Writers \ {w}
      PROVE  WriterInv(v)'
    <2>1. wr'[v] = wr[v] /\ WriterInv(v) /\ ~ InTransaction(v)
        BY <1>1, <1>6 DEF Alone, IInv, WritersInv, Apart
    <2>2. InCall(v) => wr[v].event # e
        BY <1>1 DEF IInv, Apart, InCall, e
    <2>3. InCall(v) => \A i \in 1..Len(History') : History'[i] # wr[v].event
        BY <1>2, <1>5, <2>1, <2>2 DEF WriterInv
    <2>4. wr[v].pc = "anchoring" =>
            \E n \in 1..Len(History') : wr[v].prev = SubSeq(History', 1, n)
        BY <1>2, <1>5, <2>1 DEF WriterInv
    <2>. QED
        BY <1>4, <2>1, <2>3, <2>4 DEF WriterInv, InCall, InTransaction
<1>8. WritersInv'
    BY <1>6, <1>7 DEF WritersInv, Alone
<1>9. Apart'
    <2>1. holder' = NoWriter /\ \A v \in Writers \ {w} : wr'[v] = wr[v]
        BY <1>1, <1>4, <1>6 DEF Finish, Alone
    <2>. QED
        BY <1>1, <1>6, <2>1, AuditConstants DEF IInv, Apart, InCall, InTransaction
<1>10. HeadInv'
    <2>1. \A i \in 1..Len(History') : History'[i] \in 1..issued' /\ History'[i] \in acted'
        BY <1>1, <1>2, <1>4, <1>5 DEF IInv, HeadInv
    <2>2. tip' = [seq |-> Len(History'), hash |-> History']
        BY <1>4, <1>5
    <2>. QED
        BY <1>5, <2>1, <2>2 DEF HeadInv
<1>11. RowOf(w) \in Backed
    <2>1. wr[w].large \in BOOLEAN /\ (wr[w].large => e \in stored \intersect blobs)
        BY <1>1 DEF WriterInv, e
    <2>2. Append(History, e) \in Seq(Events) /\ Len(History) + 1 \in Nat
        BY <1>2
    <2>. QED
        BY <1>2, <1>3, <2>1, <2>2 DEF Backed, Rows
<1>12. RowsInv'
    <2>1. Backed' = Backed
        BY <1>4 DEF Backed, Rows, Events
    <2>. HIDE DEF Backed
    <2>2. rows' \in Seq(Backed)
        BY <1>4, <1>11 DEF IInv, RowsInv
    <2>. QED
        BY <2>1, <2>2 DEF RowsInv
<1>13. CountsInv'
    BY <1>2, <1>4 DEF IInv, CountsInv
<1>14. ChainIntact'
    <2>. SUFFICES ASSUME damage = 0
                  PROVE  ChainIntact'
        BY <1>4 DEF ChainIntact
    <2>1. /\ Len(rows) = Len(History)
          /\ \A i \in 1..Len(History) :
               /\ rows[i].seq = i /\ rows[i].body = History[i]
               /\ rows[i].hash = SubSeq(History, 1, i)
               /\ rows[i].prev = SubSeq(History, 1, i - 1)
        BY <1>2 DEF IInv, ChainIntact
    <2>2. /\ Len(rows') = Len(History) + 1
          /\ \A i \in 1..Len(History) : rows'[i] = rows[i]
          /\ rows'[Len(History) + 1] = RowOf(w)
        <3>. HIDE DEF RowOf
        <3>. QED
            BY <1>4, <1>11, <2>1, Longer DEF IInv, RowsInv
    <2>3. ASSUME NEW i \in 1..Len(rows')
          PROVE  /\ rows'[i].seq = i /\ rows'[i].body = History'[i]
                 /\ rows'[i].hash = SubSeq(History', 1, i)
                 /\ rows'[i].prev = SubSeq(History', 1, i - 1)
        <3>1. CASE i \in 1..Len(History)
            <4>1. i \in 0..Len(History) /\ i - 1 \in 0..Len(History)
                BY <1>2, <3>1
            <4>. QED
                BY <1>5, <2>1, <2>2, <3>1, <4>1
        <3>2. CASE i = Len(History) + 1
            <4>1. i - 1 = Len(History) /\ Len(History) \in 0..Len(History)
                BY <1>2, <3>2
            <4>2. rows'[i] = RowOf(w)
                BY <2>2, <3>2
            <4>3. SubSeq(History', 1, i) = History' /\ SubSeq(History', 1, i - 1) = History
                BY <1>5, <3>2, <4>1
            <4>4. /\ rows'[i].seq = i /\ rows'[i].body = e
                  /\ rows'[i].hash = Append(History, e) /\ rows'[i].prev = History
                BY <1>3, <3>2, <4>2
            <4>5. History'[i] = e /\ Append(History, e) = History'
                BY <1>4, <1>5, <3>2
            <4>. QED
                BY <4>3, <4>4, <4>5
        <3>. QED
            BY <1>2, <2>2, <3>1, <3>2
    <2>4. tip'.seq = Len(rows')
        BY <1>4, <2>2
    <2>. QED
        BY <2>3, <2>4 DEF ChainIntact
<1>. QED
    BY <1>8, <1>9, <1>10, <1>12, <1>13, <1>14 DEF IInv

LEMMA ContentionStep ==
    ASSUME IInv, NEW w \in Writers, Contention(w)
    PROVE  IInv'
<1>1. Grows /\ Quiet
    BY DEF Contention, Grows, Quiet, chain, objects, bounds, IInv, CountsInv
<1>2. CASE wr' = [wr EXCEPT ![w].pc = "append", ![w].attempt = @ + 1]
    <2>1. /\ DOMAIN wr = Writers /\ DOMAIN wr[w] = Fields /\ WriterInv(w)
          /\ wr[w].pc \in {"locked", "inserted"} /\ holder = w /\ w # NoWriter
        BY AuditConstants
        DEF IInv, WritersInv, WriterInv, Contention, Apart, InTransaction
    <2>2. wr[w].attempt < MaxAttempts \/ Finish(w)
        BY DEF Contention
    <2>3. CASE Finish(w)
        BY <1>1, <2>3, FinishStep
    <2>4. CASE wr[w].attempt < MaxAttempts /\ ~ Finish(w)
        <3>1. Alone(w)
            BY <1>2, <2>1 DEF Alone
        <3>2. wr'[w] = [wr[w] EXCEPT !.pc = "append", !.attempt = @ + 1]
            BY <1>2, <2>1
        <3>3. /\ wr'[w].pc = "append" /\ DOMAIN wr'[w] = Fields
              /\ wr'[w].event = wr[w].event /\ wr'[w].large = wr[w].large
              /\ wr'[w].attempt = wr[w].attempt + 1
            BY <2>1, <3>2 DEF Fields
        <3>4. wr'[w].attempt \in 1..MaxAttempts
            BY <2>1, <2>4, <3>3, AuditConstants DEF WriterInv
        <3>5. WriterInv(w)'
            BY <1>1, <2>1, <3>3, <3>4
            DEF WriterInv, Pcs, InCall, InTransaction, Grows, History, Contention, objects
        <3>6. holder' = NoWriter
            BY <2>1, <2>4 DEF Contention
        <3>7. Apart'
            BY <1>1, <2>1, <3>1, <3>3, <3>6, StillApart DEF InCall, InTransaction
        <3>. QED
            BY <1>1, <3>1, <3>5, <3>7, QuietStep
    <2>. QED
        BY <2>2, <2>3, <2>4
<1>3. CASE Finish(w)
    BY <1>1, <1>3, FinishStep
<1>. QED
    BY <1>2, <1>3 DEF Contention

LEMMA FailStep ==
    ASSUME IInv, NEW w \in Writers, Fail(w)
    PROVE  IInv'
<1>1. Grows /\ Quiet /\ Finish(w)
    BY DEF Fail, Grows, Quiet, chain, objects, bounds, IInv, CountsInv
<1>. QED
    BY <1>1, FinishStep

LEMMA EmitStep ==
    ASSUME IInv, NEW w \in Writers, Emit(w)
    PROVE  IInv'
BY ActStep, UploadStep, RegisterStep, LockTipStep, AppendStep, CommitStep, ContentionStep,
   FailStep
DEF Emit

-----------------------------------------------------------------------------
(* Verification, anchors and readers.                                      *)

LEMMA VerifySegmentStep ==
    ASSUME IInv, NEW w \in Writers, NEW from \in 1..2, VerifySegment(w, from)
    PROVE  IInv'
<1>. DEFINE found == RowsFrom(from)
<1>1. /\ wr' = [wr EXCEPT ![w] = [Idle EXCEPT !.pc = "walked", !.from = from, !.links = found]]
      /\ At(w, "idle") /\ tries < MaxChecks /\ tries' = tries + 1
      /\ UNCHANGED <<chain, holder, issued, acted, acked, objects, anchors, checks, reader,
                     damage>>
    BY DEF VerifySegment
<1>. HIDE DEF found
<1>2. DOMAIN wr = Writers /\ wr[w].pc = "idle" /\ holder' = holder
    BY <1>1 DEF IInv, WritersInv, At
<1>3. Grows /\ Quiet
    BY <1>1, AuditConstants DEF Grows, Quiet, chain, objects, IInv, CountsInv
<1>4. Alone(w)
    BY <1>1, <1>2 DEF Alone
<1>5. wr'[w].pc = "walked" /\ wr'[w].attempt = 1 /\ wr'[w].large = FALSE
      /\ DOMAIN wr'[w] = Fields
    BY <1>1, <1>2 DEF Idle, Fields
<1>6. 1 \in 1..MaxAttempts
    BY AuditConstants
<1>7. WriterInv(w)'
    BY <1>5, <1>6 DEF WriterInv, Pcs, InCall, InTransaction
<1>8. Apart'
    BY <1>2, <1>3, <1>4, <1>5, StillApart DEF InCall, InTransaction
<1>. QED
    BY <1>3, <1>4, <1>7, <1>8, QuietStep

LEMMA RecordVerificationStep ==
    ASSUME IInv, NEW w \in Writers, RecordVerification(w)
    PROVE  IInv'
<1>1. /\ At(w, "walked")
      /\ \/ wr' = [wr EXCEPT ![w] = Idle] /\ UNCHANGED <<issued, acted>>
         \/ /\ issued # MaxEvents /\ issued' = issued + 1 /\ acted' = acted \union {issued + 1}
            /\ wr' = [wr EXCEPT ![w] = [Idle EXCEPT !.pc = "append", !.event = issued + 1]]
      /\ UNCHANGED <<chain, holder, acked, objects, anchors, reader, bounds>>
    BY DEF RecordVerification
<1>2. /\ DOMAIN wr = Writers /\ wr[w].pc = "walked" /\ holder' = holder
      /\ issued \in Nat /\ MaxEvents \in Nat /\ issued <= MaxEvents
    BY <1>1, AuditConstants DEF IInv, WritersInv, At, CountsInv
<1>3. Grows /\ Quiet
    BY <1>1, <1>2 DEF Grows, Quiet, chain, objects, bounds, IInv, CountsInv, Events
<1>4. CASE wr' = [wr EXCEPT ![w] = Idle]
    <2>1. Alone(w) /\ WriterInv(w)' /\ ~ InCall(w)' /\ ~ InTransaction(w)'
        BY <1>4, Idles
    <2>2. Apart'
        BY <1>2, <1>3, <2>1, StillApart DEF InTransaction
    <2>. QED
        BY <1>3, <2>1, <2>2, QuietStep
<1>5. CASE /\ issued' = issued + 1
           /\ wr' = [wr EXCEPT ![w] = [Idle EXCEPT !.pc = "append", !.event = issued + 1]]
    <2>1. Alone(w)
        BY <1>2, <1>5 DEF Alone
    <2>2. /\ wr'[w].pc = "append" /\ wr'[w].event = issued + 1
          /\ wr'[w].large = FALSE /\ wr'[w].attempt = 1 /\ DOMAIN wr'[w] = Fields
        BY <1>2, <1>5 DEF Idle, Fields
    <2>3. History' = History /\ \A i \in 1..Len(History) : History[i] # issued + 1
        BY <1>2, <1>3 DEF IInv, HeadInv, Grows, History
    <2>4. 1 \in 1..MaxAttempts /\ issued + 1 \in 1..issued'
        BY <1>2, <1>5, AuditConstants
    <2>5. WriterInv(w)'
        BY <2>2, <2>3, <2>4 DEF WriterInv, Pcs, InCall, InTransaction
    <2>6. Apart'
        BY <1>2, <1>3, <2>1, <2>2, StillApart DEF InTransaction
    <2>. QED
        BY <1>3, <2>1, <2>5, <2>6, QuietStep
<1>. QED
    BY <1>1, <1>4, <1>5

LEMMA ReadHeadStep ==
    ASSUME IInv, NEW w \in Writers, ReadHead(w)
    PROVE  IInv'
<1>1. /\ DOMAIN wr = Writers /\ DOMAIN wr[w] = Fields /\ wr[w].pc = "idle"
      /\ holder' = holder /\ tip.seq > 0
    BY DEF IInv, WritersInv, WriterInv, ReadHead, At
<1>2. Grows /\ Quiet
    BY AuditConstants DEF ReadHead, Grows, Quiet, chain, objects, IInv, CountsInv
<1>3. wr' = [wr EXCEPT ![w] = [Idle EXCEPT !.pc = "anchoring", !.head = tip.seq,
                                           !.prev = tip.hash]]
    BY DEF ReadHead
<1>4. Alone(w)
    BY <1>1, <1>3 DEF Alone
<1>5. /\ wr'[w].pc = "anchoring" /\ wr'[w].prev = tip.hash
      /\ wr'[w].attempt = 1 /\ wr'[w].large = FALSE /\ DOMAIN wr'[w] = Fields
    BY <1>1, <1>3 DEF Idle, Fields
<1>6. 1 \in 1..MaxAttempts
    BY AuditConstants
<1>7. wr'[w].prev = SubSeq(History', 1, Len(History')) /\ Len(History') \in 1..Len(History')
    <2>1. History' = History /\ History \in Seq(Events) /\ Len(History) > 0
        BY <1>1, <1>2 DEF IInv, HeadInv, Grows, History
    <2>2. SubSeq(History, 1, Len(History)) = History
        BY <2>1
    <2>. QED
        BY <1>5, <2>1, <2>2 DEF History
<1>8. WriterInv(w)'
    BY <1>5, <1>6, <1>7 DEF WriterInv, Pcs, InCall, InTransaction
<1>9. Apart'
    BY <1>1, <1>2, <1>4, <1>5, StillApart DEF InCall, InTransaction
<1>. QED
    BY <1>2, <1>4, <1>8, <1>9, QuietStep

LEMMA WriteAnchorStep ==
    ASSUME IInv, NEW w \in Writers, WriteAnchor(w)
    PROVE  IInv'
<1>1. Grows /\ Quiet /\ holder' = holder
    BY DEF WriteAnchor, Grows, Quiet, chain, objects, bounds, IInv, CountsInv
<1>2. Alone(w) /\ WriterInv(w)' /\ ~ InCall(w)' /\ ~ InTransaction(w)'
    BY Idles DEF WriteAnchor
<1>3. wr[w].pc = "anchoring"
    BY DEF WriteAnchor, At
<1>4. Apart'
    BY <1>1, <1>2, <1>3, StillApart DEF InTransaction
<1>. QED
    BY <1>1, <1>2, <1>4, QuietStep

(* A step that concerns no writer and leaves the chain's head alone.       *)
LEMMA OutsideStep ==
    ASSUME IInv,
           UNCHANGED <<tip, holder, wr, issued, acted, acked, objects, tries>>,
           RowsInv', damage' \in 0..MaxDamage, ChainIntact'
    PROVE  IInv'
<1>1. History' = History
    BY DEF History
<1>2. WritersInv'
    BY <1>1 DEF IInv, WritersInv, WriterInv, InCall, InTransaction, objects
<1>3. Apart'
    BY DEF IInv, Apart, InCall, InTransaction
<1>4. HeadInv' /\ CountsInv'
    BY <1>1 DEF IInv, HeadInv, CountsInv
<1>. QED
    BY <1>2, <1>3, <1>4 DEF IInv

LEMMA QueryStep ==
    ASSUME IInv, Query
    PROVE  IInv'
<1>1. UNCHANGED <<chain, holder, wr, issued, acted, acked, objects, anchors, checks, bounds>>
    BY DEF Query
<1>2. rows' = rows /\ tip' = tip /\ damage' = damage
    BY <1>1 DEF chain, bounds
<1>3. RowsInv'
    BY <1>1, <1>2 DEF IInv, RowsInv, Backed, Rows, Events, objects
<1>4. ChainIntact' /\ damage' \in 0..MaxDamage
    BY <1>2 DEF IInv, ChainIntact, CountsInv, History
<1>. QED
    BY <1>1, <1>2, <1>3, <1>4, OutsideStep DEF chain, bounds

LEMMA DamageStep ==
    ASSUME IInv, NEW i \in 1..Len(rows), AlterRow(i) \/ LoseRow(i)
    PROVE  IInv' /\ Len(rows') <= Len(rows)
<1>1. /\ UNCHANGED <<tip, holder, wr, issued, acted, acked, objects, tries>>
      /\ damage' = damage + 1 /\ damage \in Nat /\ damage' \in 0..MaxDamage
    BY AuditConstants DEF AlterRow, LoseRow, IInv, CountsInv
<1>2. rows \in Seq(Backed) /\ Backed' = Backed
    BY <1>1 DEF IInv, RowsInv, Backed, Rows, Events, objects
<1>3. rows' \in Seq(Backed) /\ Len(rows') <= Len(rows)
    <2>1. CASE AlterRow(i)
        <3>1. rows' = [rows EXCEPT ![i] = [rows[i] EXCEPT !.body = Altered]]
            BY <2>1 DEF AlterRow
        <3>2. [rows[i] EXCEPT !.body = Altered] \in Backed
            <4>1. rows[i] \in Backed
                BY <1>2
            <4>. QED
                BY <4>1 DEF Backed, Rows
        <3>. HIDE DEF Backed
        <3>. QED
            BY <1>2, <3>1, <3>2
    <2>2. CASE LoseRow(i)
        <3>1. rows' = RemoveAt(rows, i)
            BY <2>2 DEF LoseRow
        <3>. HIDE DEF Backed
        <3>2. rows' \in Seq(Backed) /\ Len(rows') = Len(rows) - 1 /\ Len(rows) \in Nat
            BY <1>2, <3>1, Removed
        <3>. QED
            BY <3>2
    <2>. QED
        BY <2>1, <2>2
<1>4. RowsInv'
    BY <1>2, <1>3 DEF RowsInv
<1>5. ChainIntact'
    BY <1>1 DEF ChainIntact
<1>. QED
    BY <1>1, <1>3, <1>4, <1>5, OutsideStep

-----------------------------------------------------------------------------
(* The invariant.                                                          *)

LEMMA Initially ==
    ASSUME Init
    PROVE  IInv
<1>1. WritersInv
    <2>1. /\ DOMAIN wr = Writers
          /\ \A w \in Writers : /\ DOMAIN wr[w] = Fields /\ wr[w].pc = "idle"
                                /\ wr[w].attempt = 1 /\ wr[w].large = FALSE
        BY DEF Init, Idle, Fields
    <2>2. 1 \in 1..MaxAttempts
        BY AuditConstants
    <2>. QED
        BY <2>1, <2>2 DEF WritersInv, WriterInv, Pcs, InCall, InTransaction
<1>2. Apart
    BY AuditConstants DEF Init, Idle, Apart, InCall, InTransaction
<1>3. HeadInv
    BY DEF Init, HeadInv, History, Genesis
<1>4. RowsInv
    BY DEF Init, RowsInv
<1>5. CountsInv
    BY AuditConstants DEF Init, CountsInv
<1>6. ChainIntact
    BY DEF Init, ChainIntact
<1>. QED
    BY <1>1, <1>2, <1>3, <1>4, <1>5, <1>6 DEF IInv

LEMMA Preserved ==
    ASSUME IInv, [Next]_vars
    PROVE  IInv'
<1>1. CASE Next
    BY <1>1, EmitStep, VerifySegmentStep, RecordVerificationStep, ReadHeadStep, WriteAnchorStep,
       QueryStep, DamageStep
    DEF Next
<1>2. CASE UNCHANGED vars
    <2>1. rows' = rows /\ tip' = tip /\ damage' = damage
        BY <1>2 DEF vars
    <2>2. RowsInv'
        BY <1>2 DEF IInv, RowsInv, Backed, Rows, Events, vars
    <2>3. ChainIntact' /\ damage' \in 0..MaxDamage
        BY <2>1 DEF IInv, ChainIntact, CountsInv, History
    <2>. QED
        BY <1>2, <2>2, <2>3, OutsideStep DEF vars, objects
<1>. QED
    BY <1>1, <1>2

(* The inductive invariant of the audit store holds throughout.            *)
THEOREM ChainInvariant == Spec => []IInv
BY Initially, Preserved, PTL DEF Spec

(* The state keeps its shape, a writer gives up after MaxAttempts, and the *)
(* tip is locked by nobody but the writer between lock and commit          *)
(* (store.ts, #withRetry and #lockAndReadTip).                             *)
THEOREM TypeCorrect == Spec => []TypeOK
<1>1. IInv => TypeOK
    <2>. SUFFICES ASSUME IInv PROVE TypeOK
        OBVIOUS
    <2>1. rows \in Seq(Rows)
        <3>1. Backed \subseteq Rows
            BY DEF Backed
        <3>. HIDE DEF Backed, Rows
        <3>. QED
            BY <3>1 DEF IInv, RowsInv
    <2>2. tip.seq \in Nat /\ tip.hash \in Seq(Events)
        BY DEF IInv, HeadInv, History
    <2>. QED
        BY <2>1, <2>2 DEF IInv, WritersInv, WriterInv, Apart, InTransaction, CountsInv, TypeOK
<1>. QED
    BY <1>1, ChainInvariant, PTL

(* No interleaving of writers, retries and failures forks or breaks the    *)
(* chain (store.ts, #lockAndReadTip; 0002, append_audit_event): until rows *)
(* are damaged behind the store, every row hashes the one before it.       *)
THEOREM ChainStaysIntact == Spec => []ChainIntact
<1>1. IInv => ChainIntact
    BY DEF IInv
<1>. QED
    BY <1>1, ChainInvariant, PTL

(* The log holds only what happened and refers only to payloads that can   *)
(* be read (emitter.ts, emit; object-store.ts, put).                       *)
THEOREM LogIsTrue == Spec => []LoggedOnlyWhatIsDone
<1>1. IInv => LoggedOnlyWhatIsDone
    BY DEF IInv, HeadInv, RowsInv, Backed, LoggedOnlyWhatIsDone
<1>. QED
    BY <1>1, ChainInvariant, PTL

-----------------------------------------------------------------------------
(* The chain implements the log.                                           *)

(* What a reader finds in the rows.                                        *)
Bodies == [i \in 1..Len(rows) |-> rows[i].body]

(* A commit records the event, answered or not.                            *)
LEMMA CommitRecords ==
    ASSUME IInv, NEW w \in Writers, NEW answered \in BOOLEAN, Commit(w, answered)
    PROVE  Log!LogNext
<1>. DEFINE mine == wr[w].event
<1>1. /\ wr[w].pc = "inserted" /\ WriterInv(w)
    BY DEF Commit, At, IInv, WritersInv
<1>2. /\ mine \in 1..issued /\ issued \in 0..MaxEvents /\ MaxEvents \in Nat
      /\ \A i \in 1..Len(History) : History[i] # mine
      /\ wr[w].prev = History /\ History = tip.hash
    BY <1>1, AuditConstants DEF WriterInv, InCall, InTransaction, IInv, CountsInv, History
<1>3. mine \in Events
    BY <1>2 DEF Events
<1>4. RowOf(w).body = mine /\ RowOf(w).hash = Append(History, mine)
    BY <1>2 DEF RowOf, ChainEventHash
<1>5. /\ rows' = Append(rows, RowOf(w)) /\ History' = Append(History, mine)
      /\ acked' \in {acked, acked \union {mine}} /\ anchors' = anchors /\ damage' = damage
    BY <1>4 DEF Commit, History, bounds
<1>6. mine \notin Log!Range(History)
    <2>1. DOMAIN History = 1..Len(History)
        BY DEF IInv, HeadInv
    <2>. QED
        BY <1>2, <2>1 DEF Log!Range
<1>7. Bodies' = Append(Bodies, mine)
    <2>. DEFINE row == RowOf(w)
    <2>1. /\ rows \in Seq(Backed) /\ Len(rows) \in Nat
        BY DEF IInv, RowsInv
    <2>2. /\ rows' = Append(rows, row) /\ row.body = mine
        BY <1>4, <1>5
    <2>. HIDE DEF row, mine, Backed
    <2>3. /\ Len(rows') = Len(rows) + 1 /\ rows'[Len(rows) + 1] = row
          /\ \A i \in 1..Len(rows) : rows'[i] = rows[i]
        BY <2>1, <2>2
    <2>. DEFINE T == {rows[i].body : i \in 1..Len(rows)} \union {mine}
    <2>4. /\ Bodies \in Seq(T) /\ Len(Bodies) = Len(rows) /\ mine \in T
          /\ \A i \in 1..Len(rows) : Bodies[i] = rows[i].body
        BY <2>1 DEF Bodies
    <2>5. /\ Bodies' = [i \in 1..Len(rows) + 1 |-> rows'[i].body]
          /\ \A i \in 1..Len(rows) + 1 : rows'[i].body \in T
        BY <2>1, <2>2, <2>3 DEF Bodies
    <2>. HIDE DEF T, Bodies
    <2>6. /\ Append(Bodies, mine) \in Seq(T) /\ Len(Append(Bodies, mine)) = Len(rows) + 1
          /\ \A i \in 1..Len(rows) : Append(Bodies, mine)[i] = Bodies[i]
          /\ Append(Bodies, mine)[Len(rows) + 1] = mine
        BY <2>1, <2>4, Longer
    <2>7. /\ Bodies' \in Seq(T) /\ Len(Bodies') = Len(rows) + 1
          /\ \A i \in 1..Len(rows) + 1 : Bodies'[i] = rows'[i].body
        BY <2>1, <2>5
    <2>8. \A i \in 1..Len(rows) + 1 : Bodies'[i] = Append(Bodies, mine)[i]
        BY <2>1, <2>2, <2>3, <2>4, <2>6, <2>7
    <2>. QED
        BY <2>6, <2>7, <2>8, SeqEqual
<1>. HIDE DEF mine
<1>8. PICK x \in Events : x = mine
    BY <1>3
<1>9. Log!Record(x)
    BY <1>5, <1>6, <1>7, <1>8 DEF Log!Record, Bodies
<1>. QED
    BY <1>9 DEF Log!LogNext

(* An anchor seals a history the log has or had.                           *)
LEMMA WriteAnchorSeals ==
    ASSUME IInv, NEW w \in Writers, WriteAnchor(w)
    PROVE  Log!LogNext
<1>1. PICK n \in 1..Len(History) : wr[w].prev = SubSeq(History, 1, n)
    BY DEF WriteAnchor, At, IInv, WritersInv, WriterInv
<1>2. /\ anchors' = anchors \union {[seq |-> wr[w].head, hash |-> wr[w].prev]}
      /\ History' = History /\ rows' = rows /\ acked' = acked /\ damage' = damage
    BY DEF WriteAnchor, chain, bounds, History
<1>. DEFINE anchor == [seq |-> wr[w].head, hash |-> wr[w].prev]
<1>3. {a.hash : a \in anchors'} = {a.hash : a \in anchors} \union {SubSeq(History, 1, n)}
    <2>1. anchor.hash = SubSeq(History, 1, n) /\ anchors' = anchors \union {anchor}
        BY <1>1, <1>2
    <2>. HIDE DEF anchor
    <2>. QED
        BY <2>1
<1>4. Log!Seal
    BY <1>1, <1>2, <1>3 DEF Log!Seal
<1>. QED
    BY <1>4 DEF Log!LogNext

(* Damage to a row is damage to what readers find, and to nothing else.    *)
LEMMA DamageDamages ==
    ASSUME IInv, NEW i \in 1..Len(rows), AlterRow(i) \/ LoseRow(i)
    PROVE  Log!LogNext
<1>1. Len(rows') <= Len(rows) /\ Len(rows) \in Nat /\ Len(rows') \in Nat
    BY DamageStep DEF IInv, RowsInv
<1>2. /\ damage' = damage + 1
      /\ History' = History /\ acked' = acked /\ anchors' = anchors
    BY DEF AlterRow, LoseRow, History
<1>3. Len(Bodies) = Len(rows) /\ Len(Bodies') = Len(rows')
    BY <1>1 DEF Bodies
<1>4. Log!Damage
    BY <1>1, <1>2, <1>3 DEF Log!Damage, Bodies
<1>. QED
    BY <1>4 DEF Log!LogNext

(* Every other step is a stutter of the log.                               *)
Unseen == UNCHANGED <<rows, tip, acked, anchors, damage>>

LEMMA UnseenStutters ==
    ASSUME Unseen
    PROVE  UNCHANGED Log!logVars
BY DEF Unseen, Log!logVars, History

LEMMA EmitRecords ==
    ASSUME IInv, NEW w \in Writers, Emit(w)
    PROVE  [Log!LogNext]_(Log!logVars)
<1>1. CASE \E scoped, large \in BOOLEAN : Act(w, scoped, large)
    BY <1>1, UnseenStutters DEF Act, Unseen, chain, bounds
<1>2. CASE Upload(w) \/ Register(w)
    BY <1>2, UnseenStutters DEF Upload, Register, Unseen, chain, bounds
<1>3. CASE LockTip(w) \/ AppendAuditEvent(w)
    BY <1>3, UnseenStutters DEF LockTip, AppendAuditEvent, Unseen, chain, bounds
<1>4. CASE \E answered \in BOOLEAN : Commit(w, answered)
    BY <1>4, CommitRecords
<1>5. CASE Contention(w) \/ Fail(w)
    BY <1>5, UnseenStutters DEF Contention, Fail, Unseen, chain, bounds
<1>. QED
    BY <1>1, <1>2, <1>3, <1>4, <1>5 DEF Emit

(* The store keeps the promise of an append-only log (store.ts, append and *)
(* anchor): what is recorded stays in its place, an acknowledgement means  *)
(* recorded, an anchor is over a history the log really had.               *)
THEOREM ChainImplementsLog == Spec => ImplementsLog
<1>1. Init => Log!LogInit
    BY DEF Init, Log!LogInit, History, Genesis
<1>2. ASSUME IInv, [Next]_vars
      PROVE  [Log!LogNext]_(Log!logVars)
    <2>1. CASE \E w \in Writers : Emit(w)
        BY <2>1, <1>2, EmitRecords
    <2>2. CASE \E w \in Writers : (\E from \in 1..2 : VerifySegment(w, from)) \/ RecordVerification(w)
        <3>1. Unseen
            BY <2>2 DEF VerifySegment, RecordVerification, Unseen, chain, bounds
        <3>. QED
            BY <3>1, UnseenStutters
    <2>3. CASE \E w \in Writers : ReadHead(w)
        BY <2>3, UnseenStutters DEF ReadHead, Unseen, chain
    <2>4. CASE \E w \in Writers : WriteAnchor(w)
        BY <2>4, <1>2, WriteAnchorSeals
    <2>5. CASE Query
        <3>1. Unseen
            BY <2>5 DEF Query, Unseen, chain, bounds
        <3>. QED
            BY <3>1, UnseenStutters
    <2>6. CASE \E i \in 1..Len(rows) : AlterRow(i) \/ LoseRow(i)
        BY <2>6, <1>2, DamageDamages
    <2>7. CASE UNCHANGED vars
        BY <2>7, UnseenStutters DEF vars, Unseen
    <2>. QED
        BY <1>2, <2>1, <2>2, <2>3, <2>4, <2>5, <2>6, <2>7 DEF Next
<1>. QED
    BY <1>1, <1>2, ChainInvariant, PTL DEF Spec, ImplementsLog, Log!LogSpec

-----------------------------------------------------------------------------
(* Reading the pages.                                                      *)

(* A client that is not done has read the history up to its cursor.        *)
ReaderInv ==
    damage = 0 =>
      /\ reader.seen \in Seq(Events) /\ Len(reader.seen) <= Len(History)
      /\ \A i \in 1..Len(reader.seen) : reader.seen[i] = History[i]
      /\ ~ reader.done => reader.cursor = Len(reader.seen)

LEMMA QueryPages ==
    ASSUME IInv, ReaderInv, Query
    PROVE  ReaderInv'
<1>. SUFFICES ASSUME damage = 0
              PROVE  ReaderInv'
    BY DEF Query, bounds, ReaderInv
<1>. DEFINE L == Len(rows)
            seen == reader.seen
            n == Len(seen)
            found == RowsFrom(reader.cursor + 1)
            m == IF Len(found) < PageLimit THEN Len(found) ELSE PageLimit
            page == SubSeq(found, 1, m)
            read == [i \in 1..Len(page) |-> page[i].body]
<1>1. /\ History \in Seq(Events) /\ L \in Nat /\ L = Len(History) /\ rows \in Seq(Backed)
      /\ \A i \in 1..L : rows[i].seq = i /\ rows[i].body = History[i]
    BY DEF IInv, HeadInv, ChainIntact, RowsInv, History
<1>2. /\ seen \in Seq(Events) /\ n \in Nat /\ n <= L /\ reader.cursor = n
      /\ \A i \in 1..n : seen[i] = History[i]
    BY <1>1 DEF ReaderInv, Query
<1>3. /\ reader' = [cursor |-> NextCursor(found), done |-> NextCursor(found) = 0,
                    seen |-> seen \o read]
      /\ History' = History /\ damage' = damage
    BY DEF Query, bounds, chain, History
<1>4. found = SubSeq(rows, n + 1, L)
    <2>1. {i \in 1..L : rows[i].seq < n + 1} = 1..n
        BY <1>1, <1>2
    <2>2. Cardinality(1..n) = n
        BY <1>2, FS_Interval
    <2>. QED
        BY <1>2, <2>1, <2>2 DEF RowsFrom
<1>. HIDE DEF found, seen, n
<1>5. /\ Len(found) = L - n /\ \A i \in 1..(L - n) : found[i] = rows[n + i]
      /\ found \in Seq(Backed)
    <2>. HIDE DEF Backed
    <2>1. \A i \in (n + 1)..L : rows[i] \in Backed
        BY <1>1, <1>2
    <2>. HIDE DEF L
    <2>. QED
        BY <1>1, <1>2, <1>4, <2>1, SubSeqProperties
<1>. HIDE DEF L
<1>6. PageLimit \in Nat \ {0}
    BY AuditConstants
<1>7. /\ m \in Nat /\ m <= L - n /\ m <= PageLimit /\ (Len(found) > PageLimit => m = PageLimit)
    <2>1. Len(found) \in Nat
        BY <1>1, <1>2, <1>5
    <2>. QED
        BY <1>5, <1>6, <2>1
<1>. HIDE DEF m
<1>8. Len(page) = m /\ \A i \in 1..m : page[i] = rows[n + i]
    <2>. HIDE DEF Backed
    <2>1. m \in 0..Len(found) /\ \A i \in 1..m : i \in 1..(L - n)
        BY <1>1, <1>2, <1>5, <1>7
    <2>2. /\ Len(page) = m /\ \A i \in 1..m : page[i] = found[i]
        BY <1>5, <2>1, Beginnings
    <2>. QED
        BY <1>5, <2>1, <2>2
<1>. HIDE DEF page
<1>9. read \in Seq(Events) /\ Len(read) = m /\ \A i \in 1..m : read[i] = History[n + i]
    <2>1. ASSUME NEW i \in 1..m
          PROVE  page[i].body = History[n + i] /\ History[n + i] \in Events
        <3>1. n + i \in 1..L
            BY <1>1, <1>2, <1>7
        <3>. QED
            BY <1>1, <1>8, <3>1
    <2>. QED
        BY <1>7, <1>8, <2>1
<1>. HIDE DEF read
<1>10. /\ seen \o read \in Seq(Events) /\ Len(seen \o read) = n + m
       /\ \A i \in 1..(n + m) : (seen \o read)[i] = History[i]
    <2>1. /\ seen \o read \in Seq(Events) /\ Len(seen \o read) = n + m
          /\ \A i \in 1..(n + m) : (seen \o read)[i] = IF i <= n THEN seen[i] ELSE read[i - n]
        <3>1. n = Len(seen)
            BY DEF n
        <3>2. seen \in Seq(Events) /\ read \in Seq(Events)
            BY <1>2, <1>9
        <3>3. /\ seen \o read \in Seq(Events) /\ Len(seen \o read) = Len(seen) + Len(read)
              /\ \A i \in 1..Len(seen) + Len(read) :
                   (seen \o read)[i] = IF i <= Len(seen) THEN seen[i] ELSE read[i - Len(seen)]
            BY <3>2, ConcatProperties
        <3>. QED
            BY <1>9, <3>1, <3>3
    <2>2. ASSUME NEW i \in 1..(n + m)
          PROVE  (seen \o read)[i] = History[i]
        <3>1. CASE i <= n
            BY <1>2, <1>7, <2>1, <3>1
        <3>2. CASE ~ (i <= n)
            <4>1. i - n \in 1..m /\ n + (i - n) = i
                BY <1>2, <1>7, <3>2
            <4>. QED
                BY <1>9, <2>1, <3>2, <4>1
        <3>. QED
            BY <3>1, <3>2
    <2>. QED
        BY <2>1, <2>2
<1>11. NextCursor(found) = n + m \/ NextCursor(found) = 0
    <2>1. CASE Len(found) > PageLimit
        <3>1. /\ NextCursor(found) = found[PageLimit].seq /\ m = PageLimit
              /\ PageLimit \in 1..(L - n) /\ n + PageLimit \in 1..L
            BY <1>1, <1>2, <1>5, <1>6, <1>7, <2>1 DEF NextCursor
        <3>2. found[PageLimit] = rows[n + PageLimit]
            BY <1>5, <3>1
        <3>. QED
            BY <1>1, <3>1, <3>2 DEF L
    <2>2. CASE ~ (Len(found) > PageLimit)
        BY <2>2 DEF NextCursor
    <2>. QED
        BY <2>1, <2>2
<1>12. /\ reader'.seen = seen \o read /\ reader'.cursor = NextCursor(found)
       /\ reader'.done = (NextCursor(found) = 0)
    BY <1>3
<1>13. n + m <= Len(History') /\ n + m \in Nat
    BY <1>1, <1>2, <1>3, <1>7
<1>14. /\ reader'.seen \in Seq(Events) /\ Len(reader'.seen) = n + m
       /\ \A i \in 1..(n + m) : reader'.seen[i] = History'[i]
       /\ ~ reader'.done => reader'.cursor = n + m
    BY <1>3, <1>10, <1>11, <1>12
<1>. QED
    BY <1>13, <1>14 DEF ReaderInv

(* The history grows and no page is read; damage ends what is promised.    *)
LEMMA ReaderKeeps ==
    ASSUME IInv, ReaderInv, reader' = reader,
           \/ damage' = damage /\ History' = History
           \/ damage' = damage /\ \E e \in Events : History' = Append(History, e)
           \/ damage' = damage + 1
    PROVE  ReaderInv'
<1>1. History \in Seq(Events) /\ damage \in Nat
    BY AuditConstants DEF IInv, HeadInv, CountsInv
<1>2. CASE damage' = damage /\ History' = History
    BY <1>2 DEF ReaderInv
<1>3. ASSUME damage' = damage, NEW e \in Events, History' = Append(History, e)
      PROVE  ReaderInv'
    <2>1. /\ Len(History') = Len(History) + 1 /\ Len(History) \in Nat
          /\ \A i \in 1..Len(History) : History'[i] = History[i]
        BY <1>1, <1>3, Longer
    <2>2. CASE damage = 0
        <3>1. /\ reader.seen \in Seq(Events) /\ Len(reader.seen) <= Len(History)
              /\ Len(reader.seen) \in Nat
              /\ \A i \in 1..Len(reader.seen) : reader.seen[i] = History[i]
              /\ ~ reader.done => reader.cursor = Len(reader.seen)
            BY <2>2 DEF ReaderInv
        <3>2. \A i \in 1..Len(reader.seen) : i \in 1..Len(History)
            BY <2>1, <3>1
        <3>. QED
            BY <2>1, <3>1, <3>2 DEF ReaderInv
    <2>. QED
        BY <1>3, <2>2 DEF ReaderInv
<1>4. CASE damage' = damage + 1
    BY <1>1, <1>4 DEF ReaderInv
<1>. QED
    BY <1>2, <1>3, <1>4

(* A step leaves the history alone, adds the event of a commit, or damages.*)
LEMMA HistoryGrows ==
    ASSUME IInv, [Next]_vars
    PROVE  \/ History' = History /\ damage' = damage
           \/ \E w \in Writers : \E answered \in BOOLEAN :
                /\ Commit(w, answered) /\ damage' = damage /\ reader' = reader
                /\ wr[w].event \in Events /\ History' = Append(History, wr[w].event)
           \/ \E i \in 1..Len(rows) : (AlterRow(i) \/ LoseRow(i)) /\ damage' = damage + 1
                                      /\ reader' = reader /\ History' = History
<1>1. ASSUME NEW w \in Writers, NEW answered \in BOOLEAN, Commit(w, answered)
      PROVE  /\ damage' = damage /\ reader' = reader
             /\ wr[w].event \in Events /\ History' = Append(History, wr[w].event)
    <2>1. wr[w].pc = "inserted" /\ WriterInv(w)
        BY <1>1 DEF Commit, At, IInv, WritersInv
    <2>2. wr[w].prev = History /\ wr[w].event \in Events
        BY <2>1, AuditConstants DEF WriterInv, InCall, InTransaction, IInv, CountsInv, Events
    <2>3. damage' = damage /\ reader' = reader /\ tip'.hash = RowOf(w).hash
        BY <1>1 DEF Commit, bounds
    <2>. QED
        BY <2>2, <2>3 DEF RowOf, ChainEventHash, History
<1>2. CASE \E w \in Writers : Emit(w)
    BY <1>1, <1>2 DEF Emit, Act, Upload, Register, LockTip, AppendAuditEvent, Contention, Fail,
                      chain, bounds, History
<1>3. CASE \E w \in Writers : \/ \E from \in 1..2 : VerifySegment(w, from)
                              \/ RecordVerification(w) \/ ReadHead(w) \/ WriteAnchor(w)
    BY <1>3 DEF VerifySegment, RecordVerification, ReadHead, WriteAnchor, chain, bounds, History
<1>4. CASE Query
    BY <1>4 DEF Query, chain, bounds, History
<1>5. CASE \E i \in 1..Len(rows) : AlterRow(i) \/ LoseRow(i)
    BY <1>5 DEF AlterRow, LoseRow, History
<1>6. CASE UNCHANGED vars
    BY <1>6 DEF vars, History
<1>. QED
    BY <1>2, <1>3, <1>4, <1>5, <1>6 DEF Next

LEMMA ReaderPreserved ==
    ASSUME IInv, ReaderInv, [Next]_vars
    PROVE  ReaderInv'
<1>1. CASE Query
    BY <1>1, QueryPages
<1>2. CASE ~ Query
    <2>1. reader' = reader
        BY <1>2 DEF Next, Emit, Act, Upload, Register, LockTip, AppendAuditEvent, Commit, Contention,
                    Fail, VerifySegment, RecordVerification, ReadHead, WriteAnchor, AlterRow, LoseRow,
                    vars
    <2>. QED
        BY <2>1, HistoryGrows, ReaderKeeps
<1>. QED
    BY <1>1, <1>2

(* A client that pages through the log while writers append reads it from  *)
(* the start, without a gap or a repetition, whatever the page size        *)
(* (store.ts, query): nothing with a lower sequence number appears behind  *)
(* its cursor.                                                             *)
THEOREM PagesFollow == Spec => []PagesInOrder
<1>1. Init => ReaderInv
    BY DEF Init, ReaderInv, History, Genesis
<1>2. IInv /\ ReaderInv => PagesInOrder
    <2>. SUFFICES ASSUME IInv, ReaderInv, damage = 0
                  PROVE  IsPrefix(reader.seen, History)
        BY DEF PagesInOrder
    <2>1. /\ History \in Seq(Events) /\ reader.seen \in Seq(Events)
          /\ Len(reader.seen) <= Len(History)
          /\ \A i \in 1..Len(reader.seen) : reader.seen[i] = History[i]
        BY DEF IInv, HeadInv, ReaderInv
    <2>2. SubSeq(reader.seen, 1, Len(reader.seen)) = SubSeq(History, 1, Len(reader.seen))
        BY <2>1
    <2>. QED
        BY <2>1, <2>2 DEF IsPrefix
<1>. QED
    BY <1>1, <1>2, ChainInvariant, ReaderPreserved, PTL DEF Spec

-----------------------------------------------------------------------------
(* What a verification finds.  A row vouches for the history that ends     *)
(* with it, and for nothing about its own body once that was altered.      *)

Vouches(r, h) ==
    /\ r.seq \in 1..Len(h)
    /\ r.hash = SubSeq(h, 1, r.seq) /\ r.prev = SubSeq(h, 1, r.seq - 1)
    /\ r.body = h[r.seq] \/ r.body = Altered

Distinct(h) == \A i, j \in 1..Len(h) : h[i] = h[j] => i = j

(* The first n links follow each other and hash.                           *)
Clean(links, start, n) ==
    \A i \in 1..n :
      /\ links[i].prev = (IF i = 1 THEN start ELSE links[i - 1].hash)
      /\ links[i].hash = ChainEventHash(links[i].prev, links[i].body)

StretchOf(walked, from, h) ==
    \E k \in 1..Len(h) + 1 :
      /\ from = 1 => k = 1
      /\ k + Len(walked) - 1 <= Len(h)
      /\ walked = SubSeq(h, k, k + Len(walked) - 1)

(* What is walked stands in the history from its k-th event on.            *)
StandsAt(walked, k, h) ==
    /\ k \in 1..Len(h) + 1 /\ k + Len(walked) - 1 <= Len(h)
    /\ \A i \in 1..Len(walked) : walked[i] = h[k + i - 1]

WalkedOf(links) == [i \in 1..Len(links) |-> links[i].body]
Bodied == Events \union {Altered}

LEMMA LeastOfNaturals ==
  ASSUME NEW T, T \subseteq Nat, T # {}
  PROVE  \E n \in T : \A m \in T : n <= m
<1>1. PICK n \in T : \A m \in T : ~(<<m, n>> \in OpToRel(<, Nat))
  BY NatLessThanWellFounded, WFMin
<1>2. ASSUME NEW m \in T
      PROVE  ~(m < n)
  <2>1. m < n => <<m, n>> \in OpToRel(<, Nat)
    BY DEF OpToRel
  <2> QED
    BY <1>1, <2>1, Zenon
<1> QED
  BY <1>2

LEMMA StretchMeans ==
    ASSUME NEW h \in Seq(Events), NEW walked \in Seq(Bodied), NEW from
    PROVE  StretchOf(walked, from, h) <=> \E k \in Nat : (from = 1 => k = 1) /\ StandsAt(walked, k, h)
<1>. DEFINE n == Len(walked)
<1>1. n \in Nat /\ Len(h) \in Nat /\ \A i \in 1..Len(h) : h[i] \in Bodied
    BY DEF Bodied
<1>2. ASSUME NEW k \in 1..Len(h) + 1, k + n - 1 <= Len(h)
      PROVE  walked = SubSeq(h, k, k + n - 1) <=> StandsAt(walked, k, h)
    <2>. DEFINE s == SubSeq(h, k, k + n - 1)
    <2>1. \A i \in k..(k + n - 1) : h[i] \in Bodied
        BY <1>1, <1>2
    <2>2. k + n - 1 \in Int /\ k \in Int /\ (k + n - 1) - k + 1 = n
        BY <1>1
    <2>3. s \in Seq(Bodied) /\ Len(s) = n /\ \A i \in 1..n : s[i] = h[k + i - 1]
        <3>1. \A i \in 1..n : k + i - 1 = i + k - 1
            BY <1>1
        <3>. QED
            BY <1>1, <2>1, <2>2, <3>1, SubSeqProperties
    <2>. HIDE DEF s
    <2>4. (\A i \in 1..n : walked[i] = s[i]) => walked = s
        BY <2>3, SeqEqual
    <2>. QED
        BY <1>2, <2>3, <2>4 DEF s, StandsAt
<1>3. ASSUME StretchOf(walked, from, h)
      PROVE  \E k \in Nat : (from = 1 => k = 1) /\ StandsAt(walked, k, h)
    BY <1>1, <1>2, <1>3 DEF StretchOf
<1>4. ASSUME NEW k \in Nat, from = 1 => k = 1, StandsAt(walked, k, h)
      PROVE  StretchOf(walked, from, h)
    <2>1. k \in 1..Len(h) + 1 /\ k + n - 1 <= Len(h)
        BY <1>4 DEF StandsAt
    <2>. QED
        BY <1>2, <1>4, <2>1 DEF StretchOf
<1>. QED
    BY <1>3, <1>4

LEMMA WalkedTyped ==
    ASSUME NEW links \in Seq(Rows)
    PROVE  /\ WalkedOf(links) \in Seq(Bodied) /\ Len(WalkedOf(links)) = Len(links)
           /\ \A i \in 1..Len(links) : WalkedOf(links)[i] = links[i].body
<1>1. Len(links) \in Nat /\ \A i \in 1..Len(links) : links[i] \in Rows
    OBVIOUS
<1>2. \A r \in Rows : r.body \in Bodied
    BY DEF Rows, Bodied
<1>. QED
    BY <1>1, <1>2 DEF WalkedOf

LEMMA BodiesWalked ==
    ASSUME NEW links \in Seq(Rows), NEW n \in 0..Len(links)
    PROVE  /\ SubSeq(WalkedOf(links), 1, n) \in Seq(Bodied)
           /\ Len(SubSeq(WalkedOf(links), 1, n)) = n
           /\ \A i \in 1..n : SubSeq(WalkedOf(links), 1, n)[i] = links[i].body
<1>1. /\ WalkedOf(links) \in Seq(Bodied) /\ Len(WalkedOf(links)) = Len(links)
      /\ \A i \in 1..Len(links) : WalkedOf(links)[i] = links[i].body
    BY WalkedTyped
<1>2. n \in 0..Len(WalkedOf(links)) /\ \A i \in 1..n : i \in 1..Len(links)
    BY <1>1
<1>. QED
    BY <1>1, <1>2, Beginnings

LEMMA VouchesMeans ==
    ASSUME NEW h \in Seq(Events), NEW r, Vouches(r, h)
    PROVE  /\ r.seq \in 1..Len(h)
           /\ r.hash \in Seq(Events) /\ Len(r.hash) = r.seq
           /\ r.prev \in Seq(Events) /\ Len(r.prev) = r.seq - 1
           /\ \A i \in 1..r.seq : r.hash[i] = h[i]
           /\ \A i \in 1..(r.seq - 1) : r.prev[i] = h[i]
           /\ r.hash = Append(r.prev, h[r.seq])
<1>0. r.seq \in 1..Len(h)
    BY DEF Vouches
<1>1. r.seq \in 1..Len(h) /\ r.seq \in 0..Len(h) /\ r.seq - 1 \in 0..Len(h) /\ h[r.seq] \in Events
    BY <1>0
<1>2. /\ r.hash \in Seq(Events) /\ Len(r.hash) = r.seq /\ \A i \in 1..r.seq : r.hash[i] = h[i]
    BY <1>1, Beginnings DEF Vouches
<1>3. /\ r.prev \in Seq(Events) /\ Len(r.prev) = r.seq - 1
      /\ \A i \in 1..(r.seq - 1) : r.prev[i] = h[i]
    BY <1>1, Beginnings DEF Vouches
<1>4. r.hash = Append(r.prev, h[r.seq])
    <2>. DEFINE t == Append(r.prev, h[r.seq])
    <2>1. /\ t \in Seq(Events) /\ Len(t) = Len(r.prev) + 1 /\ t[Len(r.prev) + 1] = h[r.seq]
          /\ \A i \in 1..Len(r.prev) : t[i] = r.prev[i]
        BY <1>1, <1>3, Longer
    <2>. HIDE DEF t
    <2>2. Len(t) = Len(r.hash) /\ \A i \in 1..Len(t) : t[i] = r.hash[i]
        <3>1. Len(t) = Len(r.hash) /\ Len(t) = r.seq /\ Len(r.prev) = r.seq - 1
            BY <1>1, <1>2, <1>3, <2>1
        <3>2. ASSUME NEW i \in 1..r.seq
              PROVE  t[i] = r.hash[i]
            <4>1. CASE i = r.seq
                BY <1>1, <1>2, <2>1, <3>1, <4>1
            <4>2. CASE i # r.seq
                <5>1. i \in 1..(r.seq - 1)
                    BY <1>1, <4>2
                <5>. QED
                    BY <1>2, <1>3, <2>1, <3>1, <5>1
            <4>. QED
                BY <4>1, <4>2
        <3>. QED
            BY <3>1, <3>2
    <2>. QED
        BY <1>2, <2>1, <2>2, SeqEqual DEF t
<1>. QED
    BY <1>1, <1>2, <1>3, <1>4

(* Links that are clean up to the n-th are a stretch of the history.       *)
LEMMA CleanIsAStretch ==
    ASSUME NEW h \in Seq(Events), NEW links \in Seq(Rows), NEW from, NEW n \in 0..Len(links),
           \A i \in 1..Len(links) : Vouches(links[i], h),
           Clean(links, ExpectedStart(links, from), n)
    PROVE  StretchOf(SubSeq(WalkedOf(links), 1, n), from, h)
<1>. DEFINE walked == SubSeq(WalkedOf(links), 1, n)
<1>1. /\ walked \in Seq(Bodied) /\ Len(walked) = n
      /\ \A i \in 1..n : walked[i] = links[i].body
    BY BodiesWalked
<1>. HIDE DEF walked
<1>2. CASE n = 0
    <2>1. Len(h) \in Nat
        OBVIOUS
    <2>2. StandsAt(walked, 1, h)
        BY <1>1, <1>2, <2>1 DEF StandsAt
    <2>. QED
        BY <1>1, <2>2, StretchMeans DEF walked
<1>3. CASE n # 0
    <2>1. n \in Nat /\ 1 \in 1..n /\ n \in 1..n /\ \A i \in 1..n : i \in 1..Len(links)
        BY <1>3
    <2>2. \A i \in 1..n : /\ links[i].seq \in 1..Len(h) /\ Len(links[i].hash) = links[i].seq
                          /\ Len(links[i].prev) = links[i].seq - 1
        BY <2>1, VouchesMeans
    <2>3. PICK k \in 1..Len(h) : k = links[1].seq
        BY <2>1, <2>2
    <2>4. from = 1 => k = 1
        <3>1. from = 1 => Len(links[1].prev) = 0
            BY <2>1 DEF Clean, ExpectedStart, Genesis
        <3>. QED
            BY <2>1, <2>2, <2>3, <3>1
    <2>5. ASSUME NEW i \in 1..n, i # 1
          PROVE  links[i].seq = links[i - 1].seq + 1
        <3>1. i - 1 \in 1..n /\ links[i].prev = links[i - 1].hash
            BY <2>1, <2>5 DEF Clean
        <3>. QED
            BY <2>2, <3>1
    <2>6. \A i \in 1..n : links[i].seq = k + i - 1
        <3>. DEFINE astray == {i \in 1..n : links[i].seq # k + i - 1}
        <3>. SUFFICES ASSUME astray # {}
                      PROVE  FALSE
            OBVIOUS
        <3>1. PICK i \in astray : \A j \in astray : i <= j
            <4>1. astray \subseteq Nat
                OBVIOUS
            <4>. HIDE DEF astray
            <4>. QED
                BY <4>1, LeastOfNaturals
        <3>2. i # 1 /\ i - 1 \in 1..n /\ i - 1 \notin astray
            BY <2>3, <3>1
        <3>. QED
            BY <2>2, <2>5, <3>1, <3>2
    <2>7. \A i \in 1..n : links[i].body = h[k + i - 1]
        <3>. SUFFICES ASSUME NEW i \in 1..n
                      PROVE  links[i].body = h[k + i - 1]
            OBVIOUS
        <3>1. /\ links[i].hash = Append(links[i].prev, h[links[i].seq])
              /\ links[i].prev \in Seq(Events) /\ h[links[i].seq] \in Events
            BY <2>1, <2>2, VouchesMeans
        <3>2. links[i].hash = Append(links[i].prev, links[i].body) /\ links[i].body \in Bodied
            <4>1. links[i] \in Rows /\ \A r \in Rows : r.body \in Bodied
                <5>1. links[i] \in Rows
                    BY <2>1
                <5>. QED
                    BY <5>1 DEF Rows, Bodied
            <4>. QED
                BY <4>1 DEF Clean, ChainEventHash
        <3>3. links[i].prev \in Seq(Bodied) /\ h[links[i].seq] \in Bodied
            BY <3>1 DEF Bodied
        <3>4. links[i].body = h[links[i].seq]
            <4>1. /\ Append(links[i].prev, h[links[i].seq])[Len(links[i].prev) + 1] = h[links[i].seq]
                  /\ Append(links[i].prev, links[i].body)[Len(links[i].prev) + 1] = links[i].body
                BY <3>2, <3>3, Longer
            <4>. QED
                BY <3>1, <3>2, <4>1
        <3>. QED
            BY <2>6, <3>4
    <2>8. StandsAt(walked, k, h)
        <3>1. links[n].seq = k + n - 1 /\ links[n].seq \in 1..Len(h) /\ Len(h) \in Nat
            BY <2>1, <2>2, <2>6
        <3>2. k \in 1..Len(h) + 1 /\ k + n - 1 <= Len(h)
            BY <3>1
        <3>. QED
            BY <1>1, <2>7, <3>2 DEF StandsAt
    <2>. QED
        <3>1. k \in Nat
            OBVIOUS
        <3>. QED
            BY <1>1, <2>4, <2>8, <3>1, StretchMeans DEF walked
<1>. QED
    BY <1>2, <1>3

(* And links whose bodies are a stretch of the history are clean: bodies   *)
(* occur once in it.                                                       *)
LEMMA StretchIsClean ==
    ASSUME NEW h \in Seq(Events), NEW links \in Seq(Rows), NEW from, NEW n \in 0..Len(links),
           \A i \in 1..Len(links) : Vouches(links[i], h), Distinct(h),
           StretchOf(SubSeq(WalkedOf(links), 1, n), from, h)
    PROVE  Clean(links, ExpectedStart(links, from), n)
<1>. DEFINE walked == SubSeq(WalkedOf(links), 1, n)
<1>1. /\ walked \in Seq(Bodied) /\ Len(walked) = n
      /\ \A i \in 1..n : walked[i] = links[i].body
    BY BodiesWalked
<1>. HIDE DEF walked
<1>. PICK k \in Nat : (from = 1 => k = 1) /\ StandsAt(walked, k, h)
    BY <1>1, StretchMeans DEF walked
<1>2. /\ k \in 1..Len(h) + 1 /\ k + n - 1 <= Len(h)
      /\ \A i \in 1..n : links[i].body = h[k + i - 1]
    BY <1>1 DEF StandsAt
<1>3. n \in Nat /\ Len(h) \in Nat /\ \A i \in 1..n : i \in 1..Len(links) /\ k + i - 1 \in 1..Len(h)
    BY <1>2
<1>4. ASSUME NEW i \in 1..n
      PROVE  /\ links[i].seq = k + i - 1 /\ links[i].body = h[k + i - 1]
             /\ links[i].hash = SubSeq(h, 1, k + i - 1)
             /\ links[i].prev = SubSeq(h, 1, k + i - 2)
             /\ links[i].hash = Append(links[i].prev, links[i].body)
    <2>1. Vouches(links[i], h) /\ k + i - 1 \in 1..Len(h) /\ links[i].body = h[k + i - 1]
        BY <1>2, <1>3
    <2>2. links[i].body # Altered
        <3>1. h[k + i - 1] \in Nat
            BY <2>1, AuditConstants DEF Events
        <3>. QED
            BY <2>1, <3>1, AuditConstants
    <2>3. links[i].seq = k + i - 1
        BY <2>1, <2>2 DEF Vouches, Distinct
    <2>4. links[i].seq - 1 = k + i - 2
        BY <1>3, <2>3
    <2>. QED
        BY <2>1, <2>3, <2>4, VouchesMeans DEF Vouches
<1>5. ASSUME NEW i \in 1..n
      PROVE  links[i].prev = IF i = 1 THEN ExpectedStart(links, from) ELSE links[i - 1].hash
    <2>1. CASE i = 1
        <3>1. links # <<>>
            BY <1>3
        <3>2. from = 1 => links[1].prev = Genesis
            <4>1. from = 1 => links[1].prev = SubSeq(h, 1, 0)
                BY <1>2, <1>4, <2>1
            <4>2. SubSeq(h, 1, 0) = <<>>
                BY SubSeqEmpty
            <4>. QED
                BY <4>1, <4>2 DEF Genesis
        <3>. QED
            BY <2>1, <3>1, <3>2 DEF ExpectedStart
    <2>2. CASE i # 1
        <3>1. i - 1 \in 1..n /\ k + (i - 1) - 1 = k + i - 2
            BY <1>3, <2>2
        <3>. QED
            BY <1>4, <2>2, <3>1
    <2>. QED
        BY <2>1, <2>2
<1>. QED
    BY <1>4, <1>5 DEF Clean, ChainEventHash

(* A history one event longer has the same stretches among what was        *)
(* already in it.                                                          *)
Seen(h) == {h[i] : i \in 1..Len(h)} \union {Altered}

LEMMA StretchesStay ==
    ASSUME NEW h \in Seq(Events), NEW e \in Events, e \notin Seen(h),
           NEW walked \in Seq(Seen(h)), NEW from
    PROVE  StretchOf(walked, from, Append(h, e)) <=> StretchOf(walked, from, h)
<1>. DEFINE longer == Append(h, e)
            n == Len(walked)
<1>1. /\ longer \in Seq(Events) /\ Len(longer) = Len(h) + 1 /\ longer[Len(h) + 1] = e
      /\ \A i \in 1..Len(h) : longer[i] = h[i]
    BY Longer
<1>2. n \in Nat /\ Len(h) \in Nat /\ \A i \in 1..n : walked[i] \in Seen(h)
    OBVIOUS
<1>3. walked \in Seq(Bodied)
    <2>1. \A i \in 1..Len(h) : h[i] \in Events
        OBVIOUS
    <2>2. Seen(h) \subseteq Bodied
        BY <2>1 DEF Seen, Bodied
    <2>. QED
        BY <2>2
<1>. HIDE DEF longer, n
<1>4. ASSUME NEW k \in Nat, from = 1 => k = 1, StandsAt(walked, k, longer)
      PROVE  \E j \in Nat : (from = 1 => j = 1) /\ StandsAt(walked, j, h)
    <2>1. /\ k \in 1..Len(longer) + 1 /\ k + n - 1 <= Len(longer)
          /\ \A i \in 1..n : walked[i] = longer[k + i - 1]
        BY <1>4 DEF StandsAt, n
    <2>2. CASE n = 0
        <3>1. StandsAt(walked, 1, h)
            BY <1>2, <2>2 DEF StandsAt, n
        <3>. QED
            BY <3>1
    <2>3. CASE n # 0
        <3>1. n \in 1..n /\ walked[n] = longer[k + n - 1] /\ walked[n] # e
            BY <1>2, <2>1, <2>3
        <3>2. k + n - 1 # Len(h) + 1
            BY <1>1, <3>1
        <3>3. k \in 1..Len(h) + 1 /\ k + n - 1 <= Len(h)
            <4>1. Len(longer) = Len(h) + 1 /\ k >= 1 /\ n >= 1 /\ k + n - 1 <= Len(h) + 1
                BY <1>1, <1>2, <2>1, <2>3
            <4>. QED
                BY <1>2, <3>2, <4>1
        <3>4. \A i \in 1..n : k + i - 1 \in 1..Len(h)
            BY <1>2, <3>3
        <3>5. \A i \in 1..n : walked[i] = h[k + i - 1]
            BY <1>1, <2>1, <3>4
        <3>6. StandsAt(walked, k, h)
            BY <3>3, <3>5 DEF StandsAt, n
        <3>. QED
            BY <1>4, <3>6
    <2>. QED
        BY <2>2, <2>3
<1>5. ASSUME NEW k \in Nat, StandsAt(walked, k, h)
      PROVE  StandsAt(walked, k, longer)
    <2>1. /\ k \in 1..Len(h) + 1 /\ k + n - 1 <= Len(h)
          /\ \A i \in 1..n : walked[i] = h[k + i - 1]
        BY <1>5 DEF StandsAt, n
    <2>2. k \in 1..Len(longer) + 1 /\ k + n - 1 <= Len(longer)
        BY <1>1, <1>2, <2>1
    <2>3. \A i \in 1..n : k + i - 1 \in 1..Len(h)
        BY <1>2, <2>1
    <2>4. \A i \in 1..n : walked[i] = longer[k + i - 1]
        BY <1>1, <2>1, <2>3
    <2>. QED
        BY <2>2, <2>4 DEF StandsAt, n
<1>6. StretchOf(walked, from, h) <=> \E k \in Nat : (from = 1 => k = 1) /\ StandsAt(walked, k, h)
    BY <1>3, StretchMeans
<1>7. StretchOf(walked, from, longer) <=>
        \E k \in Nat : (from = 1 => k = 1) /\ StandsAt(walked, k, longer)
    BY <1>1, <1>3, StretchMeans
<1>. QED
    BY <1>4, <1>5, <1>6, <1>7 DEF longer

(* What a verification has recorded is exact, and is about what it saw.    *)
CheckInv(c, h) ==
    /\ c.walked \in Seq(Seen(h)) /\ c.verified \in 0..Len(c.walked)
    /\ c.ok \/ c.verified < Len(c.walked)
    /\ c.ok <=> StretchOf(c.walked, c.from, h)
    /\ c.from = 1 =>
         /\ StretchOf(SubSeq(c.walked, 1, c.verified), 1, h)
         /\ c.ok \/ ~ StretchOf(SubSeq(c.walked, 1, c.verified + 1), 1, h)

LEMMA VerifiedMeans ==
    ASSUME NEW links \in Seq(Rows), NEW from
    PROVE  /\ Verified(links, from) \in 0..Len(links)
           /\ Clean(links, ExpectedStart(links, from), Verified(links, from))
           /\ Verified(links, from) < Len(links) =>
                ~ Clean(links, ExpectedStart(links, from), Verified(links, from) + 1)
<1>. DEFINE start == ExpectedStart(links, from)
            broken == BrokenLinks(links, start)
<1>1. /\ Len(links) \in Nat /\ broken \subseteq 1..Len(links) /\ broken \subseteq Nat
      /\ \A i \in 1..Len(links) : i \notin broken <=>
           /\ links[i].prev = (IF i = 1 THEN start ELSE links[i - 1].hash)
           /\ links[i].hash = ChainEventHash(links[i].prev, links[i].body)
    BY DEF BrokenLinks
<1>. HIDE DEF broken, start
<1>2. CASE broken = {}
    <2>1. Verified(links, from) = Len(links)
        BY <1>2 DEF Verified, broken, start
    <2>2. Clean(links, start, Len(links))
        BY <1>1, <1>2 DEF Clean
    <2>. QED
        BY <1>1, <2>1, <2>2 DEF start
<1>3. CASE broken # {}
    <2>1. \E i \in broken : \A j \in broken : i <= j
        BY <1>1, <1>3, LeastOfNaturals
    <2>2. PICK first : first = CHOOSE i \in broken : \A j \in broken : i <= j
        OBVIOUS
    <2>3. first \in broken /\ \A j \in broken : first <= j
        BY <2>1, <2>2
    <2>4. Verified(links, from) = first - 1
        BY <1>3, <2>2 DEF Verified, broken, start
    <2>5. first - 1 \in 0..Len(links) /\ first - 1 + 1 = first /\ first \in 1..first
        BY <1>1, <2>3
    <2>6. \A i \in 1..(first - 1) : i \in 1..Len(links) /\ i \notin broken
        BY <1>1, <2>3
    <2>7. Clean(links, start, first - 1)
        BY <1>1, <2>6 DEF Clean
    <2>8. ~ Clean(links, start, first)
        BY <1>1, <2>3, <2>5 DEF Clean
    <2>. QED
        BY <2>4, <2>5, <2>7, <2>8 DEF start
<1>. QED
    BY <1>2, <1>3

LEMMA CheckIsExact ==
    ASSUME NEW h \in Seq(Events), Distinct(h), NEW links \in Seq(Rows),
           \A i \in 1..Len(links) : Vouches(links[i], h), NEW from, NEW c,
           c.from = from, c.verified = Verified(links, from),
           c.ok = (Verified(links, from) = Len(links)), c.walked = WalkedOf(links)
    PROVE  CheckInv(c, h)
<1>. DEFINE start == ExpectedStart(links, from)
            v == Verified(links, from)
<1>0. c.ok <=> v = Len(links)
    BY Zenon
<1>1. /\ v \in 0..Len(links) /\ Len(links) \in Nat /\ Clean(links, start, v)
      /\ v < Len(links) => ~ Clean(links, start, v + 1)
    BY VerifiedMeans
<1>2. c.walked \in Seq(Seen(h)) /\ Len(c.walked) = Len(links)
    <2>1. \A i \in 1..Len(links) : links[i].body \in Seen(h)
        BY DEF Vouches, Seen
    <2>. QED
        BY <1>1, <2>1 DEF WalkedOf
<1>3. \A n \in 0..Len(links) :
        Clean(links, start, n) <=> StretchOf(SubSeq(c.walked, 1, n), from, h)
    BY CleanIsAStretch, StretchIsClean
<1>4. SubSeq(c.walked, 1, Len(links)) = c.walked
    BY <1>2
<1>. HIDE DEF v, start
<1>5. c.ok <=> StretchOf(c.walked, from, h)
    <2>1. CASE v = Len(links)
        BY <1>0, <1>1, <1>3, <1>4, <2>1
    <2>2. CASE v # Len(links)
        <3>1. ~ Clean(links, start, v + 1) /\ v + 1 \in 1..Len(links)
            BY <1>1, <2>2
        <3>2. ~ Clean(links, start, Len(links))
            <4>1. \A i \in 1..(v + 1) : i \in 1..Len(links)
                BY <1>1, <3>1
            <4>. QED
                BY <3>1, <4>1 DEF Clean
        <3>. QED
            <4>1. Len(links) \in 0..Len(links)
                BY <1>1
            <4>2. ~ StretchOf(SubSeq(c.walked, 1, Len(links)), from, h)
                BY <1>3, <3>2, <4>1
            <4>. QED
                BY <1>0, <1>4, <2>2, <4>2
    <2>. QED
        BY <2>1, <2>2
<1>6. StretchOf(SubSeq(c.walked, 1, v), from, h)
    BY <1>1, <1>3
<1>7. c.ok \/ ~ StretchOf(SubSeq(c.walked, 1, v + 1), from, h)
    <2>1. CASE v # Len(links)
        <3>1. v + 1 \in 0..Len(links) /\ v < Len(links)
            BY <1>1, <2>1
        <3>. QED
            BY <1>1, <1>3, <3>1
    <2>. QED
        BY <1>0, <2>1
<1>8. c.ok \/ v < Len(links)
    BY <1>0, <1>1
<1>. QED
    BY <1>1, <1>2, <1>5, <1>6, <1>7, <1>8 DEF CheckInv, v

LEMMA CheckStays ==
    ASSUME NEW h \in Seq(Events), NEW e \in Events, e \notin Seen(h), NEW c, CheckInv(c, h)
    PROVE  CheckInv(c, Append(h, e))
<1>1. /\ c.walked \in Seq(Seen(h)) /\ c.verified \in 0..Len(c.walked)
      /\ c.ok \/ c.verified + 1 \in 0..Len(c.walked)
    BY DEF CheckInv
<1>2. \A n \in 0..Len(c.walked) : SubSeq(c.walked, 1, n) \in Seq(Seen(h))
    BY <1>1, Beginnings
<1>3. c.walked \in Seq(Seen(Append(h, e)))
    <2>1. /\ Len(Append(h, e)) = Len(h) + 1 /\ Len(h) \in Nat
          /\ \A i \in 1..Len(h) : Append(h, e)[i] = h[i]
        BY Longer
    <2>2. Seen(h) \subseteq Seen(Append(h, e))
        BY <2>1 DEF Seen
    <2>. QED
        BY <1>1, <2>2
<1>4. StretchOf(c.walked, c.from, Append(h, e)) <=> StretchOf(c.walked, c.from, h)
    BY <1>1, StretchesStay
<1>5. StretchOf(SubSeq(c.walked, 1, c.verified), 1, Append(h, e))
        <=> StretchOf(SubSeq(c.walked, 1, c.verified), 1, h)
    BY <1>1, <1>2, StretchesStay
<1>6. c.ok \/ (StretchOf(SubSeq(c.walked, 1, c.verified + 1), 1, Append(h, e))
                 <=> StretchOf(SubSeq(c.walked, 1, c.verified + 1), 1, h))
    BY <1>1, <1>2, StretchesStay
<1>. QED
    BY <1>3, <1>4, <1>5, <1>6 DEF CheckInv

LEMMA VouchesStays ==
    ASSUME NEW h \in Seq(Events), NEW e \in Events, NEW r, Vouches(r, h)
    PROVE  Vouches(r, Append(h, e))
<1>1. /\ Len(Append(h, e)) = Len(h) + 1 /\ Len(h) \in Nat
      /\ \A i \in 1..Len(h) : Append(h, e)[i] = h[i]
      /\ \A i \in 0..Len(h) : SubSeq(Append(h, e), 1, i) = SubSeq(h, 1, i)
    BY Longer
<1>2. r.seq \in 1..Len(h)
    BY DEF Vouches
<1>3. r.seq \in 0..Len(h) /\ r.seq - 1 \in 0..Len(h) /\ r.seq \in 1..Len(h) + 1
    BY <1>1, <1>2
<1>. QED
    BY <1>1, <1>2, <1>3 DEF Vouches

(* Events are in the log once; its rows, what a job has read of them and   *)
(* what it has recorded vouch for the history, damaged or not.             *)
Read(links) == links \in Seq(Rows) /\ \A i \in 1..Len(links) : Vouches(links[i], History)

VerificationInv ==
    /\ Distinct(History)
    /\ Read(rows)
    /\ \A w \in Writers : wr[w].pc = "walked" => Read(wr[w].links)
    /\ \A c \in checks : CheckInv(c, History)

(* A job that walks walks what it walked.                                  *)
Walking == \A w \in Writers : wr'[w].pc = "walked" => wr[w].pc = "walked" /\ wr'[w].links = wr[w].links

LEMMA NobodyStartsToWalk ==
    ASSUME IInv, NEW w \in Writers,
           \/ Emit(w) \/ RecordVerification(w) \/ ReadHead(w) \/ WriteAnchor(w)
    PROVE  Walking
<1>. DEFINE Still(r) == r = wr[w] \/ r.pc # "walked"
<1>1. DOMAIN wr = Writers /\ DOMAIN wr[w] = Fields /\ Idle.pc = "idle" /\ DOMAIN Idle = Fields
    BY DEF IInv, WritersInv, WriterInv, Idle, Fields
<1>2. ASSUME NEW r, wr' = [wr EXCEPT ![w] = r], r.pc # "walked"
      PROVE  Walking
    BY <1>1, <1>2 DEF Walking
<1>3. ASSUME NEW pc, Goto(w, pc), pc # "walked"
      PROVE  Walking
    <2>1. /\ wr' = [wr EXCEPT ![w] = [wr[w] EXCEPT !.pc = pc]]
          /\ [wr[w] EXCEPT !.pc = pc].pc # "walked"
        BY <1>1, <1>3 DEF Goto, Fields
    <2>. QED
        BY <1>2, <2>1
<1>4. ASSUME Finish(w) \/ wr' = [wr EXCEPT ![w] = Idle]
      PROVE  Walking
    BY <1>1, <1>2, <1>4 DEF Finish
<1>5. ASSUME NEW scoped \in BOOLEAN, NEW large \in BOOLEAN, Act(w, scoped, large)
      PROVE  Walking
    <2>1. PICK r : r = [Idle EXCEPT !.pc = IF large THEN "upload" ELSE "append",
                                    !.event = issued + 1, !.scoped = scoped, !.large = large]
        OBVIOUS
    <2>2. r.pc = IF large THEN "upload" ELSE "append"
        BY <1>1, <2>1 DEF Fields
    <2>3. wr' = [wr EXCEPT ![w] = r]
        BY <1>5, <2>1 DEF Act
    <2>. QED
        BY <1>2, <2>2, <2>3
<1>6. CASE LockTip(w)
    <2>1. PICK r : r = [wr[w] EXCEPT !.pc = "locked", !.prev = tip.hash]
        OBVIOUS
    <2>2. r.pc = "locked"
        BY <1>1, <2>1 DEF Fields
    <2>3. wr' = [wr EXCEPT ![w] = r]
        BY <1>6, <2>1 DEF LockTip
    <2>. QED
        BY <1>2, <2>2, <2>3
<1>7. CASE Contention(w)
    <2>1. CASE wr' = [wr EXCEPT ![w].pc = "append", ![w].attempt = @ + 1]
        <3>1. PICK r : r = [wr[w] EXCEPT !.pc = "append", !.attempt = @ + 1]
            OBVIOUS
        <3>2. r.pc = "append"
            BY <1>1, <3>1 DEF Fields
        <3>3. wr' = [wr EXCEPT ![w] = r]
            BY <2>1, <3>1
        <3>. QED
            BY <1>2, <3>2, <3>3
    <2>2. CASE Finish(w)
        BY <1>4, <2>2
    <2>. QED
        BY <1>7, <2>1, <2>2 DEF Contention
<1>8. CASE RecordVerification(w)
    <2>1. CASE wr' = [wr EXCEPT ![w] = Idle]
        BY <1>4, <2>1
    <2>2. CASE wr' = [wr EXCEPT ![w] = [Idle EXCEPT !.pc = "append", !.event = issued + 1]]
        <3>1. PICK r : r = [Idle EXCEPT !.pc = "append", !.event = issued + 1]
            OBVIOUS
        <3>2. r.pc = "append"
            BY <1>1, <3>1 DEF Fields
        <3>. QED
            BY <1>2, <2>2, <3>1, <3>2
    <2>. QED
        BY <1>8, <2>1, <2>2 DEF RecordVerification
<1>9. CASE ReadHead(w)
    <2>1. PICK r : r = [Idle EXCEPT !.pc = "anchoring", !.head = tip.seq, !.prev = tip.hash]
        OBVIOUS
    <2>2. r.pc = "anchoring"
        BY <1>1, <2>1 DEF Fields
    <2>3. wr' = [wr EXCEPT ![w] = r]
        BY <1>9, <2>1 DEF ReadHead
    <2>. QED
        BY <1>2, <2>2, <2>3
<1>10. CASE Upload(w) \/ Register(w) \/ AppendAuditEvent(w)
    BY <1>3, <1>10 DEF Upload, Register, AppendAuditEvent
<1>11. CASE Fail(w) \/ WriteAnchor(w) \/ \E answered \in BOOLEAN : Commit(w, answered)
    BY <1>4, <1>11 DEF Fail, WriteAnchor, Commit
<1>. QED
    BY <1>5, <1>6, <1>7, <1>8, <1>9, <1>10, <1>11 DEF Emit

(* What is left of a sequence is of the sequence.                          *)
LEMMA RemovedKeeps ==
    ASSUME NEW S, NEW s \in Seq(S), NEW i \in 1..Len(s)
    PROVE  /\ RemoveAt(s, i) \in Seq(S)
           /\ \A j \in 1..Len(RemoveAt(s, i)) : \E k \in 1..Len(s) : RemoveAt(s, i)[j] = s[k]
<1>. DEFINE T == {s[k] : k \in 1..Len(s)}
<1>1. s \in Seq(T)
    OBVIOUS
<1>2. RemoveAt(s, i) \in Seq(S) /\ RemoveAt(s, i) \in Seq(T)
    <2>. HIDE DEF T
    <2>. QED
        BY <1>1, Removed
<1>. HIDE DEF T
<1>3. \A j \in 1..Len(RemoveAt(s, i)) : RemoveAt(s, i)[j] \in T
    BY <1>2
<1>. QED
    BY <1>2, <1>3 DEF T

(* The history as it was, and rows that vouch for it.                      *)
LEMMA NothingNew ==
    ASSUME VerificationInv, Walking, History' = History, Read(rows)', checks' = checks
    PROVE  VerificationInv'
BY DEF VerificationInv, Walking, Read

LEMMA CommitVouches ==
    ASSUME IInv, VerificationInv, NEW w \in Writers, NEW answered \in BOOLEAN, Commit(w, answered)
    PROVE  VerificationInv'
<1>. DEFINE e == wr[w].event
            row == RowOf(w)
<1>1. /\ wr[w].pc = "inserted" /\ WriterInv(w) /\ History \in Seq(Events) /\ Len(History) \in Nat
      /\ rows \in Seq(Rows) /\ Walking
      /\ tip.seq = Len(History) /\ tip.hash = History
    <2>1. Emit(w)
        BY DEF Emit
    <2>2. Walking
        BY <2>1, NobodyStartsToWalk
    <2>3. wr[w].pc = "inserted" /\ WriterInv(w) /\ rows \in Seq(Rows)
        BY DEF Commit, At, IInv, WritersInv, VerificationInv, Read
    <2>4. /\ History \in Seq(Events) /\ tip = [seq |-> Len(History), hash |-> History]
        BY DEF IInv, HeadInv
    <2>5. tip.seq = Len(History) /\ tip.hash = History /\ Len(History) \in Nat
        BY <2>4 DEF History
    <2>. QED
        BY <2>2, <2>3, <2>4, <2>5
<1>2. /\ wr[w].prev = History /\ e \in Events /\ wr[w].large \in BOOLEAN
      /\ \A i \in 1..Len(History) : History[i] # e
    BY <1>1, AuditConstants DEF WriterInv, InCall, InTransaction, IInv, CountsInv, Events
<1>3. /\ row.seq = Len(History) + 1 /\ row.body = e /\ row.prev = History
      /\ row.hash = Append(History, e)
      /\ row = [seq |-> Len(History) + 1, body |-> e, prev |-> History,
                hash |-> Append(History, e), ref |-> wr[w].large]
    BY <1>1, <1>2 DEF RowOf, ChainEventHash
<1>4. rows' = Append(rows, row) /\ History' = Append(History, e) /\ checks' = checks
    BY <1>3 DEF Commit, History
<1>5. e \notin Seen(History)
    BY <1>2, AuditConstants DEF Seen, Events
<1>. HIDE DEF e, row
<1>6. /\ History' \in Seq(Events) /\ Len(History') = Len(History) + 1
      /\ \A i \in 1..Len(History) : History'[i] = History[i]
      /\ History'[Len(History) + 1] = e
      /\ SubSeq(History', 1, Len(History)) = SubSeq(History, 1, Len(History))
      /\ SubSeq(History', 1, Len(History) + 1) = History'
      /\ SubSeq(History, 1, Len(History)) = History
    <2>1. Len(History) \in 0..Len(History)
        BY <1>1
    <2>. QED
        BY <1>1, <1>2, <1>4, <2>1, Longer
<1>7. Distinct(History')
    BY <1>1, <1>2, <1>6 DEF VerificationInv, Distinct
<1>8. \A r : Vouches(r, History) => Vouches(r, History')
    BY <1>1, <1>2, <1>4, VouchesStays
<1>9. Read(rows)'
    <2>1. Vouches(row, History')
        <3>1. Len(History) + 1 \in 1..Len(History') /\ Len(History) + 1 - 1 = Len(History)
            BY <1>1, <1>6
        <3>. QED
            BY <1>3, <1>4, <1>6, <3>1 DEF Vouches
    <2>2. row \in Rows
        <3>1. Append(History, e) \in Seq(Events) /\ Len(History) + 1 \in Nat
            BY <1>1, <1>2
        <3>. QED
            BY <1>1, <1>2, <1>3, <3>1 DEF Rows
    <2>3. /\ rows' \in Seq(Rows) /\ Len(rows') = Len(rows) + 1 /\ Len(rows) \in Nat
          /\ rows'[Len(rows) + 1] = row /\ \A i \in 1..Len(rows) : rows'[i] = rows[i]
        BY <1>1, <1>4, <2>2, Longer
    <2>4. \A i \in 1..Len(rows) : Vouches(rows[i], History')
        BY <1>8 DEF VerificationInv, Read
    <2>5. ASSUME NEW i \in 1..Len(rows')
          PROVE  Vouches(rows'[i], History')
        <3>1. CASE i \in 1..Len(rows)
            BY <2>3, <2>4, <3>1
        <3>2. CASE i = Len(rows) + 1
            BY <2>1, <2>3, <3>2
        <3>. QED
            BY <2>3, <3>1, <3>2
    <2>. QED
        BY <2>3, <2>5 DEF Read
<1>10. ASSUME NEW v \in Writers, wr'[v].pc = "walked"
       PROVE  Read(wr[v].links)'
    <2>1. wr[v].pc = "walked" /\ wr'[v].links = wr[v].links
        BY <1>1, <1>10 DEF Walking
    <2>. QED
        BY <1>8, <2>1 DEF VerificationInv, Read
<1>11. \A c \in checks' : CheckInv(c, History')
    BY <1>1, <1>2, <1>4, <1>5, CheckStays DEF VerificationInv
<1>. QED
    BY <1>7, <1>9, <1>10, <1>11 DEF VerificationInv

(* The rows a verification reads are rows of the table.                    *)
LEMMA RowsFromRows ==
    ASSUME rows \in Seq(Rows), NEW from
    PROVE  /\ RowsFrom(from) \in Seq(Rows)
           /\ \A i \in 1..Len(RowsFrom(from)) : \E j \in 1..Len(rows) : RowsFrom(from)[i] = rows[j]
<1>1. PICK m \in Nat : m = Cardinality({i \in 1..Len(rows) : rows[i].seq < from})
    <2>1. Len(rows) \in Nat
        OBVIOUS
    <2>2. IsFiniteSet(1..Len(rows))
        BY <2>1, FS_Interval
    <2>. DEFINE before == {i \in 1..Len(rows) : rows[i].seq < from}
    <2>3. before \subseteq 1..Len(rows)
        OBVIOUS
    <2>. HIDE DEF before
    <2>4. IsFiniteSet(before)
        BY <2>2, <2>3, FS_Subset
    <2>5. Cardinality(before) \in Nat
        BY <2>4, FS_CardinalityType
    <2>. QED
        BY <2>5 DEF before
<1>2. RowsFrom(from) = SubSeq(rows, m + 1, Len(rows))
    BY <1>1 DEF RowsFrom
<1>3. /\ m + 1 \in Int /\ Len(rows) \in Nat
      /\ \A i \in (m + 1)..Len(rows) : i \in 1..Len(rows) /\ rows[i] \in Rows
    OBVIOUS
<1>4. /\ SubSeq(rows, m + 1, Len(rows)) \in Seq(Rows)
      /\ Len(SubSeq(rows, m + 1, Len(rows))) =
           IF m + 1 <= Len(rows) THEN Len(rows) - (m + 1) + 1 ELSE 0
      /\ \A i \in 1..(Len(rows) - (m + 1) + 1) :
           SubSeq(rows, m + 1, Len(rows))[i] = rows[(m + 1) + i - 1]
    BY <1>3, SubSeqProperties
<1>5. ASSUME NEW i \in 1..Len(SubSeq(rows, m + 1, Len(rows)))
      PROVE  \E j \in 1..Len(rows) : SubSeq(rows, m + 1, Len(rows))[i] = rows[j]
    <2>1. i \in 1..(Len(rows) - (m + 1) + 1) /\ (m + 1) + i - 1 \in 1..Len(rows)
        BY <1>3, <1>4
    <2>. QED
        BY <1>4, <2>1
<1>. QED
    BY <1>2, <1>4, <1>5

LEMMA WalkReads ==
    ASSUME IInv, VerificationInv, NEW w \in Writers, NEW from \in 1..2, VerifySegment(w, from)
    PROVE  VerificationInv'
<1>1. PICK r : r = [Idle EXCEPT !.pc = "walked", !.from = from, !.links = RowsFrom(from)]
    OBVIOUS
<1>2. /\ wr' = [wr EXCEPT ![w] = r] /\ DOMAIN wr = Writers /\ rows' = rows
      /\ History' = History /\ checks' = checks
    BY <1>1 DEF VerifySegment, IInv, WritersInv, chain, History
<1>3. r.links = RowsFrom(from)
    BY <1>1 DEF Idle
<1>4. Read(r.links)
    BY <1>3, RowsFromRows DEF VerificationInv, Read
<1>5. wr'[w] = r /\ \A v \in Writers \ {w} : wr'[v] = wr[v]
    BY <1>2
<1>6. \A v \in Writers : wr'[v].pc = "walked" => Read(wr'[v].links)
    BY <1>4, <1>5 DEF VerificationInv
<1>. QED
    BY <1>2, <1>6 DEF VerificationInv, Read

LEMMA CheckRecords ==
    ASSUME IInv, VerificationInv, NEW w \in Writers, RecordVerification(w)
    PROVE  VerificationInv'
<1>. DEFINE links == wr[w].links
            c == [from |-> wr[w].from, ok |-> Verified(links, wr[w].from) = Len(links),
                  verified |-> Verified(links, wr[w].from), walked |-> WalkedOf(links)]
<1>1. /\ wr[w].pc = "walked" /\ checks' = checks \union {c} /\ rows' = rows /\ History' = History
    BY DEF RecordVerification, At, WalkedOf, chain, History
<1>2. Read(links) /\ Distinct(History) /\ History \in Seq(Events)
    BY <1>1 DEF VerificationInv, IInv, HeadInv
<1>3. /\ c.from = wr[w].from /\ c.verified = Verified(links, wr[w].from)
      /\ c.ok = (Verified(links, wr[w].from) = Len(links)) /\ c.walked = WalkedOf(links)
    OBVIOUS
<1>. HIDE DEF c, links
<1>4. CheckInv(c, History)
    BY <1>2, <1>3, CheckIsExact DEF Read
<1>5. Walking
    BY NobodyStartsToWalk
<1>. QED
    BY <1>1, <1>4, <1>5 DEF VerificationInv, Walking, Read

LEMMA DamagedVouches ==
    ASSUME IInv, VerificationInv, NEW i \in 1..Len(rows), AlterRow(i) \/ LoseRow(i)
    PROVE  VerificationInv'
<1>1. /\ wr' = wr /\ History' = History /\ checks' = checks /\ rows \in Seq(Rows)
      /\ \A j \in 1..Len(rows) : Vouches(rows[j], History)
    BY DEF AlterRow, LoseRow, History, VerificationInv, Read
<1>2. CASE AlterRow(i)
    <2>1. PICK r : r = [rows[i] EXCEPT !.body = Altered]
        OBVIOUS
    <2>2. rows' = [rows EXCEPT ![i] = r]
        BY <1>2, <2>1 DEF AlterRow
    <2>3. rows[i] \in Rows /\ Vouches(rows[i], History)
        BY <1>1
    <2>4. r \in Rows /\ Vouches(r, History)
        <3>1. /\ r \in Rows /\ r.body = Altered /\ r.seq = rows[i].seq
              /\ r.hash = rows[i].hash /\ r.prev = rows[i].prev
            BY <2>1, <2>3 DEF Rows
        <3>. QED
            BY <2>3, <3>1 DEF Vouches
    <2>5. /\ rows' \in Seq(Rows) /\ Len(rows') = Len(rows)
          /\ \A j \in 1..Len(rows) : rows'[j] = IF j = i THEN r ELSE rows[j]
        BY <1>1, <2>2, <2>4
    <2>6. Read(rows)'
        BY <1>1, <2>4, <2>5 DEF Read
    <2>. QED
        BY <1>1, <2>6, NothingNew DEF Walking
<1>3. CASE LoseRow(i)
    <2>1. rows' = RemoveAt(rows, i)
        BY <1>3 DEF LoseRow
    <2>2. /\ rows' \in Seq(Rows)
          /\ \A j \in 1..Len(rows') : \E k \in 1..Len(rows) : rows'[j] = rows[k]
        BY <1>1, <2>1, RemovedKeeps
    <2>3. Read(rows)'
        BY <1>1, <2>2 DEF Read
    <2>. QED
        BY <1>1, <2>3, NothingNew DEF Walking
<1>. QED
    BY <1>2, <1>3

LEMMA VerificationPreserved ==
    ASSUME IInv, VerificationInv, [Next]_vars
    PROVE  VerificationInv'
<1>1. ASSUME rows' = rows, History' = History, checks' = checks, Walking
      PROVE  VerificationInv'
    BY <1>1, NothingNew DEF VerificationInv, Read
<1>2. ASSUME NEW w \in Writers, Emit(w)
      PROVE  VerificationInv'
    <2>1. CASE \E answered \in BOOLEAN : Commit(w, answered)
        BY <2>1, CommitVouches
    <2>2. CASE ~ \E answered \in BOOLEAN : Commit(w, answered)
        <3>1. rows' = rows /\ History' = History /\ checks' = checks
            BY <1>2, <2>2 DEF Emit, Act, Upload, Register, LockTip, AppendAuditEvent, Contention, Fail,
                              chain, History
        <3>. QED
            BY <1>1, <1>2, <3>1, NobodyStartsToWalk
    <2>. QED
        BY <2>1, <2>2
<1>3. ASSUME NEW w \in Writers, ReadHead(w) \/ WriteAnchor(w)
      PROVE  VerificationInv'
    <2>1. rows' = rows /\ History' = History /\ checks' = checks
        BY <1>3 DEF ReadHead, WriteAnchor, chain, History
    <2>. QED
        BY <1>1, <1>3, <2>1, NobodyStartsToWalk
<1>4. CASE Query \/ UNCHANGED vars
    <2>1. rows' = rows /\ History' = History /\ checks' = checks /\ wr' = wr
        BY <1>4 DEF Query, vars, chain, History
    <2>. QED
        BY <1>1, <2>1 DEF Walking
<1>. QED
    BY <1>2, <1>3, <1>4, WalkReads, CheckRecords, DamagedVouches DEF Next

(* A verification is right both ways, for any number of writers and any    *)
(* damage (chain.ts, verifyChain and verifySegment): it fails exactly when *)
(* what it walked is no stretch of the history, and never because of what  *)
(* writers do while it walks.                                              *)
THEOREM VerificationsAreExact == Spec => []VerificationExact
<1>1. Init => VerificationInv
    BY DEF Init, Idle, VerificationInv, Read, Distinct, History, Genesis
<1>2. VerificationInv => VerificationExact
    BY DEF VerificationInv, VerificationExact, CheckInv, IsStretch, StretchOf
<1>. QED
    BY <1>1, <1>2, ChainInvariant, VerificationPreserved, PTL DEF Spec
=============================================================================
