----------------------------- MODULE AuditChain -----------------------------
(***************************************************************************)
(* The audit store of one tenant (packages/audit/src/store.ts and the      *)
(* tables and function of migration 0002), with the object store that      *)
(* keeps large payloads, the emitter in front of it, and the jobs that     *)
(* verify and anchor the chain.  Writers are requests and jobs that        *)
(* interleave at every database statement that can wait or be seen.        *)
(*                                                                         *)
(* A hash is the sequence of the bodies hashed into it, first to last:     *)
(* equal exactly when the histories are, as a collision-free hash is.      *)
(***************************************************************************)
EXTENDS Naturals, FiniteSets, Sequences, SequencesExt

CONSTANTS Writers,      \* concurrent callers of the store
          NoWriter,     \* the tip row is not locked
          Altered,      \* the body of a row rewritten behind the store
          MaxEvents,    \* bound: events emitted
          MaxAttempts,  \* maxAppendAttempts, 5 in the code
          MaxDamage,    \* bound: rows damaged behind the store
          MaxChecks,    \* bound: verifications and anchors started
          PageLimit     \* rows of a page of the query API

ASSUME AuditConstants ==
  /\ NoWriter \notin Writers
  /\ Altered \notin Nat
  /\ MaxEvents \in Nat /\ MaxAttempts \in Nat \ {0}
  /\ MaxDamage \in Nat /\ MaxChecks \in Nat /\ PageLimit \in Nat \ {0}

VARIABLES rows,      \* audit_events in sequence order
          tip,       \* audit_chain_tips: head sequence and head hash
          holder,    \* the writer whose transaction locks the tip row
          wr,        \* each writer: where it is and what it holds
          issued,    \* event ids issued so far
          acted,     \* events whose business action is committed
          acked,     \* events whose append returned to its caller
          blobs,     \* payload objects uploaded, by event
          stored,    \* stored_objects rows, by event
          anchors,   \* audit_chain_anchors
          checks,    \* audit_chain_verifications
          reader,    \* a client paging through the query API
          damage, tries

vars == <<rows, tip, holder, wr, issued, acted, acked, blobs, stored,
          anchors, checks, reader, damage, tries>>
chain   == <<rows, tip>>
objects == <<blobs, stored>>
bounds  == <<damage, tries>>

Events  == 1..MaxEvents
Genesis == <<>>
\* event_hash = sha256(prev_event_hash | canonical(body))
ChainEventHash(prev, body) == Append(prev, body)

Idle == [pc |-> "idle", event |-> 0, scoped |-> FALSE, large |-> FALSE, attempt |-> 1,
         prev |-> Genesis, links |-> <<>>, from |-> 1, head |-> 0]

Init ==
  /\ rows = <<>> /\ tip = [seq |-> 0, hash |-> Genesis]
  /\ holder = NoWriter /\ wr = [w \in Writers |-> Idle]
  /\ issued = 0 /\ acted = {} /\ acked = {}
  /\ blobs = {} /\ stored = {} /\ anchors = {} /\ checks = {}
  /\ reader = [cursor |-> 0, seen |-> <<>>, done |-> FALSE]
  /\ damage = 0 /\ tries = 0

At(w, pc) == wr[w].pc = pc
Goto(w, pc) == wr' = [wr EXCEPT ![w].pc = pc]
\* The writer's call is over, whatever came of it; its locks go with it.
Finish(w) ==
  /\ wr' = [wr EXCEPT ![w] = Idle]
  /\ holder' = IF holder = w THEN NoWriter ELSE holder

-----------------------------------------------------------------------------
(* Emitting an event.                                                      *)

\* A caller acts and emits.  Every caller in the repository commits its
\* action first and emits in a transaction of the emitter's own; with a
\* scope, the action waits for the transaction that also takes the event.
Act(w, scoped, large) ==
  /\ At(w, "idle") /\ issued < MaxEvents
  /\ issued' = issued + 1
  /\ acted' = IF scoped THEN acted ELSE acted \union {issued + 1}
  /\ wr' = [wr EXCEPT ![w] = [Idle EXCEPT !.pc = IF large THEN "upload" ELSE "append",
                                          !.event = issued + 1, !.scoped = scoped, !.large = large]]
  /\ UNCHANGED <<chain, holder, acked, objects, anchors, checks, reader, bounds>>

\* Mutant: an object that cannot be registered does not stop the event.
Bug_UploadBestEffort(w) ==
  /\ At(w, "upload")
  /\ blobs' = blobs \union {wr[w].event}
  /\ Goto(w, "register") \/ Goto(w, "append")
  /\ UNCHANGED <<chain, holder, issued, acted, acked, stored, anchors, checks, reader, bounds>>

\* ObjectStore.put: the object first, unless the key is there already ...
Upload(w) ==
  /\ At(w, "upload")
  /\ blobs' = blobs \union {wr[w].event}
  /\ Goto(w, "register")
  /\ UNCHANGED <<chain, holder, issued, acted, acked, stored, anchors, checks, reader, bounds>>

\* ... then its row, in a transaction of its own even under a scope.
Register(w) ==
  /\ At(w, "register")
  /\ stored' = stored \union {wr[w].event}
  /\ Goto(w, "append")
  /\ UNCHANGED <<chain, holder, issued, acted, acked, blobs, anchors, checks, reader, bounds>>

\* #lockAndReadTip: the row is created if missing and read FOR UPDATE.
LockTip(w) ==
  /\ At(w, "append") /\ holder = NoWriter
  /\ holder' = w
  /\ wr' = [wr EXCEPT ![w].pc = "locked", ![w].prev = tip.hash]
  /\ UNCHANGED <<chain, issued, acted, acked, objects, anchors, checks, reader, bounds>>

\* Mutant: emit does not wait for its transaction.
Bug_FireAndForget(w) ==
  /\ At(w, "locked") /\ holder \in {w, NoWriter} /\ wr[w].prev = tip.hash
  /\ holder' = w
  /\ acked' = acked \union {wr[w].event}
  /\ Goto(w, "inserted")
  /\ UNCHANGED <<chain, issued, acted, objects, anchors, checks, reader, bounds>>

\* append_audit_event: the tip is locked (again) and compared, the row and
\* the new tip are written, and nobody sees either before the commit.
AppendAuditEvent(w) ==
  /\ At(w, "locked") /\ holder \in {w, NoWriter} /\ wr[w].prev = tip.hash
  /\ holder' = w
  /\ Goto(w, "inserted")
  /\ UNCHANGED <<chain, issued, acted, acked, objects, anchors, checks, reader, bounds>>

\* The row of audit_events the transaction of w commits.
RowOf(w) == [seq |-> tip.seq + 1, body |-> wr[w].event, prev |-> tip.hash,
             hash |-> ChainEventHash(wr[w].prev, wr[w].event), ref |-> wr[w].large]

\* The commit; the caller may be gone by the time it is answered.
Commit(w, answered) ==
  /\ At(w, "inserted")
  /\ rows' = Append(rows, RowOf(w))
  /\ tip' = [seq |-> tip.seq + 1, hash |-> RowOf(w).hash]
  /\ acted' = acted \union {wr[w].event}
  /\ acked' = IF answered THEN acked \union {wr[w].event} ELSE acked
  /\ Finish(w)
  /\ UNCHANGED <<issued, objects, anchors, checks, reader, bounds>>

\* A serialization failure, raised by the database or because the tip moved:
\* #withRetry recomputes against the new tip, a caller's scope does not.
Contention(w) ==
  /\ wr[w].pc \in {"locked", "inserted"}
  /\ IF ~wr[w].scoped /\ wr[w].attempt < MaxAttempts
     THEN /\ wr' = [wr EXCEPT ![w].pc = "append", ![w].attempt = @ + 1]
          /\ holder' = IF holder = w THEN NoWriter ELSE holder
     ELSE Finish(w)
  /\ UNCHANGED <<chain, issued, acted, acked, objects, anchors, checks, reader, bounds>>

\* Any other fault, or the end of the process: AuditWriteError or nothing.
Fail(w) ==
  /\ ~At(w, "idle")
  /\ Finish(w)
  /\ UNCHANGED <<chain, issued, acted, acked, objects, anchors, checks, reader, bounds>>

Emit(w) ==
  \/ \E scoped, large \in BOOLEAN : Act(w, scoped, large)
  \/ Upload(w) \/ Register(w) \/ LockTip(w) \/ AppendAuditEvent(w)
  \/ \E answered \in BOOLEAN : Commit(w, answered)
  \/ Contention(w) \/ Fail(w)

-----------------------------------------------------------------------------
(* Verification, anchoring and the query API.                              *)

\* verifyChain: the positions whose link does not follow or does not hash.
BrokenLinks(links, start) ==
  {i \in 1..Len(links) :
     \/ links[i].prev # (IF i = 1 THEN start ELSE links[i - 1].hash)
     \/ links[i].hash # ChainEventHash(links[i].prev, links[i].body)}

\* Mutant: every walk starts from the first row it finds.
Bug_StartAtFirstRow(links, from) == IF links = <<>> THEN Genesis ELSE links[1].prev

\* verifySegment's start: a segment inside the chain vouches for itself.
ExpectedStart(links, from) ==
  IF from = 1 \/ links = <<>> THEN Genesis ELSE links[1].prev

\* The number of links verified before the first broken one.
Verified(links, from) ==
  LET broken == BrokenLinks(links, ExpectedStart(links, from))
  IN  IF broken = {} THEN Len(links)
      ELSE (CHOOSE i \in broken : \A j \in broken : i <= j) - 1

\* SELECT ... WHERE seq >= n ORDER BY seq: rows are kept in that order.
RowsFrom(n) ==
  SubSeq(rows, Cardinality({i \in 1..Len(rows) : rows[i].seq < n}) + 1, Len(rows))

\* The job reads a snapshot of the rows from a sequence number on.
VerifySegment(w, from) ==
  /\ At(w, "idle") /\ tries < MaxChecks
  /\ tries' = tries + 1
  /\ wr' = [wr EXCEPT ![w] = [Idle EXCEPT !.pc = "walked", !.from = from,
              !.links = RowsFrom(from)]]
  /\ UNCHANGED <<chain, holder, issued, acted, acked, objects, anchors, checks, reader, damage>>

\* recordVerification, and the job's audit.chain_broken event after a break.
RecordVerification(w) ==
  LET links    == wr[w].links
      verified == Verified(links, wr[w].from)
      ok       == verified = Len(links)
  IN  /\ At(w, "walked")
      /\ checks' = checks \union {[from |-> wr[w].from, ok |-> ok, verified |-> verified,
                                   walked |-> [i \in 1..Len(links) |-> links[i].body]]}
      /\ IF ok \/ issued = MaxEvents
         THEN wr' = [wr EXCEPT ![w] = Idle] /\ UNCHANGED <<issued, acted>>
         ELSE /\ issued' = issued + 1
              /\ acted' = acted \union {issued + 1}
              /\ wr' = [wr EXCEPT ![w] = [Idle EXCEPT !.pc = "append", !.event = issued + 1]]
      /\ UNCHANGED <<chain, holder, acked, objects, anchors, reader, bounds>>

\* anchor: the tip is read without a lock and signed ...
ReadHead(w) ==
  /\ At(w, "idle") /\ tries < MaxChecks /\ tip.seq > 0
  /\ tries' = tries + 1
  /\ wr' = [wr EXCEPT ![w] = [Idle EXCEPT !.pc = "anchoring", !.head = tip.seq, !.prev = tip.hash]]
  /\ UNCHANGED <<chain, holder, issued, acted, acked, objects, anchors, checks, reader, damage>>

\* ... and the anchor is inserted whatever was appended meanwhile.
WriteAnchor(w) ==
  /\ At(w, "anchoring")
  /\ anchors' = anchors \union {[seq |-> wr[w].head, hash |-> wr[w].prev]}
  /\ wr' = [wr EXCEPT ![w] = Idle]
  /\ UNCHANGED <<chain, holder, issued, acted, acked, objects, checks, reader, bounds>>

\* Mutant: the cursor is the row after the page.
Bug_CursorPastPage(found) ==
  IF Len(found) > PageLimit THEN found[PageLimit + 1].seq ELSE 0

\* query's cursor: LIMIT + 1 rows are read, and the last row of the page is
\* where the next page starts; 0 stands for no further page.
NextCursor(found) == IF Len(found) > PageLimit THEN found[PageLimit].seq ELSE 0

\* A client reads the pages of the log one after the other, up to the last.
Query ==
  LET found == RowsFrom(reader.cursor + 1)
      page  == SubSeq(found, 1, IF Len(found) < PageLimit THEN Len(found) ELSE PageLimit)
  IN  /\ ~reader.done
      /\ reader' = [cursor |-> NextCursor(found), done |-> NextCursor(found) = 0,
                    seen |-> reader.seen \o [i \in 1..Len(page) |-> page[i].body]]
      /\ UNCHANGED <<chain, holder, wr, issued, acted, acked, objects, anchors, checks, bounds>>

-----------------------------------------------------------------------------
(* What happens to the table behind the store: the triggers forbid it to   *)
(* the application, a restore or a disabled trigger does not.              *)

AlterRow(i) ==
  /\ damage < MaxDamage /\ rows[i].body # Altered
  /\ damage' = damage + 1
  /\ rows' = [rows EXCEPT ![i].body = Altered]
  /\ UNCHANGED <<tip, holder, wr, issued, acted, acked, objects, anchors, checks, reader, tries>>

LoseRow(i) ==
  /\ damage < MaxDamage
  /\ damage' = damage + 1
  /\ rows' = RemoveAt(rows, i)
  /\ UNCHANGED <<tip, holder, wr, issued, acted, acked, objects, anchors, checks, reader, tries>>

Next ==
  \/ \E w \in Writers : Emit(w)
  \/ \E w \in Writers : (\E from \in 1..2 : VerifySegment(w, from)) \/ RecordVerification(w)
  \/ \E w \in Writers : ReadHead(w) \/ WriteAnchor(w)
  \/ Query
  \/ \E i \in 1..Len(rows) : AlterRow(i) \/ LoseRow(i)

Spec == Init /\ [][Next]_vars

-----------------------------------------------------------------------------
Rows == [seq : Nat, body : Events \union {Altered}, prev : Seq(Events), hash : Seq(Events),
         ref : BOOLEAN]
Pcs  == {"idle", "upload", "register", "append", "locked", "inserted", "walked", "anchoring"}

\* The shape of the state; a writer gives up after MaxAttempts, and the tip
\* is locked by the writer that is between the lock and the commit.
TypeOK ==
  /\ rows \in Seq(Rows)
  /\ tip.seq \in Nat /\ tip.hash \in Seq(Events)
  /\ \A w \in Writers : wr[w].pc \in Pcs /\ wr[w].attempt \in 1..MaxAttempts
  /\ \A w \in Writers : holder = w <=> wr[w].pc \in {"locked", "inserted"}
  /\ issued \in 0..MaxEvents
  /\ acted \subseteq Events /\ acked \subseteq Events
  /\ damage \in 0..MaxDamage /\ tries \in 0..MaxChecks

\* The log the chain vouches for: the head hash is the whole history.
History == tip.hash

\* What a walk read is a stretch of the history: from its start, or for a
\* segment from wherever its first row says it stands.
IsStretch(walked, from) ==
  \E k \in 1..Len(History) + 1 :
    /\ from = 1 => k = 1
    /\ k + Len(walked) - 1 <= Len(History)
    /\ walked = SubSeq(History, k, k + Len(walked) - 1)

\* A verification is exact about what it read (verifyChain, verifySegment): it
\* fails on an altered row and on one missing before another that it read, and
\* never because writers append, retry or die while it walks; a full walk also
\* verifies exactly the rows before the first damage it met.  It is not what
\* migration 0002 says of the chain ("makes an out-of-band change detectable"):
\* rows lost after the last one read, or before the first of an inner segment,
\* leave it ok, as neither the tip nor an anchor is compared.
VerificationExact ==
  \A c \in checks :
    /\ c.ok <=> IsStretch(c.walked, c.from)
    /\ c.from = 1 =>
         /\ IsStretch(SubSeq(c.walked, 1, c.verified), 1)
         /\ c.ok \/ ~IsStretch(SubSeq(c.walked, 1, c.verified + 1), 1)

\* A client that pages through the query API while writers append reads the
\* history without a gap or a repetition: sequence numbers become visible in
\* their order because the tip is locked until the commit.
PagesInOrder == damage = 0 => IsPrefix(reader.seen, History)

\* The log never says more than happened: the action of an event is committed
\* before it or with it, and a row that refers to a stored payload finds the
\* object and its stored_objects row, though they are written before it by
\* two other systems and any of the steps may fail.
LoggedOnlyWhatIsDone ==
  /\ \A i \in 1..Len(History) : History[i] \in acted
  /\ \A i \in 1..Len(rows) :
       rows[i].ref => rows[i].body \in (stored \intersect blobs) \union {Altered}

\* Every row follows the one before it and hashes to the head, so long as
\* nothing was damaged.
ChainIntact ==
  damage = 0 =>
    /\ tip.seq = Len(rows)
    /\ \A i \in 1..Len(rows) :
         /\ rows[i].seq = i
         /\ rows[i].hash = SubSeq(History, 1, i)
         /\ rows[i].prev = SubSeq(History, 1, i - 1)
         /\ rows[i].body = History[i]

\* The store is an append-only log, whatever its writers run into: what is
\* acknowledged is recorded and stays, an anchor is over a history the log
\* really had, and readers miss nothing unless rows are damaged behind it.
Log == INSTANCE AuditLog WITH
         log <- History, sealed <- {a.hash : a \in anchors},
         readable <- [i \in 1..Len(rows) |-> rows[i].body], damaged <- damage
ImplementsLog == Log!LogSpec
=============================================================================
