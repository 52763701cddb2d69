------------------------------ MODULE AuditLog ------------------------------
(***************************************************************************)
(* What the audit store promises its callers, with no chain in it: a log   *)
(* that only grows, an acknowledgement only for what is in it, seals only  *)
(* over what it really held, and readers who see it unless the table is    *)
(* damaged behind the store's back.                                        *)
(***************************************************************************)
EXTENDS Naturals, Sequences, SequencesExt

CONSTANT Events

VARIABLES log,       \* the events recorded, in their order, for ever
          acked,     \* the events whose caller was told they are recorded
          sealed,    \* the histories an anchor was signed over
          readable,  \* what a reader of the table finds
          damaged    \* how often rows changed behind the store

logVars == <<log, acked, sealed, readable, damaged>>

LogInit == log = <<>> /\ acked = {} /\ sealed = {} /\ readable = <<>> /\ damaged = 0

\* One event is recorded; the caller hears of it or the answer is lost.
Record(e) ==
  /\ e \notin Range(log)
  /\ log' = Append(log, e)
  /\ readable' = Append(readable, e)
  /\ acked' \in {acked, acked \union {e}}
  /\ UNCHANGED <<sealed, damaged>>

\* A signature is put under a history the log has or had.
Seal ==
  /\ \E n \in 1..Len(log) : sealed' = sealed \union {SubSeq(log, 1, n)}
  /\ UNCHANGED <<log, acked, readable, damaged>>

\* Rows change or vanish without the store; the log it vouches for does not.
Damage ==
  /\ damaged' = damaged + 1
  /\ Len(readable') <= Len(readable)
  /\ UNCHANGED <<log, acked, sealed>>

LogNext == (\E e \in Events : Record(e)) \/ Seal \/ Damage

LogSpec == LogInit /\ [][LogNext]_logVars
=============================================================================
