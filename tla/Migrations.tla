----------------------------- MODULE Migrations -----------------------------
(***************************************************************************)
(* The migration runner (packages/db migrate.ts and migrate-cli.ts): every *)
(* instance that boots applies the files of its build the database has not *)
(* seen, one transaction each, under a lock that belongs to a database     *)
(* session.  The runner has a pool: when its session is lost, and the lock *)
(* with it, the next statement opens another and the runner goes on.       *)
(***************************************************************************)
EXTENDS Naturals, Sequences, SequencesExt

CONSTANTS Instances,  \* that may boot at once
          Builds,     \* sequences of [id, content], by file name
          NoInstance,
          MaxBoots    \* bound: boots, those after a crash included

\* A build is a sequence of files; a lock nobody holds is nobody's.
ASSUME MigrationConstants ==
  /\ \A b \in Builds : b \in Seq(Range(b))
  /\ NoInstance \notin Instances /\ MaxBoots \in Nat

VARIABLES schema,     \* what has been applied to the database, in order
          ledger,     \* the rows of schema_migrations, and if it is there
          lock,       \* whose session holds the advisory lock
          runner,     \* of each instance
          boots

migrationVars == <<schema, ledger, lock, runner, boots>>

Asleep == [at |-> "idle", build |-> <<>>, fresh |-> FALSE, known |-> {}, next |-> 1,
           succeeds |-> FALSE]

MigrationInit ==
  /\ schema = <<>>
  /\ ledger = [exists |-> FALSE, rows |-> {}]
  /\ lock = NoInstance
  /\ runner = [i \in Instances |-> Asleep]
  /\ boots = 0

RunsAt(i, place) == runner[i].at = place
Moves(i, r) == runner' = [runner EXCEPT ![i] = r]

\* loadMigrations.
Boot(i) ==
  /\ RunsAt(i, "idle") /\ boots < MaxBoots
  /\ boots' = boots + 1
  /\ \E b \in Builds : Moves(i, [Asleep EXCEPT !.at = "ensure", !.build = b,
                                               !.fresh = ~ledger.exists])
  /\ UNCHANGED <<schema, ledger, lock>>

\* ensureLedger, before the lock: of two instances that create the table at
\* once the database refuses one.
EnsureLedger(i) ==
  /\ RunsAt(i, "ensure")
  /\ \/ /\ ledger' = [ledger EXCEPT !.exists = TRUE]
        /\ Moves(i, [runner[i] EXCEPT !.at = "lock"])
     \/ /\ runner[i].fresh /\ ledger.exists
        /\ Moves(i, [runner[i] EXCEPT !.at = "close"])
        /\ UNCHANGED ledger
  /\ UNCHANGED <<schema, lock, boots>>

\* pg_advisory_lock, which waits at most as long as a statement may run.
TakeLock(i) ==
  /\ RunsAt(i, "lock")
  /\ \/ /\ lock = NoInstance
        /\ lock' = i
        /\ Moves(i, [runner[i] EXCEPT !.at = "read"])
     \/ /\ lock # NoInstance
        /\ Moves(i, [runner[i] EXCEPT !.at = "close"])
        /\ UNCHANGED lock
  /\ UNCHANGED <<schema, ledger, boots>>

ReadLedger(i) ==
  /\ RunsAt(i, "read")
  /\ Moves(i, [runner[i] EXCEPT !.at = "apply", !.known = ledger.rows])
  /\ UNCHANGED <<schema, ledger, lock, boots>>

NextFile(i) == runner[i].build[runner[i].next]
Remaining(i) == RunsAt(i, "apply") /\ runner[i].next <= Len(runner[i].build)
Applied(rows, f) == \E row \in rows : row.id = f.id
Gives(i, succeeds) == Moves(i, [runner[i] EXCEPT !.at = "unlock", !.succeeds = succeeds])

\* A file the ledger knows is skipped, if it still has its checksum.
Bug_KnownIsSame(i) ==
  /\ Remaining(i) /\ Applied(runner[i].known, NextFile(i))
  /\ Moves(i, [runner[i] EXCEPT !.next = @ + 1])
  /\ UNCHANGED <<schema, ledger, lock, boots>>
CompareFile(i) ==
  /\ Remaining(i) /\ Applied(runner[i].known, NextFile(i))
  /\ IF NextFile(i) \in runner[i].known
     THEN Moves(i, [runner[i] EXCEPT !.next = @ + 1])
     ELSE Gives(i, FALSE)
  /\ UNCHANGED <<schema, ledger, lock, boots>>

\* The file and its row in one transaction, which the database may refuse.
ApplyFile(i) ==
  /\ Remaining(i) /\ ~Applied(runner[i].known, NextFile(i))
  /\ \/ /\ ~Applied(ledger.rows, NextFile(i))
        /\ schema' = Append(schema, NextFile(i))
        /\ ledger' = [ledger EXCEPT !.rows = @ \union {NextFile(i)}]
        /\ Moves(i, [runner[i] EXCEPT !.next = @ + 1])
     \/ Gives(i, FALSE) /\ UNCHANGED <<schema, ledger>>
  /\ UNCHANGED <<lock, boots>>

FinishFiles(i) ==
  /\ RunsAt(i, "apply") /\ runner[i].next > Len(runner[i].build)
  /\ Gives(i, TRUE)
  /\ UNCHANGED <<schema, ledger, lock, boots>>

\* pg_advisory_unlock, which does nothing on a session without the lock; a
\* statement that throws fails the boot, whatever the files came to.
Freed(i) == IF lock = i THEN NoInstance ELSE lock
Unlock(i) ==
  /\ RunsAt(i, "unlock")
  /\ \/ lock' = Freed(i) /\ Moves(i, [runner[i] EXCEPT !.at = "close"])
     \/ UNCHANGED lock /\ Moves(i, [runner[i] EXCEPT !.at = "close", !.succeeds = FALSE])
  /\ UNCHANGED <<schema, ledger, boots>>

\* The session that holds the lock is lost between two statements.
LoseSession(i) ==
  /\ lock = i /\ lock' = NoInstance
  /\ UNCHANGED <<schema, ledger, runner, boots>>

\* closeDatabase, or the end of the process: its sessions end.
CloseSessions(i) ==
  /\ RunsAt(i, "close")
  /\ lock' = Freed(i)
  /\ Moves(i, [runner[i] EXCEPT !.at = "ended"])
  /\ UNCHANGED <<schema, ledger, boots>>
EndOfProcess(i) ==
  /\ runner[i].at # "idle"
  /\ lock' = Freed(i)
  /\ Moves(i, Asleep)
  /\ UNCHANGED <<schema, ledger, boots>>

MigrationNext ==
  \E i \in Instances :
    \/ Boot(i) \/ EnsureLedger(i) \/ TakeLock(i) \/ ReadLedger(i) \/ CompareFile(i)
    \/ ApplyFile(i) \/ FinishFiles(i) \/ Unlock(i) \/ LoseSession(i) \/ CloseSessions(i) \/ EndOfProcess(i)

MigrationSpec == MigrationInit /\ [][MigrationNext]_migrationVars

MigrationTypeOK ==
  /\ boots \in 0..MaxBoots /\ lock \in Instances \union {NoInstance}
  /\ \A i \in Instances :
       /\ runner[i].next \in 1..(Len(runner[i].build) + 1)
       /\ runner[i].at \in {"idle", "ensure", "lock", "read", "apply", "unlock", "close", "ended"}

\* Nothing is applied twice, whatever boots at once, dies between two files,
\* loses its lock or finds files of another build; and an instance that boots successfully
\* runs on a schema in which each of its files was applied as it reads now
\* (migrate.ts: "a file whose contents change after being applied is a hard
\* error, not a silent re-run").
SchemaIsTheFiles ==
  /\ IsInjective([k \in DOMAIN schema |-> schema[k].id])
  /\ \A i \in Instances : runner[i].succeeds => Range(runner[i].build) \subseteq Range(schema)
  /\ ledger.rows = Range(schema)
=============================================================================
