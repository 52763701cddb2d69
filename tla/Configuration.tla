---------------------------- MODULE Configuration ----------------------------
(***************************************************************************)
(* The configuration service of one tenant (packages/config, migration     *)
(* 0003, the /v1/config routes): dated and scoped values, their resolution *)
(* by precedence, each process's cache, published snapshots and the        *)
(* settings-health view.  A publication is a transaction of many           *)
(* statements under READ COMMITTED, so it interleaves with everything.     *)
(***************************************************************************)
EXTENDS Integers, FiniteSets, Sequences, SequencesExt

CONSTANTS Servers,    \* processes with a ConfigService, each with its cache
          Mandatory,  \* the fields whose requirement is mandatory ...
          Optional,   \* ... and the others: together the catalogue, numbered
          Answers,    \* well-formed values
          BadShape,   \* a value validateSettingValue refuses
          Blank,      \* no value: a TBC row's, or the answer of no row
          NoDate,     \* a read without asOf
          Scopes,     \* the scopes values are set and read at
          Readers,    \* the processes that resolve settings
          Reads,      \* what resolve is asked: a field, a scope, with a date or without
          LastDay,    \* bound: days
          MaxValues,  \* bound: rows of settings_values
          MaxPublish, \* bound: publications started
          MaxCached   \* bound: answers cached by one process

Catalogue == Mandatory \union Optional
Days      == 1..LastDay

ASSUME ConfigConstants ==
  /\ Catalogue \subseteq Nat /\ Catalogue # {} /\ NoDate \notin Nat
  /\ \A s \in Scopes : s \subseteq {"entity", "process", "channel", "role"}
  /\ {} \in Scopes /\ LastDay \in Nat \ {0} /\ {MaxValues, MaxPublish, MaxCached} \subseteq Nat
  /\ {BadShape, Blank} \intersect Answers = {}

VARIABLES settings,   \* settings_values: at most one row per field, scope and date
          snapshots,  \* settings_snapshots in the order of their commits
          cache,      \* each server: answers it may serve without asking
          reads,      \* each server: answers on their way from the store to the cache
          pub,        \* each server: the request it is in
          today, publishes

configVars == <<settings, snapshots, cache, reads, pub, today, publishes>>

\* specificity, a generated column: the scope's dimensions weigh 8, 4, 2, 1.
Specificity(scope) ==
  (IF "entity" \in scope THEN 8 ELSE 0) + (IF "process" \in scope THEN 4 ELSE 0)
    + (IF "channel" \in scope THEN 2 ELSE 0) + (IF "role" \in scope THEN 1 ELSE 0)

\* ORDER BY specificity DESC, effective_from DESC LIMIT 1, of no row: Blank.
Precedes(r, q) ==
  \/ Specificity(r.scope) > Specificity(q.scope)
  \/ Specificity(r.scope) = Specificity(q.scope) /\ r.from >= q.from
First(rows) ==
  IF rows = {} THEN Blank ELSE (CHOOSE r \in rows : \A q \in rows : Precedes(r, q)).value

\* asOf is passed as NULL when there is none, and a comparison with NULL
\* holds of no row: the DEFAULT of the SQL parameter is not used.
InForce(r, asOf) == asOf # NoDate /\ r.from <= asOf

\* resolve_setting: TBC rows and rows of another scope do not count.
ResolveSetting(f, scope, asOf) ==
  First({r \in settings : /\ r.field = f /\ r.value # Blank
                          /\ InForce(r, asOf) /\ r.scope \subseteq scope})

Bug_CountsAhead(f) == First({r \in settings : r.field = f})
\* The settings_health view: the first row of any scope, TBC or not, today.
HealthValue(f) == First({r \in settings : r.field = f /\ r.from <= today})
BlankMandatory == {f \in Mandatory : HealthValue(f) = Blank}

Current == {i \in 1..Len(snapshots) : ~snapshots[i].superseded}

\* health().ready_for_execution, without the age of the snapshot.
Ready == BlankMandatory = {} /\ Current # {}

NoPublication == [pc |-> "idle", toRead |-> {}, resolved |-> [f \in Catalogue |-> Blank],
                  asOf |-> NoDate, version |-> 0, locked |-> {}, quiet |-> TRUE]

ConfigInit ==
  /\ settings = {} /\ snapshots = <<>> /\ today = 1 /\ publishes = 0
  /\ cache = [p \in Servers |-> {}] /\ reads = [p \in Servers |-> {}]
  /\ pub = [p \in Servers |-> NoPublication]

\* validateSettingValue, and setValue's rule that TBC carries no value.
Bug_AcceptAnything(tbc, value) == TRUE
Acceptable(tbc, value) == IF tbc THEN value = Blank ELSE value \in Answers

\* setValue: an upsert by field, scope and date; the writer's process then
\* drops the tenant's cache, no other process does.
SetValue(p, f, scope, from, tbc, value) ==
  LET row     == [field |-> f, scope |-> scope, from |-> from, value |-> value]
      SameKey(r) == r.field = f /\ r.scope = scope /\ r.from = from
      others  == {r \in settings : ~SameKey(r)}
  IN  /\ Acceptable(tbc, value)
      /\ Cardinality(others) < MaxValues
      /\ settings' = others \union {row}
      /\ cache' = [cache EXCEPT ![p] = {}]
      /\ pub' = [q \in Servers |-> [pub[q] EXCEPT !.quiet = FALSE]]
      /\ UNCHANGED <<snapshots, reads, today, publishes>>

\* resolve, on a miss: the store is asked for the field, the scope and the
\* date as given ...
AskStore(p, f, scope, asOf) ==
  LET key == <<f, scope, asOf>>
  IN  /\ \A e \in cache[p] : e.key # key
      /\ Cardinality(cache[p] \union reads[p]) < MaxCached
      /\ reads' = [reads EXCEPT ![p] = @ \union
                     {[key |-> key, value |-> ResolveSetting(f, scope, asOf)]}]
      /\ UNCHANGED <<settings, snapshots, cache, pub, today, publishes>>

\* ... and the answer, an absence too, is cached whatever was invalidated
\* while it was on its way.
CacheAnswer(p) ==
  \E e \in reads[p] :
    /\ reads' = [reads EXCEPT ![p] = @ \ {e}]
    /\ cache' = [cache EXCEPT ![p] = {d \in @ : d.key # e.key} \union {e}]
    /\ UNCHANGED <<settings, snapshots, pub, today, publishes>>

\* A cache entry outlives its time to live, or POST /v1/config/invalidate.
Forget(p) ==
  /\ cache[p] # {}
  /\ cache' = [cache EXCEPT ![p] = {}]
  /\ UNCHANGED <<settings, snapshots, reads, pub, today, publishes>>

-----------------------------------------------------------------------------
(* publishSnapshot.  The route gives no date; the parameter exists.        *)

BeginPublish(p, asOf) ==
  /\ pub[p].pc = "idle" /\ publishes < MaxPublish
  /\ publishes' = publishes + 1
  /\ pub' = [pub EXCEPT ![p] = [NoPublication EXCEPT !.pc = "reading", !.asOf = asOf,
                                                     !.toRead = Catalogue]]
  /\ UNCHANGED <<settings, snapshots, cache, reads, today>>

\* One statement per field, in the order of the catalogue.
ReadField(p) ==
  /\ pub[p].pc = "reading" /\ pub[p].toRead # {}
  /\ LET f == CHOOSE g \in pub[p].toRead : \A h \in pub[p].toRead : g <= h
     IN  pub' = [pub EXCEPT ![p].toRead = @ \ {f},
                            ![p].resolved[f] = ResolveSetting(f, {}, pub[p].asOf)]
  /\ UNCHANGED <<settings, snapshots, cache, reads, today, publishes>>

\* SELECT coalesce(max(snapshot_version), 0) + 1 of what is committed.
NextVersion(p) ==
  /\ pub[p].pc = "reading" /\ pub[p].toRead = {}
  /\ pub' = [pub EXCEPT ![p].pc = "numbered", ![p].version = Len(snapshots) + 1]
  /\ UNCHANGED <<settings, snapshots, cache, reads, today, publishes>>

\* UPDATE ... WHERE superseded_at IS NULL locks the current row; a second
\* publication waits, and finds the row superseded when the first commits.
Supersede(p) ==
  /\ pub[p].pc = "numbered"
  /\ \A q \in Servers \ {p} : pub[q].locked = {}
  /\ pub' = [pub EXCEPT ![p].pc = "superseded", ![p].locked = Current]
  /\ UNCHANGED <<settings, snapshots, cache, reads, today, publishes>>

Bug_NoIndex(p) == TRUE
\* The unique index on the version refuses a number another publication took.
VersionFree(p) == pub[p].version > Len(snapshots)

\* INSERT and COMMIT, or the rollback of everything this publication did.
CommitSnapshot(p) ==
  /\ pub[p].pc = "superseded"
  /\ IF VersionFree(p)
     THEN snapshots' = Append([i \in 1..Len(snapshots) |->
                                 IF i \in pub[p].locked
                                 THEN [snapshots[i] EXCEPT !.superseded = TRUE] ELSE snapshots[i]],
                              [version |-> pub[p].version, resolved |-> pub[p].resolved,
                               superseded |-> FALSE])
     ELSE UNCHANGED snapshots
  /\ pub' = [pub EXCEPT ![p] = NoPublication]
  /\ cache' = [cache EXCEPT ![p] = {}]
  /\ UNCHANGED <<settings, reads, today, publishes>>

\* The transaction is lost with its process or its connection.
AbortPublish(p) ==
  /\ pub[p].pc # "idle"
  /\ pub' = [pub EXCEPT ![p] = NoPublication]
  /\ UNCHANGED <<settings, snapshots, cache, reads, today, publishes>>

Midnight ==
  /\ today < LastDay
  /\ today' = today + 1
  /\ pub' = [q \in Servers |-> [pub[q] EXCEPT !.quiet = FALSE]]
  /\ UNCHANGED <<settings, snapshots, cache, reads, publishes>>

ConfigNext ==
  \/ \E p \in Servers, f \in Catalogue, s \in Scopes, d \in Days, tbc \in BOOLEAN,
        v \in Answers \union {BadShape, Blank} : SetValue(p, f, s, d, tbc, v)
  \/ \E p \in Readers, k \in Reads : AskStore(p, k.field, k.scope, IF k.dated THEN today ELSE NoDate)
  \/ \E p \in Servers : CacheAnswer(p) \/ Forget(p) \/ ReadField(p) \/ NextVersion(p) \/ Supersede(p)
                        \/ CommitSnapshot(p) \/ AbortPublish(p)
  \/ \E p \in Servers, d \in {NoDate, today} : BeginPublish(p, d)
  \/ Midnight

ConfigSpec == ConfigInit /\ [][ConfigNext]_configVars

-----------------------------------------------------------------------------
(* Properties.                                                             *)

Answer == Answers \union {Blank}

ConfigTypeOK ==
  /\ settings \subseteq [field : Catalogue, scope : Scopes, from : Days, value : Answer]
  /\ \A i \in 1..Len(snapshots) :
       snapshots[i] \in [version : Nat, resolved : [Catalogue -> Answer], superseded : BOOLEAN]
  /\ \A p \in Servers : \A e \in cache[p] \union reads[p] : e.value \in Answer
  /\ today \in Days /\ publishes \in 0..MaxPublish

\* However publications overlap, abort and collide, one snapshot at most is
\* not superseded, it is the one published last, and no two have a version
\* in common: what currentSnapshot, health and a graph's pin rely on.
OneCurrentSnapshot ==
  /\ Current \subseteq {Len(snapshots)}
  /\ \A i \in 1..Len(snapshots) : snapshots[i].version = i

\* Settings health never promises what a read cannot answer: where no
\* mandatory field counts as blank, each resolves today at some scope, the
\* TBC rows, the dates ahead and the narrower scopes notwithstanding.
CompleteMeansResolvable ==
  BlankMandatory = {} => \A f \in Mandatory : \E s \in Scopes : ResolveSetting(f, s, today) # Blank

\* "Publish a snapshot: materialise the full resolution at this instant"
\* (resolver.ts:308): a publication nothing changed under holds, when it is
\* about to commit, the value of every field in force today.
SnapshotHoldsWhatIsInForce ==
  \A p \in Servers : pub[p].pc = "superseded" /\ pub[p].quiet =>
    \A f \in Catalogue : pub[p].resolved[f] = ResolveSetting(f, {}, today)
=============================================================================
