---------------------------- MODULE ToolInvoker ----------------------------
(***************************************************************************)
(* C10, the tool invoker: callers that each run ToolInvoker.invoke, the    *)
(* idempotency ledger they reserve keys in, the tool_calls table, and the  *)
(* provider behind the connectors. A caller reads the grant, reserves the  *)
(* key, calls the connector and writes its outcome in separate             *)
(* transactions, each of them one action; it may die between any two.      *)
(***************************************************************************)
EXTENDS Integers, Sequences, FiniteSets

CONSTANTS
    Callers,        \* executions of invoke that may overlap
    Tools,          \* the L6 registry
    Registry,       \* what lookupTool and the connectors say of each tool
    Keys,           \* idempotency keys
    Requests,       \* the inputs invoke is called with
    Grants,         \* the rows tool_grants may hold for a tool
    ForceDryRun,    \* every environment but production
    None,
    MaxCalls, MaxCrashes, MaxFaults, MaxRegrants         \* bounds

Entry == [stateChanging : BOOLEAN, irreversible : BOOLEAN,
          keyRequired : BOOLEAN, served : BOOLEAN]
Autonomies == {"observe", "draft", "execute"}
Request == [tool : Tools \cup {None}, scope : {"declared", "other", "forbidden"},
            args : {"a", "b"}, autonomy : Autonomies,
            verdict : BOOLEAN, approval : BOOLEAN, key : Keys \cup {None}]
Grant == [enabled : BOOLEAN, holdsScope : BOOLEAN, stage : 1..4, forced : BOOLEAN]

(* validateRegistry: a tool that changes state requires a key.             *)
ASSUME RegistryAssumption ==
    /\ Registry \in [Tools -> Entry] /\ None \notin Tools /\ None \notin Keys
    /\ \A t \in Tools : Registry[t].stateChanging => Registry[t].keyRequired
ASSUME InputAssumption ==
    /\ Requests \subseteq Request /\ Requests # {} /\ ForceDryRun \in BOOLEAN
    /\ Grants \subseteq Grant /\ Grants # {}
ASSUME BoundAssumption ==
    MaxCalls \in Nat /\ MaxCrashes \in Nat /\ MaxFaults \in Nat /\ MaxRegrants \in Nat

VARIABLES
    grants,         \* tool_grants
    keys,           \* idempotency_records
    records,        \* tool_calls
    ledger,         \* the live calls a provider has performed, in order
    caller,         \* the locals of each execution of invoke
    answer,         \* what the last invocation of each caller returned
    crashes, faults, regrants                            \* what the bounds count

db == <<keys, records>>
counts == <<crashes, faults, regrants>>
vars == <<grants, db, ledger, caller, answer, counts>>

Ids == Callers \X Nat                                    \* tool_call_id
Hashes == Tools \X {"a", "b"}                            \* request_hash
Hash(r) == <<r.tool, r.args>>

Unreserved == [state |-> "absent", hash |-> None, outcome |-> None]
KeyRecord == [state : {"absent", "in_flight", "completed", "failed_permanent"},
              hash : Hashes \cup {None}, outcome : Ids \cup {None}]
CallRecord == [id : Ids, request : Requests,
               outcome : {"success", "dry_run", "failure"}]

PCs == {"idle", "grant", "reserve", "perform", "persist", "complete",
        "persistFailure", "close"}
Local == [pc : PCs, n : Nat, request : Requests, dryRun : BOOLEAN,
          retryable : BOOLEAN]
AtRest(r) == [pc |-> "idle", n |-> 0, request |-> r, dryRun |-> FALSE, retryable |-> TRUE]
Answers == {"none", "success", "dry_run", "replay", "refused", "conflict",
            "duplicate", "failure", "rejected"}
NoAnswer == [kind |-> "none", id |-> None]

TypeOK ==
    /\ grants \in [Tools -> Grants \cup {None}]
    /\ keys \in [Keys -> KeyRecord]
    /\ records \subseteq CallRecord
    /\ ledger \in Seq([id : Ids, request : Requests])
    /\ caller \in [Callers -> Local]
    /\ answer \in [Callers -> [kind : Answers, id : Ids \cup {None}]]
    /\ crashes \in Nat /\ faults \in Nat /\ regrants \in Nat

Init ==
    /\ grants \in [Tools -> Grants \cup {None}]
    /\ keys = [k \in Keys |-> Unreserved]
    /\ records = {} /\ ledger = <<>>
    /\ caller = [c \in Callers |-> AtRest(CHOOSE r \in Requests : TRUE)]
    /\ answer = [c \in Callers |-> NoAnswer]
    /\ crashes = 0 /\ faults = 0 /\ regrants = 0

-----------------------------------------------------------------------------
(* What a caller decides from its request and the grant it read.           *)

At(c, pc) == caller[c].pc = pc
Id(c) == <<c, caller[c].n>>
Req(c) == caller[c].request
Key(c) == Req(c).key
EntryOf(r) == Registry[r.tool]

(* Registry, forbidden scope, and scope equality.                          *)
Declared(r) == r.tool \in Tools /\ r.scope = "declared"

Granted(r, g) == g # None /\ g.enabled /\ g.holdsScope

DryRun(r, g) ==
    /\ EntryOf(r).stateChanging
    /\ ForceDryRun \/ g.forced \/ g.stage < 4 \/ r.autonomy # "execute"

(* Mutation: the approval of a one-way act is not asked for.               *)
Bug_ApprovalUnchecked(r, g) ==
    EntryOf(r).stateChanging /\ ~ DryRun(r, g) => r.autonomy = "execute" /\ r.verdict

(* A live write needs Execute, the verdict that permitted it and, if it    *)
(* cannot be undone, a recorded approval.                                  *)
Authorised(r, g) ==
    EntryOf(r).stateChanging /\ ~ DryRun(r, g) =>
        /\ r.autonomy = "execute"
        /\ r.verdict
        /\ EntryOf(r).irreversible => r.approval

HasKey(r) == EntryOf(r).keyRequired => r.key # None

Refused(r, g) == ~ (Granted(r, g) /\ Authorised(r, g) /\ HasKey(r))

(* Calls that rehearse or carry no key pass the idempotency ledger by.     *)
Keyed(c) == Key(c) # None /\ ~ caller[c].dryRun

Enter(c, pc) == caller' = [caller EXCEPT ![c].pc = pc] /\ UNCHANGED answer
Return(c, kind, id) ==
    /\ caller' = [caller EXCEPT ![c].pc = "idle"]
    /\ answer' = [answer EXCEPT ![c] = [kind |-> kind, id |-> id]]

(* The connector is looked up last: without one the call fails, and a key  *)
(* it has just reserved stays in flight.                                   *)
Proceed(c, dry) ==
    LET served == EntryOf(Req(c)).served IN
    /\ caller' = [caller EXCEPT ![c].dryRun = dry,
                                ![c].pc = IF served THEN "perform" ELSE "idle"]
    /\ answer' = IF served THEN answer
                 ELSE [answer EXCEPT ![c] = [kind |-> "failure", id |-> None]]

-----------------------------------------------------------------------------
(* invoke                                                                  *)

Arrive(c, r) ==
    /\ At(c, "idle") /\ caller[c].n < MaxCalls
    /\ caller' = [caller EXCEPT ![c] =
           [pc |-> IF Declared(r) THEN "grant" ELSE "idle", n |-> @.n + 1,
            request |-> r, dryRun |-> FALSE, retryable |-> TRUE]]
    /\ answer' = [answer EXCEPT ![c] =
           [kind |-> IF Declared(r) THEN "none" ELSE "refused", id |-> None]]
    /\ UNCHANGED <<grants, db, ledger, counts>>

(* #loadGrant, in a transaction of its own, and the checks that follow it. *)
LoadGrant(c) ==
    LET r == Req(c)
        g == grants[r.tool]
    IN
    /\ At(c, "grant")
    /\ \/ Refused(r, g) /\ Return(c, "refused", None)
       \/ /\ ~ Refused(r, g) /\ (r.key = None \/ DryRun(r, g))
          /\ Proceed(c, DryRun(r, g))
       \/ /\ ~ Refused(r, g) /\ r.key # None /\ ~ DryRun(r, g)
          /\ Enter(c, "reserve")
    /\ UNCHANGED <<grants, db, ledger, counts>>

(* Mutation: a retry takes over a key that is still in flight.             *)
Bug_ReserveTakesOver(c) ==
    /\ At(c, "reserve") /\ keys[Key(c)].state \in {"absent", "in_flight"}
    /\ keys' = [keys EXCEPT ![Key(c)] =
           [state |-> "in_flight", hash |-> Hash(Req(c)), outcome |-> None]]
    /\ Proceed(c, FALSE)
    /\ UNCHANGED <<grants, records, ledger, counts>>

(* The conditional insert wins: this caller holds the key.                 *)
ReserveWins(c) ==
    /\ At(c, "reserve") /\ keys[Key(c)].state = "absent"
    /\ keys' = [keys EXCEPT ![Key(c)] =
           [state |-> "in_flight", hash |-> Hash(Req(c)), outcome |-> None]]
    /\ Proceed(c, FALSE)
    /\ UNCHANGED <<grants, records, ledger, counts>>

(* Mutation: the payload of a completed key is not compared.               *)
Bug_ReplayAnyPayload(c) ==
    LET held == keys[Key(c)] IN
    /\ At(c, "reserve") /\ held.state # "absent"
    /\ \/ held.state = "completed" /\ Return(c, "replay", held.outcome)
       \/ held.state # "completed" /\ Return(c, "duplicate", None)
    /\ UNCHANGED <<grants, db, ledger, counts>>

(* It loses: the record decides what this caller returns.                  *)
ReserveLoses(c) ==
    LET held == keys[Key(c)] IN
    /\ At(c, "reserve") /\ held.state # "absent"
    /\ \/ held.hash # Hash(Req(c)) /\ Return(c, "conflict", None)
       \/ /\ held.hash = Hash(Req(c)) /\ held.state = "completed"
          /\ Return(c, "replay", held.outcome)
       \/ /\ held.hash = Hash(Req(c)) /\ held.state # "completed"
          /\ Return(c, "duplicate", None)
    /\ UNCHANGED <<grants, db, ledger, counts>>

(* connector.invoke performs the call, or only rehearses it.               *)
Perform(c) ==
    /\ At(c, "perform")
    /\ ledger' = IF caller[c].dryRun THEN ledger
                 ELSE Append(ledger, [id |-> Id(c), request |-> Req(c)])
    /\ Enter(c, "persist")
    /\ UNCHANGED <<grants, db, counts>>

Catch(c, again) ==
    /\ caller' = [caller EXCEPT ![c].pc = "persistFailure", ![c].retryable = again]
    /\ UNCHANGED answer

(* connector.invoke throws before the provider has done anything; only a   *)
(* WorkerError can say that a retry is pointless.                          *)
ProviderFails(c) ==
    /\ At(c, "perform") /\ faults < MaxFaults /\ faults' = faults + 1
    /\ \E again \in BOOLEAN : Catch(c, again)
    /\ UNCHANGED <<grants, db, ledger, crashes, regrants>>

(* The provider performed the call and its answer was lost.                *)
AnswerLost(c) ==
    /\ At(c, "perform") /\ ~ caller[c].dryRun
    /\ faults < MaxFaults /\ faults' = faults + 1
    /\ ledger' = Append(ledger, [id |-> Id(c), request |-> Req(c)])
    /\ Catch(c, TRUE)
    /\ UNCHANGED <<grants, db, crashes, regrants>>

(* INSERT INTO tool_calls ... ON CONFLICT DO NOTHING.                      *)
Record(c, outcome) ==
    records' = IF \E x \in records : x.id = Id(c) THEN records
               ELSE records \cup {[id |-> Id(c), request |-> Req(c), outcome |-> outcome]}

Done(c) == IF caller[c].dryRun THEN "dry_run" ELSE "success"

Persist(c) ==
    /\ At(c, "persist")
    /\ Record(c, Done(c))
    /\ \/ Keyed(c) /\ Enter(c, "complete")
       \/ ~ Keyed(c) /\ Return(c, Done(c), Id(c))
    /\ UNCHANGED <<grants, keys, ledger, counts>>

Complete(c) ==
    /\ At(c, "complete")
    /\ keys' = [keys EXCEPT ![Key(c)].state = "completed", ![Key(c)].outcome = Id(c)]
    /\ Return(c, "success", Id(c))
    /\ UNCHANGED <<grants, records, ledger, counts>>

(* Mutation: an error that is no WorkerError counts as permanent.          *)
Bug_FaultIsPermanent(c) ==
    /\ At(c, "persist") \/ At(c, "complete")
    /\ faults < MaxFaults /\ faults' = faults + 1
    /\ Catch(c, FALSE)
    /\ UNCHANGED <<grants, db, ledger, crashes, regrants>>

(* A database error in either of the two lands in the same catch as the    *)
(* connector's; it is no WorkerError, so it counts as retryable.           *)
FaultInTry(c) ==
    /\ At(c, "persist") \/ At(c, "complete")
    /\ faults < MaxFaults /\ faults' = faults + 1
    /\ Catch(c, TRUE)
    /\ UNCHANGED <<grants, db, ledger, crashes, regrants>>

PersistFailure(c) ==
    /\ At(c, "persistFailure")
    /\ Record(c, "failure")
    /\ \/ Keyed(c) /\ ~ caller[c].retryable /\ Enter(c, "close")
       \/ ~ (Keyed(c) /\ ~ caller[c].retryable) /\ Return(c, "failure", Id(c))
    /\ UNCHANGED <<grants, keys, ledger, counts>>

FailPermanently(c) ==
    /\ At(c, "close")
    /\ keys' = [keys EXCEPT ![Key(c)].state = "failed_permanent"]
    /\ Return(c, "failure", Id(c))
    /\ UNCHANGED <<grants, records, ledger, counts>>

(* A database error anywhere else rejects the promise invoke returned.     *)
FaultOutsideTry(c) ==
    /\ caller[c].pc \in {"grant", "reserve", "persistFailure", "close"}
    /\ faults < MaxFaults /\ faults' = faults + 1
    /\ Return(c, "rejected", None)
    /\ UNCHANGED <<grants, db, ledger, crashes, regrants>>

(* The process dies: its caller forgets everything, the database nothing.  *)
Crash(c) ==
    /\ ~ At(c, "idle") /\ crashes < MaxCrashes /\ crashes' = crashes + 1
    /\ Return(c, "none", None)
    /\ UNCHANGED <<grants, db, ledger, faults, regrants>>

(* An operator graduates, demotes or revokes a tool.                       *)
Regrant(t, g) ==
    /\ g # grants[t] /\ regrants < MaxRegrants /\ regrants' = regrants + 1
    /\ grants' = [grants EXCEPT ![t] = g]
    /\ UNCHANGED <<db, ledger, caller, answer, crashes, faults>>

Step(c) ==
    \/ LoadGrant(c) \/ ReserveWins(c) \/ ReserveLoses(c)
    \/ Perform(c) \/ ProviderFails(c) \/ AnswerLost(c)
    \/ Persist(c) \/ Complete(c) \/ FaultInTry(c)
    \/ PersistFailure(c) \/ FailPermanently(c) \/ FaultOutsideTry(c)
    \/ Crash(c)

Next ==
    \/ \E c \in Callers : (\E r \in Requests : Arrive(c, r)) \/ Step(c)
    \/ \E t \in Tools, g \in Grants \cup {None} : Regrant(t, g)

Spec == Init /\ [][Next]_vars

-----------------------------------------------------------------------------
(* Properties                                                              *)

(* A retry can never double-post: however callers race, retry and die, a   *)
(* provider performs at most one live call under an idempotency key        *)
(* (#reserve).                                                             *)
OneEffectPerKey ==
    \A i, j \in 1..Len(ledger) :
        ledger[i].request.key # None /\ ledger[i].request.key = ledger[j].request.key
            => i = j

(* No state-changing call reaches a provider for real from an environment  *)
(* that forces dry runs, nor without a key, Execute autonomy, a verdict    *)
(* and, for what cannot be undone, an approval (the checks of invoke).     *)
LiveWritesAuthorised ==
    \A i \in 1..Len(ledger) : LET r == ledger[i].request IN
        EntryOf(r).stateChanging =>
            /\ ~ ForceDryRun /\ Declared(r) /\ r.key # None
            /\ r.autonomy = "execute" /\ r.verdict
            /\ EntryOf(r).irreversible => r.approval

(* Success under a key, fresh or replayed, is always backed by a live call *)
(* the provider performed for the same tool and the same arguments, and    *)
(* the answer names that very call.                                        *)
SuccessNamesItsEffect ==
    \A c \in Callers :
        answer[c].kind \in {"success", "replay"} /\ At(c, "idle") =>
            \E i \in 1..Len(ledger) :
                /\ ledger[i].id = answer[c].id
                /\ ledger[i].request.key = Key(c)
                /\ Hash(ledger[i].request) = Hash(Req(c))

(* What a key replays is on record: by the time a key is completed, its    *)
(* outcome is a success row of tool_calls, wherever a caller died (#persist*)
(* commits before #complete).                                              *)
ReplayedOutcomeRecorded ==
    \A k \in Keys : keys[k].state = "completed" =>
        \E x \in records :
            x.id = keys[k].outcome /\ x.request.key = k /\ x.outcome = "success"

(* A key closed as a permanent failure stands for a call the provider did  *)
(* not perform: an error after the effect leaves it in flight instead.     *)
FailedKeyHadNoEffect ==
    \A k \in Keys : keys[k].state = "failed_permanent" =>
        \A i \in 1..Len(ledger) : ledger[i].request.key # k

(* A key is bound to one payload for good, and once it is settled neither  *)
(* its state nor the outcome it replays changes.                           *)
SettledKeysStay ==
    [][\A k \in Keys :
          /\ keys[k].state # "absent" => keys'[k].hash = keys[k].hash
          /\ keys[k].state \in {"completed", "failed_permanent"} => keys'[k] = keys[k]]_vars

(* "A permanent failure closes the key so a later identical call returns   *)
(* the same failure rather than trying again forever": an identical call   *)
(* is only told to try again while the original is in flight.              *)
PermanentFailureIsReturned ==
    [][\A c \in Callers :
          At(c, "reserve") /\ answer'[c].kind = "duplicate"
              => keys[Key(c)].state = "in_flight"]_vars
=============================================================================
