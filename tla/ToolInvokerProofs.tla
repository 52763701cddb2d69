-------------------------- MODULE ToolInvokerProofs --------------------------
(***************************************************************************)
(* Theorems about the tool invoker, for every registry, any number of      *)
(* callers, keys and requests, and every value of the bounds.              *)
(***************************************************************************)
EXTENDS ToolInvoker, TLAPS

-----------------------------------------------------------------------------
(* The inductive invariant.                                                *)

(* After its insert has won, until it returns, a caller holds its key.     *)
Trying == {"perform", "persist", "complete", "persistFailure", "close"}
Holds(c) == caller[c].pc \in Trying /\ Keyed(c)

Fit(r) ==
    EntryOf(r).stateChanging =>
        /\ ~ ForceDryRun /\ Declared(r) /\ r.key # None
        /\ r.autonomy = "execute" /\ r.verdict
        /\ EntryOf(r).irreversible => r.approval

(* What the checks of invoke have established by each point of it.         *)
Checked(c) ==
    /\ ~ At(c, "idle") => Declared(Req(c))
    /\ caller[c].pc \in Trying \cup {"reserve"} /\ ~ caller[c].dryRun => Fit(Req(c))
    /\ At(c, "grant") => ~ caller[c].dryRun
    /\ caller[c].pc \in {"reserve", "complete", "close"} => Keyed(c)
    /\ At(c, "close") => ~ caller[c].retryable

Performed(k) == \E i \in 1..Len(ledger) : ledger[i].request.key = k

(* What the holder of a key has still to do tells whether the provider     *)
(* performed the call.                                                     *)
Held(c) ==
    Holds(c) =>
        /\ keys[Key(c)].state = "in_flight" /\ keys[Key(c)].hash = Hash(Req(c))
        /\ At(c, "perform") => ~ Performed(Key(c))
        /\ caller[c].pc \in {"persistFailure", "close"} /\ ~ caller[c].retryable
              => ~ Performed(Key(c))

(* tool_call_ids are never used twice.                                     *)
Fresh(c) ==
    /\ \A x \in records : x.id[1] = c => x.id[2] <= caller[c].n
    /\ caller[c].pc \in {"grant", "reserve", "perform", "persist"} =>
          \A x \in records : x.id # Id(c)

Backed(id, k, h) ==
    \E i \in 1..Len(ledger) :
        ledger[i].id = id /\ ledger[i].request.key = k /\ Hash(ledger[i].request) = h

Booked(id, k) ==
    \E x \in records : x.id = id /\ x.request.key = k /\ x.outcome = "success"

(* The effect and the row behind an outcome about to be returned.          *)
Traced(c) ==
    /\ caller[c].pc \in {"persist", "complete"} /\ ~ caller[c].dryRun
          => Backed(Id(c), Key(c), Hash(Req(c)))
    /\ At(c, "complete") => Booked(Id(c), Key(c))
    /\ At(c, "idle") /\ answer[c].kind \in {"success", "replay"}
          => Backed(answer[c].id, Key(c), Hash(Req(c)))

Exclusive == \A c, d \in Callers : Holds(c) /\ Holds(d) /\ Key(c) = Key(d) => c = d

(* The same for the keys themselves.                                       *)
Settled(k) ==
    /\ keys[k].state \in {"absent", "failed_permanent"} => ~ Performed(k)
    /\ keys[k].state = "completed" =>
          Backed(keys[k].outcome, k, keys[k].hash) /\ Booked(keys[k].outcome, k)

Sound(c) == Checked(c) /\ Held(c) /\ Fresh(c) /\ Traced(c)

IInv ==
    /\ TypeOK /\ Exclusive /\ OneEffectPerKey /\ LiveWritesAuthorised
    /\ \A c \in Callers : Sound(c)
    /\ \A k \in Keys : Settled(k)

-----------------------------------------------------------------------------
(* The steps, one at a time.                                               *)

(* A step of one caller leaves the locals and the answers of the others    *)
(* alone.                                                                  *)
Frame(c) ==
    /\ caller' \in [Callers -> Local]
    /\ answer' \in [Callers -> [kind : Answers, id : Ids \cup {None}]]
    /\ \A d \in Callers \ {c} : caller'[d] = caller[d] /\ answer'[d] = answer[d]

(* Enter moves one caller on and keeps all answers.                        *)
LEMMA EnterFrame ==
    ASSUME TypeOK, NEW c \in Callers, NEW pc \in PCs, Enter(c, pc)
    PROVE  Frame(c) /\ caller'[c] = [caller[c] EXCEPT !.pc = pc] /\ answer'[c] = answer[c]
    BY DEF TypeOK, Enter, Frame, Local

(* Return sends one caller home with an answer.                            *)
LEMMA ReturnFrame ==
    ASSUME TypeOK, NEW c \in Callers, NEW kind \in Answers,
           NEW id \in Ids \cup {None}, Return(c, kind, id)
    PROVE  /\ Frame(c)
           /\ caller'[c] = [caller[c] EXCEPT !.pc = "idle"]
           /\ answer'[c] = [kind |-> kind, id |-> id]
    BY DEF TypeOK, Return, Frame, Local, PCs

(* Proceed reaches the connector or fails for the lack of one.             *)
LEMMA ProceedFrame ==
    ASSUME TypeOK, NEW c \in Callers, NEW dry \in BOOLEAN, Proceed(c, dry)
    PROVE  /\ Frame(c)
           /\ \/ /\ caller'[c] = [caller[c] EXCEPT !.pc = "perform", !.dryRun = dry]
                 /\ answer'[c] = answer[c]
              \/ /\ caller'[c] = [caller[c] EXCEPT !.pc = "idle", !.dryRun = dry]
                 /\ answer'[c] = [kind |-> "failure", id |-> None]
<1>. DEFINE served == EntryOf(Req(c)).served
            pc == IF served THEN "perform" ELSE "idle"
<1>1. caller[c] \in Local /\ pc \in PCs
    BY DEF TypeOK, PCs
<1>2. [caller[c] EXCEPT !.dryRun = dry, !.pc = pc] \in Local
    BY <1>1 DEF Local
<1>3. caller' = [caller EXCEPT ![c] = [caller[c] EXCEPT !.dryRun = dry, !.pc = pc]]
    BY DEF Proceed, TypeOK
<1>4. /\ caller' \in [Callers -> Local]
      /\ caller'[c] = [caller[c] EXCEPT !.dryRun = dry, !.pc = pc]
      /\ \A d \in Callers \ {c} : caller'[d] = caller[d]
    BY <1>2, <1>3 DEF TypeOK
<1>5. [caller[c] EXCEPT !.dryRun = dry, !.pc = pc] = [caller[c] EXCEPT !.pc = pc, !.dryRun = dry]
    BY <1>1 DEF Local
<1>6. answer' = IF served THEN answer
                ELSE [answer EXCEPT ![c] = [kind |-> "failure", id |-> None]]
    BY DEF Proceed
<1>7. /\ answer' \in [Callers -> [kind : Answers, id : Ids \cup {None}]]
      /\ \A d \in Callers \ {c} : answer'[d] = answer[d]
      /\ answer'[c] = IF served THEN answer[c] ELSE [kind |-> "failure", id |-> None]
    BY <1>6 DEF TypeOK, Answers
<1>. QED
    BY <1>4, <1>5, <1>7 DEF Frame

(* Catch turns an error into a failure still to be recorded.               *)
LEMMA CatchFrame ==
    ASSUME TypeOK, NEW c \in Callers, NEW again \in BOOLEAN, Catch(c, again)
    PROVE  /\ Frame(c)
           /\ caller'[c] = [caller[c] EXCEPT !.pc = "persistFailure", !.retryable = again]
           /\ answer'[c] = answer[c]
<1>1. caller \in [Callers -> Local] /\ caller[c] \in Local /\ answer' = answer
    BY DEF TypeOK, Catch
<1>2. caller' = [caller EXCEPT ![c] = [caller[c] EXCEPT !.pc = "persistFailure", !.retryable = again]]
    BY <1>1 DEF Catch, Local
<1>3. [caller[c] EXCEPT !.pc = "persistFailure", !.retryable = again] \in Local
    BY <1>1 DEF Local, PCs
<1>4. /\ caller' \in [Callers -> Local] /\ \A d \in Callers \ {c} : caller'[d] = caller[d]
      /\ caller'[c] = [caller[c] EXCEPT !.pc = "persistFailure", !.retryable = again]
    BY <1>1, <1>2, <1>3
<1>. QED
    BY <1>1, <1>4 DEF Frame, TypeOK

(* Arrive starts a new invocation.                                         *)
LEMMA ArriveFrame ==
    ASSUME TypeOK, NEW c \in Callers, NEW r \in Requests, Arrive(c, r)
    PROVE  /\ Frame(c)
           /\ caller'[c] = [pc |-> IF Declared(r) THEN "grant" ELSE "idle",
                            n |-> caller[c].n + 1, request |-> r,
                            dryRun |-> FALSE, retryable |-> TRUE]
           /\ answer'[c].kind \in {"none", "refused"}
    BY DEF TypeOK, Arrive, Frame, Local, PCs, Answers

(* The ids of the calls of a caller are tool_call_ids.                     *)
LEMMA IdType ==
    ASSUME TypeOK, NEW c \in Callers
    PROVE  Id(c) \in Ids /\ Req(c) \in Requests
    BY DEF TypeOK, Id, Ids, Req, Local

(* A step that touches neither the database nor the ledger, and gives no   *)
(* caller a key, only has to leave its own caller sound.                   *)
LEMMA QuietStep ==
    ASSUME IInv, NEW c \in Callers, Frame(c), TypeOK', UNCHANGED <<db, ledger>>,
           Holds(c)' => Holds(c) /\ Key(c)' = Key(c),
           Sound(c)'
    PROVE  IInv'
<1>1. ASSUME NEW d \in Callers \ {c}
      PROVE  Sound(d)'
    <2>1. caller'[d] = caller[d] /\ answer'[d] = answer[d] /\ Sound(d)
        BY DEF Frame, IInv
    <2>2. Checked(d)'
        BY <2>1 DEF Sound, Checked, Keyed, Key, Req, At
    <2>3. Held(d)'
        BY <2>1 DEF Sound, Held, Holds, Keyed, Key, Req, At, Performed, db
    <2>4. Fresh(d)'
        BY <2>1 DEF Sound, Fresh, Id, db
    <2>5. Traced(d)'
        BY <2>1 DEF Sound, Traced, Key, Req, At, Id, Backed, Booked, db
    <2>. QED
        BY <2>2, <2>3, <2>4, <2>5 DEF Sound
<1>2. Exclusive'
    BY DEF IInv, Frame, Exclusive, Holds, Keyed, Key, Req
<1>3. OneEffectPerKey' /\ LiveWritesAuthorised'
    BY DEF IInv, OneEffectPerKey, LiveWritesAuthorised
<1>4. \A k \in Keys : Settled(k)'
    BY DEF IInv, Settled, Performed, Backed, Booked, db
<1>. QED
    BY <1>1, <1>2, <1>3, <1>4 DEF IInv

(* A step that writes only the record of a key the others do not hold, and *)
(* adds only to the ledger and to the call records under an id of its own, *)
(* leaves the other callers sound.                                         *)
LEMMA OthersSound ==
    ASSUME IInv, NEW c \in Callers, Frame(c),
           \A d \in Callers \ {c} : Holds(d) =>
               /\ keys'[Key(d)] = keys[Key(d)]
               /\ Performed(Key(d))' => Performed(Key(d)),
           \A id, k, h : Backed(id, k, h) => Backed(id, k, h)',
           records \subseteq records',
           \A x \in records' : x \in records \/ x.id = Id(c)
    PROVE  \A d \in Callers \ {c} : Sound(d)'
<1>. SUFFICES ASSUME NEW d \in Callers \ {c}
              PROVE  Sound(d)'
    OBVIOUS
<1>1. caller'[d] = caller[d] /\ answer'[d] = answer[d] /\ Sound(d)
    BY DEF Frame, IInv
<1>2. Checked(d)'
    BY <1>1 DEF Sound, Checked, Keyed, Key, Req, At
<1>3. Held(d)'
    <2>1. ASSUME Holds(d)'
          PROVE  Holds(d) /\ Key(d)' = Key(d) /\ Req(d)' = Req(d) /\ (At(d, "perform")' <=> At(d, "perform"))
        BY <1>1, <2>1 DEF Holds, Keyed, Key, Req, At
    <2>2. ASSUME Holds(d)'
          PROVE  Performed(Key(d))' => Performed(Key(d))
        BY <2>1, <2>2, <1>1 DEF Performed, Key, Req
    <2>. QED
        BY <1>1, <2>1, <2>2 DEF Sound, Held
<1>4. Fresh(d)'
    BY <1>1 DEF Sound, Fresh, Id
<1>5. Traced(d)'
    <2>1. /\ Id(d)' = Id(d) /\ Key(d)' = Key(d) /\ Req(d)' = Req(d)
          /\ \A pc : At(d, pc)' <=> At(d, pc)
        BY <1>1 DEF Id, Key, Req, At
    <2>2. \A id, k : Booked(id, k) => Booked(id, k)'
        BY DEF Booked
    <2>3. Hash(Req(d))' = Hash(Req(d))
        BY <2>1 DEF Hash
    <2>. QED
        BY <1>1, <2>1, <2>2, <2>3 DEF Sound, Traced
<1>. QED
    BY <1>2, <1>3, <1>4, <1>5 DEF Sound

(* Arrive: registry and scope are checked before anything is read.         *)
LEMMA ArriveStep ==
    ASSUME IInv, NEW c \in Callers, NEW r \in Requests, Arrive(c, r)
    PROVE  IInv'
<1>1. /\ TypeOK /\ Sound(c) /\ Frame(c) /\ answer'[c].kind \in {"none", "refused"}
      /\ caller'[c] = [pc |-> IF Declared(r) THEN "grant" ELSE "idle",
                       n |-> caller[c].n + 1, request |-> r,
                       dryRun |-> FALSE, retryable |-> TRUE]
    BY ArriveFrame DEF IInv
<1>2. UNCHANGED <<grants, db, ledger, counts>>
    BY DEF Arrive
<1>3. TypeOK'
    BY <1>1, <1>2 DEF TypeOK, Frame, db, counts
<1>4. caller[c].n \in Nat /\ ~ Holds(c)'
    BY <1>1 DEF TypeOK, Local, Holds, Trying
<1>5. Checked(c)'
    BY <1>1 DEF Checked, At, Req, Keyed, Trying
<1>6. Held(c)' /\ Traced(c)'
    BY <1>1, <1>4 DEF Held, Traced, At
<1>7. Fresh(c)'
    BY <1>1, <1>2, <1>4 DEF Sound, Fresh, Id, db, TypeOK, CallRecord, Ids
<1>. QED
    BY <1>1, <1>2, <1>3, <1>4, <1>5, <1>6, <1>7, QuietStep DEF Sound

(* LoadGrant: what is not refused is fit to be performed for real, or is a *)
(* rehearsal.                                                              *)
LEMMA LoadGrantStep ==
    ASSUME IInv, NEW c \in Callers, LoadGrant(c)
    PROVE  IInv'
<1>. DEFINE r == Req(c)
            g == grants[Req(c).tool]
<1>1. TypeOK /\ Sound(c) /\ At(c, "grant") /\ Declared(r) /\ UNCHANGED <<grants, db, ledger, counts>>
    BY DEF IInv, LoadGrant, Sound, Checked, At
<1>2. caller[c] \in Local /\ DryRun(r, g) \in BOOLEAN
    BY <1>1 DEF TypeOK, DryRun
<1>3. ~ Refused(r, g) /\ ~ DryRun(r, g) => Fit(r)
    BY <1>1, RegistryAssumption, InputAssumption
       DEF Refused, Authorised, HasKey, DryRun, Fit, EntryOf, Declared
<1>4. CASE Refused(r, g) /\ Return(c, "refused", None)
    <2>1. /\ Frame(c) /\ caller'[c] = [caller[c] EXCEPT !.pc = "idle"]
          /\ answer'[c] = [kind |-> "refused", id |-> None]
        BY <1>1, <1>4, ReturnFrame DEF Answers
    <2>2. TypeOK'
        BY <2>1, <1>1 DEF TypeOK, Frame, db, counts
    <2>3. ~ Holds(c)' /\ Checked(c)' /\ Held(c)' /\ Traced(c)' /\ Fresh(c)'
        BY <1>1, <1>2, <2>1 DEF Local, Sound, Checked, Held, Traced, Fresh, Holds, Trying, At, Id, db
    <2>. QED
        BY <1>1, <2>1, <2>2, <2>3, QuietStep DEF Sound
<1>5. CASE /\ ~ Refused(r, g) /\ (r.key = None \/ DryRun(r, g))
           /\ Proceed(c, DryRun(r, g))
    <2>0. /\ Frame(c)
          /\ \/ /\ caller'[c] = [caller[c] EXCEPT !.pc = "perform", !.dryRun = DryRun(r, g)]
                /\ answer'[c] = answer[c]
             \/ /\ caller'[c] = [caller[c] EXCEPT !.pc = "idle", !.dryRun = DryRun(r, g)]
                /\ answer'[c] = [kind |-> "failure", id |-> None]
        BY <1>1, <1>2, <1>5, ProceedFrame
    <2>1. PICK pc \in {"perform", "idle"} :
             /\ Frame(c)
             /\ caller'[c] = [caller[c] EXCEPT !.pc = pc, !.dryRun = DryRun(r, g)]
             /\ pc = "idle" => answer'[c].kind = "failure"
        BY <2>0
    <2>2. TypeOK'
        BY <2>1, <1>1 DEF TypeOK, Frame, db, counts
    <2>3. /\ caller'[c].request = caller[c].request /\ caller'[c].pc = pc
          /\ caller'[c].dryRun = DryRun(r, g) /\ caller'[c].n = caller[c].n
        BY <1>2, <2>1 DEF Local
    <2>4. ~ Holds(c)' /\ Held(c)'
        BY <1>5, <2>3 DEF Holds, Keyed, Key, Req, Held
    <2>5. Traced(c)' /\ Fresh(c)'
        BY <1>1, <2>1, <2>3 DEF Sound, Traced, Fresh, At, Id, db
    <2>6. Declared(Req(c))' /\ (~ DryRun(r, g) => Fit(Req(c))')
        BY <1>1, <1>3, <1>5, <2>3 DEF Fit, EntryOf, Declared, Req
    <2>7. Checked(c)'
        BY <2>3, <2>6 DEF Checked, At
    <2>. QED
        BY <1>1, <2>1, <2>2, <2>4, <2>5, <2>7, QuietStep DEF Sound
<1>6. CASE /\ ~ Refused(r, g) /\ r.key # None /\ ~ DryRun(r, g)
           /\ Enter(c, "reserve")
    <2>1. /\ Frame(c) /\ answer'[c] = answer[c]
          /\ caller'[c] = [caller[c] EXCEPT !.pc = "reserve"]
        BY <1>1, <1>6, EnterFrame DEF PCs
    <2>2. TypeOK'
        BY <2>1, <1>1 DEF TypeOK, Frame, db, counts
    <2>3. ~ caller[c].dryRun
        BY <1>1 DEF Sound, Checked
    <2>4. ~ Holds(c)' /\ Held(c)' /\ Traced(c)' /\ Fresh(c)'
        BY <1>1, <1>2, <2>1 DEF Local, Sound, Held, Traced, Fresh, Holds, Trying, At, Id, db
    <2>5. /\ Req(c)' = r /\ caller'[c].pc = "reserve" /\ ~ caller'[c].dryRun
          /\ caller'[c].retryable = caller[c].retryable
        BY <1>2, <2>1, <2>3 DEF Local, Req
    <2>6. Fit(Req(c))' /\ Declared(Req(c))'
        BY <1>1, <1>3, <1>6, <2>5 DEF Fit, EntryOf, Declared
    <2>7. Checked(c)'
        BY <1>6, <2>5, <2>6 DEF Checked, At, Keyed, Key
    <2>. QED
        BY <1>1, <2>1, <2>2, <2>4, <2>7, QuietStep DEF Sound
<1>. QED
    BY <1>4, <1>5, <1>6 DEF LoadGrant

(* ReserveLoses: what is replayed has its effect behind it.                *)
LEMMA ReserveLosesStep ==
    ASSUME IInv, NEW c \in Callers, ReserveLoses(c)
    PROVE  IInv'
<1>. DEFINE held == keys[Key(c)]
<1>1. /\ TypeOK /\ Sound(c) /\ At(c, "reserve") /\ Keyed(c)
      /\ UNCHANGED <<grants, db, ledger, counts>>
    BY DEF IInv, ReserveLoses, Sound, Checked, At
<1>2. caller[c] \in Local /\ Key(c) \in Keys /\ held \in KeyRecord
    BY <1>1, InputAssumption DEF TypeOK, Local, Keyed, Key, Req, Request
<1>3. PICK kind \in {"conflict", "replay", "duplicate"}, id \in Ids \cup {None} :
          /\ Return(c, kind, id)
          /\ kind = "replay" => /\ held.hash = Hash(Req(c)) /\ held.state = "completed"
                                /\ id = held.outcome
    BY <1>2 DEF ReserveLoses, KeyRecord
<1>4. /\ Frame(c) /\ caller'[c] = [caller[c] EXCEPT !.pc = "idle"]
      /\ answer'[c] = [kind |-> kind, id |-> id]
    BY <1>1, <1>3, ReturnFrame DEF Answers
<1>5. TypeOK'
    BY <1>1, <1>4 DEF TypeOK, Frame, db, counts
<1>6. /\ caller'[c].pc = "idle" /\ Req(c)' = Req(c) /\ caller'[c].n = caller[c].n
      /\ answer'[c].kind = kind /\ answer'[c].id = id
    BY <1>2, <1>4 DEF Local, Req
<1>7. ~ Holds(c)' /\ Checked(c)' /\ Held(c)' /\ Fresh(c)'
    BY <1>1, <1>6 DEF Holds, Trying, Checked, Held, At, Fresh, Sound, Id, db
<1>8. kind = "replay" => Backed(id, Key(c), Hash(Req(c)))
    BY <1>2, <1>3 DEF IInv, Settled
<1>9. Traced(c)'
    BY <1>1, <1>3, <1>6, <1>8 DEF Traced, At, Backed, Hash, Key
<1>. QED
    BY <1>1, <1>4, <1>5, <1>7, <1>9, QuietStep DEF Sound

(* An error caught in the try block: the caller keeps its key.             *)
LEMMA CatchStep ==
    ASSUME IInv, NEW c \in Callers, NEW again \in BOOLEAN,
           Catch(c, again), UNCHANGED <<grants, db, ledger>>,
           TypeOK', caller[c].pc \in {"perform", "persist", "complete"},
           At(c, "perform") \/ again
    PROVE  IInv'
<1>1. TypeOK /\ Sound(c) /\ caller[c] \in Local
    BY DEF IInv, TypeOK
<1>2. /\ Frame(c) /\ answer'[c] = answer[c]
      /\ caller'[c] = [caller[c] EXCEPT !.pc = "persistFailure", !.retryable = again]
    BY <1>1, CatchFrame
<1>3. /\ caller'[c].pc = "persistFailure" /\ Req(c)' = Req(c) /\ caller'[c].n = caller[c].n
      /\ caller'[c].dryRun = caller[c].dryRun /\ caller'[c].retryable = again
    BY <1>1, <1>2 DEF Local, Req
<1>4. Holds(c)' => Holds(c) /\ Key(c)' = Key(c)
    BY <1>3 DEF Holds, Trying, Keyed, Key
<1>5. Checked(c)'
    BY <1>1, <1>3 DEF Sound, Checked, At, Trying, Fit, Declared, EntryOf
<1>6. Held(c)'
    BY <1>1, <1>3, <1>4 DEF Sound, Held, At, Performed, Hash, db
<1>7. Fresh(c)' /\ Traced(c)'
    BY <1>1, <1>3 DEF Sound, Fresh, Traced, At, db
<1>. QED
    BY <1>1, <1>2, <1>4, <1>5, <1>6, <1>7, QuietStep DEF Sound

(* A caller that rejects or dies lets go of its key, which stays in flight.*)
LEMMA AbandonStep ==
    ASSUME IInv, NEW c \in Callers, NEW kind \in {"none", "rejected"},
           Return(c, kind, None), UNCHANGED <<grants, db, ledger>>, TypeOK'
    PROVE  IInv'
<1>1. TypeOK /\ Sound(c) /\ caller[c] \in Local
    BY DEF IInv, TypeOK
<1>2. /\ Frame(c) /\ caller'[c] = [caller[c] EXCEPT !.pc = "idle"]
      /\ answer'[c] = [kind |-> kind, id |-> None]
    BY <1>1, ReturnFrame DEF Answers
<1>3. /\ caller'[c].pc = "idle" /\ Req(c)' = Req(c) /\ caller'[c].n = caller[c].n
      /\ answer'[c].kind = kind
    BY <1>1, <1>2 DEF Local, Req
<1>4. ~ Holds(c)' /\ Checked(c)' /\ Held(c)' /\ Fresh(c)' /\ Traced(c)'
    BY <1>1, <1>3 DEF Holds, Trying, Checked, Held, Traced, At, Fresh, Sound, Id, db
<1>. QED
    BY <1>1, <1>2, <1>4, QuietStep DEF Sound

(* ReserveWins: the winner of the insert is the only holder of its key,    *)
(* and nothing has been performed under it yet.                            *)
LEMMA ReserveWinsStep ==
    ASSUME IInv, NEW c \in Callers, ReserveWins(c)
    PROVE  IInv'
<1>. DEFINE k == Key(c)
<1>1. /\ TypeOK /\ Sound(c) /\ caller[c].pc = "reserve" /\ Keyed(c) /\ Declared(Req(c))
      /\ ~ caller[c].dryRun /\ Fit(Req(c)) /\ keys[k].state = "absent"
      /\ UNCHANGED <<grants, records, ledger, counts>>
    BY DEF IInv, ReserveWins, Sound, Checked, At, Keyed
<1>2. caller[c] \in Local /\ k \in Keys /\ Req(c) \in Requests /\ Hash(Req(c)) \in Hashes
    BY <1>1, InputAssumption DEF TypeOK, Local, Keyed, Key, Req, Request, Hash, Hashes, Declared
<1>3. keys' = [keys EXCEPT ![k] =
          [state |-> "in_flight", hash |-> Hash(Req(c)), outcome |-> None]]
    BY DEF ReserveWins
<1>4. /\ Frame(c)
      /\ \/ /\ caller'[c] = [caller[c] EXCEPT !.pc = "perform", !.dryRun = FALSE]
            /\ answer'[c] = answer[c]
         \/ /\ caller'[c] = [caller[c] EXCEPT !.pc = "idle", !.dryRun = FALSE]
            /\ answer'[c] = [kind |-> "failure", id |-> None]
    BY <1>1, ProceedFrame DEF ReserveWins
<1>5. /\ caller'[c].pc \in {"perform", "idle"} /\ ~ caller'[c].dryRun
      /\ caller'[c].request = caller[c].request /\ caller'[c].n = caller[c].n
      /\ caller'[c].pc = "idle" => answer'[c].kind = "failure"
    <2>1. CASE caller'[c] = [caller[c] EXCEPT !.pc = "perform", !.dryRun = FALSE]
        BY <1>2, <2>1 DEF Local
    <2>2. CASE /\ caller'[c] = [caller[c] EXCEPT !.pc = "idle", !.dryRun = FALSE]
               /\ answer'[c] = [kind |-> "failure", id |-> None]
        BY <1>2, <2>2 DEF Local
    <2>. QED
        BY <1>4, <2>1, <2>2
<1>6. /\ keys' \in [Keys -> KeyRecord]
      /\ keys'[k].state = "in_flight" /\ keys'[k].hash = Hash(Req(c))
      /\ \A j \in Keys \ {k} : keys'[j] = keys[j]
    BY <1>1, <1>2, <1>3 DEF TypeOK, KeyRecord
<1>7. TypeOK'
    BY <1>1, <1>4, <1>6 DEF TypeOK, Frame, counts
<1>8. \A d \in Callers \ {c} : Holds(d) => Key(d) \in Keys /\ Key(d) # k
    BY <1>1, InputAssumption
       DEF IInv, Sound, Held, TypeOK, Local, Request, Holds, Keyed, Key, Req
<1>9. \A d \in Callers \ {c} : Sound(d)'
    <2>1. \A id, j, h : Backed(id, j, h) => Backed(id, j, h)'
        BY <1>1 DEF Backed
    <2>2. \A j : Performed(j)' => Performed(j)
        BY <1>1 DEF Performed
    <2>3. \A d \in Callers \ {c} : Performed(Key(d))' => Performed(Key(d))
        <3>1. \A d \in Callers \ {c} : Key(d)' = Key(d)
            BY <1>4 DEF Frame, Key, Req
        <3>. QED
            BY <2>2, <3>1 DEF Performed
    <2>. QED
        BY <1>1, <1>4, <1>6, <1>8, <2>1, <2>3, OthersSound
<1>10. ~ Performed(k)
    BY <1>1, <1>2 DEF IInv, Settled
<1>11. Sound(c)'
    <2>1. Req(c)' = Req(c) /\ Key(c)' = k /\ Keyed(c)' /\ (Performed(k)' <=> Performed(k))
        BY <1>1, <1>5 DEF Req, Key, Keyed, Performed
    <2>2. Checked(c)'
        BY <1>1, <1>5, <2>1 DEF Checked, At, Fit, Declared, EntryOf
    <2>3. Held(c)'
        BY <1>5, <1>6, <1>10, <2>1 DEF Held, At, Hash, Performed
    <2>4. Fresh(c)' /\ Traced(c)'
        BY <1>1, <1>5 DEF Sound, Fresh, Traced, At, Id
    <2>. QED
        BY <2>2, <2>3, <2>4 DEF Sound
<1>12. Exclusive'
    BY <1>1, <1>4, <1>5, <1>8 DEF IInv, Exclusive, Frame, Holds, Keyed, Key, Req
<1>13. OneEffectPerKey' /\ LiveWritesAuthorised'
    BY <1>1 DEF IInv, OneEffectPerKey, LiveWritesAuthorised
<1>14. \A j \in Keys : Settled(j)'
    <2>1. \A j \in Keys \ {k} : Settled(j)'
        BY <1>1, <1>6 DEF IInv, Settled, Performed, Backed, Booked
    <2>. QED
        BY <1>6, <2>1 DEF Settled
<1>. QED
    BY <1>7, <1>9, <1>11, <1>12, <1>13, <1>14 DEF IInv

(* A live call: it is the first under its key, and fit to be performed.    *)
LEMMA LiveCall ==
    ASSUME IInv, NEW c \in Callers, At(c, "perform"), ~ caller[c].dryRun,
           Frame(c), UNCHANGED <<db>>, TypeOK',
           ledger' = Append(ledger, [id |-> Id(c), request |-> Req(c)]),
           Req(c)' = Req(c), caller'[c].n = caller[c].n, ~ caller'[c].dryRun,
           caller'[c].pc = "persist" \/ (caller'[c].pc = "persistFailure" /\ caller'[c].retryable)
    PROVE  IInv'
<1>. DEFINE e == [id |-> Id(c), request |-> Req(c)]
<1>1. TypeOK /\ Sound(c) /\ caller[c] \in Local /\ Req(c) \in Requests
    BY DEF IInv, TypeOK, Local, Req
<1>2. /\ Len(ledger') = Len(ledger) + 1 /\ ledger'[Len(ledger) + 1] = e
      /\ \A i \in 1..Len(ledger) : ledger'[i] = ledger[i]
      /\ Len(ledger) \in Nat
    <2>1. ledger \in Seq([id : Ids, request : Requests]) /\ e \in [id : Ids, request : Requests]
        BY <1>1, IdType DEF TypeOK
    <2>. QED
        BY <2>1
<1>3. 1..Len(ledger') = (1..Len(ledger)) \cup {Len(ledger) + 1}
    BY <1>2
<1>4. \A j : Performed(j)' <=> Performed(j) \/ j = Key(c)
    BY <1>2, <1>3 DEF Performed, Key
<1>5. /\ \A id, j, h : Backed(id, j, h) => Backed(id, j, h)'
      /\ Backed(Id(c), Key(c), Hash(Req(c)))'
    <2>1. \A id, j, h : Backed(id, j, h) => Backed(id, j, h)'
        BY <1>2, <1>3 DEF Backed, Hash
    <2>2. Id(c)' = Id(c) /\ Key(c)' = Key(c)
        BY DEF Id, Key
    <2>3. Backed(Id(c), Key(c), Hash(Req(c)))'
        BY <1>2, <1>3, <2>2 DEF Backed, Hash, Key
    <2>. QED
        BY <2>1, <2>3
<1>6. Checked(c) /\ Fit(Req(c)) /\ (Key(c) # None => Holds(c) /\ ~ Performed(Key(c)))
    BY <1>1 DEF Sound, Checked, Held, Holds, Trying, Keyed, At
<1>7. Holds(c)' => Holds(c)
    BY DEF Holds, Trying, Keyed, Key, At
<1>8. \A d \in Callers \ {c} : Sound(d)'
    <2>1. \A d \in Callers \ {c} : Holds(d) => Key(d) # Key(c)
        BY <1>6 DEF IInv, Exclusive, Holds, Keyed
    <2>. QED
        <3>1. \A d \in Callers \ {c} : Key(d)' = Key(d)
            BY DEF Frame, Key, Req
        <3>2. ASSUME NEW d \in Callers \ {c}, Holds(d), Performed(Key(d))'
              PROVE  Performed(Key(d))
            <4>1. PICK i \in 1..Len(ledger') : ledger'[i].request.key = Key(d)
                BY <3>1, <3>2 DEF Performed
            <4>2. i # Len(ledger) + 1
                BY <1>2, <2>1, <3>2, <4>1 DEF Key
            <4>. QED
                BY <1>2, <1>3, <4>1, <4>2 DEF Performed
        <3>. QED
            BY <1>5, <3>2, OthersSound DEF db
<1>9. Sound(c)'
    <2>1. Checked(c)'
        BY <1>6 DEF Checked, At, Fit, Declared, EntryOf, Keyed, Key
    <2>2. Held(c)'
        BY <1>1, <1>7 DEF Sound, Held, At, Key, Hash, db
    <2>3. Fresh(c)'
        BY <1>1 DEF Sound, Fresh, At, Id, db
    <2>4. Traced(c)'
        BY <1>5 DEF Traced, At
    <2>. QED
        BY <2>1, <2>2, <2>3, <2>4 DEF Sound
<1>10. Exclusive'
    BY <1>7 DEF IInv, Exclusive, Frame, Holds, Keyed, Key, Req
<1>11. OneEffectPerKey'
    <2>1. \A i \in 1..Len(ledger) : Key(c) # None => ledger[i].request.key # Key(c)
        BY <1>6 DEF Performed
    <2>. QED
        BY <1>2, <1>3, <2>1 DEF IInv, OneEffectPerKey, Key
<1>12. LiveWritesAuthorised'
    BY <1>2, <1>3, <1>6 DEF IInv, LiveWritesAuthorised, Fit, EntryOf, Declared
<1>13. \A j \in Keys : Settled(j)'
    <2>1. ASSUME NEW j \in Keys
          PROVE  Settled(j)'
        <3>1. keys'[j] = keys[j] /\ records' = records /\ Settled(j)
            BY DEF IInv, db
        <3>2. keys[j].state \in {"absent", "failed_permanent"} => j # Key(c)
            BY <1>6, RegistryAssumption DEF IInv, Sound, Held
        <3>3. keys[j].state \in {"absent", "failed_permanent"} => ~ Performed(j)'
            BY <1>4, <3>1, <3>2 DEF Settled
        <3>. QED
            BY <1>5, <3>1, <3>3 DEF Settled, Booked
    <2>. QED
        BY <2>1
<1>. QED
    BY <1>8, <1>9, <1>10, <1>11, <1>12, <1>13 DEF IInv

(* Perform: a live call is performed once, a rehearsal leaves no effect.   *)
LEMMA PerformStep ==
    ASSUME IInv, NEW c \in Callers, Perform(c)
    PROVE  IInv'
<1>1. /\ TypeOK /\ Sound(c) /\ caller[c] \in Local /\ At(c, "perform")
      /\ UNCHANGED <<grants, db, counts>>
    BY DEF IInv, TypeOK, Perform
<1>2. /\ Frame(c) /\ caller'[c] = [caller[c] EXCEPT !.pc = "persist"]
      /\ answer'[c] = answer[c]
    BY <1>1, EnterFrame DEF Perform, PCs
<1>3. /\ caller'[c].pc = "persist" /\ Req(c)' = Req(c) /\ caller'[c].n = caller[c].n
      /\ caller'[c].dryRun = caller[c].dryRun
    BY <1>1, <1>2 DEF Local, Req
<1>4. TypeOK'
    <2>1. Append(ledger, [id |-> Id(c), request |-> Req(c)]) \in Seq([id : Ids, request : Requests])
        BY <1>1, IdType DEF TypeOK
    <2>2. ledger' \in Seq([id : Ids, request : Requests])
        BY <1>1, <2>1 DEF Perform, TypeOK
    <2>. QED
        BY <1>1, <1>2, <2>2 DEF TypeOK, Frame, db, counts
<1>5. CASE caller[c].dryRun
    <2>1. UNCHANGED <<db, ledger>>
        BY <1>1, <1>5 DEF Perform
    <2>2. ~ Holds(c)' /\ Held(c)'
        BY <1>3, <1>5 DEF Holds, Keyed, Held
    <2>3. Checked(c)' /\ Fresh(c)' /\ Traced(c)'
        BY <1>1, <1>3, <1>5, <2>1
           DEF Sound, Checked, Fresh, Traced, At, Id, Declared, db
    <2>. QED
        BY <1>2, <1>4, <2>1, <2>2, <2>3, QuietStep DEF Sound
<1>6. CASE ~ caller[c].dryRun
    <2>1. ledger' = Append(ledger, [id |-> Id(c), request |-> Req(c)])
        BY <1>6 DEF Perform
    <2>2. ~ caller'[c].dryRun /\ UNCHANGED <<db>>
        BY <1>1, <1>3, <1>6
    <2>3. /\ At(c, "perform") /\ Frame(c) /\ Req(c)' = Req(c)
          /\ caller'[c].n = caller[c].n
          /\ caller'[c].pc = "persist" \/ (caller'[c].pc = "persistFailure" /\ caller'[c].retryable)
        BY <1>1, <1>2, <1>3
    <2>. QED
        BY <1>4, <1>6, <2>1, <2>2, <2>3, LiveCall
<1>. QED
    BY <1>5, <1>6

(* AnswerLost: performed, but all the caller learns is that it may retry.  *)
LEMMA AnswerLostStep ==
    ASSUME IInv, NEW c \in Callers, AnswerLost(c)
    PROVE  IInv'
<1>1. /\ TypeOK /\ caller[c] \in Local /\ At(c, "perform") /\ ~ caller[c].dryRun
      /\ faults' = faults + 1 /\ UNCHANGED <<grants, db, crashes, regrants>>
      /\ ledger' = Append(ledger, [id |-> Id(c), request |-> Req(c)])
    BY DEF IInv, TypeOK, AnswerLost
<1>2. /\ Frame(c) /\ answer'[c] = answer[c]
      /\ caller'[c] = [caller[c] EXCEPT !.pc = "persistFailure", !.retryable = TRUE]
    BY <1>1, CatchFrame DEF AnswerLost
<1>3. /\ caller'[c].pc = "persistFailure" /\ Req(c)' = Req(c) /\ caller'[c].n = caller[c].n
      /\ ~ caller'[c].dryRun /\ caller'[c].retryable
    BY <1>1, <1>2 DEF Local, Req
<1>4. TypeOK'
    <2>1. ledger' \in Seq([id : Ids, request : Requests])
        BY <1>1, IdType DEF TypeOK
    <2>. QED
        BY <1>1, <1>2, <2>1 DEF TypeOK, Frame, db
<1>. QED
    BY <1>1, <1>2, <1>3, <1>4, LiveCall

(* Persist and PersistFailure add one row, under an id not used before or  *)
(* not at all; what is on record stays.                                    *)
LEMMA RecordStep ==
    ASSUME IInv, NEW c \in Callers, Frame(c), UNCHANGED <<grants, keys, ledger, counts>>,
           NEW outcome \in {"success", "dry_run", "failure"}, Record(c, outcome),
           Checked(c)', Held(c)', Traced(c)',
           Holds(c)' => Holds(c), Req(c)' = Req(c), caller'[c].n = caller[c].n,
           caller'[c].pc \notin {"grant", "reserve", "perform", "persist"}
    PROVE  IInv'
<1>1. TypeOK /\ Sound(c) /\ Id(c) \in Ids /\ Req(c) \in Requests
    BY IdType DEF IInv
<1>2. /\ records \subseteq records' /\ records' \subseteq CallRecord
      /\ \A x \in records' : x \in records \/ x.id = Id(c)
    BY <1>1 DEF Record, TypeOK, CallRecord
<1>3. TypeOK'
    BY <1>1, <1>2 DEF TypeOK, Frame, counts
<1>4. /\ \A id, j, h : Backed(id, j, h) => Backed(id, j, h)'
      /\ \A j : Performed(j)' <=> Performed(j)
      /\ \A id, j : Booked(id, j) => Booked(id, j)'
    BY <1>2 DEF Backed, Performed, Booked
<1>5. \A d \in Callers \ {c} : Sound(d)'
    <2>1. \A d \in Callers \ {c} : Performed(Key(d))' => Performed(Key(d))
        <3>1. \A d \in Callers \ {c} : Key(d)' = Key(d)
            BY DEF Frame, Key, Req
        <3>. QED
            BY <3>1 DEF Performed
    <2>. QED
        BY <1>2, <1>4, <2>1, OthersSound
<1>6. Fresh(c)'
    BY <1>1, <1>2 DEF Sound, Fresh, Id, TypeOK, Local
<1>7. Exclusive'
    BY DEF IInv, Exclusive, Frame, Holds, Keyed, Key, Req
<1>8. OneEffectPerKey' /\ LiveWritesAuthorised'
    BY DEF IInv, OneEffectPerKey, LiveWritesAuthorised
<1>9. \A j \in Keys : Settled(j)'
    BY <1>4 DEF IInv, Settled
<1>. QED
    BY <1>3, <1>5, <1>6, <1>7, <1>8, <1>9 DEF IInv, Sound

(* Persist: the success row is there before the key is settled.            *)
LEMMA PersistStep ==
    ASSUME IInv, NEW c \in Callers, Persist(c)
    PROVE  IInv'
<1>1. /\ TypeOK /\ Sound(c) /\ caller[c] \in Local /\ At(c, "persist") /\ Id(c) \in Ids
      /\ UNCHANGED <<grants, keys, ledger, counts>> /\ Record(c, Done(c))
      /\ Done(c) \in {"success", "dry_run"}
    BY IdType DEF IInv, TypeOK, Persist, Done
<1>2. CASE Keyed(c) /\ Enter(c, "complete")
    <2>1. /\ Frame(c) /\ caller'[c] = [caller[c] EXCEPT !.pc = "complete"]
          /\ answer'[c] = answer[c]
        BY <1>1, <1>2, EnterFrame DEF PCs
    <2>2. /\ caller'[c].pc = "complete" /\ Req(c)' = Req(c) /\ caller'[c].n = caller[c].n
          /\ caller'[c].dryRun = caller[c].dryRun
        BY <1>1, <2>1 DEF Local, Req
    <2>3. /\ Holds(c) /\ Key(c)' = Key(c) /\ Keyed(c)' /\ Id(c)' = Id(c)
          /\ Performed(Key(c))' <=> Performed(Key(c))
        BY <1>1, <1>2, <2>2 DEF Holds, Trying, Keyed, Key, Id, At, Performed
    <2>4. Checked(c)' /\ Held(c)'
        BY <1>1, <1>2, <2>2, <2>3
           DEF Sound, Checked, Held, Keyed, Key, Trying, At, Fit, Declared, EntryOf, Hash
    <2>5. Booked(Id(c), Key(c))'
        <3>1. \A x \in records : x.id # Id(c)
            BY <1>1 DEF Sound, Fresh, At
        <3>2. Done(c) = "success"
            BY <1>2 DEF Keyed, Done
        <3>3. [id |-> Id(c), request |-> Req(c), outcome |-> "success"] \in records'
            BY <1>1, <3>1, <3>2 DEF Record
        <3>. QED
            BY <2>3, <3>3 DEF Booked, Key
    <2>6. Traced(c)'
        BY <1>1, <2>2, <2>3, <2>5 DEF Sound, Traced, At, Backed, Hash
    <2>. QED
        BY <1>1, <2>1, <2>2, <2>3, <2>4, <2>6, RecordStep
<1>3. CASE ~ Keyed(c) /\ Return(c, Done(c), Id(c))
    <2>1. /\ Frame(c) /\ caller'[c] = [caller[c] EXCEPT !.pc = "idle"]
          /\ answer'[c] = [kind |-> Done(c), id |-> Id(c)]
        BY <1>1, <1>3, ReturnFrame DEF Answers
    <2>2. /\ caller'[c].pc = "idle" /\ Req(c)' = Req(c) /\ caller'[c].n = caller[c].n
        BY <1>1, <2>1 DEF Local, Req
    <2>3. ~ Holds(c)' /\ Checked(c)' /\ Held(c)'
        BY <2>2 DEF Holds, Trying, Checked, Held, At
    <2>4. Done(c) = "success" => Backed(Id(c), Key(c), Hash(Req(c)))
        BY <1>1 DEF Sound, Traced, Done, At
    <2>5. Traced(c)'
        BY <1>1, <2>1, <2>2, <2>4 DEF Traced, At, Backed, Hash, Key
    <2>. QED
        BY <1>1, <2>1, <2>2, <2>3, <2>5, RecordStep
<1>. QED
    BY <1>2, <1>3 DEF Persist

(* PersistFailure: only a permanent failure goes on to close the key.      *)
LEMMA PersistFailureStep ==
    ASSUME IInv, NEW c \in Callers, PersistFailure(c)
    PROVE  IInv'
<1>1. /\ TypeOK /\ Sound(c) /\ caller[c] \in Local /\ At(c, "persistFailure")
      /\ Id(c) \in Ids /\ Record(c, "failure")
      /\ UNCHANGED <<grants, keys, ledger, counts>>
    BY IdType DEF IInv, TypeOK, PersistFailure
<1>2. CASE Keyed(c) /\ ~ caller[c].retryable /\ Enter(c, "close")
    <2>1. /\ Frame(c) /\ caller'[c] = [caller[c] EXCEPT !.pc = "close"]
          /\ answer'[c] = answer[c]
        BY <1>1, <1>2, EnterFrame DEF PCs
    <2>2. /\ caller'[c].pc = "close" /\ Req(c)' = Req(c) /\ caller'[c].n = caller[c].n
          /\ caller'[c].dryRun = caller[c].dryRun /\ ~ caller'[c].retryable
        BY <1>1, <1>2, <2>1 DEF Local, Req
    <2>3. /\ Holds(c) /\ Key(c)' = Key(c) /\ Keyed(c)'
          /\ Performed(Key(c))' <=> Performed(Key(c))
        BY <1>1, <1>2, <2>2 DEF Holds, Trying, Keyed, Key, At, Performed
    <2>4. Checked(c)' /\ Held(c)'
        BY <1>1, <1>2, <2>2, <2>3
           DEF Sound, Checked, Held, Keyed, Key, Trying, At, Fit, Declared, EntryOf, Hash
    <2>5. Traced(c)'
        BY <2>2 DEF Traced, At
    <2>. QED
        BY <1>1, <2>1, <2>2, <2>3, <2>4, <2>5, RecordStep
<1>3. CASE Return(c, "failure", Id(c))
    <2>1. /\ Frame(c) /\ caller'[c] = [caller[c] EXCEPT !.pc = "idle"]
          /\ answer'[c] = [kind |-> "failure", id |-> Id(c)]
        BY <1>1, <1>3, ReturnFrame DEF Answers
    <2>2. /\ caller'[c].pc = "idle" /\ Req(c)' = Req(c) /\ caller'[c].n = caller[c].n
        BY <1>1, <2>1 DEF Local, Req
    <2>3. ~ Holds(c)' /\ Checked(c)' /\ Held(c)' /\ Traced(c)'
        BY <2>1, <2>2 DEF Holds, Trying, Checked, Held, Traced, At
    <2>. QED
        BY <1>1, <2>1, <2>2, <2>3, RecordStep
<1>. QED
    BY <1>2, <1>3 DEF PersistFailure

(* Complete and FailPermanently settle the key their caller holds.         *)
LEMMA SettleStep ==
    ASSUME IInv, NEW c \in Callers, Holds(c), Frame(c), TypeOK',
           UNCHANGED <<records, ledger>>,
           \A j \in Keys \ {Key(c)} : keys'[j] = keys[j],
           Settled(Key(c))', Traced(c)',
           caller'[c].pc = "idle", Req(c)' = Req(c), caller'[c].n = caller[c].n
    PROVE  IInv'
<1>1. TypeOK /\ Sound(c) /\ Key(c) \in Keys
    BY InputAssumption DEF IInv, TypeOK, Local, Holds, Keyed, Key, Req, Request
<1>2. \A d \in Callers \ {c} : Holds(d) => Key(d) \in Keys \ {Key(c)}
    BY InputAssumption DEF IInv, Exclusive, TypeOK, Local, Holds, Keyed, Key, Req, Request
<1>3. \A d \in Callers \ {c} : Sound(d)'
    <2>1. \A d \in Callers \ {c} : Performed(Key(d))' => Performed(Key(d))
        <3>1. \A d \in Callers \ {c} : Key(d)' = Key(d)
            BY DEF Frame, Key, Req
        <3>. QED
            BY <3>1 DEF Performed
    <2>2. \A id, j, h : Backed(id, j, h) => Backed(id, j, h)'
        BY DEF Backed
    <2>. QED
        BY <1>2, <2>1, <2>2, OthersSound
<1>4. ~ Holds(c)' /\ Checked(c)' /\ Held(c)'
    BY DEF Holds, Trying, Checked, Held, At
<1>5. Fresh(c)'
    BY <1>1 DEF Sound, Fresh, At
<1>6. Exclusive'
    BY <1>4 DEF IInv, Exclusive, Frame, Holds, Keyed, Key, Req
<1>7. OneEffectPerKey' /\ LiveWritesAuthorised'
    BY DEF IInv, OneEffectPerKey, LiveWritesAuthorised
<1>8. \A j \in Keys : Settled(j)'
    <2>1. \A j \in Keys \ {Key(c)} : Settled(j)'
        BY DEF IInv, Settled, Performed, Backed, Booked
    <2>2. Key(c)' = Key(c)
        BY DEF Key
    <2>. QED
        BY <2>1, <2>2 DEF Settled, Performed, Backed, Booked
<1>. QED
    BY <1>3, <1>4, <1>5, <1>6, <1>7, <1>8 DEF IInv, Sound

(* Complete: the outcome it stores has its effect and its row.             *)
LEMMA CompleteStep ==
    ASSUME IInv, NEW c \in Callers, Complete(c)
    PROVE  IInv'
<1>. DEFINE k == Key(c)
<1>1. /\ TypeOK /\ Sound(c) /\ caller[c] \in Local /\ At(c, "complete") /\ Id(c) \in Ids
      /\ UNCHANGED <<grants, records, ledger, counts>> /\ Keyed(c) /\ Holds(c)
    BY IdType DEF IInv, TypeOK, Complete, Sound, Checked, At, Holds, Trying
<1>2. k \in Keys /\ keys[k] \in KeyRecord
    BY <1>1, InputAssumption DEF TypeOK, Local, Keyed, Key, Req, Request
<1>3. /\ Frame(c) /\ caller'[c] = [caller[c] EXCEPT !.pc = "idle"]
      /\ answer'[c] = [kind |-> "success", id |-> Id(c)]
    BY <1>1, ReturnFrame DEF Answers, Complete
<1>4. /\ caller'[c].pc = "idle" /\ Req(c)' = Req(c) /\ caller'[c].n = caller[c].n
    BY <1>1, <1>3 DEF Local, Req
<1>5. keys' = [keys EXCEPT ![k] = [keys[k] EXCEPT !.state = "completed", !.outcome = Id(c)]]
    BY <1>2 DEF Complete, TypeOK
<1>6. /\ keys' \in [Keys -> KeyRecord]
      /\ keys'[k].state = "completed" /\ keys'[k].outcome = Id(c) /\ keys'[k].hash = keys[k].hash
      /\ \A j \in Keys \ {k} : keys'[j] = keys[j]
    <2>1. [keys[k] EXCEPT !.state = "completed", !.outcome = Id(c)] \in KeyRecord
        BY <1>1, <1>2 DEF KeyRecord
    <2>. QED
        BY <1>1, <1>2, <1>5, <2>1 DEF TypeOK, KeyRecord
<1>7. TypeOK'
    BY <1>1, <1>3, <1>6 DEF TypeOK, Frame, counts
<1>8. Backed(Id(c), k, Hash(Req(c))) /\ Booked(Id(c), k) /\ keys[k].hash = Hash(Req(c))
    BY <1>1 DEF Sound, Traced, Held, Keyed, At
<1>9. Key(c)' = k
    BY <1>4 DEF Key
<1>10. Settled(k)'
    BY <1>1, <1>6, <1>8, <1>9 DEF Settled, Backed, Booked
<1>11. Traced(c)'
    BY <1>1, <1>3, <1>4, <1>8, <1>9 DEF Traced, At, Backed, Hash
<1>. QED
    BY <1>1, <1>3, <1>4, <1>6, <1>7, <1>9, <1>10, <1>11, SettleStep DEF Settled

(* FailPermanently: nothing was performed under the key it closes.         *)
LEMMA FailPermanentlyStep ==
    ASSUME IInv, NEW c \in Callers, FailPermanently(c)
    PROVE  IInv'
<1>. DEFINE k == Key(c)
<1>1. /\ TypeOK /\ Sound(c) /\ caller[c] \in Local /\ At(c, "close") /\ Id(c) \in Ids
      /\ UNCHANGED <<grants, records, ledger, counts>> /\ Keyed(c) /\ Holds(c)
      /\ ~ caller[c].retryable
    BY IdType DEF IInv, TypeOK, FailPermanently, Sound, Checked, At, Holds, Trying
<1>2. k \in Keys /\ keys[k] \in KeyRecord
    BY <1>1, InputAssumption DEF TypeOK, Local, Keyed, Key, Req, Request
<1>3. /\ Frame(c) /\ caller'[c] = [caller[c] EXCEPT !.pc = "idle"]
      /\ answer'[c] = [kind |-> "failure", id |-> Id(c)]
    BY <1>1, ReturnFrame DEF Answers, FailPermanently
<1>4. /\ caller'[c].pc = "idle" /\ Req(c)' = Req(c) /\ caller'[c].n = caller[c].n
    BY <1>1, <1>3 DEF Local, Req
<1>5. keys' = [keys EXCEPT ![k] = [keys[k] EXCEPT !.state = "failed_permanent"]]
    BY <1>2 DEF FailPermanently, TypeOK
<1>6. /\ keys' \in [Keys -> KeyRecord]
      /\ keys'[k].state = "failed_permanent"
      /\ \A j \in Keys \ {k} : keys'[j] = keys[j]
    BY <1>1, <1>2, <1>5 DEF TypeOK, KeyRecord
<1>7. TypeOK'
    BY <1>1, <1>3, <1>6 DEF TypeOK, Frame, counts
<1>8. ~ Performed(k)
    BY <1>1 DEF Sound, Held, At
<1>9. Key(c)' = k
    BY <1>4 DEF Key
<1>10. Settled(k)'
    BY <1>1, <1>6, <1>8, <1>9 DEF Settled, Performed
<1>11. Traced(c)'
    BY <1>3, <1>4 DEF Traced, At
<1>. QED
    BY <1>1, <1>3, <1>4, <1>6, <1>7, <1>9, <1>10, <1>11, SettleStep DEF Settled

(* The invariant holds initially: nothing is reserved and nobody is busy.  *)
LEMMA InvokerInit == Init => IInv
<1>. SUFFICES ASSUME Init PROVE IInv
    OBVIOUS
<1>. DEFINE r == CHOOSE x \in Requests : TRUE
<1>1. r \in Requests
    BY InputAssumption
<1>2. caller = [c \in Callers |-> AtRest(r)]
    BY DEF Init
<1>3. AtRest(r) \in Local
    BY <1>1 DEF AtRest, Local, PCs
<1>. HIDE DEF r
<1>4. caller \in [Callers -> Local] /\ \A c \in Callers : caller[c].pc = "idle"
    BY <1>2, <1>3 DEF AtRest
<1>5. TypeOK
    BY <1>4 DEF Init, TypeOK, KeyRecord, Unreserved, NoAnswer, Answers
<1>6. \A c \in Callers : Sound(c)
    BY <1>4 DEF Init, Sound, Checked, Held, Fresh, Traced, Holds, Trying, At, NoAnswer
<1>7. \A k \in Keys : Settled(k)
    BY DEF Init, Settled, Performed, Unreserved
<1>8. Exclusive /\ OneEffectPerKey /\ LiveWritesAuthorised
    BY <1>4 DEF Init, Exclusive, Holds, Trying, OneEffectPerKey, LiveWritesAuthorised
<1>. QED
    BY <1>5, <1>6, <1>7, <1>8 DEF IInv

(* A step that moves no caller and writes neither the database nor the     *)
(* ledger keeps the invariant.                                             *)
LEMMA IdleStep ==
    ASSUME IInv, UNCHANGED <<db, ledger, caller, answer>>, TypeOK'
    PROVE  IInv'
<1>1. UNCHANGED <<keys, records, ledger, caller, answer>>
    BY DEF db
<1>2. \A c \in Callers : Sound(c)'
    <2>1. ASSUME NEW c \in Callers
          PROVE  Checked(c)' /\ Held(c)'
        <3>1. Checked(c) /\ Held(c)
            BY DEF IInv, Sound
        <3>2. Checked(c)'
            BY <1>1, <3>1 DEF Checked, Keyed, Key, Req, At
        <3>3. Held(c)'
            BY <1>1, <3>1 DEF Held, Holds, Keyed, Key, Req, At, Performed
        <3>. QED
            BY <3>2, <3>3
    <2>2. ASSUME NEW c \in Callers
          PROVE  Fresh(c)' /\ Traced(c)'
        <3>1. Fresh(c) /\ Traced(c)
            BY DEF IInv, Sound
        <3>2. Fresh(c)'
            BY <1>1, <3>1 DEF Fresh, Key, Req, Id, At
        <3>3. Traced(c)'
            BY <1>1, <3>1 DEF Traced, Key, Req, Id, At, Backed, Booked
        <3>. QED
            BY <3>2, <3>3
    <2>. QED
        BY <2>1, <2>2 DEF Sound
<1>3. Exclusive' /\ OneEffectPerKey' /\ LiveWritesAuthorised'
    BY <1>1 DEF IInv, Exclusive, OneEffectPerKey, LiveWritesAuthorised, Holds, Keyed, Key, Req
<1>4. \A k \in Keys : Settled(k)'
    BY <1>1 DEF IInv, Settled, Performed, Backed, Booked
<1>. QED
    BY <1>2, <1>3, <1>4 DEF IInv

(* Every step of the system keeps the invariant.                           *)
LEMMA InvokerStep == IInv /\ [Next]_vars => IInv'
<1>. SUFFICES ASSUME IInv, [Next]_vars PROVE IInv'
    OBVIOUS
<1>0. TypeOK
    BY DEF IInv
<1>1. CASE UNCHANGED vars
    <2>1. TypeOK'
        BY <1>0, <1>1 DEF TypeOK, vars, db, counts
    <2>. QED
        BY <1>1, <2>1, IdleStep DEF vars
<1>2. ASSUME NEW c \in Callers, NEW r \in Requests, Arrive(c, r)
      PROVE  IInv'
    BY <1>2, ArriveStep
<1>3. ASSUME NEW c \in Callers, Step(c)
      PROVE  IInv'
    <2>1. CASE ProviderFails(c)
        <3>1. PICK again \in BOOLEAN : Catch(c, again)
            BY <2>1 DEF ProviderFails
        <3>2. /\ At(c, "perform") /\ faults' = faults + 1
              /\ UNCHANGED <<grants, db, ledger, crashes, regrants>>
            BY <2>1 DEF ProviderFails
        <3>3. TypeOK'
            <4>1. Frame(c)
                BY <1>0, <3>1, CatchFrame
            <4>. QED
                BY <1>0, <3>1, <3>2, <4>1 DEF TypeOK, Frame, db
        <3>. QED
            BY <3>1, <3>2, <3>3, CatchStep DEF At
    <2>2. CASE FaultInTry(c)
        <3>1. /\ caller[c].pc \in {"persist", "complete"} /\ faults' = faults + 1
              /\ Catch(c, TRUE) /\ UNCHANGED <<grants, db, ledger, crashes, regrants>>
            BY <2>2 DEF FaultInTry, At
        <3>2. TypeOK'
            <4>1. Frame(c)
                BY <1>0, <3>1, CatchFrame
            <4>. QED
                BY <1>0, <3>1, <4>1 DEF TypeOK, Frame, db
        <3>. QED
            BY <3>1, <3>2, CatchStep
    <2>3. CASE FaultOutsideTry(c)
        <3>1. /\ faults' = faults + 1 /\ Return(c, "rejected", None)
              /\ UNCHANGED <<grants, db, ledger, crashes, regrants>>
            BY <2>3 DEF FaultOutsideTry
        <3>2. TypeOK'
            <4>1. Frame(c)
                BY <1>0, <3>1, ReturnFrame DEF Answers
            <4>. QED
                BY <1>0, <3>1, <4>1 DEF TypeOK, Frame, db
        <3>. QED
            BY <3>1, <3>2, AbandonStep
    <2>4. CASE Crash(c)
        <3>1. /\ crashes' = crashes + 1 /\ Return(c, "none", None)
              /\ UNCHANGED <<grants, db, ledger, faults, regrants>>
            BY <2>4 DEF Crash
        <3>2. TypeOK'
            <4>1. Frame(c)
                BY <1>0, <3>1, ReturnFrame DEF Answers
            <4>. QED
                BY <1>0, <3>1, <4>1 DEF TypeOK, Frame, db
        <3>. QED
            BY <3>1, <3>2, AbandonStep
    <2>. QED
        BY <1>3, <2>1, <2>2, <2>3, <2>4, LoadGrantStep, ReserveWinsStep, ReserveLosesStep,
           PerformStep, AnswerLostStep, PersistStep, PersistFailureStep, CompleteStep,
           FailPermanentlyStep DEF Step
<1>4. ASSUME NEW t \in Tools, NEW g \in Grants \cup {None}, Regrant(t, g)
      PROVE  IInv'
    <2>1. UNCHANGED <<db, ledger, caller, answer, crashes, faults>>
        BY <1>4 DEF Regrant
    <2>2. TypeOK'
        BY <1>0, <1>4, <2>1 DEF Regrant, TypeOK, db
    <2>. QED
        BY <2>1, <2>2, IdleStep
<1>. QED
    BY <1>1, <1>2, <1>3, <1>4 DEF Next

(* The inductive invariant holds in every reachable state.                 *)
THEOREM InvokerInvariance == Spec => []IInv
<1>. QED
    BY InvokerInit, InvokerStep, PTL DEF Spec

(* Type correctness of the idempotency ledger, tool_calls and the callers. *)
THEOREM InvokerTypeCorrect == Spec => []TypeOK
<1>1. IInv => TypeOK
    BY DEF IInv
<1>. QED
    BY <1>1, InvokerInvariance, PTL

(* "A retry can never double-post": for any number of concurrent callers,  *)
(* retries, crashes and database errors a key has one live call at most.   *)
THEOREM RetryNeverDoublePosts == Spec => []OneEffectPerKey
<1>1. IInv => OneEffectPerKey
    BY DEF IInv
<1>. QED
    BY <1>1, InvokerInvariance, PTL

(* No write is performed for real past the checks of invoke, whatever the  *)
(* grants become while a call is under way.                                *)
THEOREM WritesAreAuthorised == Spec => []LiveWritesAuthorised
<1>1. IInv => LiveWritesAuthorised
    BY DEF IInv
<1>. QED
    BY <1>1, InvokerInvariance, PTL

(* A replayed outcome, or a fresh success, names a call the provider       *)
(* performed under that key for that payload.                              *)
THEOREM ReplayNamesTheOriginal == Spec => []SuccessNamesItsEffect
<1>1. IInv => SuccessNamesItsEffect
    BY DEF IInv, Sound, Traced, SuccessNamesItsEffect, Backed
<1>. QED
    BY <1>1, InvokerInvariance, PTL

(* A completed key points at a success row of tool_calls.                  *)
THEOREM CompletedKeysAreOnRecord == Spec => []ReplayedOutcomeRecorded
<1>1. IInv => ReplayedOutcomeRecorded
    BY DEF IInv, Settled, Booked, ReplayedOutcomeRecorded
<1>. QED
    BY <1>1, InvokerInvariance, PTL

(* A key closed as a permanent failure stands for nothing performed.       *)
THEOREM FailedKeysDidNothing == Spec => []FailedKeyHadNoEffect
<1>1. IInv => FailedKeyHadNoEffect
    BY DEF IInv, Settled, Performed, FailedKeyHadNoEffect
<1>. QED
    BY <1>1, InvokerInvariance, PTL

(* A key stays bound to its payload, and a settled key never changes: only *)
(* its holder writes a key, and a settled key has none.                    *)
THEOREM SettledKeysNeverChange == Spec => SettledKeysStay
<1>. DEFINE Stays ==
        \A k \in Keys :
            /\ keys[k].state # "absent" => keys'[k].hash = keys[k].hash
            /\ keys[k].state \in {"completed", "failed_permanent"} => keys'[k] = keys[k]
<1>1. ASSUME IInv, [Next]_vars
      PROVE  [Stays]_vars
    <2>1. CASE UNCHANGED keys
        BY <2>1
    <2>2. ASSUME NEW c \in Callers, ReserveWins(c)
          PROVE  Stays
        BY <1>1, <2>2 DEF ReserveWins, IInv, TypeOK
    <2>3. ASSUME NEW c \in Callers, Complete(c) \/ FailPermanently(c)
          PROVE  Stays
        <3>1. keys[Key(c)].state = "in_flight"
            BY <1>1, <2>3 DEF IInv, Sound, Checked, Held, Holds, Trying, At, Complete, FailPermanently
        <3>2. /\ \A k \in Keys \ {Key(c)} : keys'[k] = keys[k]
              /\ keys'[Key(c)].hash = keys[Key(c)].hash \/ Key(c) \notin Keys
            BY <1>1, <2>3 DEF IInv, TypeOK, KeyRecord, Complete, FailPermanently
        <3>. QED
            BY <3>1, <3>2
    <2>4. \/ UNCHANGED keys
          \/ \E c \in Callers : ReserveWins(c) \/ Complete(c) \/ FailPermanently(c)
        BY <1>1 DEF Next, Step, vars, db, Arrive, LoadGrant, ReserveLoses, Perform, ProviderFails,
                    AnswerLost, Persist, FaultInTry, PersistFailure, FaultOutsideTry, Crash, Regrant
    <2>. QED
        BY <2>1, <2>2, <2>3, <2>4
<1>. QED
    BY <1>1, InvokerInvariance, PTL DEF Spec, SettledKeysStay
=============================================================================
