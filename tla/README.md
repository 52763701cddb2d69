# A verification of the finance digital worker

The repository is a multi-tenant "digital worker" for finance teams: requests
arrive over chat, mail and webhooks, are planned as task graphs, run by a
durable workflow executor, checked by policy and assurance gates, handed to
human reviewers and, once approved, posted and delivered. Everything durable
lives in one Postgres database; the API, the worker processes and the console
share nothing else. What can go wrong is therefore mostly what happens
*between* two transactions: another process, another loop of the same process,
a reviewer, a timer or a crash.

This directory models that with TLA+: one action per database transaction (or
per external effect), one local record per execution of a function for what the
code read and still holds, and a crash or a database error between any two.

## 1. Inventory

| Component (source) | State | Operations | Interacts with | Hard behaviour | What makes it correct | Here |
| --- | --- | --- | --- | --- | --- | --- |
| C7 executor (`packages/workflow`) | `workflow_runs`, `workflow_events`, `workflow_timers`, `compensation_stack`, the locals of each poll loop | `start`, `signal`, `pollOnce`, `fireDueTimers`, `reclaimExpiredLeases` | every activity, C15 by `emit`, reviewers by `signal` | leases that expire or are cleared by others, replay from a stale history, crashes between any two transactions, retries | completed activities are not repeated, one turn at a time, no lost wake-up, every run ends, compensations match successes | `WorkflowExecutor` |
| C10 tool invoker (`packages/connectors`) | `idempotency_records`, `tool_calls`, `tool_grants`, the provider | `invoke` | C7 activities, providers | overlapping callers, lost answers, death between effect and record | at most one effect per key, only authorised ones, replays name the original | `ToolInvoker` |
| L9 hand-off (`packages/authorisation/src/handoff.ts`) | `handoffs`, `reviewer_actions`, nonces | `issue`, `act`, `escalate`, `breached` | reviewers, the SLA sweeper of the worker | dual control, two reviewers at once, stale nonces after an escalation | dual control means two people, one closing action, stale nonces are refused | `Handoff` |
| C15 audit (`packages/audit`) | `audit_events`, `audit_chain_tips`, anchors, stored payloads; bundles, decision records | `append`, `emit`, `anchor`, `verifySegment`, `query`; evidence | every component | concurrent appends, payload, event and action in several transactions, retries, damage behind the database's back | one chain, no fork or gap, the log only grows, verification is exact about the rows it reads | `AuditChain` implements `AuditLog`; evidence is left out |
| C14 delivery (`packages/delivery`, `packages/channels`) | `deliveries` | reserve, send, mark, `recordStatus` | channels, providers | crash or failure between reserve, send and mark; late and reordered callbacks | an output arrives at most once, on a channel that may show it | `Delivery` |
| C4 intake (`packages/intake`) | `idempotency_records` | admission, `checkDuplicate`, classify | providers, planner | redelivered and concurrent webhooks, reused ids | a message is decided once, duplicates name their original | `Intake` |
| C16 configuration (`packages/config`) | `settings_values`, `settings_snapshots`, the cache of each process | `setValue`, `resolve`, `publishSnapshot`, `resolveFromSnapshot`, `health` | every component | publication statement by statement beside writes and other publications; a setting changed during a run | one current snapshot; health promises what reads answer; a run sees its snapshot | `Configuration`, `PolicyGate` |
| C2 console identity (`packages/identity`) | `console_credentials`, `console_invites`, `console_sessions`, challenges | links, acceptance, sign-in, second factor, sign-out | console | concurrent attempts, requests that stop half way | a lock has its failures, the link behind a session is spent | `ConsoleSignIn` |
| C6 policy (`packages/policy`) | `policy_verdicts` | `evaluate`, autonomy, `authorise` | register, settings, planner, workflow | thresholds read one by one while they change | pinned verdicts are the snapshot's; immutable rules come first | `PolicyRules`, `PolicyGate` |
| C5 planner, C3 context (`packages/planner`, `packages/context`) | `contexts`, `task_graphs`, `task_nodes`, `skill_revalidations` | `resolve`, `compile` | settings, registries, corpus | a walk of queries while settings and revalidations change | no graph above the autonomy that backs it | `Planning` |
| C8 skills, C9 LLM gateway, gates of C13 | `skill_invocations`, budgets | `invoke`, `call`, the gates | corpus, model providers | the chain of fallbacks | no other model is asked for what one declined | `SkillRun` |
| C11 knowledge (`packages/knowledge`) | `packs`, `knowledge_chunks`, `knowledge_coverage_gaps` | ingest, publish, retrieve, ground | skills, planner | overlapping and interrupted ingests | one open version of a section, its newest | `Corpus` |
| Worker workflow (`apps/worker/src/workflows.ts`) | results recorded by C7 | eight activities, one signal | all of the above | repeated activities, answers days later, expiring contexts | a refusal or the output, never both; output only as decided | `TaskGraph` |
| C2 scope card (`packages/authorisation/src/scope-card.ts`) | `scope_cards` | `publish`, `current`, `asAt` | console | publications with dates ahead that overlap | no date without a card once there is one | `ScopeCard` |
| Money and calculation (`packages/core`, `packages/connectors`) | the stub ERP's accounts and journal | arithmetic, allocation, reconciliation, postings | invoker | rounding, sign, overflow, units that differ | figures are exact or refused for cause, everything is accounted for | `Calculation` |
| Migrations (`packages/db`) | `schema_migrations`, the advisory lock | the runner | every process that boots | instances of two builds, lost sessions | a file once, as it reads now | `Migrations` |
| C13 harness (`packages/assurance`) | none | the release gate | CI | cases that throw, advisory runs | nothing broken is released | `ReleaseGate` |
| C1 signatures, console, telemetry, email, registries' data | none, or text only | - | - | - | - | not modelled (section 8) |

`PROJECT.json` lists the hazards of this code one by one, each at its line with
the properties that would catch it.

## 2. Modules

| Module | Contents |
| --- | --- |
| `DurableRun` | C7, what it promises the function it replays: answers in call order and for good, each of an execution; compensations in order; one end |
| `WorkflowExecutor` | C7, how: one workflow run, its poll loops, sweepers, reviewers, crashes; `ImplementsDurableRun` |
| `MCWorkflowExecutor` | programs and deployments for TLC |
| `WorkflowExecutorProofs` | what holds however turns overlap, and what the lease achieves in an orderly deployment: turns kept apart, outcomes served, retries bounded, no sleep on a signal, no compensation lost, a `DurableRun` implemented, proved |
| `ToolInvoker` | C10: overlapping executions of `invoke`, the ledger, the provider |
| `MCToolInvoker` | a one-way payment and a read, for TLC |
| `ToolInvokerProofs` | the ledger's guarantees, proved |
| `Handoff` | L9: hand-offs, reviewers with the nonces they were sent, overlapping SLA sweeps |
| `MCHandoff` | the questions and request bodies for TLC |
| `HandoffProofs` | one decision per hand-off, never by one person's approval alone unless the second's, proved |
| `AuditLog` | C15, what it promises: an append-only log with sealed prefixes |
| `AuditChain` | C15, how: the hash chain, its writers, payloads, anchors, verification and paging; `ImplementsLog` |
| `MCAuditTrail` | the symmetry for TLC |
| `AuditChainProofs` | the chain stays intact and implements the log, pages follow it, verification is exact, proved |
| `Configuration` | C16: values, resolution, caches, publication, health |
| `ScopeCard` | C2: publication of scope cards |
| `ConsoleSignIn` | C2: sign-in to the console |
| `Intake` | C4: webhooks, chat, duplicates, the classifier's families |
| `Delivery` | C14: router, reservation, send, callbacks; data classes per channel |
| `PolicyRules` | C6 as operators: immutable rules, ceilings, autonomy, `authorise` |
| `PolicyGate` | C6: the engine's walk over the configured rules |
| `Planning` | C3 and C5: a context, then a graph, query by query |
| `Corpus` | C11: ingests, publications and questions beside each other |
| `SkillRun` | C8, C9 and the gates: one invocation |
| `TaskGraph` | the workflow the worker registers, over the results C7 records |
| `Calculation` | money, the calculation tools, the stub ERP |
| `Migrations` | the migration runner at boot |
| `ReleaseGate` | the assurance run and its exit code |
| `MCTenantServices` | all of the thirteen services above, one per behaviour, and their data for TLC |
| `AccessProofs` | `ScopeCard`, `ConsoleSignIn`, `PolicyGate`, `Planning`, proved |
| `ExchangeProofs` | `Intake`, `SkillRun`, `TaskGraph`, `Delivery`, proved |
| `StoresProofs` | `ReleaseGate`, `Migrations`, `Configuration`, `Corpus`, `Calculation`, proved |
| `ServicesProofs` | all of the thirteen services beside each other, proved |

`PolicyGate` and `Planning` extend `PolicyRules`; `TaskGraph` uses its register
and rules for the gate activity. The other composition is by what a module
takes as given: `TaskGraph` takes from C7 that a recorded result is served
again and an unrecorded activity is repeated, which is what
`WorkflowExecutor` shows (`DurableRun`); `Planning` takes from `Configuration` that a setting
resolves to a value that may change between two reads; `SkillRun` takes from
`Corpus` any grounding.

### 2.1 WorkflowExecutor and the code

A run executes a *program*, the sequence of call sites (`activity`, `marker`,
`sleepUntil`, `waitForSignal`) its workflow function reaches in order. This is
what replay relies on in the code: a call site is identified by name and
ordinal, and its answer is looked up in the history. Branches of the function
are left out; the program is a constant, and the proofs hold for all of them.

| Code | Model |
| --- | --- |
| row of `workflow_runs` | `state`, `leasedBy`, `leaseExpired`, `runnableAt` |
| `workflow_events` in sequence order | `history`; every append locks the row, so a sequence loses nothing |
| `workflow_timers`, `compensation_stack` | `timers`, `stack` |
| locals of `#advance`, `#runActivity`, `#pushCompensation`, `#failRun` | `loop[l]`: step, call site, attempt, iteration, stack position, verdict |
| `now()`, due dates, back-off | the events `TimerComesDue`, `BackoffElapses`, `LeaseExpires` |
| an activity's success, retryable or permanent failure | a choice between `ActivityCompletes`, `ActivityWillRetry`, `ActivityFails` |
| a transaction that throws | `FaultInTry`, `FaultInTurn`, `FaultInLoop`, by where the code catches it |
| a worker that dies | `Crash`: all loops of the process start over |

An activity and the append of its outcome are one action. The model may lose
the loop before or after it, which is where the effects of a crash differ: an
activity that ran without leaving a result is a scheduled attempt without a
completion.

`DurableRun` is the same run without history, lease or loop. Its state is what the
function and the reader of the stack can tell: what each call site was answered,
how often an activity was begun, the stack, and whether the run is open, completed
or failed. `ImplementsDurableRun` computes these from the history, the stack and
the row. A call site is asked only when those before it are answered, and answered
once; an activity is begun again only while it has no answer; a success is stacked
before anything behind it is begun, so the stack is in the order in which
compensations have to be undone. A run may fail at any point, which is what the
step budget and a database error do, and a completed one too: an audit event that
cannot be emitted sends it through `#failRun` (the code does that; see the hazard
at `executor.ts:736`).

### 2.2 ToolInvoker and the code

`caller[c]` is one execution of `invoke`; its steps are the transactions
`#loadGrant`, `#reserve`, `#persist`, `#complete`, `#failPermanently` and the
connector call between them. `keys` is `idempotency_records`, `records` is
`tool_calls`, and `ledger` is what providers really performed, which no row of
the database shows directly. A connector may perform the call, fail before it
did anything (retryable or not), or perform it and lose the answer.

### 2.3 Handoff and the code

| Code | Model |
| --- | --- |
| row of `handoffs` | `rows[h]`; `lapsed` and `breached` say that `nonce_expires_at` is past on the API's clock, `sla_due_at` on the database's |
| `nonce_hash` | the triple it was computed from, the nonce being the pair of the hand-off and whether the issue or an escalation made it |
| `reviewer_actions` | `log[h]`, in commit order |
| the nonce in a delivered package | `inbox`: who can present which nonce |
| `issue`; `act` under the action route; `escalate` | `Issue`; `Act`; `Escalate`, each one transaction under the row lock |
| the job `handoff-sla-escalation` | `Sweep` reads the list, then `Escalate`, `PassOver` or `Throw` per hand-off, oldest first; `Abort` ends it midway |
| CHECK constraints of migration 0007 | `HasSecond`, `Recordable`: a violation rolls the transaction back |

A request is not a process: anyone who was sent a nonce may present it at any
time, again and again, with any body in `Requests`, which covers duplicates,
retries and reordering. A refused request changes nothing and is no step. The
route never sets `materiality`, so `edit_and_approve` is never recorded; this is
an assumption on `Requests`, read off `server.ts`. The worker drops the nonce
that `escalate` returns, so no inbox receives it. The setting with the
escalation target is read anew for every hand-off; the model keeps it fixed
along a behaviour, resolving or not. The sweep visits tenants in turn; the model
has one, since hand-offs of different tenants share nothing but the job.

### 2.4 AuditChain and the code

| Code | Model |
| --- | --- |
| `audit_events` in sequence order | `rows`: number, body, previous hash, hash, whether a payload is referred to |
| a hash | the sequence of bodies hashed into it: two are equal exactly when the histories are |
| `audit_chain_tips`, its row lock | `tip` and its owner; `LockTip` waits for it, `Commit` or a rollback frees it |
| `ObjectStore.put` (object, then row) | `Upload`, `Register`: `blobs` and `stored` |
| `append` in a transaction of its own, or in the caller's | a writer's path through `LockTip`, `AppendAuditEvent`, `Commit`, with `Contention` where `#withRetry` tries again |
| `emit` after the action has committed | `Act`, then the append: a writer may die between |
| `verifySegment`; the jobs of the worker | `VerifySegment`, `RecordVerification`; `ReadHead`, `WriteAnchor` |
| `query` with a cursor | `Query`, one page at a time |
| rows changed behind the triggers | `AlterRow`, `LoseRow`: what verification is there to find |

`AuditLog` has a log that grows by whole records, seals over prefixes of it,
and readers; `ImplementsLog` maps the committed rows to it.

### 2.5 The tenant services and the code

Each service is a module over the tables it owns. `pc` fields follow one
execution of a function from transaction to transaction, with the values it has
read; a `Stop`, `Lose` or `Abort` action ends it anywhere.

| Module | One execution | Between its steps |
| --- | --- | --- |
| `Configuration` | `pub[p]`: `publishSnapshot`, statement by statement; `reads[p]`: a read that will fill the cache | values are written, dates pass, other publications commit |
| `ScopeCard` | `request[p]`: find the open cards, close them, insert | other publications, midnight |
| `ConsoleSignIn` | `asked[r]`: sign-in, second factor, acceptance of a link | attempts on the same principal, minutes, sign-out |
| `Intake` | `hooks[w]`: claim, decide, audit, answer | redeliveries; the handler may be lost |
| `Delivery` | `outbox[d]`: check, reserve, send, mark | retries, callbacks in any order |
| `PolicyGate` | `gates[g]`: immutable rules, one threshold at a time, the verdict's row | settings are edited |
| `Planning` | `plans[p]`: axes, pin, skill, settings, revalidations, checks | settings change, revalidations are raised |
| `Corpus` | an ingest's section, a publication's sweep, a question and its gap | each other |
| `SkillRun` | `runs[i]`: budget, providers in turn, gates | one run only: they share nothing but a counter |
| `TaskGraph` | `flight`: an activity that has taken effect but is not on record; `record`: the results on record | stops, hours, the reviewer |
| `Calculation` | one call of a tool; one posting or reset of the stub ERP | - |
| `Migrations` | `runner[i]`: table, lock, ledger, file by file | other instances, of other builds; lost sessions |
| `ReleaseGate` | one command | - |

## 3. Runs

| Run | Instance | Shows |
| --- | --- | --- |
| `executor_turns` | two processes with a loop each, one on an older build; prepare, signal, deliver with compensations; 2 crashes, 3 faults, 3 lease expiries | one turn at a time, nothing executed again once it has an outcome, retries bounded, compensations lost only by a failure, closed runs stay closed, no sleep on an arrived signal, and the run implements `DurableRun` |
| `executor_nightly` | one loop; activity with two attempts, timer, marker, signal, activity; crashes, faults, expiries | under fairness every started run ends |
| `executor_overlap` | two loops of one process, signals at any time, swept timers, turns longer than the lease | what the history, the stack and the outcome say stays sound even then |
| `executor_shared_id` | the default deployment: loops that share a workerId | **violation**: a completed activity is executed again |
| `executor_lost_wakeup` | one loop, one early signal | **violation**: parked for a hundred years on a signal that has arrived |
| `invoker_calls` | two callers, two calls each, one key, two payloads, an unapproved and a misdirected call, a crash, a fault, a change of grant | at most one effect per key, only authorised effects, truthful replays |
| `invoker_failed_key` | as above, without crash | **violation**: a key that failed for good reports that it is in flight |
| `handoff_sweep` | two hand-offs out of five questions (two of them slips that `issue` lets through), three people, two actions each, two sweeps, one aborted | closed once, never by the assignee's approval alone, never reopened; old nonces void; under fairness nothing stays open past its SLA |
| `handoff_dual_control` | one hand-off, no sweep trouble | **violation**: the second approver acts first and closes a dual-control hand-off alone |
| `audit_trail` | two writers, three events (one with a payload), two attempts, one damage, pages of one row | the chain implements the log; a verification is ok exactly when the rows it read are a stretch of the history; pages miss nothing; nothing is logged that did not happen |
| `tenant_services` | each of the thirteen services with two or three executions that overlap (table below) | sixteen properties, at least one per service |
| `settings_in_force` | one process, two fields, one publication | **violation**: a snapshot published without a date holds none of the values in force |

`tenant_services` is one run because its services share no table: a behaviour
picks one and leaves the variables of the others at their initial values. Their
product would add states and nothing that either can do to the other; where
they do depend on each other, the dependence is a choice within the module that
reads (section 2).

| Service | Instance | Property |
| --- | --- | --- |
| `Configuration` | two processes, a field, values at two scopes, one date ahead, two publications | `OneCurrentSnapshot`, `CompleteMeansResolvable` |
| `ScopeCard` | three publications, dates up to two days ahead | `NoGapInCards` |
| `ConsoleSignIn` | three requests, a lockout after two, links and challenges that expire | `LockTakesItsFailures`, `SessionsComeOfSpentLinks` |
| `Intake` | three handlers, messages that share an id or a text | `DuplicateNamesItsOriginal` |
| `Delivery` | two deliveries with one key or two, two callbacks | `OutputReceivedOnce` |
| `PolicyGate` | one gate, rules over two thresholds, two edits | `PinnedVerdictIsTheSnapshots` |
| `Planning` | one plan, four skills, one change of settings, two revalidations | `AutonomyIsBacked` |
| `Corpus` | two ingests, a publication, two questions | `NewestVersionIsOpen` |
| `SkillRun` | one invocation, routes of up to two models, one of which is told to fall back on a filter | `NoAnswerShopping` |
| `TaskGraph` | one run, three hours, one stop, two tries | `DeliveredAsDecided` |
| `Calculation` | ties of either sign, an overflow, numbers that are no integers, two currencies and two scales, shared keys; two postings and a reset | `FiguresAreExact` |
| `Migrations` | two instances, three builds, three boots | `SchemaIsTheFiles` |
| `ReleaseGate` | a case per suite and the canary, every outcome and flag | `NothingBrokenIsReleased` |

Bounds. The counters of crashes, faults, expiries, signals and grant changes
are named constants and only occur in the guards of the events they count; none
is read by the code's own actions. Two loops (two callers) are the least that
interleave, and every hazard listed is a pairwise one. Two crashes let a
recovery be interrupted. `MaxSteps` is small so that the step budget is
exhausted as well as not. Two hand-offs give the sweep a list to work off in
order, and two recorded actions each let the assignee repeat an approval or the
second approver follow it. Two writers of the audit log are the least that
contend; a third execution is given to the services in which an answer depends
on one that overtook another (scope cards, sign-in, webhooks). The theorems hold for every value of all of them.

Every property of a passing run has a mutant in `PROJECT.json`: a plausible slip
in the code, as an operator `Bug_...` next to the definition it replaces, under
which TLC finds that property violated in the same run.

## 4. Fairness

`Terminates` assumes weak fairness of each loop's turn (the poll loop never
stops while its process lives), of time (timers, back-offs and leases run out)
and of the reviewer who answers a parked run, and strong fairness of the
sweeper: `runPollLoop` sweeps whenever `sweeperIntervalMs` has gone by, before
it polls, so finding work cannot put it off for ever. A restarted process is
the same loop starting over. Crashes, faults and early signals are not fair.

`BreachIsAnswered` assumes weak fairness of each sweep: the interval timer starts
it every minute and a sweep that runs goes on. Nobody is assumed to act, time is
not assumed to pass, and the premises are stated in the property: an escalation
target resolves, and no row makes the job throw.

## 5. What the violations say

* **Shared workerId.** The worker starts `WORKFLOW_WORKER_CONCURRENCY` (8) poll
  loops on one executor, hence one `workerId`. `#scheduleRetry`, `#scheduleTimer`
  and `#awaitSignal` already free the lease, then `pollOnce` releases it again by
  workerId. In between a sibling may have leased the run; its lease is freed and
  a third turn starts next to it. With a workerId per loop the same run passes
  (`executor_turns`), and `LeaseExcludes` proves it for any number of loops.
* **Lost wake-up.** `#awaitSignal` does not look for the signal in the
  transaction that parks the run. If reviewers only answer parked runs, the run
  passes.
* **Failed key.** `#failPermanently` stores no outcome, and `#reserve` reads a
  key without outcome as in flight.
* **Settings in force.** `publishSnapshot` and `resolve` pass `scope.asOf ?? null`,
  so the SQL default `CURRENT_DATE` never applies, and `effective_from <= NULL`
  holds of no row. With an explicit date the snapshot is the resolution of that
  date.
* **Dual control.** `act` lets the first approval await the second only when it
  is the assignee's (`isAssignee` in `awaitingSecond`). When the named second
  approver approves first, the hand-off is closed and the nonce spent, with one
  approval on record. `AssigneeNeverClosesAlone` is what the code does ensure.

Three more things the hand-off model makes plain, without a run of their own:
an escalated hand-off can neither be acted on (its nonce was dropped) nor
escalated again, so it stays where it is (`EscalationVoidsNonces`,
`EscalatedOnce`); a dual-control hand-off issued without a second approver can
be neither approved, rejected nor escalated, and its throw ends every sweep
before the hand-offs issued after it, which is why `BreachIsAnswered` needs
`AllHaveSecond`; and no edit is ever recorded through the API.

### 5.1 Where code and prose differ, without a run

Read off the code while modelling; each is in the model as the code has it.

* *Executor.* The comment in `#advance` (s.9.5) asks for the definition of the exact
  version; where that one is not registered, the code falls back to the one registered
  last. The worker registers a single version, so the model has one program.
  A run closed as completed becomes failed when its audit event cannot be emitted;
  `TerminalStaysTerminal` permits that one step (the code does it) and no other.
* *Invoker.* Whether a call may be live is decided on the grant as read. A tool demoted
  or revoked between that read and the provider call still performs live, and
  `LiveWritesAuthorised`, which speaks of one call's own check, allows it.
* *Audit.* Migration 0002 (:16-17) says that the chain makes an out-of-band change
  detectable, the runbook (:31) that a deletion shows as a sequence gap. `verifySegment`
  walks the rows it finds and compares the last of them neither with `audit_chain_tips`
  nor with an anchor: when the last events are lost, a full verification of the others is
  ok, and the first rows of a segment that starts inside the chain may be missing from an
  ok verification of it. `VerificationExact` says what it does tell: a row altered, or
  lost before another that is read. In the model `LoseRow` of the last row and then
  `VerifySegment` show the rest.
* *Sign-in.* "Each link works once" (`console-auth.ts:254`), but `acceptInvite` reads the
  link at :248, refuses one that is spent at :252, hashes the password, and spends the
  link at :268; `consumeInvite` does not ask whether it was still unspent. Two requests
  that overlap both set a password and each is handed a seed: in the model two seeds of
  `drawn` have one link. A seed "becomes usable only once a code generated from the
  device proves the QR was actually scanned" (:240-241), but `confirmEnrolment` checks the
  code against the seed it read at :296 and `confirmTotp` at :313 confirms the row: an
  acceptance in between has replaced the seed, and its device was never proven.
  An attempt under the limit writes `locked_until` back to null along with
  the count it read plus one. So a wrong password whose row was read before a lock was
  applied erases the lock, and so does a wrong second factor, since `completeSignIn`
  does not look at the lock; a count may likewise come back after a success cleared it.
  `LockTakesItsFailures` is the direction that holds: no lock without the failures.
  A request that stops between `setPassword` and `consumeInvite` leaves the link usable
  beside a password that works; on an account that was enrolled before (a reset) one
  can then sign in with it and the seed of the earlier, spent link, while the new link
  stays open. `SessionsComeOfSpentLinks` speaks of the link the session's seed was
  drawn on.
* *Configuration.* `scopable_by` of the catalogue is never enforced. A read that
  was under way when its field was written fills the cache after the
  invalidation. Under READ COMMITTED a publication may mix values from before and
  after a write. Health looks at live values, not at the snapshot in force.
  `server.ts:764` calls values "not yet readable by runtime" that `resolve` reads
  at once.
* *Scope card.* The publication route stores the body it is given; the comment
  says AS-SCP-014 is enforced there.
* *Intake.* The key is claimed before the decision is logged: a handler that dies
  in between has its retry answered 409, and nobody decides the message. The
  webhook route enqueues nothing. The classifier's comment promises the strongest
  effect; status and feedback are looked at first.
* *Delivery.* A send that failed keeps its key, so the retry is told that the
  message was sent. That a channel may show an output means only that none of its data
  classes is `never` or `deny` there: `canRender` lets `pointer_only`, `step_up`,
  `masked` and the other modes of `sensitivity.ts:33-41` through (`conditional` with its
  conditions attached), and the delivery service looks only at whether rendering is allowed. That
  the session stepped up (`capabilities.ts:54`), or that a value was masked, is checked
  nowhere on this path.
* *Policy and planning.* The idempotency key of a graph uses the context's
  identity, new at each resolution, where the comment names the token's hash
  (`planner.ts:352` and `:7-10`); the write tools of a skill share one key. The
  order check looks at ranks while `depends_on` follows the order of
  `required_tools`. Revalidations are never closed by the code.
  The planner resolves its settings without a date (`planner.ts:273-290`, `324-325`),
  which the resolver answers as in `settings_in_force`: every setting is missing and a
  compile is refused. `ReadSetting` and `ResolveEntity` give a date, as if the caller
  had, so that there are compiles to say something about: every outcome of the code is
  one of the model, and `AutonomyIsBacked` holds of graphs the code would admit once
  the date is passed. The one caller of the gate (`workflows.ts:343-372`) passes no
  `settings_snapshot_id`: pinned evaluation, and `PinnedVerdictIsTheSnapshots` with it,
  is what the engine offers, and no graph uses it yet.
* *Corpus.* Retrieval does not use the pinned pack. Unchanged sections keep the
  pack version they were written under, so a later version's pin does not find
  them. Overlapping ingests can close a version on the day before its own start.
  Two publications may both end published; publishing an absent version leaves
  none. A rollback does not restore ranges. Of two ingests that insert the same version
  of a section, `ON CONFLICT DO NOTHING` (`ingest.ts:322`) drops the later one's text and
  still counts it as inserted (`:335`); `NewestVersionIsOpen` speaks of versions and not
  of texts.
* *Skill run.* The worst-case cost is checked for the first model of the chain
  only. A line that starts "I cannot" exempts an output from the grounding gate.
  The arithmetic gate recomputes the totals the caller declared with the request
  (`runtime.ts:80`, `:248`), before the model was asked: none that the model states.
* *Task graph.* After an approval the context is resolved again without hints or
  date; any move but a rejection counts as approval; the verdicts `escalate` and
  `dual_control` are treated like `allow`: the workflow stops for `refuse` only, the
  activity `authorise` does not read `dual_control` and `issue-handoff` records nothing,
  so one approval lets the output out (`engine.ts:6-9` promises otherwise); `invoke-skill`, as
  registered, always answers that it is not ok.
* *Calculation.* Of right-hand items with one key all but the last are in no list
  of the reconciliation. A translation keeps the scale of the source currency.
  A reconciliation in which one pair cannot be subtracted (another currency or scale, or
  a difference past the safe integers) is refused as a whole; the tolerance's own currency and
  scale are never looked at. The stub ERP adds whatever numbers it is posted: a
  fraction, or a sum past the safe integers, is `Inexact` from then on and nothing says
  so. Its `reset` clears the journal and keeps the balances; nothing calls it.
* *Migrations.* The ledger table is created before the lock is taken, so of two
  first boots one may fail. A wait for the lock ends at the statement timeout. A
  new file that sorts before an applied one is applied after it. An unlock that throws (`migrate.ts:120`, in a `finally`) makes a
  finished boot a failed one.
* *Release gate.* A run of no case passes; a suite without cases is not asked for
  its floor.

## 6. Proofs

`WorkflowExecutorProofs` proves `IInv` inductive: types; three facts about the
history alone (`HistoryInv`); and `LocalInv`, what a loop may rely on between
two of its transactions whatever the others did in between. The argument is
that the history only grows, and replay's answers never go away with it: a call
site that was reached stays reached, an attempt recorded as started stays
recorded, a function that replayed to its end still does. `LocalInv` is needed
because a property of the history alone is not inductive: what a loop appends is
justified by what it read transactions ago. From `IInv` follow `TypeOK`,
`CallOrder`, `CompletionWasScheduled`, `CompensationFollowsCompletion` and
`CompletedMeansDone`, for every program, deployment and bound.

Its second part assumes `Orderly`: a workerId per loop, turns within their
lease, signals to parked runs only, no timers. It proves that a loop in its turn
holds the live lease of a running run, or the run is closed and the loop only
repeats that, whence `OneTurnAtATime` and `TerminalStaysTerminal`. Each
assumption is needed: dropping the first is `executor_shared_id`; the others are
allowed in `executor_overlap`, where both properties fail. With turns apart, what
one loop read of the history is still all that its activity's attempts depend on
when it acts on it, and the other five properties of `executor_turns` follow:

* `NotAsleepOnArrivedSignal`: the loop about to park has found no signal, and
  nobody records one before the run is parked.
* `ServedFromHistory`: the site of an activity about to run has no outcome on
  record, now and not only when the turn began.
* `AttemptsBounded`: the attempt a loop holds counts the started ones on record;
  a crash leaves one of them without an outcome, and so does an error of the
  transaction that records the outcome *if* the one that was to record the
  failure is lost as well. So the bound has one attempt more for each crash and
  one for each *pair* of database errors (`Lost`). The proof found this: with a
  single term for both, or none for errors, the bound is false from three errors
  on, and the run has that many.
* `CompensationLostOnlyByFailure`: between an activity's completion and its push
  the only loop in a turn is the one that pushes it, and the position it read is
  still free.
* `ImplementsDurableRun`: a step of the executor is one of `DurableRun` or shows
  the function nothing. It needs `RunInv`: every event is of a call site whose
  predecessors are answered (`InOrder`), so that behind the site a run waits for
  nothing has happened yet (`NothingBehind`); what a loop is about to record is an
  answer still waited for, or one of a site that has its success already (a
  database error after `activity_completed` makes the catch block record a failure
  which replay never looks at); what it is about to push is above all that is on
  the stack; and of a closed run it has nothing left to say but that it failed. It
  is proved of the whole stack's order, not only of its members, which is what
  `Bug_PushAtTheBottom` breaks.

`ToolInvokerProofs` proves, with no assumption beyond the types of the constants
and the registry's own validation, that a key in flight belongs to exactly one
execution of `invoke`, which is the only one that may add to the ledger under it,
and from this all safety properties of `invoker_calls`, and three more: types,
`ReplayedOutcomeRecorded`, `SettledKeysStay`.

`HandoffProofs` proves every safety and action property of `handoff_sweep`, and
also types, `WaitingHasFirstApproval`, `EscalatedOnce` and `OnlyARecordSpends`, from
one inductive invariant: the properties themselves, and `NoncesOut`, which says
that only nonces of an issue are in inboxes while an escalated row expects the
one its escalation made. Without it nothing would keep an action from being
recorded of an escalated row and the row from being closed after all. The
assumptions are the types of the constants.

`AuditChainProofs` proves the audit store, for any number of writers, events,
retries and damaged rows. Its `IInv` says of each writer what it may rely on
(`WriterInv`: its event is issued, not in the log and nobody else's, its payload
is stored before the row will say so, and between lock and commit it holds the
head of the chain), that one writer at a time is between lock and commit
(`Apart`), and that the head counts a history of events issued and done
(`HeadInv`). `ChainIntact` alone is not inductive: a commit extends the chain
correctly only because the head its hash was computed from is still the head.
From `IInv` follow `TypeOK`, `ChainIntact`, `LoggedOnlyWhatIsDone`, and that the
store implements `AuditLog` (`ImplementsLog`): a commit is `Record`, an anchor
`Seal`, damage `Damage`, every other step a stutter. The only assumptions are
the types of the constants.

Two further invariants are about the readers. `ReaderInv`: what a client has
seen is the history up to its cursor, for as long as nothing is damaged, because
then the row with number n stands n-th, and the page after a cursor starts where
the last one ended. `VerificationInv`: rows, damaged or not, *vouch* for the
history (a row whose body is unaltered has the hash of the true prefix, and the
numbers still ascend), and so does every stretch a verification walked or
recorded, since history only grows. Links that verify without a break are then
numbered without a gap and hash to the prefix they claim to be, which makes them
a stretch of the history (`IsStretch`); a stretch, conversely, has no broken
link. For the count of verified rows the least broken link matters: all before
it are clean, and with it the rows are no stretch.

`AccessProofs`. *Scope cards*: the property is inductive beside types, and the
work is in `CommitCovers`: closing a card at the new one's date uncovers nothing,
because from that date on the new card covers, whichever cards the publication
found and whatever was committed since. *Sign-in*: `LockTakesItsFailures`
counts the wrong attempts that have written. An attempt holds a count it read earlier, so
what it will write is bounded by those that had written when it read, and one more, which
is itself (`FailInv`); that it may be stale only makes the bound looser.
`SessionsComeOfSpentLinks` needs `SeedInv`: each seed there ever was is drawn on a link
that is spent by then, and a request about to draw one, to confirm or to let someone in
has such a link or seed behind it (`Standing`); a link, once spent, stays so under every
action (`LinksOnlyGetSpent`). *The gate*: the snapshot never changes
(`SnapshotStays`), so what a pinned walk has read agrees with it, every rule it
has passed allows the call under it, and what is left is in the order of ranks
(`WalkInv`). A rule that objects is therefore the highest that does
(`HeadIsHighest`); ranks may tie, and the theorem covers every order among
equals. *The planner*: a compile's level is under the ceilings of its skill and
its class, and under the interim level of every revalidation the look at the
skill could have seen (`UnderCeilings`). None is ever resolved, so those seen at
the look are still there when they are queried, and one raised in between can
only lower the level. Each admission check that passed still holds of what the
compile holds, since that no longer changes (`PassedChecks`), and a graph is its
compile's, node by node: nothing in it goes live below `execute`, and one that
may not deliver by itself has a hand-off among its nodes (`NodesAreBacked`).

`ExchangeProofs`. *Intake*: a key is claimed once, by a handler that went on to
decide its message; a duplicate holds the position of such a claim. *Skill run*:
each target asked after the first was asked for a failure that it declares, and
an answer is the last thing heard. *Task graph*: the record is in the order of
the function (`InOrder`), an activity in flight has on record what leads to it
(`FlightInv`), and every effect rests on a result on record (`Warranted`); what
warrants a refusal and what warrants output exclude each other, also when a stop
makes either activity run again. *Delivery*: a key has one row, a row belongs to
the call that wrote it, and what arrived under a key was sent by that call,
which sends once.

`StoresProofs`. *Release gate*: the exit code is the gate's verdict, and results
are as many as the cases they stand for, so the rate the gate computes is the
rate of the cases. *Migrations*: the ledger is the schema, no identifier is in it
twice, and what a runner passed or knew is in it. The lock does not occur in the
argument: a session may lose it and the runner go on, and then the ledger's
primary key, checked in the transaction that applies the file, keeps the file
from being applied again. *Configuration*: a publication has the next number or
one that has been taken in the meantime, and one whose number is still free has
superseded the snapshot there is; the unique index on the version does the rest.
`CompleteMeansResolvable` is a statement about one state: a row that health
counts is a candidate of the resolution at its own scope, and a resolution with
candidates picks one that is not blank. *Corpus*: the versions of a section
run from 1 to the newest without a gap (`VersionsRun`), so an ingest that looked
up a version closed since finds the next one there and inserts nothing; one that
looked up the newest closes it and opens the next.

*Calculation*. `FiguresAreExact` is proved part by part, each for all amounts, units,
lists and postings:

* Rates. With the quotient and the remainder of the magnitudes, each rounding
  goes up exactly where the remainder says so (`RoundedMagnitude`), and taking
  the sign off and putting it back changes no distance and no parity
  (`DivisionIsApplied`).
* Shares. The quotient for each, and one unit more for as many of the first as
  the remainder has units (`SharesAreExact`).
* Sums, differences and verdicts. A sum that has not thrown after k amounts is the
  running total of the k, all of them in its unit and each total on the way safe; one
  that has thrown stays thrown. So the answer is a refusal exactly when an amount or a
  total on the way is at fault, and a verdict compares with the exact total.
* Reconciliation. If a pair cannot be subtracted the answer is `Thrown`, and that pair is
  the cause. Otherwise an item of the left takes at most one of the right, and no two
  the same, so the matched and the differing pairs, and what is left over, divide
  each side. Unit by unit, the totals then differ by the differences of the pairs and by what is
  left over (`PairsBalance`), and leaving the pairs without a difference out of
  the sum changes nothing (`EvenPairsAddNothing`). Of items on the right with one
  key the last is kept (`KeptAreTheLast`), which is why the property speaks of
  these only.
* The ERP's accounts. Applying the lines of a posting one after the other moves
  each account by the sum of its lines (`LinesAddUp`), and an entry more in the
  journal is its amounts more (`HeldAfter`); so an account that holds an integer holds
  what it held at the last reset and the sum of the journal's live postings (`BooksInv`).
  One addend that is no safe integer makes the account inexact for good, which is why
  nothing is claimed of such an account.

The sums, `Moved` and `Posted` are folds of the community modules, and the prover
knows nothing of a fold. Each is shown to be the one function on the subsets of
a finite set that takes one element at a time (`SubsetRecursion`, `SumsExist`,
`SumsAreSums`), from which a sum is known by `SumWithElement`: any element may
be taken out of it. The induction under this, and wherever a definition takes the
first, newest or most specific of several, is written as a smallest
counterexample: `SmallestSet` among the subsets of a finite set, `LeastNumber`
(`LeastOfNaturals` in the other modules) among the naturals, both from the
library's `WFMin`.

`ServicesProofs`. A step of `MCTenantServices` is a step of the service that takes
it and leaves the variables of the others as they are (`EachSteps`). A behaviour
of the whole is therefore one of each (`EachServiceIsItself`), and `TypeOK` and all
fifteen safety properties of `tenant_services` hold of the services together. It is
so because the modules share no variable: what a service reads of another's
tables is in its own module, as values that may change between its reads
(section 2).

What the proofs assume of the constants is stated next to them (`CardConstants`,
`SignInConstants`, `GateConstants`, `PlanConstants`, `IntakeConstants`, `SkillConstants`,
`GraphConstants`, `DeliveryConstants`, `ReleaseConstants`, `MigrationConstants`,
`ConfigConstants`, `CorpusConstants`, `CalcConstants`), and TLC evaluates all of them: types,
finiteness of what is counted, sets of inputs that are not empty. One is a fact of
arithmetic: that a power of ten is positive (`CalcConstants`), as the prover knows
nothing of powers. Three definitions
are stated so that they can be reasoned about without an induction over a
sequence: `RowsFrom` takes the rows from a number on as a subsequence, the
table being in the order of its numbers; `ToolsAt` takes the tools at the places a
filter keeps; and `Specificity` compares scopes without adding weights. What they
return is what the code's loops return.

Properties that are proved but in no run (types, `CompletionWasScheduled`,
`ChainIntact` and those named above) hold for every instance, so the runs are spent on the others.

Only model-checked:

* `Terminates` and `BreachIsAnswered`: liveness is beyond the prover.
* The five violations of section 5, which are false.

## 7. Plan

1. Done: C7 and C10, the two components that decide whether an effect can happen
   twice, with their proofs.
2. Done: `Handoff` (L9): issue, act, escalate; dual control, nonces, the SLA.
3. Done: `AuditChain` (C15), shown to implement an append-only log.
4. Done: the tenant services, one module each, and the algorithms they rest on.
5. Done: the invariant of `AuditChain` and its refinement of `AuditLog`, proved;
   exact verification and paging; what an orderly deployment of C7 achieves; and
   the safety property of every tenant service, alone and beside the others.
6. Done: `DurableRun`, the abstract run, implemented by `WorkflowExecutor` in an
   orderly deployment. Left: to use it in `TaskGraph` in place of that module's own
   account of what is on record.

## 8. Not modelled

Text and numbers (prompts, templates, embeddings, ranking, the words a
classifier or a gate looks for), cryptography (hashing is injective, MACs are
equality), row-level security (enforced by the database, tested by the isolation
suite), HTTP routing and rendering, telemetry, seeding, and the deployment
scripts. The evidence store, `markStale`, `generateScopeCard` and
`assertUsableFor` have no caller in the apps. Two governance jobs of the worker
(idle conversations, stale settings) are single statements. The choice between
several runs of the dispatch query is left out because runs share nothing but
the loops.
