# Formal model of the Ω APEX / HAKIM runtime

TLA+ modules, TLC configurations and TLAPS proofs kept beside the code under
`app/hakim` (Python) and `android/hakim-companion` (Kotlin). Paths below are
relative to the repository's root; `PROJECT.json` maps every definition that
models code to its lines.

## 1. The system and its parts

HAKIM is an autonomous assistant runtime. It accepts events (GitHub webhooks,
workflow runs, its own heartbeat), keeps them in a durable queue, chooses a
route of action for each under a governance kernel, executes bounded missions
whose consequential steps need a human approval proof, keeps a portfolio of
development goals, and survives the loss of the machine it runs on through
snapshots. An Android side asks a person for permission and executes what they
approve. Everything durable is in SQLite or in JSON files replaced atomically;
the processes (an HTTP service, a supervisor thread, one-shot CI runs,
notification callbacks) share nothing else.

| Component | State it keeps | Operations | Talks to |
|---|---|---|---|
| Bounded mission runner `mission_autonomy.py` | step outcomes, execution reservations, consumed approval proofs (rows of the state store) | `run`, `_authorized`, `OutcomeAudit.*` | state store, step callbacks, approval verifier, authority gates |
| Authority gates `core.py`, `mission_kernel.py` | none (pure) | `GovernanceKernel.evaluate`, `MissionKernel.evaluate` | called by the runner and the fabric |
| Durable state store `durable_state.py` | `state` and `events` tables | `set_state`, `set_state_if_absent`, `compare_and_set_state`, `claim_once_and_reserve`, `append_event` | SQLite |
| Durable work queue and worker `durable_worker.py` | `work_queue` table: status, attempts, lease, delay | `enqueue`, `recover_expired_leases`, `claim`, `complete`, `fail`, `run_once` | continuation engine, SQLite |
| Event-driven continuation `event_continuation.py` | processed event ids, in memory | `handle` | candidate providers, executors |
| Recovery governor `recovery_governor.py`, `best_route_optimizer.py`, `intelligence_fabric.py` | failures per (event, action), last selections | `register`, `candidates`, `execute` | continuation, gates, state store |
| Ingress, supervisor, service `ingress_supervisor.py`, `autonomy_service.py`, `production.py` | the running thread | `accept`, `drain`, `serve_forever`, `start`, `stop` | queue, worker, heartbeat |
| Goal portfolio and governor `goal_governor.py`, `goal_loop.py`, `completion_auditor.py` | the goal list (one state row) | `seed_if_empty`, `add_if_absent`, `next_ready`, `update`, `advance`, `complete_merged_goal` | GitHub, coding providers, state store |
| Self audit and excellence `self_audit.py`, `continuous_excellence.py` | last report, generation | `run_once`, `evaluate`, `collect` | portfolio, capabilities, queue |
| Local sovereign runtime `local_sovereign.py`, started by `run_local_sovereign.py` and `run_android_sovereign.py` | local queue, audit rows, checkpoints, undo copies, backup archives | `enqueue_goal`, `process_once`, `run_goal`, `write_text`, `complete`, `fail`, checkpoints, `VerifiedBackupManager.create` | SQLite, files, local models |
| Android permission broker `android_permission_broker.py` | one JSON file per request | `request`, `decision`, `decide`, `request_and_wait` | notification process, browser handler |
| Cloud continuity vault `cloud_continuity.py` | database, snapshots, manifests, head | `snapshot`, `restore_latest`, `prepare`, `seal` | the 15-minute workflow and its cache |
| CI repair `ci_repair.py`, `providerless_ci_recovery.py`, `development_actions.py` | attempt counters | repair, rerun, merge | GitHub |
| Providers, cost, capabilities `coding_provider.py`, `cost_policy.py`, `capability_registry.py` | health and spend counters | fail-over, charge | LLM endpoints |
| Forge, R1, R2, factory `forge.py`, `r1.py`, `r2.py`, `system_factory.py` | in-memory life cycles | transitions | none |
| Android companion (Kotlin) | claimed request ids, pending request, safe mode | claim, approve, execute | relay server, person |

Which behaviours are hard, and what would make each part correct:

* **Mission runner.** Processes may die between a callback's side effect and
  its record; store calls may raise; two processes may run one mission. Correct:
  an approval buys one execution, an ambiguous attempt is never repeated unless
  its rollback was proven, steps keep their order, a durable outcome tells the
  truth, a proven rollback leaves the step free.
* **Queue and worker.** Leases expire under a slow process, `fail()` reads and
  writes in two transactions, worker ids are shared by default, failures raise
  inside the except clause. Correct: one process at a time on an event, settled
  jobs stay settled, the dead letters are exhausted, effects repeat only because
  of incidents, everything accepted is settled in the end.
* **Recovery governor, supervisor.** Counters read and written in two
  transactions, selection against execution, a heartbeat that fills the queue
  the drain is emptying. Correct: nothing consequential is executed, a path that
  fails is left after its failures and an event is not given up before, a drain
  ends, the heartbeat is not starved.
* **Goals, CI repair, merges.** Remote effects (branch, commit, pull request,
  rerun, merge) before the record of them; people who push, close and merge
  meanwhile; webhooks lost or delivered twice; a report that is used after it
  was true; counters written after what they count. Correct: one goal at a time,
  completed means merged as recorded and checked, a merge is of the verified
  commit, budgets hold but for incidents, a verified merge completes its goal
  (it does not: see the runs).
* **Vault.** Several files replaced one by one, a cache between runs, damage at
  rest. Correct: the newest sealed snapshot that is intact is what a restart
  finds, no interruption costs a recovery point, no foreign `-wal` file is
  replayed into a database.
* **Local runtime.** Two command lines share one directory by default; leases
  (120 s) are shorter than a goal's model calls may take; files are replaced
  with an undo copy; archives are made and read back. Correct: a settled goal
  stays settled, a write can be undone, a backup reported as made restores.
* **Permission broker, companion.** A person's two presses, an expiry and a
  poller on the same file. Correct: a decision once made stays, nothing runs
  without it.

The full list of hazards, each at its line, is in `PROJECT.json`. Some properties
hold only until something the code does not guard against has happened, and say so
with a history flag: a lease outlived by its holder (`outlived`), two calls or
writes at once (`overlapped`), a goal two live processes have held (`shared`), a
backup name used twice (`reused`). What happens after that is not covered: the
code promises nothing there, and the hazards that are exactly these races carry a
note instead of such a property.

## 2. Modules

| Module | What it is |
|---|---|
| `MissionAuthority` | the two decision functions, over step profiles |
| `SlotLedger` | abstract specification: what the execution-slot ledger promises |
| `MissionRunner` | `BoundedMissionRunner.run` and `OutcomeAudit`, several processes over one store; extends `MissionAuthority`, refines `SlotLedger` |
| `MissionRunner_proofs` | its theorems |
| `WorkQueue` | the transactions of `DurableWorkQueue` as operators on the table |
| `ContinuationWorker` | the processes that drain the queue through `EventDrivenContinuation`; extends `WorkQueue` |
| `ContinuationWorker_proofs` | its theorems |
| `PermissionBroker` | one approval request of `AndroidPermissionBroker`: its file, the requester, the calls of `decide()` and `decision()`; checked without an MC module |
| `PermissionBroker_proofs` | its theorems |
| `RecoveryGovernor` | `candidates()` and `execute()` inside the workers' `handle()`; extends `ContinuationWorker` and `MissionAuthority`, refines the first |
| `RecoveryGovernor_proofs` | its theorems |
| `CloudVault` | `prepare`, the work and `seal` over one workspace and its cache, file operation by file operation; checked without an MC module |
| `CloudVault_proofs` | its theorems |
| `GitHubWorld` | the repository: main branch, candidate branches, pull requests and their checks, and the people who use it |
| `CodingProviders` | the provider pool: health counters and the paid budget |
| `GoalGovernor` | the goal portfolio, `advance()` and `complete_merged_goal()`; extends the two above |
| `DevelopmentActions` | CI repair, provider-less rerun, verified merge and the recorders; extends `GoalGovernor` |
| `AutonomyLoop` | the runtime in one process: start, queue, ranking, heartbeat, deliveries, death; extends `DevelopmentActions` |
| `AutonomyLoop_proofs` | its theorems about events, merges and completed goals |
| `AutonomyGoals_proofs` | its theorems about types, budgets, the goal in flight and excellence; extends the former |
| `LocalSovereign` | the local runtime's queue, files, checkpoints and backups, several processes |
| `LocalSovereign_proofs` | its theorems |
| `MCMissionRunner`, `MCContinuationWorker`, `MCRecoveryGovernor`, `MCAutonomyLoop`, `MCLocalSovereign` | instances for TLC |

### MissionRunner

State: `outcome`, `reservation` and `approval` are the three key prefixes of
`OutcomeAudit` in the state store (one map each, per step or per proof); `pc`,
`step`, `proof`, `applied`, `pending` are a process' call of `run()`; `plan` is
the profile of each step; `live`, `execs`, `proofExecs`, `proven`, `done` are
history, used by properties only.

Actions: one per store transaction and per callback, in the order of the code.
`ReadOutcome` is the look at the durable outcome with its three ways on;
`ReconcileGet`/`ReconcileCas` are `mark_execution_compensated` when that outcome
is `rolled_back` (line 367); `Authorize` the verifier and the two gates;
`ClaimApproved` the call of `claim_approved_execution`, with `Claimable` and
`ClaimOnceAndReserve` the one transaction of `claim_once_and_reserve`;
`ReserveInsert`/`ReserveCas` the two of `reserve_execution`; `Execute` and
`Rollback` the callbacks; `CompensateGet`/`CompensateCas` the compensation after
a proven rollback; `RecordOutcome` the record; `Block` every exit that returns
"blocked", whose record is best-effort. `PersistenceFault` is a store call that
raises, `Crash` the death of a process.

Choices: an approval proof is an opaque value and the verifier may return any,
spent or not; a callback that reports success has had its side effect, one that
fails may or may not; `rollback()` returning true has undone what this callback
did (if callbacks lie, no ledger helps); a raised store call had no effect.
`_RISK_SCORE` and the envelope are numbers as in the code. Claim strength and
confidence take only the two values the runner constructs, so the two BLOCK
gates of the governance kernel coincide.

### WorkQueue and ContinuationWorker

State: `status`, `attempts`, `owner`, `lease`, `delay`, `born` are the columns
status, attempts, lease_owner, lease_until, available_at, created_at. Time is
what remains: a lease or a delay is the number of instants left and `Tick` takes
one off each. `workerId` is the configured id (two processes may share one, as
the default configuration makes them); `pc`, `item`, `decided`, `caught` are a
call of `run_once`; `processed` is the engine's set in memory. `holder`,
`effects`, `handled`, `incidents`, `outlived` are history.

Actions: `Enqueue` (any event, any number of times); `RecoverExpired`, then
`ClaimJob` or `ClaimNothing` (the two transactions of `claim`);
`HandleDuplicate`, `HandleDecided`, `HandleFailed` (the ways out of `handle`);
`CompleteItem` or `LoseLease`; `FailSelect` or `FailNotOwned`, then `FailItem`.
Python's sqlite3 opens its transaction at the first write, so `fail()`'s SELECT
is not in the transaction of its UPDATE, and the UPDATE checks nothing again:
they are two actions. `StoreFault` raises in any store call: within the try
block the except clause fails the job, elsewhere the exception ends the process.

Choices: a lease is counted from a clock read before `BEGIN IMMEDIATE`, which
may wait for the write lock, so a claim may leave any positive part of it; the
backoff is any member of `Delays`; rows are claimed in the order of insertion,
the ids breaking no tie (created_at differs); the ranking of candidates is
abstracted to whether one is executable and whether it succeeded.

### RecoveryGovernor

Where `ContinuationWorker` takes `handle()` as one step with a nondeterministic
outcome, this module takes it apart. State: `profile` is how each path is
registered, `evident` and `ready` what its claim factory and its predicate say
at present, `failures` the rows `omega.recovery.failures.<event>.<path>`; `call`
is a process' `handle()`: the paths still to be looked at, the candidates so
far, the selected path, the count as it was read. `failed`, `taken`, `closed`,
`gaveUp` and `faults` are history.

Actions: `Screen` looks at one path (its count, its gates, its predicate);
`GiveUp` is "blocked"; `Select` takes a candidate; `Authorize` is the second
`_authorize`, immediately before the executor; `Run` the executor, which may
raise; `RecordRead` and `RecordWrite` the two transactions of `_record_failure`;
`Clear` is `_clear_failure`. `Fault` is a store call that raises:
`action_source` is called outside `handle()`'s try, `execute` inside it, so the
first leaves `handle()` and the second is a decision "failed". `Change` lets
evidence and readiness come and go at any time. All other steps, time and deaths
are `ContinuationWorker`'s own actions, and `handle()`'s exits its
`HandleDecided` and `HandleFailed`; `ImplementsWorker` is that this is a
refinement, and is proved.

Choices: the scores are left open, any candidate may be the best; the paths are
those registered for the event's type; audit rows (routes, rankings, denials) are
read by nothing that decides and appear only as calls that may raise; a count is
read in the same step as the gates are asked.

Two things the model shows and the properties are stated around. When every path
is exhausted the decision is "blocked", so the worker *completes* the event:
unless `max_attempts` is reached first, an event that only ever failed does not
end among the dead letters (`GivesUpAfterTrying` says what is owed before that).
And with a lease outlived and a shared worker id, two processes can hand one row
to and fro and write back each other's old counts, so a failing path may be
tried any number of times: `FailingPathsAreLeft` is stated for as long as no
lease was outlived.

### PermissionBroker

State: `file` and `tmp` are `<request_id>.json` and the temporary name beside it
that every writer uses; a file is the text last written from its start and its
size, because the interesting damage is an empty file and a short text over a
long one. `call` is each actor's call: where it is, the document in memory, where
its save goes on, what it asks for, whether its token is right, and the name the
file it has open goes by now (`os.replace` renames files that others still
write). `late` says that `expires_at` has passed, `shown` that a person has been
shown buttons or a page. `pressed` and `overlapped` are history.

Actions: `Open`, `Write` and `Replace` are the three steps of `_atomic_json`;
`Check` is `decision()` (load, expire what is still pending), used before `Judge`
by `decide()` and after its save by every call; `Judge` keeps a final status or
refuses a token; `Reload` is `decide()`'s second load, which is saved with the
decision and not checked again; `Notify`, `SetChannel`, `Fallback`,
`OpenBrowser` are `request_and_wait` up to its polling; `Begin` is a press, or
the `status` command. `Deadline` is time, `Die` the end of a process, whose
temporary file stays.

Choices: token comparison is a Boolean; text lengths are those of the fields that
change (`Length`); a notification command may show its buttons and still fail.
The property that a request is decided once, and that its file can be read, hold
only as long as no two calls overlap in time (`overlapped`): the code takes no
lock, and under overlap two final answers and torn files do occur in the model.
`AnswersFounded` needs no such condition.

### CloudVault

State: `disk` is the workspace (the database file, its `-wal` file, and under
each name a snapshot and a manifest), `cache` the workspace the workflow saved
last; a file's content is the version of the database it holds, or it is absent
or corrupt. `stage`, `todo` and `result` are a run's place, the valid snapshots
it has not tried yet and how `prepare` ended. `sealed` and `damaged` are history.

Actions: one per file operation, in the code's order. `BeginRun` is the cache
restored to a fresh runner, or the directory as it was left; `PrepareHealthy`,
`PrepareDamaged`, `CopyForRestore`, `RemoveSidecars`, `ReplaceDatabase` and their
rejections are `restore_latest`; `PrepareWithoutSnapshot` its end without one;
`MarkPrepared`, `Work`, `MarkSealed` the transactions of the run; `TakeSnapshot`,
`WriteManifest`, `PruneSnapshot`, `PruneManifest` are `snapshot` with its prune;
`SaveCache` the workflow's last step. `ProcessDies` and `RunnerDies` end a
process or lose the runner with its workspace (after a dead `prepare` or worker
the workflow still seals, its step being `always()`); `MediumFault` damages or
removes one file at rest.

Choices: a new snapshot's name is later than all before (a clock set back
between runs is not modelled); SQLite discards a `-wal` file beside a database it
does not belong to only if that database is new or empty, so the code's removal
of the sidecars is what `SidecarsMatch` needs. Pruning goes newest first, so
after several interrupted prunes an older snapshot may survive among the
retained ones: the properties count recovery points, not names.

### The autonomy loop: GitHubWorld, CodingProviders, GoalGovernor, DevelopmentActions, AutonomyLoop

State: `main`, `branches`, `pulls` are GitHub's; a commit is its place on its
branch, and a pull request has the checks of each of its heads. `health`,
`paidUsed` are the registry's failure counts and the cost policy's counter of
the process; `portfolio`, `generation`, `repairs`, `reruns`, `report` the state
rows of those names; `rows` the queue, keyed by the event because the row's
identifier is derived from it. `job` is the executor in progress: the event, the
path, and what it has read (goal, base commit, pull request), which is lost when
the process dies. `setup` is what is deployed, chosen by `Init` among the
instance's `Setups`: which actions are registered, which roadmap is seeded,
what the webhooks deliver, how checks may end and how much may go wrong.
`GovernorTable`, `DevelopmentTable`, `RepairTable` and `RerunTable` are what each
`install()` registers for which event; `Registered` is the table of a setup's
installers. `retried`, the reruns GitHub was asked for, is history.

Actions: `Start` is `build_runtime_from_env`; `Claim` takes a pending row and the
first candidate of `Ranking`; then one action for each effect or durable write of
the executor (`ProposeGoal`, `CreateBranch`, `OpenPull`, `RecordGoal`;
`CompleteAccepted`, `UpdateCompleted`, `NextGeneration`; `ProposeRepair`,
`CommitRepair`, `CountRepair`; `Rerun`, `CountRerun`; `VerifyMerge`, `MergePull`;
`Note`), then `Settle` or `SettleFailed`. `Heartbeat` is the self audit, either a
new report (`AuditNow`) or the saved one while it is recent (`AuditSaved`), and
continuous excellence on what it says. `ChecksEnd`, `WorkflowPasses`, `PersonMerges`,
`PersonPushes`, `PersonCloses`, `MainMoves`, `MergeRepeated`, `SignalArrives` are
what GitHub and people do. `Crash`, `CallRaises` and `RecoverLease` are faults
and what follows them.

Choices. The queue's own transactions and the registry's counters are
`WorkQueue`, `ContinuationWorker` and `RecoveryGovernor`; here a claim or a
settlement is one step. One process drives the loop. `propose_patch` is one step,
its failed providers counted as incidents. `Ranking` is the order the optimizer
gives the registered actions, computed by running it: for a merge the recorder
(79.9) before `complete-merged-goal` (43.2) and `advance` (37.3); for a failed
check the recorder (80.2) before rerun (43) and repair (41.5), which a failed
rerun reverses. Which of several ready goals has the highest priority is left
open. A setup with `"development"` has the write and merge permissions of
`DevelopmentActions` granted; the repository's workflow sets `OMEGA_ALLOW_MERGE` to
false, so the governor's own merges happen only with that flag on; the
recorder that the violation run is about is registered either way. `MergeAllowed`
is an assumption about GitHub: the code sends the head it verified, GitHub
refuses another one. People rerun no checks that ended acceptably, so
`MergedWasVerified` is about a push or a close between verification and merge and
says nothing of a rerun there that fails. Deliveries may be
lost without being counted; a repeated one, a raised call or a death is an
incident. Rows of events that are never delivered twice under one identifier
are dropped when they are settled. The heartbeat comes at any idle moment.

### LocalSovereign

State: `job` and `line` are `work_queue` and its order of creation (a goal is its
row, since the idempotency key is a hash of the goal); `checkpoint` the
checkpoints; `file`, `staged`, `undo` one workspace file, the temporary name
beside it and the undo directory; `zips` the archives; `proc` what each process
is doing and holds in memory; `id` the worker id its command line passes. `left`
is the bound, `held`, `shared`, `overlapped`, `reported`, `reused` are history.

Actions: `Enqueue`; `BeginWork` (lease recovery), `Claim` or `ClaimNothing`;
`ReplyTool`, `ReplyFinal`, `Exhausted` for the model's turns; `CopyUndo`,
`Stage`, `Replace` for `write_text`; `Complete` or `LeaseLost`; `FailReads` and
`FailUpdates` (or `NotOwned`), two transactions as in the code; `Logged`, the
audit row in a third; `InsertCheckpoint`, `VerifyCheckpoint`,
`PromoteCheckpoint`; `CopyDatabase`, `WriteManifest`, `PlaceZip`, `CheckZip`,
`RemoveZip`, `Report` for `VerifiedBackupManager.create`. `ToolRaises` and `CallRaises` raise,
`Dies` ends a process; `LeaseRunsOut` and `BackoffEnds` are time.

Choices: `verify()` does not catch every error a damaged archive can raise while
it is read (a `zlib.error`), so `RemoveZip` removes the archive or leaves it where
it is; `create()` reports nothing either way. The temporary file of `write_text`
is written in one step; a command the
model runs (`run_process`) is outside, it changes files without undo; a goal ends
completed also when the model answers NOT_PROVEN or BLOCKED, as in the code.
Three exceptions in the properties are needed, TLC shows a counterexample without
each: a goal two live processes have held (`shared`: the lease is 120 s, a goal
may take twelve model calls of 180 s), two overlapping writes (`overlapped`: the
temporary name is derived from the file's alone), and two backups of one name
(`reused`: the label and the second).

## 3. Runs

| Run | Question | Bounds |
|---|---|---|
| `mission_crash` | Do approvals, re-execution, order and the ledger survive deaths, raised store calls and rivals? | 2 processes, 2 steps, 2 proofs, 3 calls of `run()`, routine and consequential steps |
| `mission_serial` | Without deaths, do the outcome and the world agree, is authority respected, can a step be retried? | 1 process, 2 steps, 2 proofs, 3 calls, every profile |
| `mission_stale_rollback` | (violation) Is a side effect of a step in place at most once when the process may die? | 1 process, 1 step, 3 calls |
| `queue_safety` | Exclusion, finality, dead letters and repeats under incidents | 2 events, 2 processes, 2 ids, 2 attempts, 2 incidents |
| `queue_liveness` | Is every accepted event settled? | 2 events, 2 processes, one shared id, 2 attempts, 1 incident |
| `queue_poison` | (violation) Is an event claimed at most `max_attempts` times? | 1 event, 1 process, 2 attempts, 3 incidents |
| `governor_failover` | Are consequential paths left alone, failing ones left in time, and nothing given up untried? | 1 event, 2 processes, 2 paths (each routine, risky or for a human), 3 attempts, 1 failure per path, 1 incident, 1 raised store call |
| `broker_race` | Is every answer one that somebody gave, is a decision kept, is the file readable after a death, does the requester end? | the requester and 2 further calls, any overlap |
| `vault_recovery` | Is any recovery point lost, an older one restored than need be, or a foreign `-wal` replayed? | retention 2, 4 seals, 9 writes, 3 damaged files, 2 deaths; cloud or local |
| `autonomy_loop` | Is what is completed merged and verified, is one goal in flight, do the budgets of repairs, reruns and paid calls hold, is excellence kept behind the roadmap? | 9 setups, 3 roadmap goals (one needs another), 1 improvement, 2 providers (1 paid, budget 1), 1 repair, 1 rerun, 3 attempts, 2 failures per path, 1 or 2 incidents, 1 meddling |
| `loop_verified_merge` | (violation) Does a merge the governor verified and made complete its goal? | all production actions, 1 goal, no incident and no meddling |
| `local_sovereign` | Do settled goals stay settled, can writes be undone, do reported backups restore? | 2 processes, 2 worker ids, 2 goals, 2 priorities, 2 attempts, 1 tool step, 5 setups of what may happen |

Why the bounds are enough. Three calls of `run()` are what the deepest mission
scenario takes (an attempt that is rolled back, one that dies, one that
reconciles); two processes and two steps give every race for a slot and every
order question; two proofs show one spent and one fresh. In the queue two
attempts tell "retried" from "dead-lettered", a lease and a delay of one instant
expire at the next (longer ones only postpone the same steps), and two incidents
cover a death followed by an outlived lease. `MaxIncidents` counts deaths,
raised store calls and leases outlived by a live process; `MaxRuns` counts calls
of `run()`. In `governor_failover` one event is enough because counters are per
event and processes meet only on one; three attempts exceed what one failure per
path allows, and `MaxFaults` counts store calls that raise inside `handle()`; two
failures per path and five attempts were also checked, with one path. For the
broker, a requester that polls and two presses (or a press
and a status command) give every pair of writers and a reader beside them; a call
happens once, so nothing else is bounded. For the vault, four seals with a retention of two mean two prunes, each of which
may be interrupted by either death, and three faults can damage both retained
snapshots and the database; writes are enough for two in each run. In the loop a
roadmap of two goals shows the next one started by the completion of the first,
also when it depends on it; one repair and one rerun (the code's limits are 3 and
1) reach their limits; an incident is a death, a raised call, a failing provider
or a repeated delivery, and each setup has the actions that meet in it: with all
actions, all checks and two incidents together the state space passes what a run
may take (the nine setups have 1.6 million states). In `local_sovereign` each
setup is what may be used up: goals with deaths or raised calls and an expired
lease, goals with writes, checkpoints with backups; these meet only through the
database copy. The file exists at the start only where writes may follow.
Symmetry is used for processes, proofs, worker ids, goals, texts and backup
names, in runs without liveness only.

Fairness (`FairSpec` of `ContinuationWorker`). Weak fairness of each process'
steps: `serve_forever` polls without end, a handler returns, and a process that
died is started again by the service or by the workflow that runs every 15
minutes. Weak fairness of `Tick`: time passes, except that no more than
`MaxIncidents` leases are outlived, that is a handler mostly returns within its
lease. Nothing is assumed of deaths and faults but that they are finite in
number. For the broker: weak fairness of the requester's moves (it polls in a
loop with a sleep; RequesterEnds counts its death as an end) and of `Deadline`
(`expires_at` comes). The other calls may stop anywhere. `CHECK_DEADLOCK FALSE`
there because a request really is over once every call has returned.

What the three violations show:

* `mission_stale_rollback`. `run()` takes the last recorded outcome
  `rolled_back` as proof that the reservation may be compensated, but that
  outcome may be of an earlier attempt. Attempt 1 rolls back; attempt 2
  re-reserves, applies its effect and dies before recording; attempt 3 reads
  attempt 1's outcome, compensates attempt 2's reservation and executes again.
  Docstrings at `mission_autonomy.py:69` and `:78` say that only a proven
  rollback frees a slot.
* `queue_poison`. `recover_expired_leases` does not compare attempts with
  `max_attempts`, and `claim` does not either: an event that kills its process
  is claimed for ever. `governance/HAKIM_CLOUD_CONTINUITY_AR.md:28` says that
  retries are bounded and then dead-lettered.
* `loop_verified_merge`. `record-pr-merged` is registered for the merge event
  beside `complete-merged-goal` and ranked before it, `handle()` executes one
  action per event, and the worker completes the event: the goal stays
  VERIFYING and keeps `advance()` from starting another one, with no crash, no
  raised call and nobody interfering. `tests/test_goal_governor.py:99` expects
  the merge event to complete the goal, with the governor installed alone;
  `autonomy_roadmap.py:113` promises an end-to-end advance without silent idle.

Other differences met while modelling, not made into runs: a process that dies
between `create_branch` and the pull request leaves a branch whose name blocks
that goal until main moves; a provider that reached its failure threshold is
never tried again (`coding_provider.py:92`); one dead row makes the self audit
report "blocked" for good (`self_audit.py:72-77`); a pull request closed without
a merge leaves its goal VERIFYING; an excellence goal that was completed can be
taken up again (`goal_governor.py:265-266`, hence the exception in
`CompletedStays`); a retried `complete_merged_goal` starts no next goal; the
manifest of a local backup names the live store's last known good, not the
copy's (docstring at `local_sovereign.py:386`), and a restore over an existing
database leaves its `-wal` beside it (`docs/LOCAL_SOVEREIGN_MODE.md:49` says to
restore into a new directory); promoting an earlier checkpoint moves the last
known good back (`local_sovereign.py:355`). Hazards of the code that no module
reaches: the relay's claim and its confirmation (`HakimDirectRelay.kt:121`,
`:244`), the blocked record of a process that lost the slot
(`mission_autonomy.py:438`), and the portfolio's read-modify-write if a second
process ever drove it (`goal_governor.py:115`).

## 4. Proofs

For every value of the constants that meets the modules' named assumptions
(`MissionAssumption`, `EnvelopeAssumption`, `QueueAssumption`,
`WorkerAssumption`, `BrokerAssumption`, `GovernorAssumption`, `VaultAssumption`,
`WorldAssumption`, `ProviderAssumption`, `DevelopmentAssumption`,
`RoadmapAssumption`, `LoopAssumption`, `LocalAssumption`), so without the bounds of the runs:
`MaxRuns`, `MaxIncidents`, the number of processes, steps, events, attempts,
goals, seals, deaths and faults, and the deployed setups, are arbitrary.
`RoadmapAssumption` says that what is seeded brings its dependencies along and that
these have no cycles, as in `DEFAULT_AUTONOMY_ROADMAP`, where each goal depends on
the one before. `GoalPortfolio` itself refuses only unknown dependencies and a goal
that depends on itself (`goal_governor.py:44`, `:90`): goals that wait for each
other are never ready, and excellence would be entered beside them.

Every safety property that a passing run checks is the statement of one of these
theorems, or a conjunct of it. Two kinds of hypothesis beyond the constants occur,
and each is one the code needs. `GatesHold` assumes that no process dies, since a
death between the claim and the callback burns an approval; what is left of it
with deaths is `CallbacksApproved`. `OutcomesAreTrue`, `RetriesNotWedged` and
`OneSideEffect` assume one process, no deaths and no raised store calls: the run
`mission_stale_rollback` refutes the last with a death, a raised call leaves an
outcome unrecorded in the same way, and a rival that looks at a step in progress
cannot tell it from one that died. They hold for any number of calls of `run()`,
steps, proofs and profiles. The exceptions `~outlived`, `~overlapped`, `shared`
and so on are in the properties themselves (section 2).

| Theorem | Argument |
|---|---|
| `MissionRunner_proofs!TypeCorrect` | by action |
| `ApprovalsAreSingleUse` | `ApprovalInv`: of two processes about to call back, each holds an unspent proof of its own, because `ClaimApproved` spends the proof in the step that arms the callback |
| `NoBlindReexecution` | `SlotInv`: until a rollback of the step is proven its slot goes from absent to reserved once and nobody is anywhere in the compensation code |
| `CompletedIsDone` | `EffectInv`: the effects in place outnumber the recorded completion and the processes that owe a record or a rollback of one they made, so no rollback takes away the one a record stands for |
| `CallbacksApproved`, `GatesHold` | `GateInv`: past authorization a step is inside the envelope and on the way that is for its kind; the approvals spent on it are, or without deaths exactly are, its callbacks and the process about to make one |
| `OutcomesAreTrue`, `RetriesNotWedged`, `OneSideEffect` | `SerialInv`: what outcome, reservation and world say of a step the process is not in (`Truthful`) and, at each point of `run()`, of the step it is in (`Underway`) |
| `StepsRunInOrder` | `OrderInv`: a process past a step saw it completed, and an outcome "completed" was once recorded |
| `RunnersImplementLedger` | every action maps to a step of `SlotLedger` or a stutter; `RecordOutcome` may record anything without touching the ledger |
| `ContinuationWorker_proofs!TypeCorrect` | with `ItemInv`: `run_once` has an item exactly from claim to return |
| `CompletionsWereHandled` | `HandledInv`: about to complete means decided |
| `DeadLettersExhausted` | `ExhaustedInv`: attempts only grow, so the verdict of the SELECT is still right at the UPDATE |
| `NoConcurrentHandling`, `SettledJobsStaySettled` | `HeldInv`: while no lease was outlived, a claimed item is leased to its process, unexpired, and held by no other; so no write of another process can reach it |
| `RepeatsAreIncidents` | `ClaimInv`: a claim that stands is leased to its process, and with ids of their own no process owns a row otherwise. `RepeatsInv` then counts what may still take effect, the claim to come (`Line`), one about to be taken back (`Overdue`), the processes that lost theirs (`Late`): no step makes effects and that grow together, except an incident by one. With shared ids and a lease outlived it counts the processes that have the event in their own set, for an effect is made once by each until it dies |
| `GovernorImplementsWorker` | every step of the governor is a step of `ContinuationWorker` or leaves its variables alone; its invariants, and what is proved of the queue, are then had for nothing (`GovernedQueueSafe`) |
| `GovernorTypeCorrect` | with `CallInv`: outside `handle()` nothing of a call is kept |
| `ConsequentialPathsNeverTaken` | `SafeInv`: who is about to call the executor passed the gates in the step before, and no gate reads anything that changes except evidence |
| `NoEarlySurrender` | `CountInv`: a counter, plus the processes that have failed and not read it yet, never exceeds the failures there were, whoever writes back an old value; `TriedInv`: a path `candidates()` left out was closed or exhausted |
| `FailingPathsLeft` | `SpentInv`: what a path has failed, and what it may still fail without a further incident (`Remaining`), stay within the budget of the incidents and faults so far; while no lease was outlived one process at a time counts for an event, so the count it writes back is current. `LineFalls` and `BudgetGrows` say which steps pay, `Balance` adds them up |
| `PermissionBroker_proofs!TypeCorrect` | with `OrderInv` (only `decide()` judges and writes a decision; a file is open between its opening and its writing) and `HandleInv` (who writes the temporary file has one to write) |
| `NoUnsentDecision` | `FoundedInv`: every text on disk or in memory, also one that another writer's text has partly covered, is a decision that was pressed with the right token, and `decide()` reaches its second load only with one |
| `DecidedOnce`, `RequestFileReadable` | `SoloInv`: until two calls overlap one actor at most is in a call; its document has the status on file unless that is still open, and its temporary file is empty before the write and whole after it, whatever a dead writer left there |
| `CloudVault_proofs!TypeCorrect` | with `StageInv`: a restore that goes on has a snapshot left to try, and the manifest about to be written has its snapshot |
| `NoForeignSidecar` | `SidecarsInv`: also in the cache, and between the removal of the sidecars and the replacement there is no `-wal` file |
| `VaultKept` | `PointsInv`: a manifest records its seal, names to come are free, and a sealed name is valid unless it is damaged or superseded by `Retention` later ones; what prune is about to remove is superseded, and what a restore has not tried contains every valid undamaged name. The cache needs all of it too, because the next run starts from it |
| `RestoredIsNewest`, `NoPointLost` | from `PointsInv`; the second by counting: the `Retention` newest seals are not superseded, so each of them is valid or damaged |
| `AutonomyLoop_proofs!EventsKnown` | `Shape` and `EventsInv`: an event in the queue names what exists, and each stage of an executor has an event of its kind; a row outlives the process that read it, so this must hold of the queue and not of the executor alone. Each action's effect is first summed up in `PullsNext`, `JobNext`, `RowsNext` and `EntryNext` |
| `MergedVerified` | `VerifiedInv`: while the merge is pending the verified commit stays green, because checks that ended acceptably are never rerun, and GitHub merges only that head |
| `CompletedMerged` | `GoalsInv`: the pull request an entry, a record in progress or a completion in progress names is the goal's own, and what was accepted stays accepted (`Later`: a merged pull request keeps its head) |
| `BudgetsKept` | `RepairsInv`: a pull request's repairs are those counted, the one committed and not yet counted, and at most one for each incident; `RerunsInv`: the reruns asked for are in the same way those counted, the one asked for and not yet counted, and at most one for each incident; `PaidInv`: what processes that are gone have paid for is within a budget for each incident |
| `AutonomyGoals_proofs!TypeCorrect` | with `RowsInv` (the row in hand stays leased and its path below its failures) and `Counters` |
| `OneInFlight` | `FlightInv`: while a goal is being proposed none is active, and a pull request is an orphan (open, and neither recorded nor about to be) only after an incident each |
| `ExcellenceFollowsBaseline` | `BaselineInv`: an improvement is listed only with its event, the roadmap from the first start on, and a goal of it is proposed only while it is planned, so a completed one stays; when nothing is in progress or ready, the absence of cycles says that all of it is completed |
| `CompletedGoalsStay` | `FreshInv`: until something fails, an excellence event still to be handled has a goal that nobody has begun, or is the one in hand, so `advance()` does not take up a completed one |
| `LocalSovereign_proofs!TypeCorrect` | with `GoalsHeld`, `Named`, `OnePromoted`: who works has a goal, who makes a backup has a name, at most one checkpoint is promoted |
| `SettledGoalsStay` | `SettledInv`: two processes have one goal in hand only if it was `shared`, and a failure being handled finds the goal unsettled otherwise |
| `WritesCanBeUndone` | `UndoInv`: until two writes overlap, one is under way and what the file holds is already copied |
| `ReportedRestores` | `BackupInv`: what an archive or a backup in progress names was verified, and an archive that was read back is whole until its name is used again |

Only model-checked: `EveryJobSettles` and `RequesterEnds`. They are liveness under
fairness, and ENABLED, which fairness means, is out of the prover's reach, as are
induction over data and RECURSIVE operators (none is used here).

What the proofs have changed. Each inductive invariant was first checked by TLC
under the bounds of the component's run. The proof of `RepeatsNeedIncidents`
failed for a good reason: it used to say that the effects of an event exceed the
incidents by one at most, which two processes of a run do not refute, but three
that share a worker id do, with a single lease outlived: each late `fail()` finds
the row leased under its own id and puts the claim of the next process back to
pending. The property now allows for that, one effect for each process, when ids
are shared and a lease was outlived; TLC also agrees for three processes, with one
event and three incidents and with two events and one.

## 5. Plan

Done: the mission runner and its ledger, the queue and its workers, the recovery
governor over them, the permission broker, the cloud vault, the autonomy loop
with goals, CI repair, merges and providers, the local runtime. What is left:

1. An abstract at-least-once queue (a bag of events, delivered, settled, handed
   out again for a reason) that `ContinuationWorker` is proved to implement, as
   `RunnersImplementLedger` does it for the mission runner.
2. Liveness of the loop: with fair steps, a finite number of incidents and people
   who merge, a goal that is ready ends completed, in the setups where the run
   `loop_verified_merge` has no counterexample.
3. The drain's item budget with the heartbeat at its end.
4. The Android relay: claim, pending request, approval and execution of a
   relayed request with the process killed between them, the financial safe mode.
5. The forge's workspace life cycle.

## 6. Not modelled, and why

HTTP, signature checks, subprocesses, git and LLM clients (I/O); the arithmetic of
route scores, of which only the order is used; texts of goals, plans and
payloads; the drain's item budget; logging, telemetry and layout; the event log
of the state store, the evidence ledger, the key-value table and `doctor` of the
local runtime (written and read by nothing that decides); the clock set back
between two seals; several processes driving one autonomy loop (the queue and
the governor are modelled with several, the portfolio is not); pure evaluators
and certification harnesses (`survival_controller.py`,
`state_reconstruction.py`, `autonomy_arena.py`, the improvement sandbox), Forge,
R1, R2 and the system factory (in-memory, sequential); build scripts and
governance texts; the Android companion, whose relay is in the plan. Each
component's note in `PROJECT.json` says what of it is left out.
