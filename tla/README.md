# TLA+ models of the dotmac kernel's durable machinery

This directory holds TLA+ modules for the parts of `dotmac_starter_mt` that keep
promises across processes, crashes and concurrent transactions, the TLC
configurations that check them on small instances, and TLAPS proofs of their main
properties for every instance. `PROJECT.json` lists the runs, the mutants, the map
from definitions to source lines, the findings, the hazards and the theorems.

Check a module with `tlc -config OutboxRelay.cfg MCOutboxRelay`; check proofs
with `tlapm RelayProofs.tla`.

## 1. The system

The repository is a multi-tenant FastAPI foundation: a kernel
(`packages/dotmac-kernel`), some hundred domain packages and a reference application
(`app/`). All state is in PostgreSQL. Services receive a session, mutate and flush; the
transaction belongs to a boundary (`session_runtime`) that commits on success and rolls
back on an exception. Asynchronous work leaves a transaction through an outbox table and
is taken up by relay processes. Nothing but the database coordinates processes: row locks,
advisory locks, unique constraints, conditional updates and leases.

### Inventory

| Component | State | Operations | Interacts with | Hard behaviour | What makes it correct |
|---|---|---|---|---|---|
| Outbox and relay (`messaging/outbox, relay, worker`, migration 0011) | `outbox_events`: status, attempts, available_at, leased_by, leased_at; a batch in each process | enqueue, claim, deliver, record success or failure, reclaim | every producer; transports | crash between lease and settle, a live worker overtaken by the stale timeout, retries from an old snapshot | an event is not lost, not given up early, not changed by a former holder, and in the end settled |
| Platform outbox, relay, consumer (`messaging/platform*`, migration 0012) | the same on `platform_outbox_events`, and `platform_idempotency_records` | the same, and `process_once_platform` | idempotency ledger | duplicate and concurrent delivery, lost commit answers | each effect exactly once |
| Idempotency ledger, inbox (`idempotency`, `messaging/inbox`) | `idempotency_records`: key, fingerprint, result, expires_at | `execute_once`, `execute_once_platform`, `process_once`, `purge_expired` | session boundary, conflict savepoints | both callers miss, the loser's effects, waits on a unique index, purge in between | effect and row together, once per key, replays from committed work only |
| Conflict savepoints (`_transactions`) | frame stack and latch on the session; the session's chain of transactions | `conflict_savepoint`, release permission, the two session hooks | all services that expect a conflict | a recovery that fails halfway, nested frames, participants that complete handles they do not own, hooks that raise | no half of a body is committed; an ordinary conflict dooms nothing; the latch ends with its root |
| Session boundary (`session_runtime`) | the open transaction, tenant setting | `request_session`, `platform_request_session`, `tenant_scope` | everything | what an exception after a flush discards | commit on success only; tenant setting does not survive the transaction |
| Durable timers (`dotmac-durable-timers`) | generations of an identity: status, acceptance, rejections | schedule, cancel, accept trigger, purge | outbox (delayed trigger) | first schedule without a row to lock, triggers late and repeated, cancel against fire, purge | one scheduled generation, one effect per generation, a cancel is a cancel |
| Workflow runtime (`dotmac-workflow-runtime`) | execution status; per checkpoint status, attempts, lease | start, claim, settle, repair | assemblies' workers | leases on callers' clocks, opposite lock orders, exhausted attempts | strict order, exclusive leases, bounded attempts, status that agrees, resumability |
| Settings and cache (`settings_resolver`, `settings_cache`) | setting rows by scope, a cache in each process | resolve, upsert, ensure, clear, invalidate | flags, branding | invalidation before commit, inheritance, a full cache | no value crosses scopes; an entry is out of date only for a known reason |
| Machine credentials (`machine_rotation`) | key hash, next key hash | issue, begin, complete, cancel, revoke | machine auth | concurrent rotations | a returned key works |
| Integration control plane (`dotmac-integration`) | delivery attempts (state, attempt_count, lease, next_attempt_at); receipts; polling cursors | enqueue, prepare, invoke, settle, release, replay, reconcile; receive; poll | connectors, providers, operators | takeover during a provider call, outcomes nobody knows, unlocked reads before writes, a ceiling counted before the claim, throttling | an effect lands again only for a recorded reason, delivered is true, every delivery is settled |
| Numbering (`dotmac-numbering`) | series, counters, receipts, repairs, claims | configure, create, enroll, allocate, reserve, advance | idempotency, conflict savepoints | first allocation of a period, lost races, reconfiguration and enrolment during an allocation | no number twice, no unexplained gap, claims match what was issued |
| IPAM, approvals, deployment control, fulfillment, publishing, payments | one domain's tables each | allocate, decide, roll out, reconcile | idempotency, outbox, timers | concurrent allocation, replays, sagas | no address twice, no decision on changed content |
| Catalogues, manifests, permissions, licensing, remaining domain packages, `app/`, tooling | declarations, single-transaction tables | validation, CRUD | | little or none | covered by local tests |

## 2. Modules

| Module | Models | Uses |
|---|---|---|
| `OutboxRelay` | outbox rows and relay workers | |
| `ExactlyOnce` | abstract: what relay and consumer promise together | |
| `PlatformDelivery` | the relay with the delivery opened up into the consumer's transaction | extends `OutboxRelay`, instantiates `ExactlyOnce` |
| `Idempotency` | `execute_once`, `purge_expired` and the session boundary | |
| `DurableTimers` | the generations of one timer identity | |
| `WorkflowRuntime` | one execution, its checkpoints, workers and operators | |
| `IntegrationDispatch` | outbound deliveries, dispatchers, sweeper, operators, reconcilers, provider | |
| `ConflictSavepoint` | one session: frames, latch, permission, handles | |
| `SettingsCache` | one inheriting setting, its scopes, sessions and a cache | |
| `Numbering` | one series: allocation, configuration, enrolment, reservation, repair | |
| `MC...` | instances for TLC: symmetry, call programs, one state constraint | |
| `...Proofs` | inductive invariants and theorems; `RelayProofs` covers both relay modules | one model each |

### OutboxRelay

A row is `status`, `attempts`, `availableIn`, `leasedBy`, `leaseAge`; a worker is `pc`,
`batch`, `current`, `snapshot` (the `attempts` its claim returned) and `claimAge`.
`Claim` is `claim_outbox_batch` and its commit: `Ready` is the WHERE clause, `IsBatch`
the ORDER BY and LIMIT, `Lockable` what SKIP LOCKED may pass over. `DeliverOk` and
`DeliverFail` are the try block of `_deliver_one`; `RecordSuccess` and `RecordFailure`
are the two functions of `relay.py` with the conditional UPDATE `Settle`, which does
nothing when `Holds` fails. `Crash` loses the batch and keeps the rows; the process comes
back under the same `worker_id`. Events of a batch are taken in any order (`RETURNING`
promises none).

Time is relative. Ages saturate one past the stale timeout, where no guard can tell them
apart; lateness saturates at `Overdue`, which only affects the order among rows that are
all overdue. The database clock decides leases, the worker's clock decides `retry_at`:
they differ by up to `Skew`. A worker that keeps working past its lease is counted as a
fault, together with crashes, up to `MaxFaults`.

### PlatformDelivery and ExactlyOnce

`platform_relay` and `platform_worker` repeat the relay's protocol on another table, so
the module extends `OutboxRelay`, and replaces the atomic delivery by `Consume` (lookup),
`Insert` (handler and ledger row, waiting for an open transaction with the same key; a lost
race undoes the handler and replays) and `CommitOk`, `CommitAnswerLost` or `ConsumerFails`.
The consumer is the one the platform worker's docstring and
`tests/test_platform_outbox_worker.py:177` describe. `ExactlyOnce` has four actions per
event: publish, apply (once), acknowledge (after apply), give up. `AbstractState` maps
rows to it. An event that was given up may still be applied: a worker past its lease can
commit late. That is a property of the code, and the abstract specification says so.

### Idempotency

A transaction runs a program of calls. `Begin` is the first lookup, `RunOperation` or
`OperationConflicts` the operation, `Flush` the insert, which waits while another open
transaction holds the key (`Holders`, `BeingPurged`) and meets the unique constraint
(`Taken`), `Recover` the `except IntegrityError` block. `Commit` and `Rollback` are the
session boundary. The result of an execution is the execution itself, so that "whose
effect is this" is visible. Tenant, scope and key are one `Keys` value; the platform
peer is the same algorithm without the tenant. `Purge` deletes expired rows in a
transaction of its own.

### DurableTimers

Statement by statement under READ COMMITTED: `LockIdentity` is the advisory lock,
`Snapshot`, `LockLatest`, `Check` the loop of `lock_timer_identity`, `Read` the SELECT of
`_latest`; then `Supersede` and `Insert`, `Cancel`, `Accept`, `Reject` and
`InsertRejection`, or `PurgeRow`. `own[t]` are the uncommitted writes, `View` what the
transaction sees. A transaction makes up to `MaxCalls` calls. Triggers are delivered at any
time after their schedule committed, any number of times, because the outbox promises no
more; the due time is therefore not a state of the model. The purge may take any set of
terminal rows: `expires_at`, `before` and `limit` are the product's choice.

Assumptions: a caller makes its effect only on `CURRENT` with `replayed=False`, in the
same transaction; `_latest` returns fresh attributes, because the session's identity map
is weak and the calls expire what they change; the evidence of a trigger (due time,
event type, source version) is what the row recorded, so `invalid_trigger_evidence` cannot
arise.

### WorkflowRuntime

Each call is a transaction of the boundary. `ClaimExecution`/`ClaimCheckpoint` and
`RepairExecution`/`RecordRepair` lock execution then checkpoint,
`SettleCheckpoint`/`SettleExecution` the other way round. `lag[w]` is how old the caller's
timestamp is (its clock may be off by `Skew`), `left[c]` what is left of a lease. A
refused call changes nothing, *also when it wrote before it raised*: this is what the
finding below is about. A worker refused at settlement gives its work up; after an
aborted settlement it may settle again. One process per `worker_ref`.

### IntegrationDispatch

A delivery is `state`, `attempts` (`attempt_count`), `lease` (none, live, expired) and
`due`. A dispatcher goes through `Admit` (the ceiling, a SELECT), `Claim` (the guarded
UPDATE) or `ClaimLost`, `Invoke` (the provider call, outside any transaction) and `Settle`
or `SettleRefused`. `Crash` may come anywhere. `next_state` is the settlement table,
`classify` and `MayLand` what an outcome says of the effect: an outcome other than
`succeeded` may or may not have landed as its class admits, and the provider keeps the
count `landed`. The paths that go through the ORM read a row without a lock and write it
later, so they are two steps each: `ReleaseSelect`/`ReleaseWrite` and
`ReplayRead`/`ReplayWrite`. `PrepareReconciliation`, `Probe`, `Reconcile` are the
evidence-based reconciliation, whose guard is state and `attempt_count`.

`excused` counts the events that can justify one more send of a delivery: a lease that
expired during a call, a replay of an ambiguous row, a write from a stale read. The
property about duplicates is relative to it. Refusals that write nothing (kill switch,
quarantine, bindings, manifests) are calls that are not made. A delivery is claimed at
most `MaxClaims` times; the code has no such bound, because a replay resets the count.

### ConflictSavepoint

One thread, several owners of code: the helper, the participant inside the `with` block,
hooks of others, the owner of the root. `chain` is the session's stack of transactions,
`frames` the stack in `db.info`, `latch` the failed root. `Enter`, `Return`, `Raise`,
`Release`, `Recover` are the helper; `ReleaseHookFails`, `ReleasedHookFails`,
`RecoverFails` what hooks can do to it at each event; `Claim` is the release permission;
`CommitNested`, `RollbackNested`, `CommitRoot`, `RollbackRoot`, `FlushFails` what
participants and the owner may do at any moment. `committed` are the bodies with a durable
write. `CHANGELOG.md:162` promises that unprovable recovery latches the root until its
owner rolls back: `NoHalfBody` shows it, with one exception that the code cannot prevent
without a completion guard of the product: a participant that commits the root itself.

### SettingsCache

A stored value is its version. `Resolve` is a cache miss, `Look` one SELECT of the chain,
`Store` the insertion with the eviction of a full `MemoryCache`. `upsert_by_key`,
`ensure_by_key` and `clear_by_key` flush a row and invalidate before the commit. `tainted`
marks the keys whose entry may be out of date: its reader overlapped an uncommitted write
of its chain, or the tenant above a finer level was written since. The property is that
nothing else leaves a stale entry.

### Numbering

Callers work in transactions at READ COMMITTED: `tx[c]` is what a transaction has changed,
`SeriesOf`, `CounterOf`, `ClaimsOf`, `Recorded` what it sees. `allocate` opens the
savepoint of `execute_once`; `TakeSeries`, `TakeNumber` are `_do_allocate` with its two row
locks; `LedgerWon` and `LedgerLost` the end of `execute_once`; `UndoCall` the rollback to
the savepoint, with the locks taken in it. `ConfigureRead`/`ConfigureWrite`,
`create_series`, `enroll_series`, `reserve_number` and `advance_to_at_least` run next to
it. A receipt remembers the shape and the strictness its number was made from. A rendered
number is the year as `format_number` prints it (two digits or four, or none) and the value;
prefix, suffix, separator and padding are the same for every number of a series with
history and are left out. Of the unique constraints on receipts, the one on the values of a
period is left out, because no step could break it (`Single` in the proofs). The one on
rendered numbers is modelled (`AlreadyIssued`): `validate` accepts a yearly reset with a
two-digit year, and years a century apart then have counters of their own and the same
strings. The constraints on claims are modelled too (`Collides`): there a collision is an answer.

## 3. Runs

| Run | Checks | Instance | Distinct states |
|---|---|---|---|
| `relay` | `ExclusiveLease`, `RetriesAccounted`, `ReportedDeadAccounted`, `FormerHolderIsFenced`, `EventuallySettled` | 2 workers, 2 events, batches of 2, 2 attempts, clock skew and late enqueues of 1, 1 fault | 398,679 |
| `delivery` | `ImplementsExactlyOnce`, `EffectOrDeadLetter` | 3 workers, 1 event, 3 faults | 100,272 |
| `idempotency` | `EffectsMatchLedger`, `AtMostOncePerKey`, `ReplaysAreReal`, `RaisedIsExplained`, `RequestsEnd` | 3 transactions, 2 keys (one expiring), 3 programs of 2 calls | 306,281 |
| `timers_safety` | `TypeOK`, `FiresMatchStatus`, `CanceledNeverFires`, `InsertsNeverClash`, `LockedRowIsCurrent`, `CancelsObservedUnlessPurged` | 2 transactions of 2 calls, 2 rows | 568,454 |
| `timers_live` | `TransactionsEnd` | 2 transactions of 2 calls, 2 rows | 38,938 |
| `workflow` | `StrictOrder`, `ExecutionAgrees`, `LeaseIsExclusive`, `AttemptsNeedRepairs`, `SuccessIsFinal`, `CallsEnd` | 2 workers, 2 checkpoints, 2 attempts, 1 repair each, 1 fault, calls up to 1 unit late | 93,234 |
| `workflow_resume` | violation: `ResumesOrFails` | 2 workers, 1 checkpoint, no repairs | |
| `dispatch` | `DeliveredReallyLanded`, `OvershootIsBounded`, `FencedUntilReset` | 2 deliveries (2 claims and 1), 2 dispatchers, 1 operator, 1 reconciler, ceiling 1 | 800,689 |
| `dispatch_live` | `DuplicatesAreAccounted`, `EventuallySettled` | 1 delivery with 3 claims, 2 dispatchers, 1 operator, 1 reconciler | 177,423 |
| `savepoint` | `NoHalfBody`, `LatchIsEarned` | 5 handles | 363,729 |
| `settings` | `CacheKeepsScopes`, `StaleOnlyByOverlap` | platform, 2 tenants, 1 site, 2 sessions, 2 writes, a cache of one entry | 750,745 |
| `numbering` | `TypeOK`, `RepeatsOnlyAcrossCenturies`, `EveryValueIsExplained`, `ReceiptsMatchConfiguration`, `ReplaysMatchReceipts`, `ClaimsMatchReceipts` | 2 sessions, 2 keys, 2 documents, the years 1926 and 2026, 4 configurations, 1 reserved number, values to 3 | 1,724,266 |

Every invariant and every action property of the runs is also proved for every instance
(section 5); the liveness properties are checked only. The type invariants of the other
modules, `DeadMeansExhausted` and `SentMeansDelivered` of the relay, `ExecutedIsDurable` of
the ledger, and `LatchIsCurrent` and `OnePermission` of the savepoints are proved, and no
run repeats them.

What the properties about state outside the code's own tables say: `RetriesAccounted` and
`ReportedDeadAccounted` bound the relay's untruths by the faults that happened;
`RaisedIsExplained` and `CancelsObservedUnlessPurged` name the one cause (a purge) of an
answer that would otherwise be wrong; `DuplicatesAreAccounted`, `StaleOnlyByOverlap` and
`LatchIsEarned` do the same for a second send, a stale entry and a doomed transaction.

### Why the bounds are enough

Two workers and one event suffice for every race about a lease; the second event makes
batches and their order real. Two attempts give one retry and one dead letter; one fault
is a crash or a former holder that comes back after another worker has settled, failed or
re-leased the row; the theorems cover any number of faults. The delivery needs three workers to have two open consumers and a
third that settles. Two keys are needed for crossing orders, a third transaction for a winner,
a loser and a purge. A timer needs a row and its successor; two rows also cover the restart
of the numbering after a purge. The constraint `LittleEvidence` of `timers_safety` stops
following a behaviour after a second rejection row or a second kind of cancellation report
is committed; those rows only feed the rejection lookup and the history, and the
states in which the second one appears are still checked. Two checkpoints are
needed for order, two attempts for a take-over.
The dispatcher needs a second claim for a takeover and a third for an attempt
number that comes back after a reset; a sibling delivery makes ceiling and cooldown real.
Five handles give a root, a helper's savepoint, one nested in it, and a second root with a
savepoint. A cache of one entry is always full; a platform, a site with its tenant and a
second tenant give every relation between two scopes. Two years give counters that begin
and counters that do not; a century apart, they render alike in two digits and differently
in four. Two configurations that render alike but reset differently can repeat a number when
the freeze is missing, and the reserved number is one an allocation would reach.
The workflow run takes no clock skew (`Skew = 0`): `LeaseIsExclusive` is proved for every
skew, and skew and lag have the same effect on a call.
Named bounds (`Skew`, `Overdue`, `MaxFaults`, `MaxLag`, `MaxRepairs`, `MaxTimers`,
`MaxCalls`, `MaxClaims`, `MaxHandles`, `MaxVersions`) are the only limits that the code does not have; the theorems hold for every
value of those that appear in proved modules.

`idempotency`, `dispatch`, `dispatch_live`, `savepoint`, `settings` and `numbering` switch
deadlock checking off: their requests, claims, handles, writes or values are used
up, and the model then stops. Workers, timers and workflows never stop in the other
models.

### Fairness

* Relay: weak fairness of each worker's step and of time. `run_forever` polls for ever, a
  delivery returns or raises. Crashes and overruns are finitely many (`MaxFaults`).
* Idempotency, timers, workflow: strong fairness of the steps of a call, because PostgreSQL
  grants a lock to its waiters in turn and a step that is enabled again and again is
  served; weak fairness of `BreakDeadlock`, which is PostgreSQL's deadlock detector.
* Timers: callers end their transactions. `schedule` is bounded, so that the lock
  loop cannot be overtaken for ever; in the code nothing bounds it, but each round needs a
  new committed generation. `accept` is left out of `timers_live` (it locks as `cancel`
  does) to keep the graph small.
* Dispatch: every process runs on unless it crashes (weak fairness of its steps), time
  passes for each lease and each `next_attempt_at`, and every due delivery is admitted and
  claimed if it is claimable again and again (strong fairness: dispatchers poll, the
  ceiling or a sibling may get in the way, not every attempt crashes between admission and
  claim). Nothing is assumed of the sweeper, operators or reconcilers: that a delivery is
  settled does not depend on them.
* `workflow_resume` assumes even more: some worker keeps claiming every checkpoint whose
  turn it is, and settles. The violation occurs under that fairness.

## 4. Findings

**`workflow_resume`.** `claim_checkpoint` marks an exhausted checkpoint failed, flushes
and raises; the boundary rolls the marks back. When the last attempt's lease expires
(its worker died or was late), the checkpoint stays `leased`: no claim (exhausted), no
settle (expired), no repair (not failed). The catalogue promises to "resume
deterministically after failure" (`docs/MODULE_CATALOG.md:950`).

Elsewhere a comment or docstring says a little more than the code does. The passing runs
check the exact statement:

| Text | What holds |
|---|---|
| `relay.py:40` "`max_attempts` bounds retries before dead-lettering" | plus one delivery for every worker that died or overran its lease (`RetriesAccounted`): an event that kills its worker is retried for ever |
| `relay.py:66` "`dead_lettered` True means the event reached `max_attempts` and is retained as `dead`" | unless the reporter had lost its lease: `record_failure` ignores what its settle returned (`ReportedDeadAccounted`, which allows this of any event once there has been a fault) |
| `idempotency.py:224` "The IntegrityError came from the operation itself, not from our unique constraint." | unless a purge removed the winner between the conflict and the second lookup (`RaisedIsExplained`); nothing is lost, the request may be repeated |
| timers `service.py:628` "Cancel exactly the generation the caller observed, or report staleness." | unless the observed row was purged: generations are numbered from 1 again (`CancelsObservedUnlessPurged`); `accept_trigger` compares ids and is not affected |
| `operations.py`, `release_expired_leases`: "it only touches rows whose lease has already expired" | of those it selected; it writes them by primary key, so that a row claimed in between loses a live lease (`excused` in `ReleaseWrite`) |
| integration: a takeover increments `attempt_count`, which fences the former holder | until a replay or a reconciliation resets the count, after which an old outcome or old evidence can match a newer attempt (`FencedUntilReset`) |
| `ExecutionPolicy.max_in_flight_per_installation` as the most attempts in flight at once | plus at most the other dispatchers, since it is counted before the claim (`OvershootIsBounded`) |
| `settings_cache`: a single process with `MemoryCache()` "is correct" | unless a read overlaps a write between flush and commit, or a finer level is cached when its tenant's value changes (`StaleOnlyByOverlap`); and that under READ COMMITTED only: a REPEATABLE READ or SERIALIZABLE session (`session_runtime.py:148`) can store what its older snapshot shows |
| numbering `service.py:155`: a yearly series "must include the year in the number, or every year reissues the same strings" | with `year_digits` 2 every hundredth year does, even so (`RepeatsOnlyAcrossCenturies`); the constraint on rendered numbers then refuses the allocation |

In the numbering model a number reserved ahead of the counter makes every allocation that
reaches it collide; the counter does not move until a repair advances it past the
reservation. The code describes a collision as an answer for the caller, so this is stated
here and not counted as a finding. The same happens, with the IntegrityError of the receipt's
flush, to a year of a two-digit series whose numbers were issued a century before: the
allocation is undone with its savepoint and the counter stays where it is until a repair
moves it past the number.

## 5. Proofs

Theorems hold for every value of the constants that satisfies the module's assumption
(distinct null values, natural-number bounds, finite sets where something is counted,
scopes closed under their chain, configurations that `validate` accepts; TLC evaluates it
in every run). All of them have the same shape: an inductive invariant, one lemma per
action or per kind of effect, and the property from the invariant.

tlapm 1.4.5 expands an `@` inside an `EXCEPT` that is itself the new value of an `EXCEPT`
wrongly (`[f EXCEPT ![c] = [@ EXCEPT !.s = @ \cup X]]` gets `f[c].s.s`). The modules
therefore never use `@` in the inner one.

**RelayProofs.** The safety properties are not inductive: that a dead letter is
exhausted depends on `snapshot`, a value read earlier. `Inv` adds what a worker knows:
`LeaseKnowledge` (within its lease it holds every row of its batch; while it holds a row,
its snapshot equals the row's `attempts`), `AttemptsEarned` (`attempts` never runs ahead of
the failures that happened, and a worker about to record a failure has one more to
show), `SuccessEarned` and `WorkerShape`. From `Inv`: `RelayTypes`, `LeasesAreExclusive`,
`DeadLettersAreExhausted`, `SentEventsAreDelivered`; `FormerHoldersAreFenced` is an action
property, from the invariant before the step.

Two theorems count faults. `ReportsAreAccounted` (`ReportedDeadAccounted`) needs that the
failures behind a snapshot happened, and that a worker past its lease has cost a fault
(`ReportInv`). `RetriesAreAccounted` (`RetriesAccounted`) needs an invariant in which each
delivery is paid for once (`TriesCounted`): the deliveries begun, plus one for every late
holder that may still begin one (`LateHolders`), are at most what the `attempts` column
stands for, one more while a holder within its lease is delivering, plus the faults. A worker
becomes a late holder only by a fault; a late delivery moves from the second term to the
first.

For the composition, `StepIsRelayStep` shows that every step is a
relay step or leaves the relay alone, so `Inv` is inherited. `ConsumerInv` ties transactions to
the ledger (a transaction that inserted has no committed rival, at most one per event,
`runs` is 1 exactly for ledger events). `DeliveryIsExactlyOnce`:
`DeliverySpec => Promise!AbstractSpec`, by initial states and step simulation;
`DeliveryTypes` adds the types.

**IdempotencyProofs.** `EffectsMatchLedger` and `AtMostOncePerKey` speak of committed
state; `Inv` says what open transactions carry (`RowsAreOwn`, `EffectsMatchRows`,
`OwnKeyIsFresh`, `EndedIsEmpty`) and that keys are unique among committed and uncommitted
rows together (`KeysAreUnique`), which is the unique index with its waits.
`LedgerTypes` and `AnswersAreDurable` (`ExecutedIsDurable`) add `Answers`: a request has
one answer for each call behind it, and an answer "executed" keeps its effect with it, in
the open transaction and then in the committed state. `ReplaysRestOnCommits`
(`ReplaysAreReal`) follows the answers "replayed" the same way. `RaisedErrorsAreExplained`
(`RaisedIsExplained`) needs `RaiseInv`: a transaction that recovers from the ledger's
constraint met a row of its key that is committed or was purged since.

**DurableTimersProofs.** `Inv` has four parts besides the types. `RowsInv` is about rows and
locks in every transaction's view: who writes a row holds its lock and changes a settled row
only by deleting it (`Owned`); generations are distinct and a scheduled row is the newest
(`Ordered`); ids are used in order (`Numbered`); and who has inserted a row that only it can
see holds the newest committed row (`InsertersLock`), which is why the loop of
`lock_timer_identity` is needed next to the advisory lock. `Budget` says that an id is left
for every schedule under way. `SessionsInv` is what each stage of a call knows (`Calling`,
`Locking`, `Reading`) and what the transaction has promised (`Claims`). `Answers` is about the
committed cancellation reports. Steps are classified by their effect on rows (`Holds`,
`Marks`, `Inserts`, `Publishes`, `Undoes`), and each effect is shown to keep `RowsInv` once;
`Stable` is what a step of one transaction must leave to the others for their knowledge to
stay true. From it: `TimerTypes`, `EffectsMatchRows`, `CancellationsHold`,
`CancellationsAreOfTheObserved`, `SchedulesDoNotCollide` and `LockLoopIsSound`, for any
number of transactions, calls and rows.

**WorkflowRuntimeProofs.** `StrictOrder` needs that a settlement which has passed its
checks still finds its checkpoint leased (`CallsAreSound`: it holds the row lock, and every
writer needs that lock); `AttemptsNeedRepairs` needs `Budget`, which counts the current
round. `IInv` is their conjunction with `TypeOK`. `LeasesAreExclusive` (`LeaseIsExclusive`)
adds `LeaseInv`: a worker that has settled its checks owns what it settles, and a lease a
worker may still believe in, whatever its clock says, is recorded in the row with the same
remaining time. `LeasedIsNotClaimable` then shows that no other caller's clock is far enough
ahead to take it for expired. `TablesAgree` (`ExecutionAgrees`) and `SuccessStays`
(`SuccessIsFinal`) use `TableSteps`: whatever the call, the committed tables change by a start,
a grant, a settlement or a repair, or not at all; `OneInProgress` (from `StrictOrder`) then
tells the status of the other checkpoints.

**IntegrationDispatchProofs.** Five theorems, each with its own strengthening of the types:
`TakeoversFence` from `Ordered` (neither the row nor a copy held by a dispatcher or
reconciler counts more attempts than claims were granted before it was made);
`DeliveredHasLanded` from `Truth` (a reported success and positive evidence are about an
effect that landed, and `next_state` gives `delivered` to successes only);
`OvershootHolds` by counting: an admission needs a free place and itself takes one of the
other workers' shares, a claim moves one from admitted to in flight, every other step only
shrinks the two sets. `DuplicatesAreExcused` (`DuplicatesAreAccounted`) needs an invariant
about sends that have not happened yet (`SendsAccounted`): the effects that landed, the calls
that may still land or be settled as not landed (`Owing`), and one if the row may be sent
again (`Sendable`) are together at most one more than the excuses. It rests on what copies
still say of the row (`CopiesHold`): an operator's or a reconciler's copy is about the
current claim, or its write is excused.

**ConflictSavepointProofs.** `NoHalfBody` is about what was committed; to keep it, `Inv`
follows the work while it is staged. Handles are numbered upwards along the chain (`Stack`)
and frames along theirs (`Helpers`); as long as a savepoint is attached and not released,
the work of its body is at it or above (`WorkAbove`), so rolling it back removes all of it;
work of a failed body that could still be committed is under a latched root (`Doomed`); a
frame whose root is gone is recorded as escaped (`Escapes`, `OpenEscape`). `Enclosed` gives
the place of a frame's savepoint in the chain, so that the recovery test of an untouched
savepoint always succeeds: `OrdinaryConflictsDoNotLatch`. `Exits` keeps what a helper found
when it began to exit, `Unused` that its permission is still there.
`HalfBodiesAreNotCommitted`, `LatchEndsWithItsRoot` and `PermissionsAreSingleUse` follow,
for any number of handles and any depth of nesting.

**SettingsCacheProofs.** `CacheKeepsScopes` needs that a value already belongs to the
reader's chain before it is cached: `RowsAreHome` (a row, committed or not, holds a version
written at its scope) and `ReadsInChain` (a resolution under way stays within its chain, and
what it found was written there). Two scopes never share a key (`KeysApart`). `StalenessNeedsOverlap` (`StaleOnlyByOverlap`)
compares an entry with the resolution from the committed rows. What a reader has found so far
agrees with them unless it overlapped a write (`ReadsFresh`); so does an entry that is not
tainted, and nobody is about to commit something else above it (`EntriesFresh`, `Quiet`).

**NumberingProofs.** Changes are made under the row lock of the series, so at most one
transaction has any. `Inv` states soundness of three kinds of tables: the committed ones,
those every transaction sees (`Seen`, the committed tables with its changes), and those a call
would leave if it were undone (`Kept`, with the changes saved at its savepoint). `Sound` says
that counters move forward (`Forward`), that receipts carry the shape of the series and the
period it gives (`Configured`), that the values a counter has passed are on receipts or in
repairs (`Explained`), that a value of a period is issued once (`Single`) and that claims
match (`Claimed`); `Replayed` compares receipts with the ledger, but for the receipt of a call
that has not recorded it yet. Each operation is one lemma on tables before and after
(`SeriesChange`, `Reservation`, `Advance`, `Allocation`, `Recording`). A commit makes `Seen`
the committed tables; whoever commits changes holds the lock, so nobody else has any and
nobody relies on the old tables (`OnlyTheHolderChanges`). `NumbersRepeatOnlyAcrossCenturies`
follows from `Configured` and `Explained`: a value of the same period is behind the counter, so
a receipt with the offered number is of another period, hence of another year of a yearly
series, and four digits would tell the two apart. `NoUnexplainedGaps`,
`IssuedFormatsStand`, `ReplaysAnswerReceipts` and `ClaimsAreOfTheIssued` are parts of it.

Only model-checked: the liveness properties (`EventuallySettled` of the relay and of
dispatch, `EffectOrDeadLetter`, `RequestsEnd`, `TransactionsEnd`, `CallsEnd`), because the
prover does not handle fairness or ENABLED. The violation `ResumesOrFails` is TLC's too.

## 6. Not modelled

Row-level security and roles; argument validation; payload contents; `set_tenant` and
`tenant_scope`; two processes under one `worker_ref` or `worker_id`; loss of
committed data. In the integration control plane: receipts and their delivery, polling,
ingress, lifecycle, provisioning and retention. In settings: secrets (never cached),
`resolve_strict`, history and events, a cache shared between processes, and sessions above
READ COMMITTED, which `StaleOnlyByOverlap` assumes. In numbering:
partitions, several series in one domain, months. Most of the repository is domain packages
whose calls read and write one domain's tables in the caller's transaction, and tooling;
their guards are local, and a model of them would repeat the code without reaching
anything their tests do not. Components without a module are listed in `PROJECT.json` with
the reason.

## 7. Plan

1. `MachineRotation`: begin, complete, cancel and revoke on a row that is read without a
   lock; a returned key works or the caller is told.
2. Receipts and polling of the integration control plane, over the same leases; an abstract
   specification of one outcome per attempt for all three.
3. `TimerDelivery`: `DurableTimers` composed with the relay's at-least-once delivery.
4. `Ipam` allocation; the deployment host lease; content-bound approvals.
5. Proofs: every safety property of the present modules is proved; new modules come with
   their invariant.
