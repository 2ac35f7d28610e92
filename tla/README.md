# A verification development for coin-listener

coin-listener watches blockchain addresses and notifies about what happens to
them. A scheduler turns due addresses into rows of a job table, workers claim
the jobs under a lease, scan the chain through providers and write events, and
notifiers deliver each event to the channels its rules select. All of them are
separate processes (or tasks of the `all-in-one` binary) that meet only in
Postgres and, for a wake-up signal and a rate limit, in Redis.

This directory models the parts whose correctness depends on the order in which
those processes act, and the pure functions those parts rely on.
`tla/PROJECT.json` maps every definition to the lines it stands for and lists
every hazard found in the code, with its line and the properties that cover it
or the reason none does. Paths below are relative to `src/backend/crates/`.

## Inventory

| component | code | state | operations | what is hard, and what makes it correct |
|---|---|---|---|---|
| scan jobs and scan runs | `storage/src/scan_jobs.rs`, `scan_runs.rs` | `scan_jobs`, `scan_runs` | claim with dead-letter and reclaim, renew, insert run, three finalisers, audit update, retry | leases that expire under a live worker, crashes, lost replies; one active job per address, attempts within the budget, only the owner finishes, queue and audit agree, everything ends |
| scheduler | `scheduler/src/lib.rs` | one transaction per address | select due, insert job, move `next_scan_at`, signal | snapshot older than the rows it locks |
| worker | `worker/src/lib.rs` | the job in hand, the renewal task, `ownership_lost` | claim, start run, scan, finalise, fallback audit write, wait | a scan raced by its lease; finalisation that fails half-way |
| chain scans and cursors | `worker/src/lib.rs` 104-849 | `scan_cursors`, `balance_snapshots`, `address_events` | block ranges, page walks, event insertion with deduplication | failures between snapshot, event and cursor, nodes that lag, listings that shift; no cursor passes a transfer without an event |
| provider health, QPS | `storage/src/provider_health.rs`, `worker` failover | `provider_health`, Redis counters | record success / failure, circuit, acquire, next candidate | concurrent upserts, window boundaries, a frozen clock; one good provider is enough |
| chain provider clients | `chain-providers/src/*.rs` | none | read blocks, pages, receipts; decode; amounts | what identifies an event; exact decimals |
| notification outbox | `notifier/src/lib.rs`, `storage/src/notifications.rs`, `repositories.rs` | `notification_outbox`, `notification_deliveries`, `in_app_notifications` | release stale, claim a batch, per target skip / in-app / begin-send-record, mark delivered / retryable / failed, manual retry | batches that outlive their locks, sends between two statements, partial batches; no message resent once recorded, nothing owed by a delivered event, every event ends |
| external senders | `notifier/src/external.rs` | none | send webhook, telegram, verify a bot; classify the answer | transient and permanent failures, gateways, cut-off bodies; what was done is never sent again when its answer arrives |
| notification rules and channels | `notifier/src/lib.rs` 173-238, `storage/src/notifications.rs` | rules, channels, bots | match event, compare decimal amounts, create the default channel, replace and verify a token | two statements around a call to Telegram; concurrent creation |
| watched addresses | `storage/src/repositories.rs`, `api-server/src/routes.rs` | `watched_addresses`, asset selections | edit chain, status and assets; delete | edits between two statements of a scan, an assignment or a rule check |
| address imports | `storage/src/address_imports.rs`, `worker` 1188-1276 | import tasks and attempts | claim, renew, create, mark, refresh, complete, cancel | an overtaken worker, a cancellation in the middle; counts agree with attempts |
| custody accounts | `storage/src/custody_accounts.rs` | accounts, assignments | assign from pool or user, release | concurrent and retried assignments; one active assignment per account |
| telegram bindings | `storage/src/telegram_bindings.rs`, `telegram_settings.rs`, `notifier` 914-1000 | binding requests, update offsets | create, bind, expire, cancel; claim and move the offset | a 30-second lock that is not renewed, a webhook beside the poller; one chat per request, no update passed |
| rescans | `api-server/src/routes.rs` `rescan_evm_transaction` | `address_events` | read transaction and receipt, insert what is missing | a reorganisation between two requests, scans of the same block |
| wake-up queue | `storage/src/scan_queue.rs` | a Redis list | signal (coalesced), wait | lost and merged signals; polling bounds the wait |
| realtime | `api-server/src/realtime.rs` | broadcast buffer per tenant | listen, broadcast, receive, resume after lag | lag, reconnection, shutdown |
| supervisor and heartbeats | `all-in-one/src/main.rs`, `storage/src/service_heartbeats.rs` | service tasks, heartbeat rows | start, shut down on the first end, beat | shutdown order, error precedence, failed and slow writes |
| API lists, auth, dashboards, legacy notify queue, configuration, frontend | see `PROJECT.json` | - | - | no concurrent state of their own |

Components interact through rows only: the scheduler's insert is the worker's
claim, the worker's event insert is the notifier's claim, deletion of an address
cascades to jobs, runs, events, outbox rows and deliveries, the audit retry
of the API writes to the job table, custody assignments and imports create watched
addresses, and user edits change what a scan in flight believes.

## Modules

| module | what it is |
|---|---|
| `ScanJobs` | scheduler, job queue, workers with leases, scan audit, audit retry |
| `JobLifecycle` | what the job queue promises, without leases, owners, clocks or processes |
| `ScanJobsProofs` | theorems about `ScanJobs`, and that it implements `JobLifecycle` |
| `MCScanJobs`, `MCScanJobsFaults` | instances of `ScanJobs`; the second has one database whose replies arrive and one whose replies may be lost |
| `NotificationOutbox`, `MCNotificationOutbox` | the outbox, its notifiers, deliveries and the providers' mailboxes |
| `NotificationOutboxProofs` | theorems about `NotificationOutbox` |
| `AddressImport`, `MCAddressImport` | import tasks, their attempts, the API that cancels them and the workers that process them |
| `AddressImportProofs` | theorems about `AddressImport` |
| `EvmScan`, `TronScan`, `BtcScan` | the scan of one address on each kind of chain |
| `ProviderPool` | failover, circuits and rate limits of the providers the scans share |
| `ChainScans` | the four modules above as parts of one specification |
| `EvmScanProofs`, `TronScanProofs` | theorems about `EvmScan` and `TronScan` |
| `ChainScansProofs` | theorems about `ChainScans`; the invariants of `BtcScan` and `ProviderPool` |
| `MCChainScans`, `MCTronScan` | the parameters and the fairness of `ChainScans`; the instance of a finding |
| `CustodyAccounts` | assignment and release, beside edits of the same addresses |
| `TelegramBinding`, `TelegramBindingProofs` | requests, pollers with offset and lock, webhook; theorems about it |
| `Realtime` | listener, broadcast channels, sockets |
| `EvmRescan` | rescans of one transaction, beside scans and edits |
| `Supervisor` | `main` of all-in-one, its services and heartbeats |
| `WakeQueue` | the wake-up list between schedulers and workers |
| `NotificationConfig` | bots with their tokens, the default in-app channel |
| `AddressEdits` | edits of an address against assignments, scans and rules |
| `Amounts`, `ProviderAnswers` | pure: decimal strings; what senders make of answers |
| `Services` | the ten modules above, from `CustodyAccounts` on, as parts of one specification |
| `ServicesProofs` | theorems about `Services`; the invariants of all its parts but `TelegramBinding` |
| `MCServices` | the parameters and the fairness of `Services` |

### ScanJobs

`job` and `run` are the two tables, `address` the two columns of
`watched_addresses` that matter, `selected` what a scheduler's transaction has
read, `worker` what a worker process knows between two statements. A statement,
or a transaction whose row locks make it appear atomic, is one action; a
transaction whose outcome depends on an earlier instant is split there:

* the scheduler's `SELECT ... FOR UPDATE SKIP LOCKED` reads its `NOT EXISTS`
  from the snapshot of `SchedulerSelect` and locks in `SchedulerEnqueue`;
* the finalising transaction fixes `NOW()` in `BeginFinish` and tests the lease
  against it in `FinishJobAndRun`.

A claim is one statement that buries exhausted jobs, takes one due job, and
closes the runs both point at; so is `ClaimUpdate`. The lease is a count of
ticks; `due` abstracts every `<= NOW()` on a schedule. A worker incarnation that
crashes is gone; the model's other workers are its replacements. Every statement
may fail with no effect (`ScanBlocked`, `FinishFails`, `RenewalFails`, ...), and, with
`LossyReplies`, commit while its caller sees an error.

Left out: the chain scan itself (one action with every outcome), the text of
errors, wake-up signals (workers poll), the manual *scan now* endpoint's payload,
editing an address's chain.

### NotificationOutbox

`outbox` has one row per event, `delivery` the delivery rows with an idempotency
key (external targets), `plain` those without one (in-app and skipped), `received`
counts the messages the provider of a target accepted, and is not visible to the
program. A target is a matching rule together with its channel. A notifier
releases stale rows, claims a batch, and walks it; the first failing target ends
an item, the first mark that matches no row or fails ends the batch. `Send` is
separate from the statements around it. A transient failure may or may not
have reached the provider.

`locked_by` is written and never read, and so is left out; a restarted notifier
therefore is the same notifier with an empty memory. Whether a lock can go stale
while its notifier still works is the constant `Overtaking`: with the defaults a
batch of 50 items whose providers time out after several seconds each exceeds the
300 seconds of `stale_lock_seconds`, so that it really happens; without it, a
stronger guarantee holds.

### AddressImport

`task` and `attempt` are the two tables, `created` tells which attempts of this
import created their watched address, `worker` what a worker knows between two
statements of `process_one_address_import_task`: the task, the rest of its
batch, and the counts a refresh has returned. One claim, a renewal before the
batch and before each attempt, the transaction that creates an address together
with the mark of its attempt, the failed mark, two refreshes, the look for
pending attempts and the completion are one action each; any of them may fail
without an effect, and any that writes may commit while the worker sees an
error. The refresh is split at its snapshot (`RefreshRead`, `RefreshWrite`): it
aggregates the attempts before it waits for the row of the task.
`stale` is `locked_at < now - 5 minutes`, and `overtaken` remembers the tasks whose
lock went stale under a working worker. `created` and `overtaken` are
not visible to the program.

Left out: the rows (labels, priorities, asset lists) and their validation, which only
decide whether a creation fails (`CreateFails` may always happen); addresses
deleted by hand during their import; a creating transaction that is in
flight while its task is taken over, whose attempt the successor then fails to
create and to mark, as after a lost reply.

### EvmScan, TronScan, BtcScan

One address and the scans of it: usually one after another, but two may overlap
where a lease was lost. Chain, provider and database are nondeterministic: blocks
are mined (transfers confirmed, transactions indexed) at any time, each request may
be answered by another node that lags by `MaxLag` blocks, and `ScanEnds` ends a
scan at any statement.

* `EvmScan`: the native balance with its snapshot, its comparison and its
  `balance_change` event; then `evm_transfer_scan_range` and
  `bounded_block_ranges`, one range and one filter (token and direction) at a
  time, the inserts behind the unique index, and the cursor after each range.
  Ghosts: `steady` (tokens selected all along), `base` (start of the first
  window), `told` and `muddled` (what the balance events told, and whether two
  comparisons interleaved).
* `TronScan`: TRX pages and then the TRC20 pages of each contract, newest first,
  behind two timestamp cursors; inserts one by one with the `log_index` derived
  from a transfer's position in its pages; the cursors move last.
* `BtcScan`: pages down to an empty one, overlap of blocks, page limit.

Their properties name the documented exceptions instead of hiding them: the initial
window, the page limit, a payload that does not decode, and the one cursor that
several TRC20 contracts share. Left out: JSON, HTTP, a chain that replaces
confirmed blocks, and cursors of a chain the address had before an edit.

### ProviderPool

`health` is `provider_health` (failures in a row and the ticks a circuit stays open),
`key` the Redis counters of a second, which expire by another clock than the one of
the caller. A scan keeps the clock reading of its claim, so `age` says how old it
is when it records a failure or acquires a token. Ghosts: `streak` and `admitted`.

### The services

* `CustodyAccounts`: `assign_custody_account` as a transaction in steps (find, lock
  the account, ensure the watched address on each chain, insert the assignment,
  mark, commit) whose writes stay with it until the commit; release; edits.
* `TelegramBinding`: `request`, `posts` (the updates), the offset and its 30-second
  lock, and the handlers that process an update, of pollers and of the webhook.
  A poller that fails ends with its lock taken, which then ages.
* `Realtime`: the connection's `wire`, one bounded `channel` per tenant, and each
  socket's position; `received` and `missed` are ghosts.
* `EvmRescan`: the inclusions of one transaction (a reorganisation moves it and
  changes its outcome), the two requests, the drafts per address, the inserts.
* `Supervisor`: `main.pc` walks through spawn, select, shutdown, await and
  finish; `service` are the tasks. A `beat` is a heartbeat task and its row. It
  writes, waits `Interval` from the return of the write, and writes again; the row
  carries the time its write began (`asked`), and is stale when that is more than
  `StaleAfter` ago. Time passes in ticks, in waits and in writes alike: nothing
  bounds a write, since the pool waits 30 seconds for a connection by default and
  then without limit for the statement. `busy` and `missed` are ghosts: since the
  write of the row began, the time that was not spent waiting, and the failures.
* `WakeQueue`: the list, producers between commit and signal, workers between an
  empty claim, the wait and the pop.
* `NotificationConfig`: a bot's row against `verify_telegram_bot`, which reads
  it, asks Telegram and marks it; `get_or_create_default_in_app_channel` between
  its select, insert and second select.
* `AddressEdits`: an edit's transaction, an assignment's and a scan's two
  statements, with Postgres' row locks (`FOR UPDATE` against `FOR KEY SHARE`).
* `Amounts`, `ProviderAnswers`: no steps; every input up to the bound is an
  initial state and the code's result is compared with a reference definition.

Two of the properties have an exception the code really needs, kept in a ghost:
`overtaken` in `NotificationConfig` (the mark of a verification names the bot, not
the token that was verified, so that a token replaced meanwhile is marked) and
`mixed` in `AddressEdits` (an assignment finds an address without a lock,
`custody_accounts.rs:1067`, and may bind assets of the chain it has just left).

## Runs

| run | question | bounds |
|---|---|---|
| `scan_jobs_safety` | are attempts, leases and owners consistent, and do queue and audit agree? (`AttemptInv`, `SucceededJobHasGoodRun`, `RunningRunIsCurrent`) | 2 workers, 1 scheduler, 1 address, 2 jobs, 2 attempts, lease of 1 tick, replies arrive |
| `scan_jobs_schedulers` | can two schedulers and the retry leave an address with two active jobs? does the queue implement `JobLifecycle`? (`OneActiveJobPerAddress`, `ImplementsLifecycle`) | 2 schedulers, 1 worker, 2 addresses, 2 jobs, 1 attempt, replies may be lost |
| `scan_jobs_faults` | what survives lost replies, what needs the replies, and does everything end? (`GoodRunMeansSucceededJob`, `FencedFinish`, `FailedRunStaysFailed`, `JobsAndRunsEnd`, `LifecycleWhateverTheReplies`) | 2 workers (one may crash), 1 job, 2 attempts, both kinds of database |
| `outbox_prompt` | without overtaking: delivered means settled, sent is never resent (`TypeOK`, `DeliveredMeansSettled`, `SentIsNeverResent`) | 2 notifiers, 2 events, batches of 2, an external target, 2 attempts, 2 faults |
| `outbox_overtaken` | what survives overtaking; does every event end once faults stop? (`SendsWithinAttempts`, `EndsAreFinal`, `EveryEventEnds`) | 2 notifiers, 1 event, an external and an in-app target, 2 attempts, 2 faults |
| `address_import` | is a finished import complete, do attempts and addresses agree, is the verdict right, does every import end? (`TypeOK`, `FinishedMeansProcessed`, `VerdictMatchesAttempts`, `AddressesAreAccounted`, `EveryImportEnds`) | 2 workers (one may die), 1 task of 3 attempts in batches of 2, 2 faults |
| `chain_scans` | does any cursor pass a transfer, do events tell what happened once, do circuits and limits hold, do scans get through? (`TypesOK`, `NoTransferIsPassed`, `BalanceStory`, `OneEventUnlessInterrupted`, `OpenCircuitHasItsFailures`, `WithinRateLimit`, `ScansGetThrough`) | EVM: one scan, 2 tokens, 2 transfers, 4 blocks, lag 1, changing selection; two overlapping scans of balance and transfers; TRON: 2 tokens and 1 page, 1 token and 2 pages, 4 transfers; BTC: 4 transactions, 3 pages, overlap 1; pool: 2 scans, 2 providers of which one answers, limit 1, threshold 2; 1 fault each |
| `services` | the promises of the ten service modules and that what is owed is served (`TypesOK`, `CustodyIsExclusive`, `UpdatesBindOnce`, `SocketStory`, `RescanTellsTheChain`, `ShutdownIsComplete`, `NobodySleepsThroughAJob`, `SettingsAreUsable`, `AddressIsOfOneChain`, `AmountsAreNumbers`, `AnswersAreUnderstood`, `EverythingIsServed`) | see below |
| `scan_jobs_auditfailure`, `outbox_lost`, `address_import_cancelled`, `tron_duplicates` | violations, see Findings | the smallest instances that show them |

`ChainScans` and `Services` hold several independent modules. A behaviour is
about one of them, chosen initially (`part`); the variables of the others
stay `None`. The state space is the sum of the parts, and each property
speaks of the parts it names. The parameters of a part are a record, a constant of
the composed module; `Rescanned` and `Relocated` are sets of records, of which a
behaviour has one (`setup`). `MCChainScans` and `MCServices` give the constants
values and add the fairness (`FairSpec`). The instances of `services`:

| part | bound |
|---|---|
| custody | 2 assigners, 2 accounts (of two chains and of one), 2 references, 1 edit, 1 fault |
| pollers, webhook | 2 pollers, or 1 poller and 1 webhook; 1 request, 2 updates, 1 fault |
| realtime | 2 tenants, 2 sockets, 4 notifications, buffer of 2, 1 fault |
| rescan | 2 rescans of a transfer, or 1 rescan, 1 edit and 2 logs; one reorganisation, 1 fault |
| supervisor | 3 services, 1 heartbeat, ticks of 15 seconds: interval 2, stale after more than 6, 8 in all; 3 faults |
| wake | 2 workers, 2 producers, 3 jobs, 1 legacy entry, 2 faults |
| config | 2 tokens of which 1 is good, 2 verifiers, 2 resolvers, 2 channels, 2 edits |
| address | 2 chains (2 assets and 1), 1 editor, 1 binder, 1 scan, 1 move, 1 fault; 1 editor, 1 rule, 2 moves |
| amounts, answers | base 3 and strings up to length 3; every exchange of 10 codes and body shapes |

Why the bounds are enough to mean something: two workers (notifiers, pollers,
assigners) give every overlap of a stale and a current owner, two attempts give a
reclaim and an exhausted budget, two jobs on one address give a retry after a
final state and a conflict with an active one, and a lease of one tick may expire
between any two steps. Three attempts in batches of two give an import a second
claim with a partly processed batch. Four blocks with a span of one give several
ranges behind a window that starts above block zero; page limits are small enough
to be exceeded; a buffer of two with four notifications lags and catches up; eight
ticks and three faults let a running heartbeat become stale after two failed writes,
after one slow one and after a single write of more than six ticks, and recover.
The bounds are `MaxJobs` (rows ever inserted), `MaxBlock`, `MaxTime`, `MaxUpdates`,
`MaxPosted`, `MaxEdits`, `MaxMoves` and `MaxFaults` (crashes, lost replies,
overtakings, manual retries and errors that still happen); the others are
settings of the program. Symmetry is used in safety runs only. Deadlock is
not checked where a system really may stop: workers stay idle once every import
has ended, and the services have nothing left to do.

Every property of a passing run has a mutant in `PROJECT.json`: a definition of
the model changed as a bug of the code would (the operators commented
`Faulty` or `A faulty ...`), under which the run finds the property violated.

## Fairness

`ScanJobs`: weak fairness of a worker's own steps (`run_worker` loops and polls
with a timeout; it ends only when the process does, and `Crash` leaves at least
one worker alive, as a supervisor would) and of passing time. Nothing is assumed
of schedulers, the API, the renewal task, or of the database answering without
error: a scan that always fails still uses up its attempts.

`NotificationOutbox`: weak fairness of each notifier's steps (`run_notifier`
loops, and the process is restarted after a crash) and of passing time. Faults
are finitely many; failing providers, missing channels and failing
statements of an item are not counted as faults and may go on for ever.

`AddressImport`: weak fairness of each worker's steps (the same loop as above)
and of the ageing of a lock nobody holds. Creations may always fail; database
errors, lost replies and overtakings are finitely many.

Chain scans: weak fairness of a scan's steps, as the scheduler makes every active
address due again and a worker runs it; none of mining, of the user's edits or of
an error. `ProviderPool` also assumes that time passes and that one provider
answers (`Stable`).

Services: the pollers loop and a taken lock ages; the realtime listener reconnects
for ever and sockets are written to by their own tasks; a service that was told to
shut down ends; a heartbeat task that may write does, and its write returns, if
only with an error; a worker's wait ends after five
seconds at most. Users, webhooks and producers owe nothing.

In `MCChainScans` and `MCServices` one fairness condition per position serves an
action of each part: a behaviour has one part, so that it is the same assumption as
the modules' own `Fairness`.

## Proofs

The theorems hold for every value of the constants that satisfies the module's
assumptions: any number of processes, rows, blocks and attempts, and every setting
of the program. Where a module is a part of `ChainScans` or `Services`, its
assumptions are an operator `Assumptions`, the hypothesis of its own lemmas; the
`ASSUME PartsAssumption` of the composed module says that every part's hold. Beside
the ranges of the settings they say: finite sets where a proof counts (notifiers,
scanners, transfers, transactions), that `None` is no number and no member of a set
it is added to, that a log pays in or out (`ways` is not empty), that the native
asset is not a contract, that no process is both a poller and a webhook, that no
service is called `start` or `signal`, that the chains of an address have assets, of
which no two have one in common, and that an inclusion has a position and an outcome. TLC
evaluates every named `ASSUME` with the values of the `MC` modules.

Each argument is an inductive invariant, stronger than the property it is for, which
TLC checked on small instances before it was proved: initially true, kept by every
action (one lemma per action or group of alike actions), and implying the property.

### ScanJobs

With or without lost replies:

* `AttemptsAreConsistent`: `Spec => []AttemptInv`. `TypeOK` alone is not inductive: a claim
  writes `attempts + 1`, which is in `0..MaxAttempts` only by the budget of
  waiting jobs; the budget holds because a finaliser decides between *retryable*
  and *dead letter* with the attempt the worker remembers, which is the row's
  only if the owner is current; and that needs the worker's memory to be
  consistent. So the invariant is `TypeOK /\ WorkerMemory /\ OwnerIsCurrent /\
  AttemptBudget`. `TypeCorrect` and `BudgetIsKept` are its parts.
* `OneActiveJob`: `OneActiveJobPerAddress` is inductive relative to types; only
  `SchedulerEnqueue` and `RetryRun` create an active job, under `~HasActiveJob`.
* `AuditSuccessIsReal`: a good run is the last run of a succeeded job.
  A fallback write may spoil a good run but never makes one.
* `StaleWorkersFinishNothing`: the action property `FencedFinish`.
* `AuditIsConsistent`: `AuditInv` says of every run which attempt wrote it last, and of
  every worker what its run looks like while it owns its job and after it was
  fenced off. An attempt is claimed by one worker (`AttemptsAreClaimedOnce`), so
  nobody else writes the run of an attempt at work, and a claim closes the run the job
  points at, which is the open one (`OpenRuns`) unless a reply was lost.
* `OpenRunsAreCurrent` and `SuccessIsRecorded`, with `~LossyReplies`: both are false
  without, because a worker that does not know that its run was inserted finishes
  the job without it, and one that does not know that it committed records a failure.
* `FailuresAreFinal`: the action property `FailedRunStaysFailed`.
* `QueueImplementsLifecycle`: every step of `ScanJobs` is one of `JobLifecycle` or leaves
  it alone, action by action under `AttemptInv` and `AuditInv`.
  It showed that the abstract specification was too strong where a reply is lost: a
  fenced worker may leave an open run on a job that waits again, and the next
  claim does not close it. `CloseLatest` therefore closes the runs of held
  jobs only, and `LifecycleWhateverTheReplies` now checks it in both kinds of database.

### NotificationOutbox

* `OutboxTypes`, from `MemoryInv`: types, and what a notifier remembers at each point.
* `MessagesStayWithinAttempts` and the action property of `EndsStay`, from `CountingInv`: the
  messages accepted and the sends in flight (`Senders`, a finite set whose cardinality
  moves with each step) are at most the attempts of the delivery row, those at most
  the attempts of the event, and a batch never holds an attempt ahead of its row.
  All this also holds for notifiers that are overtaken.
* `DeliveredIsSettled` and the action property of `SentStaysSent`, from `PromptInv`, with
  `~Overtaking`: a row in a batch belongs to one notifier (`HeldRowsAreOwned`), the
  targets it has passed are settled, and those ahead of it have attempts before
  its own (`WalksAreSettled`), so that nothing it sends was sent. With overtaking both
  are false: see finding 2.

### AddressImport

* `ImportTypes`: `TypeOK`, which is inductive by itself.
* `FinishedImportsAreProcessed` and `AddressesMatchAttempts`, from `ImportInv`. Attempts are
  never pending again, so what a worker found before it completes a task stays
  true (`NothingLeft`), although the completion does not look at the owner. A
  mark on a cancelled task changes nothing although an address was created: that this
  does not leave a *pending* attempt with an address needs that a
  cancelled task has none, so the two properties are proved together.
* `VerdictsAreRight`, from `VerdictInv`: on a task that was not overtaken and not cancelled
  only its owner works (`SoleHolder`), so the counts it has read are still those
  of the attempts (`CountsAreFresh`), and nobody writes older counts
  after it has finished.

### Chain scans

`EvmScansAreSafe` and `TronScansAreSafe` say of one module what its part promises.
`ChainScansProofs` proves each safety property of `MCChainScans` of the composed
specification, by citing the lemmas of those modules for each instance and by proving
those of `BtcScan` and `ProviderPool` itself. `ScansInv` is the conjunction of
the invariants of the parts, each under `part = ...`.

* `CursorsPassNoTransfer`. EVM: `ScanInv` says what a scan counts on while the chain, the
  selection and other scans move: it was told of no block beyond the head (`Latest`), its
  selection holds every token selected all along (`Selection`), all below its range is
  behind the cursor or below the first window (`Window`), and a transfer mined in the
  range is an event, a log to insert, or will be in the answer to a filter still to be
  sent (`Pending`). Cursors written by overlapping scans never move back, so each
  scan's knowledge survives the others'. TRON: a listing is read to its end, or the scan
  ends at the page limit, so what a scan found of an asset leaves nothing older out (`Read`);
  and therefore the new values of the cursors leave nothing behind, but what a
  shared cursor loses to another contract (`Written`). Bitcoin: a page may miss what is
  indexed while it is read, but that is of a block no older than any the scan has
  found, and the cursor goes no further than to the newest of those. The order of a
  listing, its first and last elements and the pages are lemmas over finite sets.
* `EventsTellTheBalance`, from `StoryInv`: while no two comparisons interleave, a
  scan that compares finds its own snapshot last, and the one before is where the
  events are at.
* `TransfersHaveOneEvent`, from `OnceInv`: without overlap and interruption a scan
  reads strictly behind the cursor, and all events are behind it or will be when the
  scan ends.
* `CircuitsOpenForAReason`: `failures` is the number of failures in a row as far as the
  threshold, and a circuit is open only where it is reached.
* `RateLimitHolds`: the counter of a second has counted at least the admissions of
  it and lives until the second is older than `KeyTTL`.
* `ScanTypesAreRight`: the types, which need the invariants: a cursor is within
  `MaxBlock` only because it is behind the head.

### TelegramBinding

* `UpdatesAreBoundOnce`, with the types, from `TelegramInv`: a poller reads, in order, the
  updates after an offset it saw, and stores each only after it has processed all
  before it (`PollOk`), so the offset is safe whatever happens to the lock; a request
  is confirmed once because only the statement that binds it leads to a
  confirmation, and nothing leads from *bound* back (`ConfirmInv`).

### The services

`ServicesProofs` has one invariant for each part, and `ServicesInv` says all of them,
each of its part; every step of `Services` is one of a part and leaves the others alone
(`ServicesInvStep`). The theorems are about that specification:

* `CustodyStaysExclusive`: the invariant `PoolIsHonest` and the action properties
  `AssignedOnce` and `WatchedAtCommit`, from `CustodyInv`. A transaction holds its account
  from the lock to the commit and is alone with it, and only one at a time has inserted an
  assignment of a reference (`OneHolder`), so what it has seen of account and
  reference is still so when it commits (`CallIsOk`). What it did to a
  chain's row is remembered (`held`) and is what the row needs, unless the user changed
  that row since (`HeldIsOk`); without it a commit could leave a configured chain unwatched.
* `BindingsHappenOnce`: `UpdatesAreBoundOnce` for a bot with several pollers and for one
  with a webhook.
* `SocketsAreToldInOrder`, from `RealtimeInv`: a channel holds numbers of its tenant in
  the order of posting; what a socket was sent is behind all that its channel still has
  for it (`ReceivedIsBehind`); and of what lies behind a message it was or will be sent,
  nothing is forgotten: it was sent, is ahead, or was lost by a lag or a
  disconnected listener (`Accounted`). `Told` is the part that outlives the socket.
* `RescansTellTheChain`: `EventsAreReal`, `OneEventEach` and the action property
  `RescanIsComplete`, from `RescanInv`. All events are of some inclusion (`Known`); after the
  two requests agree, a rescan's drafts are of one inclusion, and each draft it derived
  waits to be inserted or has its event (`Covered`), whether the rescan, another one or a
  scan inserted it. That an answer leaves none out also needs that an inclusion's drafts
  depend on nothing that moves meanwhile but the selection.
* `ShutdownsAreComplete`, from `SupervisorInv`: what `main` no longer awaits has ended, with
  its error kept (`Awaiting`), and nothing is aborted before it returns (`Starting`). The
  age of a heartbeat row is at most one interval for each write that failed since, what
  the present wait has lasted, and the time spent on writes and late wake-ups (`Ages`):
  each tick adds to one of the last two, and a failed write turns a whole wait into the
  first. So a running service is shown stale only when `missed + 1` intervals and the
  busy time exceed the limit.
* `WorkersAreWoken`: `NobodySleepsThroughAJob` is inductive with `SignalsAreOne`: a list with
  one entry of the new kind is enough, since whoever pops it claims before it waits again.
* `SettingsStayUsable`, from `ConfigInv`: a resolution that met a conflict finds the default
  unless the user took it away (`RereadFinds`), it was offered all that is active now
  (`OfferedNow`), and there is one default at most, so that without edits all who are
  done have found the same channel (`Untouched`).
* `AddressesKeepOneChain`, from `AddressInv`: the locks of the row make an edit alone with
  it (`RowIsLocked`), a move deletes all it found before it inserts (`EditOk`), and what an
  assignment, a scan or a rule has read is of the chain the address is on as long as
  it has not moved since (`epoch`).
* `AnswersStayUnderstood`: a case analysis over all exchanges, which have no steps.
* `ServiceTypesAreRight`: the types of all parts.

### Only model-checked

Liveness (`JobsAndRunsEnd`, `EveryEventEnds`, `EveryImportEnds`, `ScansGetThrough`,
`EverythingIsServed`) is out of the prover's reach. `AmountsAreNumbers` stays with its
bounded inputs: the comparison and the conversions fold over the digits, and what a
fold computes for every string needs an induction over data. `LifecycleWhateverTheReplies`
is `QueueImplementsLifecycle` with two kinds of database in one run. Every other
property of a passing run is stated by a theorem.

## Findings

Disagreements between the code and what the repository's design documents say of
it, each shown by a run that ends in a counterexample:

1. `scan_jobs_auditfailure`: a failed finalisation of a *successful* scan makes
   the worker record its run as failed (`worker/src/lib.rs:1417`); the audit
   design says audit-write failures never do that.
2. `outbox_lost`: an overtaken notifier marks the row its successor owns as
   delivered, while that successor may still fail; the marks test the status
   and not the attempt (`storage/src/repositories.rs:289`).
3. `address_import_cancelled`: a worker that renewed its lock before a
   cancellation still creates the address of an attempt that the cancellation
   skipped: the success mark accepts a skipped attempt of a cancelled task
   (`storage/src/address_imports.rs:112`), so the transaction commits. The import
   design says that cancelling stops unprocessed rows.
4. `tron_duplicates`: the `log_index` of a TRON transfer hashes its position in
   the listing (`chain-providers/src/tron.rs:575`), which newer transfers change;
   a scan that ended before its cursor and is repeated inserts, and notifies, the
   same transfer again. The pagination design says a repeated scan does not.

Weaknesses that the models show beside these, without a document that says
otherwise: `DeliveredMeansSettled` and `SentIsNeverResent` need notifiers that are
not overtaken; neither the release of stale rows nor the claim looks at
`attempt_count`; the TRC20 contracts of an address share one cursor; a
verification marks a token it did not verify; an assignment may bind assets of the
chain an address has just left; a running service is shown stale after two failed
heartbeat writes, not three, because each wait starts when a write returns
(`storage/src/service_heartbeats.rs:160`) and the third write therefore begins after
the 90 seconds are over, and after one or none if its writes take long enough.

## Plan

Done: all the modules above, and the proofs of every safety property the runs check but
`AmountsAreNumbers`. What is left:

1. Proofs: an abstract `EventDelivery` (per target: owed, settled, at most one message
   per attempt) that the outbox implements.
2. Models: the claim of `ScanJobs` split at its snapshot, against an insert of a
   run in flight; cursors that survive an edit of the chain.

## Not modelled, and why

The request, JSON and URL code of the provider clients and senders, address
decoders, password hashing, sessions, lists and dashboards, configuration parsing
and the frontend are I/O, parsing or presentation without shared state. Of the
legacy notify queue only the depth is still read, for the system status. Postgres is taken at READ COMMITTED with
statements atomic except where a module says otherwise; row-lock deadlocks are
aborts, which every transaction may suffer anyway. Five hazards of
`PROJECT.json` have a note instead of a property, for these reasons.
