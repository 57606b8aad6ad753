# Specifications of the stock trading system

TLA+ specifications, model-checking instances and machine-checked proofs for the
parts of this repository whose correctness depends on what happens in which
order: the process that turns signals into orders, the unattended loops that
improve the system and run its experiments, and the ledger of investment theses.
Everything is translated from the code; where a
document, a comment or a test says something else, a run shows the difference.

## 1. The system

```
 collectors (krx, kis, yfinance, news, calendar)      scripts/net_guard.py paces them
        |  Postgres
        v
 features, training (xgboost-ml) --> champion_cand --promote--> champion <--rollback-- monitor
        |                                                          |
        v                                                          v
 screeners, strategy agents, predictor --signals--> Redis Streams --> trade-executor --> Creon broker
                                                                        |-> results stream, table positions
 nightly: improve_queue.json --> improve_dispatch (agent in a git worktree, checks, cherry-pick to master)
                 ^-- experiment_runner, people at the command line
 hourly:  model_engineer_cycle, researcher_cycle --start--> one experiment at a time, in the xgboost-ml container
                 |  backlog, ledger (JSON)                       |  panel of features: build, checkpoint, reuse
                 ^-- ingest, hand-overs                         killed when the pipeline recreates the container
 screener --> thesis_onboarding (packages, JSON) --approve--> position_theses <--exit, rewrite-- thesis_review
```

| Component | State it keeps | Operations | Hard behaviour |
|---|---|---|---|
| Signal streams, `services/shared/redis_streams.py` | entries, cursor and pending list of each consumer group | xadd, create_group, xreadgroup, xack | errors are logged and swallowed, replies get lost, MAXLEN trims |
| Trade executor, `services/trade-executor/main.py`, `utils/redis_client.py` | the batch in hand, the amount traded today | poll, vet, order, report, acknowledge | dies between any two external calls; order reported as failed after the broker took it |
| Positions, `risk_management/position_checker.py` | dict in memory, table `positions` | synchronise, check, update, upsert | either side may fail; memory is lost with the process |
| Creon adapters, `executors/` | orders at the broker | buy, sell, cancel | a blocking COM call with an unknown outcome |
| Order lifecycle and router, `executors/order_lifecycle.py`, `order_router.py` | status of each order | create, validate, route, submit, update, cancel | callbacks between a check and a transition, fallback after an exception (used by tests only) |
| Strategy agents, `services/strategy-agents` | set of recent signals | run strategies, validate, size, publish | deduplication that is consumed before publishing succeeds |
| Network guard, `scripts/net_guard.py` | one JSON file per key under an flock | acquire, note, block, clear | many processes, sleep under the lock, midnight, lock timeouts that let the call pass |
| Champion, `champion_promote.py`, `champion_rollback_monitor.py`, `log_champion_swap.py`, Phase 2 of `full_pipeline_dd.sh` | directories `champion`, `champion_cand`, `champion_prev_*`, the swap log | train, measure, promote, roll back, log | promotion is a sequence of copies; training overlaps the monitor's hour |
| Improvement queue and dispatcher, `improve_queue.py`, `improve_dispatch.py` | `improve_queue.json`, branches, worktrees, master | add, seed, claim, finish, run_one | no lock, one temporary file for everybody, timeouts that end the dispatcher |
| Job runner, `services/job-runner` | dict of jobs | run, get | timeout without killing the subprocess; everything is lost on a restart |
| Cycle locks, `model_engineer_cycle.py`, `researcher_cycle.py`, Phase 0 of `full_pipeline_dd.sh` | `running.pid` and `state.json` of each role | tick, start, run, leave | a process that looks before the other has written; locks of the dead; files that name somebody else by now |
| Engineer's cycle, `model_engineer_cycle.py` | backlog, ledger, delivery of reports | tick, run, ingest, hand-over | files loaded and saved whole by four processes, deaths without a record, reports that do not arrive |
| Panel build, `wf_wave.py`, `panel_meta.py`, `feature_pipeline.py` | npz, sidecar, checkpoint of two files, flock | reuse, build, resume, save | hours of work killed and resumed while the feature code is edited |
| Thesis ledger, `thesis_onboarding.py`, `thesis_review.py` | packages (files), theses (rows) | draft, approve, reject, exit, rewrite | file and database commit apart, a check before an insert, a row lock held for minutes |
| Overnight ML loop, CEO decisions, ledgers | JSON files | append, rewrite | mostly one writer |
| Collectors, gateway, backtester, vectorizer, training, inference | database rows, model files | requests, parsing, numerical work | little control state of their own |

What makes each component correct:

* **Streams and executor**: an entry becomes at most one order, in the order of
  its stream; what was not finished can be found again; the daily and position
  limits hold for what the broker really took; the answers and the positions
  table tell the truth.
* **Network guard**: calls of all processes together keep the slower pace and the
  budget; a block stops everybody until its end.
* **Champion**: the files in a directory belong to one model; what is recorded as
  the bar for the next candidate is not lower than the live model; replacing goes
  up, rolling back returns to the model that was replaced.
* **Improvement loop**: a task is merged at most once, what the queue says agrees
  with master, attempts are bounded, what is for people is left to people.
* **Cycle locks**: one experiment at a time over both roles, none loses its
  container, and no lock left behind stops the research.
* **Engineer's cycle**: an item is closed only by what is on record, every run
  comes to exactly one record, every record reaches its reader.
* **Panel**: built by one process at a time, with every pair that gives a row and
  none twice, of one code and one span; its verdict true; no saved work lost, and
  the pairs gone through to the end.
* **Thesis ledger**: one active thesis a stock, each closed once and replaced at
  most once, packages and rows in agreement.

The hazards are listed in `PROJECT.json`, each at its line, with the properties
that cover it.

## 2. The modules

| Module | Stands for | Extends |
|---|---|---|
| `SignalStream` | the two streams and the executor's groups | |
| `PositionBook` | positions in memory and in the table | |
| `TradeExecutor` | the executor, composed of the two above, with broker, results stream, clock and publishers | `SignalStream`, `PositionBook` |
| `OrderedExecution` | what the executor promises, abstractly; instantiated in `TradeExecutor` | |
| `TradeExecutorProofs` | theorems about `TradeExecutor` | `TradeExecutor` |
| `NetGuard` | one key of the guard with its processes | |
| `NetGuardProofs` | theorems about `NetGuard` | `NetGuard` |
| `ImproveLoop` | queue file, commands, dispatchers, git | |
| `Champion` | pipeline, monitor, `promote`, the model directories | |
| `CycleLock` | the locks of the two research cycles, their starts, the evening pipeline | |
| `EngineerCycle` | the engineer's backlog, ledger, tick, run, and the others that write them | |
| `PanelBuild` | one panel path with its readers, builders and editors | |
| `ThesisLedger` | packages, theses and the five commands on them | |
| `CycleLockProofs` | theorems about `CycleLock` | `CycleLock` |
| `ThesisLedgerProofs` | theorems about `ThesisLedger` | `ThesisLedger` |
| `PanelBuildProofs` | theorems about `PanelBuild` | `PanelBuild` |
| `ImproveLoopProofs` | theorems about `ImproveLoop` | `ImproveLoop` |
| `ChampionProofs` | theorems about `Champion` | `Champion` |
| `EngineerCycleProofs` | theorems about `EngineerCycle` | `EngineerCycle` |
| `MCTradeExecutor`, `MCNetGuard`, `MCImproveLoop`, `MCChampion`, `MCCycleLock`, `MCEngineerCycle`, `MCPanelBuild`, `MCThesisLedger` | small instances | the module named |

### TradeExecutor

`pc` is where the only consumer thread stands; an action ends where the code makes
its next external call, because the process may die there.

| Actions | Code |
|---|---|
| `Publish` | `RedisStorage.publish_signal`, `Predictor.publish_signals_to_redis`, `scripts/test_mock_signal.py`; which publisher decides the stream and whether the entry has the field `data` (`Verified`) |
| `Start`, `ReadStream`, `LoseReply`, `ProcessPending` | `subscribe_streams`, `_process_pending` |
| `Drop`, `RejectEarly`, `RejectAmount`, `RejectPosition`, `Admit` | `process_signal` up to the order: one action per way out |
| `PlaceOrder` | `OrderManager` and `CreonExecutor`: refused, taken, or taken and reported as failed |
| `RecordResult`, `RecordPosition`, `Acknowledge` | the rest of `process_signal` and the `finally` clause |
| `Crash`, `NextDay` | the process dies; midnight |

An entry is `<<stream, position>>` in a log that is never shortened; `Retained`
says which positions MAXLEN has left. `XPending` is empty because the call at
`redis_client.py:209` raises a `TypeError` in the pinned redis-py 5.2.1; its mutant
lists the entries as intended, and then `BrokerFollowsStream` fails: repairing the
call alone would send orders twice, since nothing remembers that an entry was
handled. `holdings`, `orders`, `spent` and `results` are outside the process, `done`
and `faults` are history. Prices in the book are whole numbers; every reachable
average is 0, as the comment at `Bought` explains. Redis trims approximately, the
model exactly.

`OrderedExecution` has three operations (a signal is published, given up, executed)
and no process at all. The mapping takes as still live what is unread, in the
batch or admitted.

### NetGuard

Time is a number of ticks. A process waits for the lock (`gate`), sleeps while it
holds it (`asleep`), saves (`Commit`) and calls. `Roll` is `_roll`; `mine` is the
state loaded before the sleep, which is what gets saved. Failing saves, fail-open
after `LockTimeout`, deaths, blocks and the operator's `clear` are all there. All
processes get the same lock file; the fallback file of another uid is left out.

### ImproveLoop

A task's id is its place in the list, as `_new_id` counts. A command loads the file
in one step (`Saving`), writes the temporary file (`Write`) and renames it
(`Replace`), which moves whatever that file holds by then. The dispatcher takes
the task from the queue in memory (`Pick`) and claims it in the file. `raced`
becomes true as soon as somebody acts on an outdated copy: `MergedOnce` must hold
even then, the other properties only before. `Judge` and `Claim` are the commands
`finish` and `claim` a person gives: they take any task in any state, as the code does,
so a task that is merged, or left inflight by a dispatcher that died after the push,
may be reopened and dispatched again. `MergedOnce` must hold even so. `byhand`
remembers which tasks were named in such a command: of those the queue may say what
the person wants, so `CommitsRecorded` and `MergedIsOnMaster` say nothing of their state
(that the entry and its subject are there is said of them too), and `AttemptsBound`
excepts those that were claimed by hand, which counts an attempt whatever the bound. `seed` adds one task after another; `Seeded` gives what
comes of it at once. Overlapping writes inside the
temporary file are left out, and nobody deletes branches.

### Champion

A model is a number. A directory is the record of what its files are about: the
models, `auc.txt`, the training results, `robust_auc.json`, `robust_oos.json`. A
promotion is `Decide`, `Backup`, `Copy`, `Record`, `WriteBaseline`; it can stop
between or inside copies (`Crash`) or lose its source (`SourceGone`). `Newest`
is the order of modification times: `copytree` gives a backup the time of the
champion directory, which changes only when a file is added. `marred` is history:
some promotion overlapped another or was cut short. Training results pile up in the
champion directory and its backups, and a rollback records the last of them, which
may be another model's: hence `BaselineSound` and `Ratchet` speak of `Tolerance`, the
distance a rollback allows between that result and `auc.txt`. With no distance TLC
refutes the first on the instance of the run, and the second, whose gate compares with
that baseline, has no proof. A backup that is itself cut short, the token of the
live-score gate (it only adds refusals here) and `overnight_ml_loop.py`, a third
caller, are left out.

### CycleLock

A process started with `--run` goes from `born` over `looked` (its guards have seen
nobody else) to `running` and `leaving`; a starter, which is a role's tick or a
shell, goes over `checked`, `spawned` and `settle` back to `idle`. Between any two
of these the others may move. `Alive` is `_pid_alive`, which asks the system and
not the file; a pid is never used again here, as the code compares the command
line. `OwnRunning` looks at both files, `PeerRunning` at the other's `running.pid`
only. The researcher removes its role's pid file whoever it names, the engineer
only its own. Assumed: a parent writes its files before the child gets to its
guards (`Overtaking = FALSE`: the interpreter's start and its imports take longer
than two writes; with TRUE two starts of one minute break `OneExperiment`); and
`docker compose up` is done by the end of the twelve minutes in which nothing
starts. `kill -0` in the pipeline takes a process of another user for a dead one;
all belong to one user here.

### EngineerCycle

The backlog, which is loaded and saved whole, and the ledger, which is appended to
and rewritten whole, are files; `tick`, `child` and `other` are the processes, each
with the copy it has loaded. `TickBegin` to `TickSettle` are the steps of `tick` in
the order of the code; `RunGo` to `RunLeave` those of `--run`; `IngestLoad` to
`HandoverSave` the others, one at a time, which is a bound. `told` is what the
fields `reported` and `reported_at` and the database of executions amount to. An
id of `log`, the history of appended rows, is the timestamp of a row. The look at the
locks (`TickLock`) removes the pid file of a dead run, and the record of the death
is a step of its own (`TickDeath`): a host failure between the two, or a ledger that
cannot be written, loses the death for ever, since no later tick has a pid file to
ask about. `count.slipped` remembers these runs; `EveryRunRecorded` excepts them
and `DeathsRecorded`, which does not, is refuted by `EngineerDeath.cfg`. A crash between
the start of a process and the writing of its files is in `CycleLock`.

### PanelBuild

A row is the pair it is for, the code its process had imported, and the span: the
universe, its options and the last day. `universe` stands for the keys a request always
sets (universe, seed, limit, days); `end_date` and `universe_opts` may be left out. A
request without `end_date` is built up to the day the build starts on (`SpanOf`), and
`Midnight` moves that day, so that the checkpoint of yesterday no longer agrees.
`Verify` compares as the code does: a key that the request or the sidecar leaves out is
not compared, except that a request with options is compared with a sidecar
without, and `code_changed` needs two signatures that could be read. `OkIsTrue` says what
an `ok` is then worth. A sidecar that cannot be parsed, or of an older version that
lacks a key, is compared with less and left out.

`Choose`, `Lock`, `Reuse`, `Build`, `Resume` or `FromScratch`, the pairs, `SaveRows`,
`SaveMeta`, `WriteBegin`, `WriteEnd`, `WriteMeta`, `DropRows`, `DropMeta` are the steps;
a kill ends a process before any of them and the kernel releases its lock. A pair
gives a row (`Pair`), or too few features and is done without one (`Thin`), or an
exception, and is neither done nor tried again in this run (`Fails`); what the
checkpoint says of it lets a later run try it again. `gaps`, in a process, a checkpoint
and a panel, is not in the files: it remembers the pairs that gave no row when they
were last computed, so that `Complete` can say that nothing else is missing.
With fewer rows than `MinRows` (100 in the code) a build fails and leaves its checkpoint
(`TooFew`). A checkpoint that agrees but cannot be read is given up. `mishaps` counts
this together with kills, removals and pairs without a row, and `MaxMishaps` bounds
them all: any two or three of them may meet. The code looks at the
signature before every stock; in the model each pair is a stock.

`Unguarded` names six moments the code does not guard; `panel_build` takes none of
them, and each alone breaks what it says:

| in `Unguarded` | what it lets happen | breaks | shown by |
|---|---|---|---|
| `unseen` | the code is edited between import and signature | `Unmixed`, `OkIsTrue` | `PanelUnseen.cfg` |
| `torn` | a kill between the two files of a checkpoint, or the second cannot be saved | `Complete`, `Unmixed`, `OkIsTrue` | `panel_torn` |
| `cut` | a kill while the npz is written in place | `Finished` | `PanelCut.cfg` |
| `half` | people remove a panel and leave its sidecar | `OkIsTrue` | `PanelHalf.cfg` |
| `blind` | the signature of the code cannot be read | `Unmixed`, `OkIsTrue` | `PanelBlind.cfg` |
| `removed` | people remove a panel between a look at it and the lock | `BuildsAlone`, and with it `Complete`, `Unmixed`, `OkIsTrue` | `PanelShared.cfg` |

### ThesisLedger

`theses` is the committed table, so that what an open transaction has changed is in
`procs` and `holder` only: a rewrite locks the row (`RewriteUpdates`), waits for the
language model, and commits exit, insert and link at once (`RewriteCommits`) or not
at all. An exit of the same row waits for the lock and reads the row again, as
Postgres does under read committed. `ApproveChecks`, `ApproveInserts`, `MarkLoads`
and `MarkWrites` are the four steps of an approval, each of which may fail, be the
last, or lose its answer (`ApproveCommitLost`). `raced` and `doubtful` are history:
two approvals of one stock that checked at the same time, and packages whose
commands overlapped or were cut short. What the properties except is real: two
approvals at once leave two active theses; a death after the INSERT leaves an
active thesis with a pending package, which is refused until the thesis exits and
may then be approved a second time; a rejection beside an approval leaves an
active thesis with a rejected package. `has_active_thesis` answers false when its
query fails, which does no harm: the transaction is aborted, so the INSERT fails
too (`ApproveFails`).

## 3. The runs

| Run | States | Shows |
|---|---|---|
| `trade_executor` | 2.7 million | `TypeOK`, `BrokerFollowsStream`, `DailyLimit`, `UnfinishedIsPending`, `AnswersAreTrue`, `BookMatchesBroker`, `PositionCount`, and that `TradeExecutor` implements `OrderedExecution` |
| `trade_lost_signal` | violated | `NoSignalLost`, README.md:410: a lost reply loses the signal |
| `net_guard` | 0.5 million | `TypeOK`, `Paced`, `BudgetAndOne`, `CooldownSameDay` |
| `improve_loop` | 4.7 million | `TypeOK`, `MergedOnce`, `CommitsRecorded`, `MergedIsOnMaster`, `AttemptsBound` |
| `champion` | 3.3 million | `TypeOK`, `RecordsAgree`, `BaselineSound`, `Ratchet` |
| `cycle_lock` | 115,000 | `TypeOK`, `OneExperiment`, `NoneKilled`, `LockFreed` |
| `cycle_two_runs` | violated | `OneExperiment`, model_engineer_cycle.py:10: `--start` takes over the files of a run under way |
| `engineer_cycle` | 3.1 million | `TypeOK`, `ClosedIsEarned`, `OneRowPerRun` |
| `engineer_records` | 90,000 | `EveryRunRecorded`, `EveryRowHeard` |
| `panel_build` | 3.8 million | `TypeOK`, `BuildsAlone`, `Complete`, `Unmixed`, `OkIsTrue`, `ProgressKept` |
| `panel_torn` | violated | `Complete`, feature_pipeline.py:547: a checkpoint is two files, replaced one after the other |
| `thesis_ledger` | 911,000 | `TypeOK`, `Succession`, `OneActive`, `ApprovedIsRegistered` |

Further configurations, each of which refutes one sentence of the repository or
shows one loss; they are run by hand (`tlc -config X.cfg M`):

| Configuration of | Refutes | What it shows |
|---|---|---|
| `TradeStrategySignal.cfg` (`MCTradeExecutor`) | `StrategySignalsReachExecution`, trade-executor/main.py:3 | the strategy agents' signals are dropped unverified |
| `TradeConcentration.cfg` (`MCTradeExecutor`) | `NoConcentration`, position_checker.py:46 | the 20 % limit never applies, as positions are worth 0 |
| `NetGuardCooldown.cfg` (`MCNetGuard`) | `CooldownHeld`, docs/NET_GUARD.md:12 and 81 | midnight ends a cooldown |
| `ImproveDoubleRun.cfg` (`MCImproveLoop`) | `NoDoubleRun`, docs/ORCHESTRATOR_PLAN.md:54 | there is no file lock |
| `ImproveProtected.cfg` (`MCImproveLoop`) | `NoProtectedMerge`, experiment_runner.py:272 | protected tasks are merged |
| `ChampionRollback.cfg` (`MCChampion`) | `RollbackRestores`, champion_rollback_monitor.py:159 | backups tie in time, an older model returns |
| `CycleLostResult.cfg` (`MCEngineerCycle`) | `LedgerKeeps` | a row appended while the tick rewrites the ledger is lost |
| `EngineerDeath.cfg` (`MCEngineerCycle`) | `DeathsRecorded`, model_engineer_cycle.py:4228 | the pid file is removed before the death is recorded |
| `PanelUnseen.cfg` (`MCPanelBuild`) | `Unmixed`, feature_pipeline.py:510 | rows of the old code are saved under the new signature |
| `PanelBlind.cfg` (`MCPanelBuild`) | `Unmixed`, feature_pipeline.py:510 | two signatures that could not be read are equal |
| `PanelCut.cfg` (`MCPanelBuild`) | `Finished`, wf_wave.py:344 | nobody takes over from a build killed while it writes the npz |
| `PanelShared.cfg` (`MCPanelBuild`) | `BuildsAlone`, wf_wave.py:269 | the mode of the lock is chosen before it is held |
| `PanelHalf.cfg` (`MCPanelBuild`) | `OkIsTrue` | the sidecar of a removed panel vouches for the next one |
| `PanelOptions.cfg` (`MCPanelBuild`) | `OptionsCompared`, panel_meta.py:20 | a request without options is not compared with a panel that has some |

`PanelFinish.cfg` (`MCPanelBuild`) refutes nothing: it finds that `Finished` holds, with
two kinds of requests, a checkpoint after every second of three pairs, an edit, a
midnight and two mishaps, on 276,000 states.

Bounds, and why they are enough:

* **Trade**: three messages of six kinds on streams cut to two entries, so that a
  batch of two, a trimmed entry and a message on the other stream occur; two
  failures, since each hazard needs a fault and a death at most; a limit of 3 that
  one order of 2 leaves room under and two do not; room for one position; two days.
* **NetGuard**: two collectors with delays 1 and 2, a budget of 2, days of four
  ticks and seven ticks, so that a sleep, a cooldown and the wait for the lock each
  cross midnight.
* **ImproveLoop**: two processes, which are symmetric, two dispatches, one other
  command, three tasks taken in all: a task can be tried twice and reopened while
  the other process runs.
* **Champion**: four trainings and four backups, of which two are kept, so that a
  model is promoted, rolled back, promoted and rolled back with a backup pruned, and
  that a rollback records another model's training result as the baseline; one death.
* **CycleLock**: three processes, so that two roles start at once and a third finds
  what they left; deaths at any step, one reboot, an evening as often as it likes.
* **EngineerCycle**: an item of the backlog whose metric has no parser at first and
  one handed over that needs it; two runs, retries up to 2, and either an ingest
  and one fault, or (for the liveness properties) two faults and no ingest.
* **PanelBuild**: two processes, as one builds while the other takes over or reads; three
  requests, one that leaves out the last day and the options, one that sets them and one
  for another universe; three pairs with a checkpoint after each, and panels of two rows
  or more; an edit, a midnight and three mishaps. So a build is killed twice and resumed
  by the other, or spoiled by the edit and begun again; a pair fails, and is tried again
  after a kill; two pairs give no row and the panel is too small; a panel is removed, and
  the build of another killed.
* **ThesisLedger**: two stocks, two packages, three theses, two commands at a time
  and one fault; stocks and processes are symmetric.

`CHECK_DEADLOCK FALSE` stands where the system may stop: an executor that could not
connect, or bounds that are used up.

Fairness in `CycleLock`: processes go on (weak), cron runs the ticks again and again
and now and then finds the load, the hours and the item's length to its liking
(strong fairness of `TickStart`; deaths and the pipeline may disable it in
between). In `EngineerCycle`, and in `PanelBuild` for `Finished`, weak fairness of each
process's steps:
cron starts a tick every hour, commands carry a timeout, experiments keep asking
for their panel. Nobody is obliged to ingest, to hand over, to edit or to die.

In `TradeExecutor` fairness appears in `FairSpec` only, for `NoSignalLost`: the consumer thread takes
its next step when it can (weak fairness of each of its actions), the pending pass
comes again and again (strong fairness, since between two passes the loop also
does other things), and a dead process is started again, which is more than the
repository provides (README.md:711). Even so the property fails. With the pending
pass repaired as in `XPendingListed` it holds, so it is that call which loses the
signal.

## 4. The proofs

Every theorem is about the module's `Spec`, for every value of the constants that
satisfies the assumptions named, which TLC evaluates in every run: the bounds of the
instances, and those on failures, are parameters like the others. A proof module
states its inductive invariant, the facts about the model's operators it needs, and
for each part of the invariant a lemma that every step keeps it.

### `TradeExecutor` (`StreamAssumption`, `PositionAssumption`, `ExecutorAssumption`)

* `TypeCorrect`: `TypeOK`, together with `PlacesOK` and `VettedOK`. `TypeOK` alone is
  not enough for anything else: `PlacesOK` says where the ids in the batch and in
  hand may be (delivered, and the one in hand before the rest of its stream's
  batch), `VettedOK` what is known of the signal between admission and
  acknowledgement.
* `FollowsStream` (`BrokerFollowsStream`): the strengthening says that every order
  lies behind whatever may still be ordered: the cursor, the batch and the entry
  in hand. A death throws the batch away and the cursor stays, hence the proof.
* `DailyLimitHolds` (`DailyLimit`): `spent` is at most the amount counted, plus the
  order under way between the broker's call and the bookkeeping, and a counted
  amount is of the day it is compared on.
* `UnfinishedPending` (`UnfinishedIsPending`): ids in the batch or in hand are
  pending, and acknowledging is what makes an id done.
* `AnswersTrue` (`AnswersAreTrue`): answers are about entries that can no longer be
  taken up, with the order of the entry in hand at its end.
* `PositionCountHolds` (`PositionCount`): the limit is checked on the keys of the dict, the
  property is about the rows of the table. `CountInv`: as long as no synchronisation
  failed, the keys are none (after a start) or contain the stocks held, are at most
  `MaxPositions`, and from the check to the bookkeeping leave room for the admitted
  stock.
* `BookMatchesHolds` (`BookMatchesBroker`): `BookInv`: undisturbed, holdings and table
  differ by exactly the order whose bookkeeping is under way, and a position in memory
  is forgotten or the table's; past the checks it is the table's.
* `ImplementsOrderedExecution` (`ExecutesInOrder`): under the mapping the initial
  state is initial, `Publish` is `Publish`, `PlaceOrder` is `Execute` or `GiveUp`,
  and all other steps give something up or stutter.

### `NetGuard` (`GuardAssumption`)

* `GuardInvariant`: `TypeOK`, `LockInv` (the lock is held from the read of the file
  to its write and at no other time), and `Knows`: the file, and the copy the
  holder of the lock sleeps on, are not of an earlier date than any saved call or
  the last cooldown, and on their own date know the last call, the slowest delay
  and the end of the cooldown. Since nobody else writes while the lock is held, the
  copy stays as good as the file; and since `_roll` only forgets when the date
  moved on, rolling over keeps `Knows`.
* `PacedHolds` (`Paced`) and `CooldownKept` (`CooldownSameDay`) follow from what the
  holder waits for (`Waits`): the last call and delay, and the end of the cooldown,
  that its copy knows. `NetGuardCooldown.cfg` shows why `CooldownSameDay` speaks of one
  date only. `TypesHold` (`TypeOK`) is the invariant's first part.
* `BudgetHolds` (`BudgetAndOne`): a call falls on the date it is counted on or a later one,
  and not after the date the next call is counted on. So of the calls that fall on a date
  at most one is counted on an earlier one, as those after it are counted on that date or
  later; the others are no more than the file counts, which the budget bounds.

### `CycleLock` (`CycleAssumption`)

`TypesHold` (`TypeOK`) holds without a condition. The other two hold when `Overtaking` is
FALSE, that is when the parent has written both files before its child looks, and speak
of cron's ticks only: `cycle_two_runs` shows what `--start` from a shell does. Neither
property is inductive, because a lock is a file and says nothing of a process that has
not been named in it yet. The invariant `Inv` adds:

* `ActiveNamed` and `OneChild`: a child that may run is named in both files of its role
  or awaits them from its parent, and no tick of its role is past its own look then.
  They need each other: a tick overwrites the files only when it starts a child, and
  it starts one only after it found the one named there gone.
* `OnePast`: whoever has looked is named, so that the next one to look sees it. With it
  `OneExperimentHolds` follows.
* `NothingToTake`: the pipeline's look comes after its window began, so no child
  starts its experiment afterwards, and a running one would have been named and seen.
  With it `NoneKilledHolds` follows.

### `EngineerCycle` (`EngineerAssumption`)

The invariant `IInv` gives all three properties of `engineer_cycle`:

* `TypesHold` (`TypeOK`): with `Loaded`, which says where in its steps a process has a copy
  to save, and `Named`.
* `Named`: while a run is under way, `running.pid` and `state.json` are its own, and no
  tick is past its look at them; so a tick that records a death is alone.
* `OneRowPerRunHolds` (`OneRowPerRun`): `RowsInv`. The copy of the ledger a tick
  rewrites is, but for its marks, a beginning of the ledger (`Begins`), for nobody else
  rewrites it: a row may be lost with a rewrite, and none comes back. A row of the run in
  `state.json` is of its item and later than its start, so `HasRecord` finds it if it is
  still there.
* `ClosedIsEarnedHolds` (`ClosedIsEarned`): `EarnedInv`. Not only the backlog but every copy
  of it closes only what is on record, and counts for each item as many attempts as
  rows are on record less those whose process has yet to save (`Owes`). The log only
  grows, so an outdated copy stays earned, and a save may lose another's attempt but
  never count one twice. `RETRY_MAX` attempts counted are then as many on record.

### `PanelBuild` (`PanelAssumption`, `NothingAssumption`)

`TypesHold` (`TypeOK`) holds whatever is in `Unguarded`, the others when it is empty:
the table in section 2 shows what each unguarded moment does.
`Nothing` stands for a file that is not there, hence it must be neither a panel nor rows
(`NothingAssumption`). The invariant:

* `Locks` and `ModeOf`: whoever builds holds the lock alone, and came for it when there was
  no panel; whoever came to read finds one.
* `CodeOf`: the code a process imported is the code on disk until its signature is
  taken, and the signature's from then on.
* `BuildOf`, `Checkpoint`: the rows in memory, and those of the checkpoint between two
  saves, are of one code and one span, one for each pair that is done and no gap
  (`Made`). A build that resumes takes on the rows together with the list they belong
  to.
* `PanelMade`, `SidecarTrue`, `ReadOf`: a panel has all its rows or none yet, the sidecar
  says what it was built for, and the verdict is true as far as keys were compared
  (`Answers`). `BuildsAloneHolds`, `CompleteHolds`, `UnmixedHolds` and `OkIsTrueHolds`
  follow.
* `Kept`, for `ProgressKeptHolds` (`ProgressKept`): unless a checkpoint could not be read, a
  builder of the span and the code of the checkpoint has its pairs among those it has
  done itself, so what it saves has no fewer. That needs the lock: nobody else has
  replaced the checkpoint since it was taken over.

### `ImproveLoop` (`LoopAssumption`)

* `TypesHold` (`TypeOK`).
* `MergedOnceHolds` (`MergedOnce`) holds even when commands overwrite each other's queue. It
  does not rest on the queue: `OnceInv` says that a run that got its branch is the only
  one with that id and has no commit yet, because git refuses a second branch of a name
  and nobody deletes one.
* `CommitsRecordedHolds`, `MergedIsOnMasterHolds`, `AttemptsBoundHolds`, `TasksKeptHolds`
  (`CommitsRecorded`, `MergedIsOnMaster`, `AttemptsBound`, `TasksKept`) speak of the
  time before somebody acts on an outdated copy (`~raced`), and the first two not of the
  state of a task a person set by hand, nor the third of one a person claimed; nothing
  else is assumed of the commands people give. `Sound`: a queue about to be
  saved differs from the one it was loaded from by the one change of its command
  (`Moved`), and a task in work is inflight in the file, is nobody else's and has
  a commit exactly when its result says merged. It relates the loaded copy and
  the changed one, never the copy and the file, because the file may change and change
  back in between.

### `Champion` (`ChampionAssumption`)

* `TypesHold` (`TypeOK`): with at most `KEEP_BACKUPS` backups.
* `RecordsAgreeHolds`, `BaselineSoundHolds`, `RatchetHolds` (`RecordsAgree`, `BaselineSound`,
  `Ratchet`): `PromoteInv`. While nothing marred the promotions, the monitor rests while
  the pipeline promotes (`Alone`), model files, `auc.txt` and baseline belong together
  except between their copies (`Labelled`, `Based`, `Prevs`), a promotion's source is
  what it was, and the result it will record is within `Tolerance` of `auc.txt`
  (`Faithful`); the candidate under promotion is still ahead of the baseline it was
  measured against (`Ahead`).

More is not to be had. That the baseline is at least the model's own AUC is false: a
rollback records a result that is another model's, within the tolerance but lower, and
TLC shows it with the AUCs of the run. An improvement of the live model by
`MinImprovement` at every promotion rests on that statement, because the gate compares
with the baseline, so it has no inductive argument either. With the flags in use, 0.02
for both, what remains is that the pipeline never puts in a worse model.

### `ThesisLedger` (`LedgerAssumption`)

One inductive invariant `Inv` gives all four properties of the run:

* `TypesHold` (`TypeOK`): from `Types`, `RefersToExisting` and `WorkFits`, which says
  where in its steps each command can be and what its argument then is.
* `OneActiveHolds` (`OneActive`): a locked row is active and belongs to the rewrite
  that drafts its replacement (`Locked`), so the row a rewrite adds replaces an
  active one; an approval at its INSERT is still right that its stock has no
  active thesis, unless another checked beside it (`CheckHolds`, `RacesKnown`),
  because only an insert makes such a stock active (`ActiveStep`).
* `SuccessionHolds` (`Succession`): the log of a thesis has one of three shapes, open,
  sold or replaced by the one row that names it as its origin (`Lives`).
* `ApprovedIsRegisteredHolds` (`ApprovedIsRegistered`): a package stays pending under
  the command that works on it alone (`StillPending`, `OverlapKnown`), so what
  `set_approval_status` loads is what it overwrites.

### What stays with TLC

Liveness, which is outside the prover's reach: `LockFreed`, `EveryRunRecorded`,
`EveryRowHeard`, and `Finished` of `PanelFinish.cfg`. All other properties of the passing
runs are proved, and `TasksKept`, which no run checks, besides. Three
operators choose an element (`Max`, `Next1`, `NextTask`); that there is one to choose
is proved by a least element of a well-founded order (`WFMin`), not by induction over
data.

## 5. Plan

Done: the trade path, the network guard, the locks of the research cycles, the
engineer's cycle, the panel build, the improvement loop, champion promotion and the
thesis ledger, each as a model with runs and with theorems for the invariants, the
action properties and the refinement that its runs check.

Next, in this order:

1. Abstract specifications with refinement theorems where the promise is short: the
   network guard as a sequence of paced calls, the ledger of runs as a set that only
   grows by ended or dead runs.
2. Lemmas for the liveness properties, so far as they are safety: what keeps a lock,
   a run or a row from being lost on the way to the step that fairness takes.
3. Hazards without a property: what the parent makes of a child that dies at its
   start, and the value of a position.

Not modelled, with reasons, in the components of `PROJECT.json`: numerical code
(features, labels, training, simulations, verdicts), which is most of the
repository's lines and has no control state; collectors apart from their guard;
the order lifecycle and router, which only tests use; the order monitor, whose list
nothing fills; the job runner's table in memory; the trader's cycle, one process at
fixed hours; `overnight_ml_loop.py`, which promotes as the pipeline does;
stateless services; and reports.
