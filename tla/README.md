# Verification of TradeMind AI

TLA+ models of the TradeMind AI service (`app/`), the TLC runs that check them on
small instances, and TLAPS proofs of what can be proved for every instance. Paths
below are relative to `src/`; `services/` stands for `app/services/`.

## 1. The system

TradeMind AI is a FastAPI service (`app/main.py`) for research and paper trading.
Real broker dispatch is disabled everywhere. Its endpoints are synchronous
functions: the framework runs them in the threads of one process, so every object
that `main.py` creates at import time is shared by concurrent requests. Several
processes may also share the journals on disk.

| Component | State | Operations | Hard behaviour |
| --- | --- | --- | --- |
| Audit journal, `services/observability_security.py` | a JSONL file, a lock file, a temporary file | `append` (with compaction), `recent`, `diagnostics` | many writers, unlocked readers, OSErrors at every step, torn lines, kills, stale locks |
| Paper history, `services/paper_validation_history.py` | a JSONL file, its backup, a lock file, a temporary file, two status fields | `append` (with retention by number and age), `load`, `diagnostics` | the same, and a backup that must be complete before it is needed, and a nested audit append |
| Validation metrics, `services/paper_validation_metrics.py` | counters, recent runs and issues, `history_status` | `record`, restore at start, `alerts`, `history_snapshots` | unlocked updates by request threads, failed persistence, restarts |
| Alert lifecycle, `services/paper_alerts.py` | the states of the alerts in memory and in one JSON file | `current`, `acknowledge`, `resolve`, journal `save` and `load` | check then act, concurrent saves through one temporary file, cooldowns over restarts |
| Paper account, `services/paper_trading.py`, `paper_broker_adapter.py` | cash, positions, trades | `execute`, `place_order`, `equity` | refused orders must change nothing; cash at zero |
| Trading pipeline and risk, `services/pipeline.py`, `risk.py`, `paper_signal.py`, `paper_validation.py` | none of its own | `run`, `size_position`, `validate_paper_result` | two sets of checks, in the pipeline and in the broker, that must agree |
| Asset registry, `services/assets.py` | the assets | `get`, `register` | none: filled at start |
| Portfolio, `services/portfolio.py` | cash, weighted positions, journal | `buy`, `sell`, `equity`, `unrealized_pnl`, `summary` | averages over partial sales, marks of some positions only, a limit per position |
| Backtest, `services/backtest.py` | capital, position, trades | one pass over the candles | sizing against fees and slippage, two accounts of one profit |
| HTTP service, `app/main.py` | the shared objects | endpoints | all of the above at once |
| Live risk gate, `services/live_risk_guard.py`, `controlled_live_gateway.py`, `audit_log.py` | gate switches, accepted order keys, events | `preflight_order`, `readiness`, `mark_order_accepted` | a gate read piece by piece, without a lock, while it is assigned; check apart from use |
| Shadow execution, `services/shadow_execution.py` | recorded intents | `record` | the mode may change behind the check |
| Broker gateway and adapters, `services/broker_*.py`, `*_readonly.py`, `read_only_broker.py` | registered adapters | loading credentials, building adapters, read-only calls, smoke tests | remote I/O, partial credentials |
| Decision engine, `services/decision.py` | none | `evaluate` | thresholds that add up to one score |
| Indicators, `services/indicators.py` | none | `add_indicators` | none: arithmetic |
| Market data, `services/market_data.py`, `providers.py`, `app/data/csv_provider.py` | none | load, normalise | I/O |
| Access guard, `services/observability_access.py` | its configuration | `from_environment`, `authorize` | none: stateless; must fail closed |
| Dashboards, `dashboard/` | none | rendering | none |
| Scripts at the root | none | earlier versions; nothing in `app/` imports them | none |

How they interact:

- `POST /v1/paper/run` builds a fresh account, runs the pipeline on it, validates
  the result and calls `record()` of the shared metrics. `record()` updates the
  counters in memory and appends one snapshot to the paper history.
- The paper history appends an audit event for every append, compaction and
  recovery, the one for compaction while it still holds its own lock. A failing
  audit is remembered in `audit_status` and never fails the history.
- The metrics restore themselves at start from what the history retained, and
  raise alerts from their counters. The alert manager hides the alerts that are
  resolved, for a number of runs counted by the metrics' `total_runs`.
- The alert endpoints check that a code is active, change the manager's state,
  save all of it, and append an audit event.
- One live guard object answers `/v1/readiness`, decides on shadow orders and on the
  preflight of live orders; nothing in `app/` assigns its attributes or submits what
  was approved, so whoever operates the service does.
- The access guard stands in front of `/v1/observability/` and the paper metrics and
  history; it is built once from the environment.

What makes each component correct:

- **Audit journal.** It behaves like a bounded log: events in one order, the
  oldest dropped only above the limit, readers never short of what retention
  keeps, an acknowledged event readable until retired, the lock exclusive and
  released.
- **Paper history.** No snapshot that can be loaded is lost except by retention,
  through any failure or kill; a torn write or a damaged line costs one snapshot and no
  more, and shows until a compaction covers it; the backup is complete whenever the
  history is about to be replaced; each loading thread reports one recovery at most.
- **Both stores.** However their locks nest, every call ends within a bounded number
  of timeouts, and every lock whose owner lives is released.
- **Metrics.** A restart shows the counters and recent runs there were; the
  recent runs stay bounded; the history has as many runs as were counted, but for those
  an append that failed accounts for.
- **Alerts.** A change answered with 200 outlives a restart; a resolved alert is
  hidden for exactly the cooldown.
- **Account and pipeline.** Never overdrawn or short, whole lots, the replay of its
  trades; what the pipeline sized is never refused; one trade per reported fill.
- **Decision engine.** Whatever MACD, RSI and volume say, no trade against the trend
  the evidence names.
- **Portfolio.** At any marks, of all positions or some, equity is the starting cash,
  the realized and the unrealized profit; no position costs more than its limit.
- **Backtest.** Reported profits explain the capital; cash is not overdrawn.
- **Live gate.** A condition that fails from the arrival of a request on stops it;
  every attempt leaves one decision in the trail.
- **Access guard and adapters.** Whatever is missing, blank or misspelled, the guard
  serves nobody it cannot identify, and a broker without complete credentials never
  counts as connected.

## 2. Modules

| Module | Models | State and actions, and the code they stand for |
| --- | --- | --- |
| `JournalFile` | the content of a JSONL file as its readers see it | parsed records, malformed lines, and how the last line ends; used by both journals |
| `BoundedLog` | what a journal promises | add, trim, acknowledge; no locks, files or faults |
| `AuditJournal` | `ObservabilityAuditJournal` | one action per file operation of `append()` and `_compact_if_needed()`; `Wait` is the lock loop, `Release` the finally clause |
| `PaperHistory` | `PaperValidationHistory` | as above, with the backup copy, retention by age (`horizon`) and the audits, which change nothing here; `WriteTorn` is a write that stops inside its line, `Corrupt` damages lines, one or several; `LoadPrimary`, `LoadBackup` and `AuditRecovery` are `load()` in the threads that share one history object; `Status` is what `diagnostics()` says |
| `Stores` | the history, its readers and the audit journal | `PaperHistory` and `AuditJournal` as instances over one process; `StartAudit` and `EndAudit` are `_audit()`, `LoadStep` and `EndRecoveryAudit` are `load()`, `Tick` is the clock the deadlines of both locks are read from |
| `ValidationMetrics` | `PaperValidationMetrics` | `record()` cut at each call it makes, where a thread may lose the interpreter; the history seen from outside |
| `PaperAlerts` | `PaperAlertManager`, `PaperAlertJournal`, the two endpoints and the alerts of the metrics | a request as check, change, dump, open, write, replace, look, unlink, answer; files are inodes that paths name; `Raised` is `alerts()` |
| `DecisionEngine` | `DecisionEngine.evaluate()` | operators from the indicators of a candle to a decision |
| `PaperPipeline` | `PaperBroker`, `PaperBrokerAdapter`, `TradingPipeline`, `RiskEngine`, `validate_paper_result` | `PlaceOrder` is the adapter; `RunUndecided` and `Run` are `run()`, whose branches are `RunHold`, `RunWithoutCash` and `RunSized`; uses `DecisionEngine` |
| `Backtest` | `run_ema_backtest()` | `Row` is one candle, `Finish` the code behind the loop |
| `Portfolio` | `Portfolio`, `PortfolioPosition` | `Buy` and `Sell` with exact fractions; `Summary` and what it is made of as operators on the state and the marks |
| `LiveGate` | `LiveRiskGuard`, `ControlledLiveGateway`, `AuditLog`, `ShadowExecutionRecorder`, readiness and the shadow endpoint | a request as `Attempt`, one `Ask` for each attribute it reads, `Refuse` or `Grant`; `Operate` and `MarkAccepted` are external |
| `AccessGuard` | `ObservabilityAccessGuard` and the middleware | operators from an environment and headers to a status |
| `BrokerAdapters` | credentials, `build_read_only_adapter()` and its transports, `run_broker_smoke_test()` | operators from an environment to the checks of a smoke test |
| `*_proofs` | | theorems about the module of that name; `AuditJournal_proofs` is also about `BoundedLog`, `PaperPipeline_proofs` about `DecisionEngine`; `Accounts_proofs` is about `Backtest` and `Portfolio`, `Service_proofs` about `LiveGate`, `ValidationMetrics`, `AccessGuard` and `BrokerAdapters` |
| `MC*` | | the instances TLC checks |

A definition with "Mutant:" in its comment is a plausible bug in the
operator that follows it. It is in no specification; it shows that a property
would notice that bug.

The definitions of `Portfolio` and `ValidationMetrics` that every specification has (`Init`, `Next`,
`Spec`, `TypeOK`, `vars`) carry a prefix, as in `PortfolioSpec` and `MetricsSpec`, since their proof
modules extend two specifications at once.

Abstractions common to the modules:

- A record is its number: event or snapshot *n* is the one of the *n*-th call.
  What the records contain, redaction included, is left out.
- Failing is an action of its own: `Fail` is an `OSError` at any file operation,
  and leads where the except and finally clauses lead. An `unlink` or `close`
  that fails inside a finally clause is not modelled.
- `Crash` and `Restart` run no finally clause. `ClearStaleLock` is an operator who
  removes the lock of a killed process: the program never does.
- In the modules of one store the lock's deadline is a choice: `TimeOut` is possible
  whenever the lock file exists, which covers every length of the timeout. `Stores`
  has a clock instead, since it asks how the two timeouts add up. File operations
  take no time compared with five seconds, so that the clock moves on only when every
  process inside a call waits for a lock file that exists.
- History variables (`written`, `acked`, `spoiled`, `dropped`, `harmed`, `answered`,
  `resolvedAt`, `complete`, `base`, `failures`, `overlapped`, `unsure`, `caughtUp`, `waited`,
  `orphaned`, `closed`) record what properties talk about. No action reads them to decide what
  the code does; `harmed` also bounds how often the environment does harm.
- A call that ends forgets its variables (`Leave` in `PaperHistory`, `NoRequest` in
  `PaperAlerts`): nothing reads them afterwards.
- Money is integer (`PaperPipeline`: the smallest unit; `Backtest`: parts of
  `Scale * Scale`; `Portfolio`: exact fractions), where the code has floats. The
  rounding errors of floats are outside the models.

Where the models draw the line inside a component:

- `ValidationMetrics` leaves out the list of recent issues, which is cut by the
  same code as the recent runs, and the wording of alerts.
- `ValidationMetrics` and `PaperAlerts` see the history as a file with a torn end: an append
  stores its line, fails before, behind or inside it, or fails behind compaction, and one
  behind a torn line is glued to it. Damaged lines and the backup are left out there, since
  a history that is neither damaged nor thinned by age has a line as soon as it has a backup.
- `PaperAlerts` counts a run in one step (`ValidationMetrics` has its steps) and reads
  `alerts()` and `total_runs` in one step. `updated_run` is never read and left out.
- `PaperHistory` reads the diagnostics at one instant. Its readers share one history object of
  one process, and damage strikes lines that have their newline, while nobody writes.
- `LiveGate` gives every question one attribute to read. The limits are constants, as
  in the code, whose dataclass for them is frozen.
- `AccessGuard` and `BrokerAdapters` have no state and no run: they are proved.
- `DecisionEngine` leaves out the target, the confidence, `risk_reward` and the wording of
  the evidence, and counts scores in halves and the distance of the averages in
  hundredths of a percent.
- `PaperPipeline` takes the indicators as an input. Orders that are refused before any
  state is read are not inputs.
- `Backtest` takes what the indicators say of a candle as an input, and leaves out
  the statistics of the equity curve.
- A write that stops inside a line ("torn") is a fault of both journals. What it leaves of the line
  is cut, or is all of it but the newline (`tail` of `JournalFile`); the next line is
  glued to either, and what comes of that parses as nothing.

## 3. Runs

| Run | Instance | Shows |
| --- | --- | --- |
| `AuditJournal_safety` | 3 writers, limit 2, 5 appends; OSErrors, kills, cleared locks | mutual exclusion, current compaction, restored retention, readers see the newest, acknowledged events are readable, and the refinement of `BoundedLog` |
| `PaperHistory_safety` | 2 writers, 2 readers, limit 2, 4 appends; OSErrors, kills, cleared locks, ageing, and twice a torn write or a damaged line | types, mutual exclusion, the backup before the replacement, the backup behind it, nothing served is lost except by retention, one acknowledged snapshot lost at most for each harm, damage shows until compaction covers it, one recovery reported for each reader at most, restored retention |
| `Stores_faults` | 2 writers, 1 reader, both limits 1, 3 appends, a timeout of one tick; one fault: an OSError in either store, a torn line, a kill or damage | an append waits three timeouts at most, every call ends, locks are released unless their owner was killed |
| `PaperAlerts_sequential` | 1 request at a time, cooldown 2, 2 runs, a history of 1; OSErrors, torn lines, restarts that read the history or cannot | answered changes are durable, the cooldown is exact |
| `PaperAlerts_lost_update` | 2 requests at a time, no faults | **violation**, see section 6 |
| `ValidationMetrics_runs` | 2 threads, 4 runs, 1 recent run, history of 2; OSErrors, torn lines, restarts | restarts are invisible, the recent runs are bounded, no run is stored twice or lost in silence |
| `PaperPipeline_account` | 2 assets with lots of 1 and 2, 3 prices, 4 quantities, readings on both sides of every threshold, 4 trades | the account is covered and the replay of its trades, sized orders are filled, the pipeline trades with the trend, one trade per fill |
| `PaperPipeline_validation` | the same | **violation**, see section 6 |
| `Backtest_accounts` | 6 candles, 4 prices, rates in twentieths | profits explain the capital, the shortage is one fee at most |
| `Backtest_overdrawn` | the same | **violation**, see section 6 |
| `Portfolio_books` | 2 symbols, 3 prices, 3 quantities, 5 trades | every summary balances at the marks of any of the symbols, positions stay within the limit |
| `LiveGate_requests` | 2 threads, 2 requests out of preflights on, above and outside the limits, readiness and shadow orders; every assignment of the guard in between | nothing passes a condition that failed all along, every attempt gets one decision |

Why the bounds are enough:

- *Writers.* All they share is the lock and three paths. Two writers show every
  conflict between a writer inside and one outside the lock; the third one of
  `AuditJournal_safety` can take a lock that was cleared while a second still waits.
- *Appends and limits.* `MaxAppends` exceeds `MaxRecords` by two or three, so that
  a compaction can fail, be left to the next append, find two records too many,
  and happen again afterwards.
- *Harm.* Two torn writes or damaged lines, of a history of two or three: one line of several is
  damaged or all of them; a tail is torn again behind a torn one; and what a compaction took out
  meets a line that is damaged afterwards. Two readers that share one object can each find a
  recovery to report. Damage that empties the history can recur after a report.
- *Stores.* Three appends with limits of one: each compacts, so that an append comes to
  three locks, and a process killed behind one of them leaves a lock for both others. One
  fault is enough for every stale lock; what damage and torn writes do to the history is
  checked in `PaperHistory_safety`. Seven audit calls are what three appends and a recovery need.
- *Metrics.* Four runs against a history of two: it is full, torn and compacted again, and a
  restart counts fewer runs than there were.
- *Alerts.* The cooldown of two fits between an unreadable start, which raises the
  history alert at run 0, and run 2. A history of one makes restarts lose runs.
  There are as many inodes as paths and open files use at once, so that one is always free.
- *Pipeline.* 120 units of cash, prices 5, 30 and 31: an order of 24 at 5 and one of
  4 at 30 cost exactly the cash, 4 at 31 just too much; a stop one away from the
  entry lets the risk budget exceed the cash, and the sized quantity is odd for
  the asset with lots of two.
- *Backtest.* Six candles allow two complete trades and one closed at the end. The
  prices range from one unit to more than half of the capital.
- *Portfolio.* Five trades allow a position to be averaged twice, partly sold,
  raised again and closed; the limit of 24 lies between the sums that occur; each
  subset of the symbols is marked at each price.
- *Live gate.* Two threads, so that two preflights overlap; all the rest that happens to
  a request comes from `Operate` and `MarkAccepted`, which are not bounded. The orders lie on the
  notional limit and above it, the profits on the loss limit and above it.

Deadlock is not checked where an instance stops when its bounded number of calls,
runs or trades has been made; in `PaperAlerts_sequential`, `ValidationMetrics_runs` and
`LiveGate_requests` a restart or an operator can always act, and it is checked.

## 4. Fairness

Liveness is checked under weak fairness of the steps of a thread that is inside a
call: the operating system schedules a runnable thread again, and file operations
return. In `Stores` (`WF_vars(Run(p))`) giving up at a lock waits for the deadline, so that
the clock has to move on too (`WF_vars(Tick)`), as it does; a thread that finds the lock
taken at each attempt times out, which is why no strong fairness is needed.
`AuditJournal` and `PaperHistory` state the fairness of their own steps, and `Stores`, where the two
locks nest, is where calls are shown to end (`EveryCallEnds`, `LocksAreReleased`). In `PaperAlerts` and
`ValidationMetrics` no thread waits for another, so that a call ends because its steps do; they state no
fairness. Nobody has to call, load, fail, be killed, remove a stale lock or age a snapshot.

## 5. Proofs

`tlapm` proves these for every value of the constants that satisfies the named
assumption of the module. The assumptions give the constants their types, repeat
what the constructors of the code refuse, and say that what the code has finitely many of is
finite (the threads of `PaperAlerts` and `ValidationMetrics`, the inodes, the symbols of `Portfolio`).
`PaperAlerts` has more inodes than threads, so that one is always free. Every invariant and
every action property the passing runs check is stated by a theorem; their liveness is not.

| Module | Theorems |
| --- | --- |
| `AuditJournal_proofs` | `TypeCorrect`, `WritersExclude`, `CompactionIsCurrent`, `RetentionIsRestored`, `JournalImplementsLog`, `ReadersAreServed`, `AcknowledgedIsKept`, and `LogKeepsItsPromises` of `BoundedLog` |
| `PaperHistory_proofs` | `TypeCorrect`, `WritersExclude`, `BackupIsComplete`, `RetentionIsRestored`, `BackupIsCurrent`, `AckedStaysServed`, `DamageShows`, `NoStepLoses`, `RecoveriesAreBounded` |
| `Stores_proofs` | `HistoriesAreHistorySteps`, `HistoryKeepsPromises`, `WaitsEnd`, `AuditsAreJournalSteps`, `StoresExclude`, `AuditsKeepRetention` |
| `PaperAlerts_proofs` | `TypeCorrect`, `AnsweredStaysSaved`, `ResolutionHides`, `ResolutionEnds` |
| `Service_proofs` | `GateTypeCorrect`, `GateIsNotPassed`, `EveryCallIsDecided` of `LiveGate`; `MetricsTypeCorrect`, `RecentStaysBounded`, `RestartShowsNothing`, `RunsStayAccounted` of `ValidationMetrics`; `AccessFailsClosed`; `SmokeNeedsCredentials` |
| `PaperPipeline_proofs` | `AccountStaysCovered`, `SizedOrdersAreFilled`, `PipelineTradesWithTrend`, `FillsAreRecordedOnce`, `TradesExplainAccount`, and `DecisionFollowsTrend` of `DecisionEngine` |
| `Accounts_proofs` | `ResultExplainsCapital`, `ShortageIsOneFee` of `Backtest`; `PortfolioTypeCorrect`, `LimitHolds`, `SummariesBalance` of `Portfolio` |
| `JournalFile_proofs` | lemmas on `Newest`, `Select` and the shape of files |

Six theorems have a hypothesis beyond these: what readers of the audit journal see excludes torn lines, and
what `PaperAlerts` promises is about one request at a time. Both are explained below;
sections 6 and 7 say what happens otherwise. The theorems about the history exclude no fault.

*Audit journal.* Mutual exclusion alone is not inductive, since nothing in it says
whose the lock file is. `IInv` adds that a writer behind the lock owns it
(`LockHeld`); the clearing of stale locks keeps this because it looks at the owner's
`pc`. Then only one writer changes the file at a time, and what a compaction has
read stays true up to the replacement: `RetainedIsCurrent` (what was retained
is what retention keeps of the file now), `TempIsReady` (the temporary file holds
it when it is renamed) and `Bounded` (behind a compaction that did not fail the
limit holds). `EventReady` supplies the types. All faults are included.

What readers see is proved through refinement, not on the journal: `StepSimulation`
shows that under `IInv` a step of the journal is a step of `BoundedLog` or leaves
its variables alone. `WriteLine` adds, `Replace` trims, `Release` acknowledges, and all
else stutters. The extra invariant `Written` says that an event that is to be
acknowledged has been written. `BoundedLog` keeps its own two promises
by `LogInv`, and `ReadersAreServed` and `AcknowledgedIsKept` carry them over. These
three theorems assume `"torn" \notin Fault`: a torn line loses the event
behind it (section 7).

*Paper history.* Four invariants, each inductive with those before it, for all faults. `LockInv` is
`LockHeld`, the type of `pc` and `BackupPrecedesReplace`: the owner of the lock is the only one that
writes the history or the backup between the copy and the replacement, so that what `FillBackup`
copied stays equal to the history. `CallInv` gives each call a record of its own. `StoreInv` says
what the files hold at each line of `append()`. It speaks of the lines that have their newline
(`Glued(file)`), which a torn write leaves alone: they are a part of what was written, in
that order (`FileInOrder`); of what was written only that is missing which retention may take or which
was spoiled (`WrittenIsKept`); what the compacting writer decided to keep is all that retention does not
take (`RetainedIsEnough`), and so is the temporary file (`TempIsReady`). `YoungIsEnough` and
`BackupKeepsUp` say how long the history is while no line is malformed and no snapshot too old, and that all of it is in
the backup once it was compacted; `BackupIsCurrent` follows. `HarmInv` counts the cost of harm: a line that does not
parse is one of the torn writes and damaged lines, and a torn end will cost one more
(`SpoiledIsCounted`); it shows as a malformed line until a compaction (`SpoiledShows`); what was
acknowledged was written, though perhaps behind a torn line (`AckedIsWritten`). So what is acknowledged and
neither served nor retired is spoiled, of which there are no more than harms (`AckedStaysServed`), and while the history
has no malformed line it was dropped by a compaction (`DamageShows`). `NoStepLoses` follows
because `Retired` never ends. For `RecoveriesAreBounded`, `RecoveryInv` counts the recoveries
together with the readers that are about to report one.

What retention by age keeps is written as `Select` (the entries at the ranks of the places that
qualify) instead of the `SelectSeq` of the library, of which the provers know nothing;
`JournalFile_proofs` shows by induction on the rank that it keeps the order and all that qualifies.

*Both stores.* `HistoryMoves` says that every step of `Stores` is a step of `PaperHistory` or leaves its variables
alone, so that its specification, fairness left out, holds inside `Stores` (`HistoriesAreHistorySteps`), and the
inductive invariant of `PaperHistory_proofs` (instance `HP`) carries over: `HistoryKeepsPromises` takes what
is acknowledged, harmed and reported from there. In the same way `AuditMoves` and `AuditsAreJournalSteps` take the
invariant of `AuditJournal_proofs` (instance `JP`) into `Stores`, and the two give that both
locks exclude (`StoresExclude`) and that audits keep the journal's limit (`AuditsKeepRetention`). `LinkInv` ties
a process's stand in its call to its stand in the audit: it is inside the journal only from a line that
audits. For `WaitsEnd`, `WaitInv` says that what a call has waited and what the deadline
of the lock it stands at still allows is within its `Budget`: one timeout up to the history lock, two
behind it, three once it audits the append. The clock cannot pass a deadline, which is why the sum
is inductive and `WaitsAreBounded` alone is not.

*Alerts.* `TypeCorrect` is for any number of threads. The three others assume `OneThread`, that one
request is handled at a time: with two, the first is what `PaperAlerts_lost_update` refutes, and a resolved
alert may show in its cooldown (section 7). `FileInv` says that the temporary file is never the journal
and that what is about to replace the journal is what the manager has in memory. `RequestInv` follows the
entry a request has changed up to the journal, and `AnswerInv` says that memory, journal and answers
agree of every other alert, except one whose change failed. `CooldownInv` and `EndInv` relate the run an entry
is numbered with to the run it was answered at, in memory and in the journal alike, since a restart
goes from one to the other: late enough to hide the alert, and no later.

*Validation metrics.* `Numbers` counts threads: a run still to be counted, and one still to be stored, is
one that was started, so that neither the counters nor the history outgrow the runs. `RecentIsBounded`
is inductive by the same count of the threads between append and cut (`AtMoves`: how a count of
threads changes with the one that moves). `RestartIsInvisible` speaks of moments when nobody is inside
`record()`, and is not inductive; `Replayed` says at each stage of the one thread in flight which of
the counters, the recent runs and the snapshot are ahead of the history (`Solo`: without overlap there is
at most one). `RunsStayAccounted` is inductive as `Accounts`, which counts as a reader of the next line
would (`Weight`): a torn end is already taken off, since the append behind it will return and pay for
it without another failure. `RestoredAppend` and `CutAppend` say that a restart on one snapshot more restores one run
more, and that cutting after every run leaves what one cut of all of them leaves.

*Live gate.* `GateInv` follows `closed`, the conditions that have failed ever since the request
arrived: they fail now, and none of them is among the questions the thread has had
answered with yes. `RouteAsksAll` says that the route asks for all that a request needs,
so that nothing is left of `closed` at its end. `StillHandling` is for the steps that assign the
guard, `LeftAlone` for the steps of other threads. The number of threads, the requests and
the limits are arbitrary. `EveryCallIsDecided` rests on `CallInv`: a call is handled by one
thread, which has recorded its attempt. `Verdict` then follows the events of each call: one while it is
handled, that one and a decision behind it afterwards.

*Access guard and adapters.* `AccessFailsClosed` and `SmokeNeedsCredentials` follow from the
definitions, for every environment, any texts and any headers, and are the only check of
these modules, which have no states to explore.

*Pipeline.* `IInv` is the type invariant with `AccountIsCovered` and
`SizedOrderIsFilled`. The work is in the arithmetic: `SizeFitsCapital` (the sized quantity
costs no more than the cash, by integer division), `RoundingToLots` (rounding down gives whole
lots and no more), `LotsAddUp` (holdings stay whole lots). From them `SizedIsAccepted`
shows that the broker has nothing left to refuse. The risk rate is
any up to five percent, the lot sizes any. `PipelineTradesWithTrend` rests on
`DecisionFollowsTrend`: `ScoreParts` bounds what each indicator adds to the score,
`VolumeConfirms` says that volume never turns it, and `TrendBoundsScore` adds them up.
`TradesExplainAccount` is about running totals over the trades: one trade more changes a total
only at its end (by induction on the place), and there by the amount the fill moved.

*Backtest.* `IInv` is the type invariant with `ProfitsExplainCapital` and
`ShortByFeeAtMost`; `SizeFitsCapital` bounds the cost of an entry by the capital, and
`EnterKeeps` and `ExitKeeps` are shared by the candles and the end.

*Portfolio.* The limit follows step by step. The summary needs `Balanced`: the cash and what was paid for the
open positions are the starting cash and the realized profit. It is an equation between sums
of fractions with different denominators, so `Parts(a, m, k)` says that fraction `a` is `k` parts
of `m`: the fractions of an equation have a common `m` (`CommonParts`), and in parts of it the
equation is one of integers. `SumUpdate` says what a sum over the symbols becomes when one of them
changes; a mark then adds the same to equity and to the unrealized profit, symbol by symbol.

*Induction.* The induction theorems of the library take an operator as a parameter, which no
installed prover instantiates. What needs induction here (ranks, running totals, sums) uses
`SmallestIn` instead, which speaks of sets: a non-empty set of naturals has a smallest element. `UpTo`
follows: a set with 0 that is closed under successors up to a bound has all naturals up to it.

## 6. Where the code and its documentation differ

- `PaperAlerts_lost_update`: two requests save concurrently through one temporary file
  (`services/paper_alerts.py:40`). One acknowledges, the other resolves the same alert. Both open
  the temporary file; the second writes its longer text, the first its shorter one over it, which leaves
  a text that does not parse, and the first makes that file the journal. The `os.replace()` of the second raises
  `FileNotFoundError` (500); the first was answered with 200. At rest the journal parses as
  nothing and the next manager starts with no states at all, against
  `tests/test_paper_alerts.py:17`, which expects an acknowledgement to persist.
- `PaperPipeline_validation`: `run()` hands on the trade of `PaperBroker.execute()`
  (`services/pipeline.py:65`), which has no `status`; only the adapter adds one. Every
  run that fills an order is therefore reported invalid ("unknown execution status:
  None"), although `services/paper_validation.py:45` names "filled" as a valid status.
- `Backtest_overdrawn`: sizing leaves out the entry fee (`services/backtest.py:56`), so that an
  all-in entry leaves negative cash, against `tests/test_backtest_metrics.py:46`,
  `test_backtest_never_uses_more_cash_than_available`. `ShortByFeeAtMost` says by how much.

## 7. Limits of the code met while modelling

No run refutes these. Most explain a guard of a property; no document promises the
opposite, except where one is named.

- *Torn lines* (`services/observability_security.py:127`). A line without its newline
  glues the next event to it. That event is acknowledged and never readable.
- *Torn snapshots* (`services/paper_validation_history.py:123`). The history has the same limit: behind a torn write,
  the next `append()` returns normally and its snapshot cannot be loaded; and a snapshot whose
  newline was not written is served until then and not afterwards. `AckedStaysServed` says that
  it is one snapshot for each torn write.
- *Damage under compaction* (`services/paper_validation_history.py:144`). A damaged line is skipped, and the
  next compaction writes the history without it. With a limit of three, the history 1, 2, 3, line 3
  damaged and 4 and 5 appended, it is 2, 4, 5, and the diagnostics say "ok" although retention would have
  kept 3: `DamageIsReported` ends at that compaction. The `.bak` file keeps the damaged line until the compaction after it.
- *Stale locks* (`services/paper_validation_history.py:99`). The lock file of a killed
  process is never removed: later appends time out until somebody deletes it.
- *Stale audit locks* (`services/paper_validation_history.py:205`). Behind the lock file of a process killed
  inside an audit, a writer that compacts holds the history lock for the audit's whole
  timeout: its append takes up to three timeouts, and another writer that came for the
  history lock before may run out of its own and raise `TimeoutError`. `README.md:81` says that
  audit failures never block the persistence of the history; what is swallowed is
  the error, not the wait.
- *Torn lines under compaction* (`services/observability_security.py:159`). Compaction drops malformed
  lines. An acknowledged event lost behind a torn line then shows nowhere: the audit
  diagnostics say "ok".
- *Gate read piece by piece* (`services/live_risk_guard.py:40`). The conditions need not have held at
  any one moment. Two preflights with the same key may both be approved, as
  `tests/test_controlled_live_gateway.py:87` expects: only `mark_order_accepted()` makes a key known.
- *Repeated run numbers* (`services/paper_validation_metrics.py:48`). Runs are numbered by a count
  that a restart takes from the bounded history, and numbers come again.
- *Recovered snapshots* (`services/paper_validation_history.py:152`). The backup is served only
  while the history has no snapshot; the first append after a recovery hides what was
  recovered.
- *Two loading threads* (`services/paper_validation_history.py:155`) may both find
  `_recovery_reported` unset and report one recovery twice; each of them does so once at most.
  And since it is set whether or not the audit succeeded, a recovery may not be in the journal at all.
- *Acknowledge and resolve* (`app/main.py:190`). An acknowledgement that was checked before a
  resolution of the same alert overwrites it, and the alert shows in its cooldown.
- *Recounted runs* (`services/paper_alerts.py:86`). `resolved_run` is persisted, `total_runs` is
  recounted from the bounded history, which misses the runs it could not append: after
  a restart it may be smaller, and the cooldown lasts longer.
- *Unread history at start* (`services/paper_validation_metrics.py:29`). A start that cannot read the
  history counts from zero. When the next one can, `total_runs` jumps by the retained runs,
  and an alert resolved in between shows within its cooldown.
- *Equal averages* (`services/decision.py:46`). With EMA20 equal to EMA50 the evidence reads
  "EMA20 is below EMA50", and the score counts a falling trend.
- *Overlapping `record()` calls* (`services/paper_validation_metrics.py:81`). `recent_runs[-1]`
  may be the run of another thread: one run is persisted twice, the other not at all. As many runs are persisted as
  were counted (`RunsAreAccounted`), but not always those.
- *Read errors of the metrics* (`services/paper_validation_metrics.py:125`). One failed read shows the runs in memory,
  and not the history, until an append succeeds.

## 8. What is only model-checked, and what is not modelled

Only model-checked: all liveness (`EveryCallEnds`, `LocksAreReleased`;
fairness and `ENABLED` are outside the prover), and the three violations of section 6, which are counterexamples.
`WaitsEnd` bounds how long a call can take, not that it returns.

Not modelled:

- Redaction, dashboards, rendering endpoints: pure functions on text the models abstract.
  (`dashboard/app.py` does not parse: line 62 has the two characters `\n` in the middle of a call.)
- Indicators and market data: arithmetic on data frames, parsing, I/O.
- The clients of remote brokers: requests and the mapping of responses. What their adapters
  allow is in `BrokerAdapters`.
- The broker gateway's registry, which is filled at start, and its check for live mode, which
  the service never enters. Its paper adapter is in `PaperPipeline`.
- The statistics of the backtest's equity curve, the list of recent issues of the metrics.
- The scripts at the root, which nothing in `app/` uses. `main.py` does not parse, and several hold
  earlier versions of something else than their name says: `calendar.py` a decision engine,
  `decision.py` a backtest, `risk.py` an HTTP route, `indicators.py` a second backtest that imports
  a module that does not exist.

## 9. Plan

The order follows what can hurt most: durable state under concurrency first, then money,
then gates and pure functions. All modules of section 2 are done, and the proofs of
section 5. What would add most next:

1. Proofs: the types of `Stores`; that its journal implements `BoundedLog` when no line is torn, which
   needs the torn line of `Stores` as a choice of the environment, as in `AuditJournal`.
2. `AckedIsReadable` of `AuditJournal` with torn lines, counted like `AckedIsServed` of `PaperHistory`.
3. `RestartIsInvisible` for a history that outgrew its limit: which runs a restart forgets.
4. `ValidationMetrics`, `PaperAlerts` and `Stores` as one process with one restart, so that a failing
   append and the alert it raises meet in one state.
5. A run that refutes `README.md:81` on the clock of `Stores`: a writer times out at the history lock
   because of somebody's audit.
