# Alpha Trade: a verification project for the execution engine

TLA+ models, model-checking runs and machine-checked proofs for the part of
`alpha_trade` that sends orders to a broker and keeps money on the line between
two calls (`src/execution_engine/`, with the protections of
`src/service/llm_directional/`), and for the claims, locks and unlocks that
decide which process may do so (`src/service/options_directional/`,
`src/ihm/services/`). The rest of the repository (model training, screeners,
backtests, dashboards) is batch computation; it is listed below and left out,
with the reason.

Commands, run from this directory:

    tlc -workers 2 -config <run>.cfg <MC module>     # one run
    tlapm <component>Proofs.tla                      # one proof module

## 1. The system

A daily pipeline ranks symbols, sizes targets and hands them to the
**executor**, which submits entries and their children to Alpaca and ends. A
long-lived **protection watcher** then polls the broker: it turns fills into
ledger rows, arms what is unprotected, exits what is due. Since the "gagnant"
plan, new positions are **winner campaigns**, durable state machines that the
watcher ticks one after the other. Everything meets in one database (locks,
heartbeat, requests, broker orders, fills, lots, campaigns) and at one broker
account.

| component | code | state it keeps | operations | hard behaviour |
|---|---|---|---|---|
| Winner campaign runtime | `winner_runtime.py`, `winner_broker.py` | one JSON document per campaign: lots, operations, booked quantities, status | `tick`: reconcile, rearm, protect, observe, deadline, tighten, buy | a request's answer is lost, a process dies between save and POST, fills arrive while protections are canceled |
| Winner plans | `winner_plans.py` | frozen plan per symbol | `next_plan_action`, `reserve_operation` | a second save makes the exact order durable |
| Winner campaign store | `winner_campaign_store.py` | versioned rows | compare-and-swap `save` | frozen fields, terminal states, held lots |
| Watcher leader lease | `db_io.py`, `protection_watcher.py`, `watcher_lease.py` | one lock row, one heartbeat row per account | acquire, refresh, release, heartbeat, reclaim | expiry against a long cycle, a stale heartbeat, a process that dies or starts between look and delete |
| Protection watcher, legacy positions | `protection_watcher.py` | requests and broker orders of positions without a campaign | arm, trail, time stop, orphan adoption | a held leg looks missing; a late fill after a cancel |
| Directional (LLM) protections | `llm_directional/protections.py`, branches of `protection_watcher.py` and `children_submission.py` | requests and broker orders of one stop, one trailing stop and the exits per position | first stop, promotion, repair, exit at a fixed session | a request whose outcome is unknown, a stop that fills while it is canceled, a price that falls in between |
| Executor | `executor.py`, `children_submission.py` | idempotency keys of a run, lock, kill switch | filter, submit, retry, persist | crash and resume, retries, a lock that is not renewed |
| Execution repository | `db_io.py` | orders, fills, snapshots, positions, lots (FIFO) | upsert, insert fill, rebuild lots | two writers of the same fill |
| Broker sync, orphan adoption | `broker_state_sync.py`, `orphan_adoption.py` | none of its own: it reads the broker and writes the tables | list, resolve, upsert, book what is missing, adopt, photograph positions | stale observations, two syncs at once, an insert that fails after its request |
| Reconciliation report | `reconciliation.py` | none | compare targets, books and broker | none: it changes nothing |
| Order state machine | `state_machine.py`, `models.py` | status of an order, phase of a run | transition tables | a status the table forbids |
| Protection state bridge, OCO manager | `protection_state_bridge.py`, `oco_manager.py` | protection document | read-modify-write | lost update |
| Options attempts and unlock | `options_directional/` (`pipeline`, `risk_attempts`, `execution_attempts`, `accounts`), `pipeline_unlock.py` | claim, summary, binding, result, receipts and markers of one selection and account | risk step, execution step, failure receipt, retry, inspect and confirm an unlock | a wrapper dies and its child goes on; a receipt must prove that nothing was bought; an archive that stops halfway |
| Locks of pipeline and backtest runs | `pipeline_lock.py`, `backtesting_registry.py`, `process_registry.py` | one lock file per scope, a table per console | acquire, rebind to the child, release, list and purge, launch, poll, stop | pid reuse, a console that dies, a file that cannot be removed |
| Operator tools | `watcher_startup.py`, the rest of `process_registry.py` | registry of processes, logs, history | reuse, start, schedule, retain | check then act |
| Corporate actions, risk, backtests, models, screeners, pages | other directories | files, tables, numbers | batch jobs | numeric, not protocol |

How they interact: executor and watcher exclude each other by rows of
`execution_locks`; the watcher's winner ticks run under the account lock; every
order is found again at the broker by a *client identifier* derived from the
campaign and the action, never by memory; the database, and the files of the
options steps, are the only things that survive a process. Above the executor a
selection is executed by a wrapper and its child, which hold a file lock and
leave a claim; a console of the operator launches pipelines and backtests under
the lock files of `pipeline_lock.py`, and archives the claim of a dead attempt.

What makes them right, component by component:

* campaign: no second POST for an operation, no order the next tick would not
  see, never more shares on sale than held, lots equal to the broker's
  cumulative fills, no buy while something is unsettled, shares get back under
  a stop, the horizon exit happens, an expired plan frees its symbol, a freed
  symbol has nothing at the broker;
* lease: one leader at a time, a live leader keeps its row, a service that
  lost it does not steal it back;
* ledger: each broker fill booked in the end, and booked once while one process
  books (two may book it twice, section 4); the order rows end at the orders' last
  state; lots sum to the position (planned);
* executor: whatever fails, a run neither holds nor has open more of a name
  than its target; every order has a request on record; no entry leaves that the
  account's cash does not cover (a rebalance may, section 4);
* options steps: one selection is bought once, one child acts at a time on a
  publication that stays in place, a receipt proves that nothing was sent, a
  published summary is not replaced;
* run locks: runs that exclude each other never live together, a live run keeps
  its lock file, no lock outlives its run;
* directional protections: one order at a time on the shares of a position, each
  on record, an exit that stands, shares that come under an order again, an exit
  on the last session;
* legacy protections (planned): at most one protection per share, a position
  is eventually protected.

## 2. Modules

| module | what it is |
|---|---|
| `WinnerOutbox` | abstract: an operation is durable before it is sent and sent at most once |
| `WinnerCampaign` | one campaign, its orders at the broker, the tick, every failure |
| `MCWinnerCampaign` | the module the campaign's runs check |
| `WinnerCampaignProofs` | the refinement of `WinnerOutbox`; types, books that balance, buys only when settled, no more on sale than held, no order lost, release when flat |
| `SumTheorems` | sums over finite sets: what `SumFunctionOnSet` of the community modules gives when an element is added or changed |
| `WatcherLease` | lock row, heartbeat row, any number of services, the reclaim tool, a clock |
| `MCWatcherLease` | services as model values, symmetry |
| `WatcherLeaseProofs` | exclusion of leaders; a live leader keeps its row, a lost row stays lost |
| `FillLedger` | how fills and orders of the broker become rows: sync, adoption, the executor's polling |
| `MCFillLedger` | orders, and the two processes that sync |
| `FillLedgerProofs` | no share is booked twice while one process books, no position adopted beyond what was bought; types |
| `EntrySubmission` | the runs of `execute_run` on one list of targets: lock, budget, requests, POSTs, retries, sync, reconciliation, rebalance |
| `MCEntrySubmission` | runs and names as model values, symmetry |
| `EntrySubmissionProofs` | no order is lost to the records, no run passes its target, no entry passes the cash; types |
| `OptionsAttempts` | risk and execution steps of one selection, wrappers and children, the operator's unlock |
| `MCOptionsAttempts` | launches as model values |
| `OptionsAttemptsProofs` | one purchase, one child at a time, publication and summary kept, receipts |
| `RunLocks` | consoles, process numbers, lock files and the runs they guard |
| `MCRunLocks` | consoles, runs and process numbers as model values |
| `RunLocksProofs` | runs exclude each other, a live run keeps its lock, no lock outlives its work |
| `DirectionalStops` | the stops and exits of one directional position: executor, watcher cycle, broker |
| `MCDirectionalStops` | ids of stops as model values |
| `DirectionalStopsProofs` | one order at a time, each on record, exits stand |

`WinnerCampaign` uses `WinnerOutbox` through `INSTANCE` with a refinement
mapping. The components meet in the code at one point, the exclusion that
lets a campaign assume one writer; `WatcherLease` is what the code does to get
it, and section 4 says when it does not hold. `FillLedger` assumes no
exclusion: the watcher's refresh takes no account lock, and an executor may run
beside it. `OptionsAttempts` is one level above `EntrySubmission`: it decides
whether an execution is launched at all, and takes of the launched run only
whether it recorded, sent and filled an order. `DirectionalStops` goes on where
`EntrySubmission` ends for a directional name: at the filled entry.

### 2.1 `WinnerCampaign`

| TLA+ | code |
|---|---|
| `status, ops, bare, want, lots, booked, exitBooked, refused, review` | the campaign document (`state_json`): status, `operations`, a reserved buy without its exact order, its quantity, `lots`, `booked_qty`, cumulative exit fill, exit refused, `manual_review` |
| `ord`, `posts` | orders at the broker by client identifier; requests sent per identifier |
| `pc, stage, todo, cur, req` | the tick in progress; lost whenever `tick()` raises or the process dies (`Abort`) |
| `expired, due, off` | entry window over, horizon session open, entries switched off |
| `Reconcile*` | `reconcile()`, one action per kind of operation and outcome |
| `Rearm*` | `rearm_failed_exit()` |
| `Protect*`, `Observe*` | `protect()`, `reconcile_lots()` |
| `Standard*`, `Gate*` | the body of `tick()` between the calls |
| `Deadline*`, `Tighten*`, `Buy*` | `deadline()`, `tighten()`, the buys of `tick()` with `next_plan_action` and `reserve_operation` |
| `Accept*`, `AnswerLost`, `Undelivered`, `Rejected` | the broker call of each operation and its outcomes |
| `BrokerFill`, `BrokerTerminate`, `BrokerCancel` | the market, as the runtime observes it |

Abstractions, each of which loses nothing the properties tell apart:

* prices are left out, a stop price is a level that only rises; quantities are
  whole shares; the OMS journal is a copy and is left out;
* the operations of a tick are reconciled in an arbitrary order (the code's is
  the document's order, one of those);
* consecutive saves without a call between them are one step; what
  `reconcile_lots` observed of a lot is saved at once;
* `rearm_failed_exit` cancels the legs of a lot again before its stop; the
  exit was reserved with all of them terminal, so that cancel is left out;
* a raised exception and the death of the process leave the same state, the
  saved document;
* a PATCH replaces an order by one for the unfilled quantity; the other leg of
  an OCO shrinks with each fill and is canceled when the order completes;
* the broker's own check that an account has the shares it sells is not
  modelled: the code does not rely on it;
* a cancel takes effect at once, except under the fault `unconfirmed`.

### 2.2 `WatcherLease`

`row` is the row `watcher:<account>`; `heart` the single heartbeat row, which
whoever writes last overwrites; `pc` the place of each service in
`ProtectionWatcherService.run`; `tool` and `snap` what
`release_dead_local_watcher_lease` has read. A service is a process with its
own run id and does not come back (a restarted one is another member of
`Services`). Time is counted in seconds, as the TIMESTAMP columns do, so that a
heartbeat and an acquisition may be simultaneous; one clock is shared by the
database and the hosts. `Timely` bounds delays: leaders refresh before their
row expires. `Errors` says which calls of the service may raise; the code goes
on after each of them. The tool reads row and heartbeat at once; every doubt it
may have about a process (access denied, pid reused) is a refusal. `Local` are the
services whose process the tool can find: on its host, and with a command line
that names `protection_watcher.py` (`watcher_lease.py:41-52`). One that was
started by `run_execution_protection_watch.py` is not among them, even on the same
host.

### 2.3 `FillLedger`

| TLA+ | code |
|---|---|
| `ord` | the orders at the broker: filled quantity, `updated_at` (a revision), still open |
| `req`, `row`, `ids`, `booked`, `snap` | `execution_order_requests`, `execution_broker_orders`, the unique `fill_id` and the `SUM(filled_qty)` per request of `execution_broker_fills`, the latest row of `broker_positions_snapshots` |
| `pc, seen, cur, had` | one `sync` per process: the orders it listed and has not treated, the order at hand, the quantity read for it |
| `List`, `ListFails`, `Known`, `InsertMissing`, `Photograph`, `SyncFails` | `BrokerStateSynchronizer.sync` |
| `Adopt`, `AdoptFails`, `AdoptFill`, `AdoptFillLost`, `Unmatched` | `_maybe_adopt_orphan` with `adopt_orphan_buy` and `adopt_orphan_sell`; an adoption that raises is logged and the sync goes on |
| `LoadOrphans`, `AdoptPosition`, `AdoptPositionLost` | the watcher's loop over positions without a buy request |
| `SaveResponse`, `BookPolled`, `GiveUp` | `execute_run` from the answer to a submission to the end of polling |

One account, one symbol outside the winner campaigns (sync leaves requests `wp-...`
and the symbols of a campaign alone). Prices are left out; shares are whole;
`updated_at` moves with every change of an order. The list of orders is one
observation and is treated in any order; its limit of 200 is not reached. The upsert
of a row and the read of the booked quantity that follows are one step, and so are
the lookup of a request and its adoption. The executor runs once and syncs after its
polling (`Polled`), the watcher for ever. Of the fill identifiers only what they
depend on is kept: a missing quantity's on order, quantity and `updated_at`, an
adopted order's on order and quantity, a polled fill's on nothing (a uuid).

### 2.4 `EntrySubmission`

| TLA+ | code |
|---|---|
| `lock` | the account's row of `execution_locks` |
| `phase, mode, todo, hand, tries, fails, budget, seen` | the locals of one `execute_run`: where it is, its entry mode, the names left, the intent being sent, attempts, `consecutive_failures`, the cash it may still reserve, the positions read |
| `request, row, booked` | `execution_order_requests.status`, `execution_broker_orders.normalized_status`, `execution_positions` |
| `order` | the orders at the broker by client id |
| `Begin`, `Abort`, `LockExpires` | the lock and the checks before the first entry |
| `Skip`, `Gate`, `KillSwitch`, `Submit` | one turn of the loop over entries up to its first request |
| `Accepted`, `AnswerLost`, `Undelivered`, `Refused`, `Again` | a POST, the transport's retries and the executor's |
| `RecordOrder`, `RecordFailure`, `AllSent` | what follows the answer |
| `List`, `Project`, `Read`, `Decide`, `BuyMore` | final sync, reconciliation, rebalance |
| `Finish`, `Crash` | the end of the run, with or without its `finally` |

A share costs one unit of money; all names are bought long with the same target.
`BuyMore` leaves the budget alone: the rebalance does ask for capacity, but the
intent it asks for has no price, hence a notional of zero, which always fits and
takes nothing; the only comparison with money is that of `SafeAuto`, each name
alone. The broker is taken to accept orders beyond the cash, as one with margin
does.
The retries of the transport (3) and of the executor are one counter,
`MaxTries`. The client id contains the run and the intent, and the broker takes
it once: a second POST of it is refused. The filter of already submitted intents
asks for rows of the run's own new identifier, never finds one and is left out;
so are the adoption of unmatched orders (`FillLedger`), leverage, circuit
breaker, cash ledger and TCA, which only withhold entries, and dry runs. The
children of a filled entry appear only in the argument of `SafeAuto`: a name
with shares is BLOCKED for want of a stop, or has an open stop that counts as an
order in flight, so that only a name of which nothing is held is bought again.
A dead run's lock is taken to expire (3600 s), a live run to end before that.

### 2.5 `OptionsAttempts`

| TLA+ | code |
|---|---|
| `files, effects, receipts` | the consumer directory: `risk.claim`, `risk_summary`, `risk_binding`, `execution.claim`, `execution.result` by the run they name, the markers `execution.effects_possible.*`, the failure receipts of both steps |
| `lock` | `risk.lock` and `execution.lock`, kernel locks of the wrapper (or of the operator's console) |
| `wrapper, child, bound` | the two processes of a launch, the binding the wrapper has read |
| `running, journal, buy, since` | `execution_runs`, `execution_order_requests`, the purchase at the broker, whether it filled since the claim |
| `op, unlocks` | an unlock: what the operator was shown, and how far its confirmation is |
| `RiskBegin` ... `RiskBind` | `risk_attempt` and the child `risk_management` |
| `Load`, `Begin`, `Guard`, `FailBeforeMark`, `Mark`, `Journal`, `Post`, `Answer`, `Finish`, `Complete` | the wrapper of step 12, `execution_child_guard`, the run inside it |
| `WrapperFails`, `KillWrapper`, `KillChild` | the ends of the processes |
| `Review`, `Confirm`, `Scan`, `See*`, `Archive`, `Archived`, `GiveUp` | `inspect_unlock` shown, then `confirm_unlock` with its checks in order |

Every run buys the same symbol. The account's SQL lock is left out: it only
withholds steps, and a run it stops ends like any other. Writing a claim is one
step with moving the previous one away; a file that is half written is left out.
The pending winner campaigns and the window of the session are further
conditions of an unlock or a launch, and left out. `Review` takes of the first
inspection only the files: its other checks are repeated by the second.

### 2.6 `RunLocks`

| TLA+ | code |
|---|---|
| `proc, born, ended` | the process table: what runs under a number, when it started, children that ended and were not waited for |
| `file`, `held` | the lock files; `_HELD_LOCKS` of each console |
| `phase, host` | where the caller of a run is; the console that follows it |
| `stopped` | stops of recovered runs between the kill and the release |
| `Acquire`, `Busy`, `Unlock`, `Release`, `List`, `Rebind` | `acquire_lock`, `release_lock`, `list_active_locks`, `rebind_lock_pid` |
| `StepStarts`, `StepWaited`, `WorkflowEnds` | the thread of a workflow |
| `Popen`, `LaunchFails`, `Poll`, `GivesBack`, `StopRecovered`, `StopReleases` | start, poll and stop of a backtest |

Start times are compared only with those in files, so four are enough; the
tolerance of two seconds and a start time that cannot be read (which only keeps
a lock) are left out. Listing a recovered run and killing it are one step. A
stop by the console that follows a run, and a timeout, are an exit of the child.

### 2.7 `DirectionalStops`

| TLA+ | code |
|---|---|
| `held, order` | the position and the orders at the broker, by client id |
| `row, known` | status of each request (`new`: recorded, no order observed; `open`; `over`), open lots of the parent |
| `price, due` | the market against the stop and the trailing trigger; what `exit_action` answers |
| `pc, task, cur, qty, todo` | the call at hand, what it is for, its order and shares, children the exit has to cancel |
| `Request`, `Post` (`Accepted`, `AnswerLost`, `Undelivered`, `Refused`, `Duplicate`) | `submit_order`, and what its callers do with the outcome (`AfterSuccess`, `AfterFailure`) |
| `SubmitChild` | `submit_children` for a directional name |
| `Sync`, `SyncFails` | the sync at the start of a cycle |
| `NoItem`, `ProcessItem`, `Cancel*`, `Removed`, `NotRemoved`, `Promote`, `FellBack`, `PromoteNothing`, `Verified`, `TooLoose` | `_process_item` with `_cancel_initial_stop` |
| `ArmStop`, `ArmNothing` | `_arm_gpt_stop`, from `_process_item` and for every parent without a take-profit, which a directional one always is |
| `NoExit`, `BeginExit`, `ClearNext`, `Cleared`, `NotCleared`, `Sell`, `SellNothing` | `apply_scheduled_exit` |
| `Fill`, `CancelLands`, `Expire`, `PriceMoves`, `TimePasses`, `Crash` | market, broker, calendar, the end of a process |

One position, whose entry is filled when the module begins; the executor has ended
before the watcher's first cycle. Prices are three levels: at the stop, between,
at the trigger of the trailing stop; a trailing stop accepted below its trigger
has a floor below the stop's (`loose`). The checks that precede a request and the
reading of the position are one step, the request's record is part of it, the POST
is the next. A cancel takes effect at once, except under `unconfirmed`. The
client id of a stop is used again in the model once its row is closed (the code
makes a new one each time); those of the opening exit and of a breached stop are
used once; the late exit has one a day. Two faults are about what an answer means:
`masked`, the transport posts again an order whose answer was lost, and the
refusal of the second attempt is taken for one of the order; `status`, a sync reads
a live order in a status that is not in `_ALPACA_MAP`, hence as FAILED. (The same
reading of a single order after a cancel is left out.) That the broker refuses to sell
more than there is is not used: the code does not rely on it.

## 3. Runs

| run | properties | instance | what it shows |
|---|---|---|---|
| `WinnerDelivery` | `NoLostOrder`, `BooksBalance`, `ReleasedIsFlat`, `BuysOnlyWhenSettled` | 2 shares, standard entry of 1, reinforcement, OCO pairs, any 3 failures of all 7 kinds | no order is forgotten, lots and fills agree, release is flat, buys wait |
| `WinnerFailures` | `TypeOK`, `NeverOversold`, `BooksBalance`, `OutboxSpec` | 2 shares, trailing stops of two levels, OCO pairs, any 2 of crash, lost answer, undelivered, refused, canceled protection, unconfirmed cancel | nothing is sold twice, partial fills are booked once, nothing is sent twice, every state has its type |
| `WinnerLiveness` | `EventuallyCovered`, `DueExit`, `PlanEnds` | 1 share, standard entry, OCO, 2 lost answers, `FairSpec` | coverage comes back, the horizon exit happens, the plan ends |
| `LeaseTimely` | `TypeOK`, `OneLeader` | 3 services, TTL 2, clock to 3, renewals may fail | exclusion under timely renewals |
| `LeaseLate` | `LiveLeaseKept`, `NeverRegained` | 3 services, TTL 1, clock to 3, every call may fail, no bound on delays | what holds of the row however late its holders are |
| `LedgerAlone` | `TypeOK`, `NeverOverbooked` | a buy and a sell placed by hand and a planned sell, 2 shares each, the watcher alone, any 2 failures | partial fills, adoption of orders and replay book no share of an order twice; a position is adopted once, and for no more than was bought |
| `LedgerRace` | `EachBooksOnce`, `FillsBooked`, `RowsSettle` | a buy of 2 placed by hand, a planned sell of 1, executor and watcher, 1 failure, `FairSpec` | a share is booked once per process at most; every fill is booked in the end; no stale row stays |
| `EntryOnce` | `TypeOK`, `WithinTarget`, `Traced`, `EntriesInFunds` | 2 runs, 2 names of 2 shares, cash 4, 2 tries, kill switch at 1, 1 sale, any 1 failure of all 7 kinds | a timeout, a lost write, a failed listing or a crash never buys a name twice in a run or loses an order; no entry leaves that the cash does not cover |
| `OptionsOnce` | `TypeOK`, `BoughtOnce`, `OneChild`, `PublicationHeld`, `ReceiptIsProof`, `SummaryNeverReplaced` | 2 risk and 3 execution launches, 2 unlocks, 1 lost journal write or late answer, any kill | one purchase over every kill, retry and unlock |
| `LocksShared` | `TypeOK`, `Exclusive`, `NoGhost`, `LiveKept` | 2 consoles, a workflow, two exclusive backtests and an isolated one, process numbers reused, files that cannot be removed | the scopes exclude what they should, and open again |
| `StopsKept` | `TypeOK`, `OneSale`, `NoBlindOrder`, `ExitStands`, `EventuallyCovered`, `DueExit` | a long position of 2 shares, 2 ids of fixed stops, 1 of trailing ones, any 3 failures of 8 of the 10 kinds, `FairSpec` | nothing is sent twice, forgotten or taken back; protection returns, the exit happens |

Why these bounds are enough. Two shares are the least that give a partial fill,
two lots of one operation, an entry and a reinforcement, and two lots to rearm
of which the first may succeed and the second fail. Three failures allow one
more than the longest scenario found (a fault, then a fault in its recovery).
Two stop levels allow a raise after a raise was lost. Three services are a
leader, a successor and a newcomer; the clock passes an acquisition, an expiry
and a takeover. `WinnerDelivery` was also run with three shares and two failures
of the kinds `lost` and `receipt` (1.3 million states), which is too slow to
repeat each time.

For the ledger two shares give a partial fill and two missing quantities that
are equal, which is what the fill identifiers have to tell apart; one failure
loses an adopted fill, two lose it and the sync after it.

Two runs and two names give a second run behind a crash and a budget that two
entries compete for; two tries are a retry; a kill switch at one failure leaves
the second entry unsent; the shares of one order (`MaxSales`) are sold again, as a
sale matters to the rebalance of its own name alone; nothing is followed after the
last run has ended (`Underway`), when orders only fill, lapse and are sold and
neither an order nor an exposure can be added. Three executions are one to be killed, one to be
retried and one behind an unlock; two risk launches are a publication and its
recomputation. One fault is the largest number for which `EntryOnce` and
`OptionsOnce` hold; section 4 says what two do. Consoles, runs of each scope and
a reused number are what a stale lock needs; the fourth start time is one more
than the lock files can hold. Two shares are a stop that fills in part while it
is canceled; two ids of fixed stops are one that was lost and its successor; three
failures are a fault, one in its repair and one in the exit. `StopsKept` was also
run with three shares (79,000 states).

`CHECK_DEADLOCK FALSE` for the campaign, the lease, the entries, the options steps,
the run locks and the stops: a campaign ends (CLOSED or EXPIRED) and
its orders are finished; services stop and the clock is bounded;
launches and attempts are used up; a position is closed, and its watcher cycles
without a change.

Fairness (`FairSpec`, `WinnerLiveness` and the violation runs about liveness):
`WF(TickStart)` because the watcher loop sleeps and cycles again whatever the tick
raised; `WF(Tick)` because a tick that has begun runs to its end; weak fairness of
filling or ending each IOC, DAY and opening order, because the broker terminates
those within the session. Nothing is assumed of stops and take-profits, which may
never trade, of the clock, or of failures. `FillLedger`'s `FairSpec` (`LedgerRace`)
is `WF(Sync)` of the watcher, which cycles for ever; nothing is assumed of the
executor or of the broker. `DirectionalStops`' is `WF(Work)`: the watcher cycles for
ever and each of its calls returns; a market order, and one for the opening once it
has opened, trades, and a cancel that was taken takes effect in the end; nothing is
assumed of stops, prices or the calendar. Both of its liveness properties except a
request that never reached the broker (`Unresolved`), which `submit_order` leaves to
an operator. `EntrySubmission`, `OptionsAttempts` and `RunLocks` state no fairness:
what they promise is safety, and an attempt or a lock may rightly wait for an
operator for ever.

Properties not checked together, and why. `NeverOversold` is not in
`WinnerDelivery`, because a missing fill timestamp violates it (section 4);
`NoLostOrder` excludes trailing stops, with or without failures (`WinnerFailures`
has them and checks the rest); the liveness run excludes undelivered requests
(`WinnerAddBlocksExit`) and unconfirmed cancels. `NeverOverbooked` needs one
process that books, so `LedgerRace` checks `EachBooksOnce` instead; an executor that
polls its orders and then syncs, with no watcher beside it, was also run (a planned
buy and a planned sell, any 2 failures, 42,000 states) and keeps it. `StopsKept`
leaves out the faults `masked` and `status`, which violate `NoBlindOrder`.
`LocksShared` lets a console die at any time except while a step of its workflow
lives or between a backtest's start and the rebinding of its lock. Section 4 says
what happens otherwise in each case.

## 4. Disagreements between the code and what it says

One is a run with `expect: violation`, quoted in `PROJECT.json`.

| run | what happens |
|---|---|
| `WinnerAddBlocksExit` | a reinforcement that never reached the broker stays UNKNOWN and keeps `tick` from reaching the horizon exit |

The others were met with the same models. Each line names the property TLC finds
violated and the constants that differ from the run's (`FullQty = InitialQty = 1`
and all policies `FALSE` unless said otherwise for the campaign).

Winner campaign:

* A deadline cancel that is accepted but not shown at once leaves shares without
  stop and without exit for good (`winner_runtime.py:461`, then 382-385 on every
  tick; the comment at 444 says "Never remove standing stops for an entire night
  to prequeue MOO"): `EventuallyCovered`, `Faults = {"unconfirmed"}`.
* A stop replacement whose answer is lost and that fills before the next tick is
  forgotten with its sale (`winner_runtime.py:236-237`): `NoLostOrder`,
  `Trailing = TRUE`, `MaxStop = 2`, `Faults = {"lost"}`.
* Even with no failure at all, a stop that trades in part between its observation
  and its replacement is forgotten with the shares it sold: `tighten` of the
  broker accepts a `partially_filled` stop and does not read what it filled
  (`winner_broker.py:135-149`), and the lot goes over to the new identifier
  (`winner_runtime.py:424-428`): `NoLostOrder`, `Trailing = TRUE`,
  `FullQty = InitialQty = 2`, `MaxStop = 2`, `Faults = {}`.
* Two partial fills whose timestamp is missing get overlapping emergency stops
  (`winner_runtime.py:313-335`): `NeverOversold`, a standard entry and two
  faults `receipt`.
* A canceled exit may never be put to review: with one lost answer the rearmed
  stop fills before it is observed, and `rearm_failed_exit` raises `broker
  holding unqualified` on every tick. With `receipt` and `lost`, an emergency
  stop whose answer is lost is followed by a protection of the same shares,
  since `protect()` looks only for operations named PROTECT.

Watcher lease:

* The reclaim tool frees the row of a live leader on another host on the
  evidence of another service's heartbeat (`watcher_lease.py:31-71`, against its
  first line, "never an active leader"): `LiveLeaseKept`, two services of which
  one is `Local`. The same holds of a service on its own host that was started by
  `run_execution_protection_watch.py`, whose command line the tool does not know.
* A watcher whose cycle outlives its lease goes on beside its successor: the
  refresh that finds no row only logs (`protection_watcher.py:2054-2059`):
  `OneLeader`, `Timely = FALSE`.

Ledger:

* An executor books in full a filled order of which the watcher's sync has booked a
  part or all already (`executor.py:1074-1077`), although the
  watcher beside it books only what it finds missing; `doc/execution/lifecycle_ordres.md`
  says "somme fills <= request" (15) and "seule la différence nouvelle doit créer
  un fill" (31), `reconciliation_et_tca.md:51` "Rejouer les fills manquants de façon
  idempotente": `NeverOverbooked`, one planned buy, `Polls` that buy, the
  watcher and the executor as syncers, no failure.
* Two syncs that observed an order at different moments and read the booked
  quantity before either inserted book too much (`broker_state_sync.py:112-120`):
  `NeverOverbooked`, one planned buy, two syncers, nothing polled, no failure.
* A manual buy that fills between the list of orders and the list of positions
  is adopted as a position (`protection_watcher.py:278-289`), and in the next cycle
  once more as an order, because the keys of the two differ; `orphan_adoption.py:15-17`
  says "de sorte qu'une seconde adoption ne crée pas de doublon": `AdoptedOnce`, the
  constants of `LedgerAlone`.

Entries:

* The rebalance may spend more than there is. Its intent has no price
  (`children_submission.py:323-329`), so its notional is 0
  (`account_state.py:74-76`), the reservation always succeeds and takes nothing
  (348-362); the reconciliation compares each name alone with the same buying power
  (`reconciliation.py:111-115`). Two names of which each fits alone are both bought;
  `doc/execution/reconciliation_et_tca.md:41` has such a name blocked, "`BLOCKED` :
  buying power insuffisant ou protection manquante": `InFunds`, `Runs <- OneRun`,
  `Cash = 3`, no failure.
* A run in a mode that forbids new positions drops its entries (`executor.py:777-789`)
  and then buys every target, which its reconciliation finds missing
  (`executor.py:1338-1352`, `children_submission.py:322-346`);
  `execution_engine/config.py:442` says "True si le mode courant interdit
  l'ouverture de nouvelles positions.", `doc/execution/lifecycle_ordres.md:17`
  "aucun ordre nouveau en close-only/cash-only selon plan": `ClosedOpensNothing`,
  `Modes = {"closed"}`, `Runs <- OneRun`, `Names <- OneName`, no failure.
* A second launch on the same targets buys all of them again: the filter of
  `load_submitted_idempotency_keys` asks for rows of the launch's own new
  identifier (`db_io.py:429-436`, `executor.py:793`), and the client id contains
  it too; `doc/execution/lifecycle_ordres.md:15` says that a resumption looks for
  the existing orders first. `WithinTarget` is therefore a property of each run.
* A lost answer makes the request FAILED although its order may live; a listing
  that fails in the same run leaves it so, and the rebalance buys again
  (`WithinTarget`, `MaxFaults = 2`, `Faults = {"lost", "listing"}`). A request
  whose write failed and whose run dies leaves an order that nothing records
  (`Traced`, two of `write` and `crash`).
* A name that was bought and stopped out while its run went on is bought again by
  the rebalance.

Options steps:

* Step 12 reads the publication before it asks for its lock (`pipeline.py:127`,
  144): an unlock that archives the publication in between does not keep the
  wrapper from writing its claim for the archived one. The child refuses, without
  a receipt, and only another unlock frees the claim
  (`doc/operations/pipeline_unlock.md:51-52`: "Aucune archive n'est réactivée
  automatiquement après une réinitialisation confirmée du risque"):
  `NoArchiveReused`, constants of `OptionsOnce`.
* A request that was not recorded and whose order reaches the broker after the
  unlock has looked at it may be bought twice: `BoughtOnce`, `MaxFaults = 2`.

Directional protections:

* The search for an open exit looks for sells only (`db_io.py:1010`), so the
  buy that covers a short position is not seen: the next cycle cancels the exit
  as one of the children, or arms a stop beside it
  (`doc/ml/oracle_llm_directional_filter.md:425` promises a short the same exit,
  and `tests/test_llm_specific_protections.py:163`, with longs, that an existing
  exit is left alone):
  `ExitStands`, `Short = TRUE`. Every property of `StopsKept` is therefore one of
  long positions.
* A trailing stop whose answer is lost, or whose process dies before the check, is
  never compared with the floor of the stop it replaces, although the same document
  (705) says "Jamais de desserrement du SL initial"; `TooLoose` is reached only
  through an answer.
* A stop whose answer was lost is posted again by the transport
  (`trading_client.py:79-86`); when the second POST is refused for another reason
  than the client id, the request is marked REJECTED (`protections.py:105-107`)
  although the order lives, and the next cycle sends another stop;
  `doc/execution/lifecycle_ordres.md:43` says "Après un timeout de submit : ne pas
  considérer rejet, ne pas soumettre à nouveau": `NoBlindOrder`,
  `Faults = {"masked"}`.
* A live order in a status that `map_alpaca_status` does not know (`suspended`,
  `stopped`) is written as FAILED, hence as ended (`state_machine.py:60-61`);
  `doc/execution/protections_et_watcher.md:56` says "L'événement et l'état DB
  doivent refléter ce que le broker a accepté": `NoBlindOrder`,
  `Faults = {"status"}`.
* Outside the module: an executor and the watcher that arm the same position at
  once have no lock in common; an entry filled in pieces has a stop for the first
  piece only.

Run locks (`Exclusive` in each case; `pipeline_lock.py:3-4` promises that a
workflow and a backtest that may write never run at the same time):

* `Faults = {"step"}`: a console dies while a step of its workflow runs; the lock
  names the console (`process_registry.py:1826`) and is purged, the step goes on.
* `{"spawn"}`: a console dies between the start of a backtest and the rebinding
  of its lock; `{"rebind"}`: the rebinding fails and the launcher releases the
  lock of a running child (`backtesting_registry.py:551-558`); `{"prelock"}`: a
  run is stopped from another session before its rebinding, which kills the
  console the lock names (640-680); `{"thread"}`: the loop of a workflow fails
  under a live step (`process_registry.py:1520`).

## 5. Proofs

`WinnerCampaignProofs`, for every quantity, policy and set of faults:

* `OutboxInvariant`: `Spec => []OutboxInv`. What the refinement needs is that a
  request about to leave belongs to a durable operation for which nothing was
  sent. That is not inductive: an operation is made durable several steps
  before (buys attach their order first), reconciliation may rewrite its
  status, and the exit is reserved after a loop over the lots. `OutboxInv`
  therefore adds that whatever is being reconciled was reserved (`Listed`), that
  the deadline loop runs only while no exit exists (`NoExit`), and that an
  operation still at "none" has no request (`Once`). Steps are sorted into
  quiet, reserving and sending ones; one lemma per group of actions says which.
* `OutboxRefinement`: `Spec => OutboxSpec`, by the same three kinds: quiet steps
  stutter, reserving ones are `Reserve`, sending ones `Send`.
* `BooksAlwaysBalance`: `Spec => []BooksBalance`, and `CampaignTypes`:
  `Spec => []TypeOK`, from `BooksInvariant` (`Spec => []BooksInv`). That the
  lots add up to the fills is not inductive, for three reasons. A sale is counted
  in the lot that names the order, so no order may be named by two lots and no
  replacement may start where an order exists (`GoodLots`, `TightOps`,
  `StopOrders`: while no exit is under way, a replacement that exists at a level
  above the lot's stop is the only one, and the stop it replaced works no more,
  so that none is reserved over it). An
  exit fill is spread by partial sums, so that the sum over lots must be carried
  with the state of each lot (`Sums`). And the lots stay within the target only
  because a reinforcement is reserved for what the entry left (`BuyOps`); no
  buy is open while another is. The proof does not go through the properties
  action by action: five lemmas classify each step once, by what it does to the
  lots (`LotsMove`: same, append, sale, new stop, spread), the orders
  (`OrdersMove`: same, cancel, fill, send), the operations (`OpsMove`), the
  request (`Turns`) and the stops (`StopsStay` or `Restops`); the invariants are
  then shown to survive each class.
* `BuysOnlyWhenAllSettled`: `Spec => BuysOnlyWhenSettled`, from
  `ControlInvariant` (`Spec => [](BooksInv /\ ControlInv)`). A buy is reserved
  many steps after `protect()`, and nothing at the purchase looks at the stops
  again. `PathInv` says that past `protect()` a held lot without stop leaves an
  unresolved protection, which `Pending = {}` of the purchase excludes;
  `ProtectInv` that a done protection named its stop; `Buying` carries what held
  at the reservation over the two steps to the request, the exact order being
  attached in between (`BareInv`).

* `NothingOversold`: `Spec => []NeverOversold`, assuming that a fill always has
  its timestamp (`"receipt" \notin Faults`; two fills without do oversell, section
  4), `NoOrderLost`: `Spec => []NoLostOrder`, assuming `~Trailing` (a raised stop
  does lose sales, section 4), and `ReleasedAlwaysFlat`:
  `Spec => []ReleasedIsFlat`, for all constants. All three come from
  `SellInvariant` (`Spec => [](BooksInv /\ ControlInv /\ SellInv)`). What is on
  sale against what is held is a fact about all orders at once, while a step
  looks at one lot, so the invariant is about lots and the theorem about their
  sum. `Cover`: what the orders of a lot sold, seen by the tick or not, with what
  the exit took of it and what any of them may still sell, is no more than the
  lot. A new order must not break it, although the tick reads the lot and not the
  broker: `Known` says that an order which works is either unresolved or named by
  its lot, so that none is forgotten when another is asked for; a safety
  stop is for what is left after the exit, when every sale of the lot was seen
  (`SoldInv`). That last fact is what the deadline is for, and it is not
  local: the exit is asked for when the broker's holding is at least what the
  lots have left, an inequality of sums; since no lot has seen more than was
  sold, it can only hold when each has seen everything (`HoldingSeen`, by
  `SumTight`). `DownInv` carries the cancels through the loop over the lots,
  `ExitInv` the exit's order from its request to its end: what it asks for and
  what the lots sold is within what was booked, and when it is done nothing is left of
  it. `PhaseInv` keeps the phases apart: nothing is unresolved where protections
  are replaced or taken down, from the deadline on only the exit and the safety
  stops are asked for, and those only after the exit is over.
  `ReleasedIsFlat` needs besides that a release finds nothing unresolved and no
  review (`ReleasedInv`), and that a lot with nothing left has no order that
  works (`FlatLot`, from `Cover`).

  Every invariant of these proofs was checked by TLC on the instances of
  `WinnerDelivery` and `WinnerFailures` before it was proved.

`SumTheorems`, for every function and finite set: what a sum becomes when an
element is added, removed or changed, of two disjoint sets, of two functions, and
when one bounds the other (`SumEmpty`, `SumRemove`, `SumAdd`, `SumUnion`,
`SumPlus`, `SumMonotone`, ...), of a family of disjoint sets (`SumFamily`), and
that two functions are equal when one bounds the other and its sum does not
(`SumTight`). `SumFunctionOnSet` is a fold that chooses its
elements in some order; that the recursive function it is defined by exists is
shown by induction over the size of the subsets, and that the order does not
matter by `SumRemove`. The library's induction theorems take an operator and cannot be
used; the inductions rest on `WFMin` and `NatLessThanWellFounded`, which take a
set: the least size of a counterexample.

`WatcherLeaseProofs`, for every set of services, TTL and clock bound:

* `LeaseKept`: `Spec => LiveLeaseKept`, assuming the tool sees every service's
  process (`Local = Services`), for any delays and failing calls. The tool's
  deletion is safe because a live service is visible when the tool looks, and
  one that acquires afterwards changes the row that was read: the snapshot may
  name an old acquisition at the same second only of a service that is dead.
* `LeaseInvariant`, `LeaseExclusive`: `Spec => []OneLeader`, assuming
  `Dependable`: leaders renew in time, the acquiring call does not raise (one
  that raises is run without the row, by design), and `Local = Services`. The
  inductive invariant says that every leader owns the row and that it has not
  expired.
* `NeverRegainedAlways`: `Spec => NeverRegained`, and `LeaseTypes`:
  `Spec => []TypeOK`, for all constants, the remote leader and the late one
  included: only a service that does not lead yet writes its name into the row.

`FillLedgerProofs`, for any orders, sizes and number of failures:

* `LedgerInvariant`, `BookedOnce`: `Spec => []NeverOverbooked`, assuming
  `OneProcess`: one process books, the watcher with its syncs and adoptions, or an
  executor that polls its orders and then syncs. That is the situation of every
  cycle of a watcher while no executor runs; with two processes the property is
  violated (section 4). A row's sum stays below the order's fills
  because what was listed is no more than what is filled now
  (`ListedIsFilled`), what was read is still booked at the insert
  (`ReadIsCurrent`), an order that is adopted had nothing booked
  (`RowsHaveRequests`, `AdoptedAnew`), and an order still to be polled has nothing
  booked either while no sync has begun (`PollsFirst`). For the adopted position
  `HoldingFits` follows the quantity from the snapshot over the reading to the
  insert: it was bought, and the request written with it ends the adoption. That
  a position is at most what was bought, and that this only grows, is about
  sums over the orders (`PositionBought`, `BoughtGrows`).
* `LedgerTypes`: `Spec => []TypeOK`, for all constants. The photographed position
  is at most what the buys could have filled, a sum over the orders
  (`SumTheorems`).

`OptionsAttemptsProofs`, for any launches, any number of unlocks and failures:

* `Invariant` (`Spec => []IInv`), then `TypeCorrect`, `OneChildAlways`,
  `PublicationAlwaysHeld`, `ReceiptsAreProof` for the invariants of `OptionsOnce`
  and `SummariesAreKept` for its action property. None of them is inductive
  alone. `Held` says that a wrapper at work holds its lock and a confirming
  operator both; `Fresh` that a launch not yet begun has no child and no receipt;
  `Owned` that a live child's claim is the one on disk, and that a live risk
  child has published nothing; `Still` that an unlock past its scan met no live
  child, and none can start while the operator holds both locks; `Clean` that a
  receipt names no live child and that an execution before its marker, or with a
  receipt, has left no trace. One lemma per
  conjunct goes through the actions.
* `BoughtOnceAlways`: `Spec => []BoughtOnce`, assuming `MaxFaults <= 1`. An
  unlock reads journal, positions, open orders and history, in that order, while
  a purchase may still arrive, fill and be sold. `Cleared` says what each check has
  excluded; that the checks together miss nothing rests on the one fault: a run
  without a journal row has used it up, so that its answer came (`Lost`), and what
  it bought was filled since the claim, where the history shows it (`Filled`).

`RunLocksProofs`, for any consoles, runs and process numbers, assuming `Careful`
(`Faults \subseteq {"unlink"}`: no console dies under its own work, every lock is
rebound; what the other faults break is in section 4):

* `ExclusiveAlways`, `LiveKeptAlways`, `NoGhostAlways`, `LockTypes`, for the four
  properties of `LocksShared`. A run *occupies* its scope from the acquisition to
  the rebinding and while a child lives. `LockInv` says that the lock file of an
  occupied scope names the run and a process that stands for it (`HoldInv`): the
  console while the run is prepared, the child afterwards; so every console takes
  it for a live one, a purge leaves it and a conflicting acquisition is refused
  (`ApartInv`). Besides, each console and run has one process (`ProcessInv`), a
  run that is released or stopped has no live child (`ChildInv`), and files belong
  to the scope of a run that has begun (`FileInv`). The steps fall into those in
  which a process starts, those in which processes only end (`Shrinks`), and those
  that take, rebind and give back a lock. `NoGhost` also needs that a console
  holds a scope only for a run it works on (`HeldInv`), and that a process that
  started when a lock file says is the one the file was written for (`BirthInv`).

`EntrySubmissionProofs`, for any runs, names, shares, tries and money:

* `TracedAlways`: `Spec => []Traced`, assuming `OneFaultOrWrites`: one thing goes
  wrong at most, or the writes of requests do not fail. An intent in hand whose
  request is missing has cost the one fault (`FaultInv`), so that its run neither
  dies nor fails to record the answer; an order without a request is one in hand
  (`OrderInv`).
* `EntriesInFundsAlways`: `Spec => EntriesInFunds`, and `EntryTypes`:
  `Spec => []TypeOK`, for all constants (`Names` finite), every failure included.
  While a run sends its entries, what every order may still take, its budget and
  the entry in hand are within the cash together, or it has no budget
  (`Solvent`): a sum over all the orders of all runs, of which one step changes
  one term. It does not survive the rebalance, which reserves nothing, and need
  not: the next run reads a budget of zero for an account in debt, and no two
  runs send at the same time, as only the holder of the lock has a budget
  (`Locked`).
* `WithinTargetAlways`: `Spec => []WithinTarget`, assuming `OneFaultOrAnswers`:
  one thing goes wrong at most, or no answer is lost and no write fails. A
  run buys a name a second time only in its rebalance (`Staged`), and only when
  the first order has nothing open and nothing held (`OnlyAfter`): the name's
  request is on record before the listing, or the fault that kept it off was the
  last, so that the listing sees it (`Handed`, `Recorded`), and positions are read
  after the listing (`Looked`). Two faults do buy twice (section 4).

`DirectionalStopsProofs`, for any quantity, ids and faults, assuming `Legible`: the
position is long, and the faults `masked` and `status` do not happen (what each of
the three breaks is in section 4):

* `OneSaleAlways`, `NeverBlind`, `ExitsStand`, `StopTypes`, for the four invariants
  of `StopsKept`. `NoBlindOrder` is nearly inductive and the centre of the argument:
  a request is recorded before it is sent and its row closed only for an order that
  has ended (`Overs`, `CloseStep`), so an order that works has a pending request;
  a request is made only when nothing is pending (`NothingOpen`), so there is one
  (`Single`), for shares that are there (`Shares`). `Hand` carries what was checked
  over the steps to the request: that nothing is pending after a confirmed cancel,
  that the exit's list is exactly the children still pending, and that it names no
  exit. One lemma per phase of the cycle.

Only model-checked: liveness under fairness and `ENABLED`, which the prover does
not do: `EventuallyCovered`, `DueExit` and `PlanEnds` of the campaign,
`EventuallyCovered` and `DueExit` of the directional stops, `FillsBooked` and
`RowsSettle` of the ledger; and `EachBooksOnce`, a bound over two racing processes
whose proof would need to count what each of them booked. Every other invariant and
action property that a run checks has its theorem.

## 6. Not modelled, and the plan

1. `ProtectionBracket`: the children of a legacy entry, HELD legs, arming by the
   watcher (`_arm_missing_protections`), time stops and cancels of the other leg.
2. `PositionLots`: the FIFO rebuild of lots from fills, as a fold over the fills
   in the order of their timestamps (sync stamps a fill with the order's last
   change). Abstract: lots sum to bought less sold.
3. `CampaignStore`: compare-and-swap of campaigns against admissions and
   amendments; abstract: a register with frozen fields.
4. `OrderStates`: `_TRANSITIONS`, the Alpaca status map, `PhaseTracker`.
5. `WatcherStartup`, protection document updates, corporate-action idempotence.

Theorems next: the abstract specifications of the modules above, each with its
refinement.

Left out for good: HTTP and payload formatting (the payloads of
`trading_client.py` and `order_intents.py`), numeric strategy code
(`backtesting`, `modelFactory`, most of `risk_management`), batch data jobs
(`dataIntegrityEngine`, `screener`, `selector`, `event_sentiment`), pages,
scripts and schema migrations: they keep no protocol state that a finite model
could decide.
