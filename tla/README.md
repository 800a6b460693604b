# Verification of the trading system

The repository is an automated trading program for Korean stocks: strategies
produce signals, orders go to the broker's API (Korea Investment & Securities),
execution notices come back over a WebSocket and by polling, a ledger keeps what
the strategies hold, and services protect the account.  This directory holds TLA+
modules of the part that moves money and of what it runs on, the TLC runs that
check them on small instances, and proofs that TLAPS checks for instances of any
size.

Everything runs on one asyncio event loop.  In the modules a step is therefore
what runs between two awaits that may suspend; the interleavings are those of
tasks, of the broker, and of crashes.  Paths below are relative to `src/`.

    tlc -config OrderSubmission.cfg OrderSubmission     # one run
    tlapm OrderSubmissionProofs.tla                     # one module of proofs

PROJECT.json lists the runs, the mutants that show each property can fail, the
source lines behind each definition, the findings, the hazards and the theorems.


## 1. The system

### Components

| Component (source) | State | Operations | Modelled in |
|---|---|---|---|
| Order life cycle (`common/types.py`, `services/order_state_machine.py`) | a context per (exchange, symbol, side), index of order numbers, processed events, symbol locks | register, transition, find context, mark event seen | `OrderFSM`, `OrderSubmission`, `FillReconciliation` |
| Order submission (`services/order_submission_coordinator.py`, `broker_order_submitter.py`) | holds the symbol lock | submit, submit_with_retry | `OrderSubmission`, abstractly `OrderBook` |
| Deferred-order queue (`services/deferred_order_queue.py`) | an entry per key | enqueue, notify_terminal | `OrderSubmission` |
| Execution reports and polling (`services/fill_reconciliation_service.py`) | the alarm, stuck and notification marks | handle_signing_notice, apply_execution_report, poll_active_orders_once | `FillReconciliation` |
| Reconciliation and restore (same file) | the alarm, mismatch counters | restore_state_from_broker, reconcile_orders_with_broker, on_broker_order_no_missing | `BrokerReconcile` |
| Kill switch (`services/kill_switch_service.py`) | tripped, counters, strategies' blocks, state file | record_*, trip*, reset*, load | `KillSwitch` |
| Strategy scheduler (`scheduler/strategy_scheduler.py`) | running flag, loop task, strategies, forced-exit progress, retries, signal records, SQLite store | start, stop, start_strategy, stop_strategy, the loop, restore_state, clear_saved_state | `StrategyScheduler` (one strategy) |
| Virtual-trade ledger (`repositories/virtual_trade_repository.py`, `services/virtual_trade_service.py`) | HOLD and SOLD rows | log_buy, log_sell, update_hold_qty, reconcile_with_broker | `VirtualLedger` (HOLD rows of a code) |
| Opening reconciliation (`services/opening_position_reconcile_service.py`, its task) | last checked date, account number in a file | reconcile_once | `VirtualLedger` |
| HTTP base, headers, tokens (`brokers/korea_investment/`) | shared headers, token, its lock and file | call_api, get_access_token, refresh_token, temp headers, place_stock_order | `OrderChannel` |
| Budget limiter (`core/retry_queue/api_budget_limiter.py`) | a semaphore per category and lane, rate slots | acquire | `OrderChannel` (the order lanes) |
| Circuit breaker (`brokers/broker_api_wrapper.py`) | failures in a row, open until | place_stock_order, cancel_stock_order | `OrderChannel` |
| WebSocket client, subscription policy, watchdog (`brokers/korea_investment/korea_invest_websocket_api.py`, `services/subscription_policy.py`, `task/background/intraday/websocket_watchdog_task.py`) | ledger of registrations, requests waiting for an answer, wanted and active codes | add, remove, sync, drop_unhealthy, rebalance; send, receive, reconnect; restore, repair, refresh, force_reconnect | `Subscriptions` (prices) |
| Time dispatcher, ticket queue, workers (`scheduler/dispatcher`, `ticket_queue`, `worker`) | dates in memory and SQLite, bounded queue, workers | dispatch, publish, consume, retry, suspend, resume, shutdown | `BatchWork` |
| Background and foreground schedulers, tasks after the close (`scheduler/background_scheduler.py`, `foreground_scheduler.py`, `task/background/after_market/after_market_task_base.py`) | state, gate and depth per task, number of requests | start_all, shutdown, context, suspend, resume, force_run | `BatchWork` |
| Risk gate, order policy, sizing (`services/risk_gate_service.py`, `order_policy_service.py`, `position_sizing_service.py`) | configuration, strategy limits | check | one gate outcome in `OrderSubmission` |
| Retry queue for queries (`core/retry_queue/api_request_queue.py`) | pending requests | submit, stop | no: orders bypass it |
| Caches (`core/cache/`), notifications, strategies, indicators, backtests, reports, news, AI, overseas dry run | | | no: section 8 |

### How they interact

    scheduler, routes --> OrderSubmissionCoordinator.submit
        |                   | alarm check, symbol lock, gates (quality, policy, risk -> kill switch)
        |                   v
        |                 OrderStateMachine.register --> BrokerOrderSubmitter
        |                   ^            |                     |
        |                   |            |                     v  circuit breaker, lane, token, headers
        |                   |            |                   call_api --> broker
        |                   |            | terminal transition: create_task(notify_terminal)
      WebSocket notices --> |            v
      polling loop -------> | apply    DeferredOrderQueue --> submit (again)
      reconciliation -----> | give up, raise or clear the alarm
      startup restore ----> |
                            +--> terminal fill --> VirtualTradeRepository
                                                     ^       ^
           scheduler's loop: forced exits read it ---+       |
           opening reconciliation, scheduler's reconciliation: balance --> rows

    TimeDispatcher --> MessageBroker --> WorkerPool --> tasks after the close
    web request --> ForegroundScheduler: pause pool and tasks
    strategies, watchlists --> SubscriptionPolicy --> WebSocket client --> broker
                               ^ watchdog: restore, repair, refresh, reconnect

* `submit` keeps the symbol's asyncio lock across the gates, every broker
  attempt and every sleep between two.  `apply_execution_report` takes the same
  lock.  `reconcile_orders_with_broker` takes none.
* A transition into a terminal state creates a task that wakes the deferred
  queue; that task calls `submit` as anybody else.
* The alarm is written by the reconciliation and by a success answer without an
  order number, and read by `submit` before the lock.
* A forced exit asks the ledger what to sell, and the scheduler's records and the
  balance when the ledger has nothing.
* All calls of the trading API share one provider of headers and one of tokens; a
  normal and an emergency order each hold a slot of their own lane meanwhile.
* Startup (`view/web/web_main.py`, `lifespan`) restores the orders, reconciles,
  and restores the scheduler; the shutdown saves its state, stops it, and drains
  the pool.

### What is hard

Interleavings of callers of one symbol; reports that reach an order while its
own request is in flight; timeouts whose request was taken; notices that are
lost, repeated, reordered, and overlap with polled totals; pictures of the broker
that are older than the state they are compared with; crashes between two
writes; alarms that must come and go; plans carried out over many awaits; a stop
that awaits what others go on changing; one-shot marks (a tier, a date, a stamp)
set before the work they stand for is done; shared headers.  PROJECT.json
`hazards` has each at its line.

### What makes each component correct

| Component | Correct when |
|---|---|
| Submission | one live order per symbol; nobody touches an order under its own call; the lock always comes back; one submission makes one order |
| Deferred queue | no entry without something that will pop it; an entry of a free symbol is served |
| Reports | the filled quantity is what the broker executed; it does not shrink; the ledger gets an order once; every order that ended at the broker ends here |
| Reconciliation | what it gives up is dead; what is open is tracked; a ghost does not block its symbol for ever; an unknown number keeps blocking |
| Kill switch | a limit reached is a switch tripped, of the account or a strategy, across restarts; only the operator releases it |
| Scheduler | a strategy that must be flat at the close is; one loop, which the stop finds; nothing trades after a stop; what ran at the shutdown runs again |
| Ledger and opening reconciliation | one row per strategy and code; an undisturbed reconciliation leaves the account's quantity; a replaced account's rows stay; ledger and account agree in the end |
| Order channel | an order's request has its own headers; an order the broker took is not sent again, but behind an unreadable answer; an open breaker refuses for its whole time; an emergency sale ends |
| Subscriptions | what the ledger calls registered is; with slots for all so is what is called active; after a rebalance the best codes have the slots; a wanted code is served in the end |
| Batch work | one ticket per task and day; paused exactly while a request runs; every ticket ends; a shutdown ends |


## 2. The modules

| Module | Models | Extends |
|---|---|---|
| `OrderFSM` | order states, transition table | |
| `OrderBook` | abstract: one live order per symbol | `OrderFSM` |
| `OrderSubmission` | submit, submitter, deferred queue | `OrderFSM`; `INSTANCE OrderBook` |
| `MCOrderSubmission` | symmetry for TLC | `OrderSubmission` |
| `OrderSubmissionProofs` | its inductive invariants, the refinement, theorems | `OrderSubmission`, `TLAPS` |
| `FillReconciliation` | notices, polling, report application, ledger | `OrderFSM` |
| `FillReconciliationProofs` | how executed shares are split among notices, theorems | `FillReconciliation`, `TLAPS` |
| `BrokerReconcile` | restore, reconciliation, crash | `OrderFSM` |
| `BrokerReconcileProofs` | its inductive invariants and theorems | `BrokerReconcile`, `TLAPS` |
| `KillSwitch` | kill switches of account and strategies, their file | |
| `StrategyScheduler` | life of the scheduler, the day of one strategy | |
| `StrategySchedulerProofs` | the invariants of its life and of its day, theorems | `StrategyScheduler`, `TLAPS` |
| `VirtualLedger` | HOLD rows and the two reconciliations | |
| `VirtualLedgerProofs` | the balance as a count, its inductive invariant, theorems | `VirtualLedger`, `TLAPS` |
| `OrderChannel` | breaker, lanes, token, headers, call_api | |
| `ChannelAndSwitchProofs` | the inductive invariants and theorems of `OrderChannel` and `KillSwitch` | `OrderChannel`, `KillSwitch`, `TLAPS` |
| `Subscriptions` | policy, client, broker, watchdog | |
| `SubscriptionsProofs` | its inductive invariant and theorems | `Subscriptions`, `TLAPS` |
| `BatchWork` | dispatcher, queue, pool, requests, shutdown | |
| `BatchWorkProofs` | its inductive invariants and theorems | `BatchWork`, `TLAPS` |

### OrderSubmission

A *task* is an asyncio task inside `submit()` (kind `caller` or `release`) or
inside `notify_terminal` (`pop`).

| pc | The task awaits |
|---|---|
| `wait` | the symbol lock (the alarm was checked) |
| `gate` | the data-quality, policy and risk checks, lock held |
| `call` | the broker's answer to attempt `attempt`, lock held |
| `backoff` | `asyncio.sleep` before the next attempt, lock held |
| `pop` | its turn to pop the entry of one side |

| Action | Code |
|---|---|
| `Call` | the alarm check of `submit`, up to the lock |
| `Defer`, `Enter` | under the lock: another order of the symbol is alive, or not |
| `Block` | any early return or exception of the gates |
| `Register` | context registered, first request sent |
| `Accepted`, `Finalized`, `Refused` | the last answer, with the transition and the return; `Finalized` is paper trading with immediate finalisation; `lost` counts the orders the broker took in this attempt behind an answer that got lost |
| `RetryLater`, `CallAgain` | a transient error with attempts left, and the next attempt; `lost` as above |
| `Cancelled` | `StrategyScheduler.stop` cancels the task it awaits |
| `StartRelease`, `Pop` | `notify_terminal`, BUY entry then SELL entry |
| `Tick` | time passes for the entries |
| `ApplyReport`, `GiveUp`, `SetAlarm` | what `FillReconciliationService` may do to an order and to the alarm |

`taken` counts the orders the broker took for a context; it is no field of the
program.  `call_api` repeats a request by itself after an unreadable answer, and the
last refusal may be an answer nobody could read, so any attempt may leave any number of
orders at the broker.  A caller that meets the alarm changes nothing and is not a step.
`OrderBook` is what the rest of the program may rely on; the refinement mapping
projects `order` to its states.  One step of the event loop may do two
transitions (a paper order is submitted and filled without an await between),
which `MayReach` allows.

### FillReconciliation

One order key and up to `MaxOrders` orders one after the other; `MaxShared` when both
sources report.  `feed` is the set of sources, chosen once.  The broker side
(`market`) executes, cancels and rejects and publishes notices, which are never
removed: a notice is lost when it is not delivered, repeated when it is delivered
again.  `Apply` is `apply_execution_report` with every effect it has under the
lock: event marking, transition or raise, number index, and the recording of a
terminal fill in the ledger, during which it keeps the lock (`Persist`).  A report is its
own event key, as the code's key (source, number, time, quantity) tells no more.
`PollStart`, `PollRows`, `PollApply`, `PollEnd` are
`_poll_single_order_context`, with the rows as old as the query.  Number 0
(`NoNumber`) is a context without an order number; `own` is the broker's number
of this very order, for the properties only.

### BrokerReconcile

One symbol, both sides, live trading.  `recon` is where
`reconcile_orders_with_broker` stands: the three answers it collects are sets of
order numbers and a flag, each as of its query.  `Compare` is all that follows
the last answer, which awaits nothing.  `miss` is the mismatch count of a side, `counted`
the order the last mismatch was counted for, so that a count an earlier order left
can be told from an order's own (`Inherited`); `strayed` are open orders whose side's context went to another
order.  Neither is a field of the program.  `phase` is the startup; `fails`, chosen
once, says whether queries may fail.  `Crash` drops every variable the process
keeps in memory.  Submission and reports appear by their outcome.

### KillSwitch

Its general names begin with `Switch` (`SwitchSpec`, `SwitchTypeOK`), because its proofs share a module with those
of `OrderChannel`.

`mem` and `disk` are the switches and their counters in memory and in the state
file.  Every operation runs under one lock; the step that changes a counter ends
at its `_save_state` and leaves the lock at `trip` when the limits call for
`_trip`, the next step trips and saves, the third sends the notification.  A
`Restart` may come between any two; `RestartUnread` is a start that cannot read the file, logs that, and
begins with the switch off and nothing counted.  A failed write is caught and logged by the code;
`stale` counts the writes the file is behind.  `pct` stands for the limit in percent of the
balance.  `due` has the sales recorded for the account whose strategy's own record still waits for
the lock; `lock` is a strategy between the save of its counters and `_trip_strategy_locked`.
`ReportDecline` is the daily report's look at a strategy, `ReportBlocks` its
`trip_strategy(block_side="buy")` after the lock.  `excused` and `lost` mark what an operator or a
crash undid since the last trip; `ResetStrategy` needs no excuse, because it drops the counters.

### StrategyScheduler

The day is cut into the stretches that matter (`Slots`): regular trading, 30 and 25
minutes before the close, and from the order cutoff to the next open.  `job` has
what each loop task, the call that stops or restores, and the woken retry are
doing; two loops can exist because `start` and `start_strategy` make them.  Orders, deferred entries and the
breaker's retry may outlast the tier that made them.

| Action | Code |
|---|---|
| `ForceExit`, `RunStrategy`, `Pass` | one round of `_loop`: a tier is due and is noted *before* it runs; `_run_strategy`; nothing |
| `Taken`, `Deferred`, `Refused`, `Blocked` | the answers of `_execute_signal_inner`; `Blocked` is the open breaker, with the retry it schedules |
| `RetryWakes` | `_retry_force_exit_after_circuit_breaker` past its sleep |
| `Liquidation` | `_get_force_liquidation_holdings`: the ledger, or the records with the balance |
| `Start`, `StartStrategy`, `StopStrategy`, `Stop` and its parts | the routes; `stop` waits for the loop, liquidates, disables, closes the store |
| `Shutdown`, `ProcessEnds`, `Crash`, `Restore`, `RestoreEnds` | the lifespan and `restore_state` |
| `Executes`, `Reported`, `LedgerMisses`, `Dies`, `DeferredGoes` | broker, reports and deferred queue as the scheduler meets them |

`covered`, `crossed`, `halted`, `stops`, `left` and `parted` are no fields of the program.  `parted` is set by
every step that leaves the records of the process and what was traded (`Traded`: the shares, and the open
order) apart, and stays set for the day (`Compared`, a conjunct of `Next`).  `lingered` (`Watched`, another
one) says that an order or a retry was under way when the last tier's time began and had not ended when that tier
ran, or that one was under way at the cutoff.

### VirtualLedger

`holds` is the sequence of HOLD rows of one code in the order of their id; `log_sell`
takes the newest.  The two reconciliations go from the balance (`Ask`) over the
reading of the rows (`Answered`) to their writes (`ForceClose` one row a call, `Ends`), each a
step, as the writes run in threads under the repository's lock.  `Unlogged` is a purchase or sale that makes no row: the write
fails, the trade is of outside the program, or `log_buy` takes it for the repetition of a record of the same second, price
and quantity (`virtual_trade_repository.py:524`).  `quiet` and `fresh`
are no fields of the program: nothing traded in the course of a reconciliation, or
since the paper account was replaced.

### OrderChannel

`call` is where each order is: waiting for its lane, the token's lock or a token,
posted, or in one of `call_api`'s pauses.  `volatile` are the shared headers, `headers` the copy
an attempt works with; a header is whose order it belongs to and whether it
carries a hashkey.  `EnterContext` and `LeaveContext` are `temp()`, which saves and restores
the *whole* dictionary.  A call is a hashkey request and then an order request,
each with attempts (`HashTries`, `OrderTries`; 10 and 10 in the code).  `soon` is
the minute in which the broker refuses another token.  Any answer may be one that
nobody can parse, of the broker or of a gateway, before or after the order was taken
(`Retried`); `taken` and `unread` keep both facts and are no fields of the program.

### Subscriptions

`Callers` change the policy's references, `Watchdog` runs its own coroutine.

| Action | Code |
|---|---|
| `AddSubscription`, `RemoveSubscription`, `SyncSubscriptions` | the coroutines of these names (`remove_category` too); the first stands for the holdings, which rank first; each ends in a rebalance |
| `Register` | `_initialize_price_subscriptions` of the start, with `rebalance=False` |
| `DropUnhealthy` | `drop_unhealthy_price_subscription`, when a price was looked up and was old: only a favorite stays wanted, and only then a rebalance follows |
| `Plan`, `Replan`; `Unsubscribe`, `Link`, `Subscribe`, `Confirmed`, `Unconfirmed` | `_rebalance`: the plan, made at one moment, and its steps |
| `Answer`, `AnswerInUse` | the broker, which registers up to `slots` codes of a connection, or says ALREADY IN USE |
| `Receive`, `Drop`, `Reconnect`, `Resubscribe`, `GivesUp` | the receive task; an answer is matched to the last request for its code; ALREADY IN USE leaves the client's ledger alone |
| `Restore`, `Cut`, `ForceReconnect`, `Reset`, `Relink` | the watchdog's restore, and its forced reconnection: a dead receive task, or no data for long |
| `Repair` | its minute's look for codes that are noted and not listed; it passes over a code that has no age |
| `Refresh`, `Again`, `Refreshed` | a code without ticks is unsubscribed and subscribed again |

`requested` are the codes with an age (`get_subscription_age`), which a request gives and an unsubscription takes.
`late`, the codes that were added or dropped without a rebalance since, is no field of the program, nor is `asked`.
`slots` is chosen once: `MAX_WS_SLOTS` less what other registrations take.  `mode`, chosen once, says what is looked
at.  In "calm" and "rough" nobody starts while another is at work.  In "calm" moreover no code is unsubscribed and
at once subscribed again (no refresh, no dropped favorite), the client gives no connection up and a live one is not
forced, the watchdog's connection succeeds, the session is not in use elsewhere, and what comes before the first
restore is rebalanced; section 6 says what each of these does to the books.  "busy" is without limits and in no run.

### BatchWork

`saved` and `sent` are the dispatched dates in SQLite and in memory, `pending` the
publications that sleep their delay, `worker` each worker with its ticket.
`open` is the pool's resume event, `gate` a task's.  `RunEnters` and `RunLeaves`
are `_running_state`, which the pool and `force_run` share.  `Enter` and `Leave` are
`ForegroundScheduler.context`; `Shutdown` publishes the poisons, `Down` is the end of
the gather over the workers.  `Crash(written)` may come in the middle of a
dispatch.


## 3. The runs

| Run | Instance | Shows | Distinct states |
|---|---|---|---|
| submission | 1 symbol, 2 sides, 2 tasks, 2 attempts, TTL 0, paper | `TypeOK`, `OneLiveOrder`, `CallIsGuarded`, `NoLostWakeup`, `ImplementsBook`, `DeferredIsServed`, `SubmissionReturns` | 134,852 |
| fills | orders of 3, 2 of one source, 1 of both | `FilledIsExecuted`, `LedgerIsOnce`, `FilledOnlyGrows`, `PollingHeals` | 324,480 |
| reconcile | 2 orders per side, of 1, with and without failing queries | `NumberlessBlocks`, `OpenIsTracked`, `GivenUpIsDead`, `GhostIsReleased` | 624,043 |
| kill_switch | 2 strategies, limits 1 and 2, counts to 2 | `SwitchTypeOK`, `OverLimitIsTripped`, `OnlyOperatorReleases` | 1,498,471 |
| scheduler | 2 shares, 2 loops, 2 days, 1 stop or crash | `FlatBeforeClose`, `OneLoopInHand`, `StopIsFinal`, `ShutdownIsRemembered` | 2,169,520 |
| ledger | 1 strategy and manual orders, 2 shares | `OneHold`, `RolloverKeepsHolds`, `RepairsBooks`, `LedgerHeals` | 327,308 |
| channel | an order and an emergency sale, 2 attempts | `FirstCarriesItsOwn`, `LaneKeepsHeaders`, `TakenOnce`, `BlockLasts`, `EmergencyEnds` | 814,705 |
| subscriptions | 2 codes, 1 or 2 slots, 2 changes, 2 faults | `LedgerIsReal`, `ActiveIsReal`, `BestAreRegistered`, `WatchedAreServed` | 1,209,525 |
| batch | 1 task, 2 workers, 2 attempts, 2 days, 2 requests | `OncePerDay`, `PausedByRequests`, `IdleHasNoRun`, `TicketsSettle`, `ShutdownEnds` | 7,378 |

Three more runs end in a violation; section 5.

**Bounds.**  *Symbols, codes of the ledger and of the scheduler*: locks, orders, entries and rows of two
share nothing, so one shows every behaviour of one; the proofs of `OrderSubmission` cover any number.  *Tasks*: two are a holder
and a waiter, or a caller and a release; a third caller only queues behind them.
*Attempts* 2 is the least with a backoff.  *TTL* 0: an entry is fresh or too old at its next tick.
*LostAnswers* is none in `submission`, at most one lost order per
attempt in `submission_once`.  *MaxWork* stops new callers when
three things (live orders, entries, wake-ups, tasks) are under way: the order,
its deferred successor and the caller that defers.  *Qty* of `fills` 3 is the least where an
old polled total is neither nothing nor all of two executions; *MaxOrders* 2
the least with a late report of an earlier order; *MaxShared* 1 keeps to one order where both sources
report (with 2, `PollingHeals` holds as well, in 1,455,598 states).  *PerKey* 2 lets an order inherit the mismatch count of the one
before, and with *Qty* 1 an order is executed or not; one order per side of 2, which may be open with a part
executed, passes as well (13,342 states), and the theorems are for any numbers.  *Ages* stop at `TTL + 1`,
mismatch counts at 2, where nothing distinguishes them.  *MaxCount* reaches every
limit of the kill switch, whose limit of losses in a row (1) is met before the day's (2), or after it where a
position does not count; *MaxFailed* 1 is a file that is one write behind; two strategies share lock and file.

*Scheduler*: 2 shares, so that half of a position is something; 2 days, so that
yesterday's progress can be taken for today's; 1 stop, shutdown or crash.  The theorems hold for any number of
each.  No purchase while shares are held and no second one once one is on record;
the sales of the last tier's time are taken and executed (`Firm`); the row the ledger misses is
of a purchase the records have.  *Ledger*: trades of one share; a paper account
has manual orders only.  *Channel*: two orders are a waiting and a working one of
different lanes (the emergency's against the normal one's); a lane has one slot, so
a third waits; a threshold of 2 failures is opened by one order's failing twice or
by both.  *Subscriptions*: 2 codes for 1 slot compete; 2 changes are a code that came without a
rebalance and the one that brings it; 2 faults are a broken line and a late answer, or two connections that fail
(3 changes with 1 fault pass as well, in 1,355,307 states); a
code without ticks is refreshed once.  *BatchWork*: two workers, one more than in production,
so that one may be paused while the other works; the queue has room for
all; the second of two requests comes before the first one leaves.

**Symmetry** is declared in `MCOrderSubmission`, for the run `submission_once`.

**Deadlock** is checked everywhere except where bounded orders, trades or faults really end:
`FillReconciliation`, `VirtualLedger`, `Subscriptions`.


## 4. Fairness

`OrderSubmission`: the awaits of `submit` return (`WF` of `Submit(t)`: HTTP calls
and sleeps time out); `asyncio.Lock` is FIFO, so a waiter that is passed over
only while the lock is held gets it (`SF` of `Defer \/ Enter`); the event loop
runs every created task (`SF` of `StartRelease`, because the model's tasks are a
fixed set and a wake-up must find an idle one; in the program
`create_task` makes one).  Nothing is assumed of callers, reports, ticks, the reconciliation.

`FillReconciliation`: the scheduler loop polls again and again (`WF` of
`PollStart`), a query that is repeated is answered in the end (`SF` of
`PollRows`), and the FIFO lock lets polling in between notices (`SF` of
`PollApply`).  A row that raises ends one poll and not the next.  Notices have no fairness: they may all be lost.

`BrokerReconcile`: the startup goes through and the check runs after every session
(`WF`); its queries succeed in the end (`SF`).

`VirtualLedger`: days follow each other and the scheduler's loop comes to its
reconciliation on some of them, whose queries do not all fail (`SF`); a task that has begun
ends (`WF`).

`OrderChannel`: an order's own awaits return (`WF`), the holder of the token's lock gets on
and asyncio's FIFO lock lets the waiter in (`SF` of `GetToken`), a minute ends
(`WF`).  Nobody else has to act: `EmergencyEnds` does not need the other lane.

`Subscriptions`: coroutines go on, frames are answered or time out, the receive task
reconnects, and the watchdog looks every minute (`WF`): of the forced reconnection only for
a receive task that is dead, as that of a live one needs an outage of the data.  No fairness of callers;
faults are bounded, which is what "in the end" means.

`BatchWork`: a worker that waits at the queue gets a ticket and a handler that
waits at its gate goes on every time the gate opens (`SF`); requests end, and not without a moment
when none is there (`SF` of the last `Leave`).  A load of requests that
overlap for ever starves the work after the close; the code has nothing against it.

The scheduler's and the kill switch's properties are safety only.


## 5. Where the code and its documentation part

Each is a run that TLC refutes; PROJECT.json `findings` has the quoted lines.

* **submission_once**: a transient error, a timeout whose request the broker took
  included, is retried with a new order request.  The retry queue keeps orders
  out because they are not idempotent; `BrokerOrderSubmitter` does not.
* **channel_headers**: every attempt copies the shared headers anew, after a wait in which
  the order of the other lane has put its own there: a retried BUY is posted with the SELL's
  tr_id and hashkey.
* **subscriptions_reconnect**: the watchdog's forced reconnection (a dead receive task, or every
  opening of the market after the disconnection at its close) does not clear the
  policy's active codes, so that nothing is subscribed on the new connection until the
  minute's repair, which plans from the same books.


## 6. Behaviours seen while modelling that no run states

These are properties one might expect and the code does not keep; TLC gave the
traces on the modules here, with another bound or without a precondition, or on an
earlier, more detailed form of them.

*Orders*

* *The alarm blocks at once*
  (`fill_reconciliation_service.py:126`): it is read before the lock (`Call`),
  so a caller in `wait` or `gate` registers after the alarm went up.
* *A deferred signal is fresh when sent* (`deferred_order_queue.py:10`): the age is
  checked at the pop; the retry may wait for the lock and the gates, or be deferred anew with age 0.
* *A tripped switch stops orders at once* (`docs/operations_runbook.md:59`): the
  gate asks once, and the order goes out after further awaits.

*Reports*

* *An execution counts once*: a polled total is taken with max() and the increment of a notice is added
  to it (`fill_reconciliation_service.py:486`), and the event key differs by source:
  the notice of an execution the total contains counts it again.
* *A report stays with its order*: a late notice of the key's last order is applied to
  the next one by the fallback to the side, and replaces its order number (`:497`).
* *A canceled order keeps its executed part*: the CANCELED row ends the order
  without its quantity (`:472`), visible in `StateAfter` and `Applied`.
* *Every completed order is notified*: the notification mark is per key and state
  and is never cleared (`:230`).  Notifications are not in the module.

*Reconciliation*

* *An open order is restored as open*: a row of today's executions makes the restored order of its key FILLED
  whatever its quantity (`:795`); the row may even be of an earlier order.
* *One mismatch changes no state* (`fill_reconciliation_service.py:836`, with `:837` for the two in a row): the
  count belongs to the side (`:933`) and outlives its order.  Order 1 is canceled and one check counts its mismatch; its report
  arrives; order 2 of the side is accepted after the next check asked for the open orders, so it is missing there:
  this first mismatch of its own is the second of the count, and it is given up though it is open.
  `GivenUpIsDead` without its `~Inherited(d)` has this trace; with it, the property says there is no other way.
* *A clean check clears the alarm* (`:841`): a position bought and sold within the
  day is `Vanished` at every check.
* *Given up means unfilled* (`:838`): a SELL executed on an earlier day has no row
  among today's, and is given up as canceled.
* *No order goes out while not synchronised* (`view/web/web_main.py:130`):
  `RestoreFails` and `AskFails` open the phase with an incomplete book.

*Kill switch*

* *The file is the switch*: a start that cannot read it logs that and begins released (`kill_switch_service.py:540`).
* *It survives a crash*: a crash between the save of a counter and
  the save of `_trip`, or after a failed write, restores a released switch.
  `OverLimitIsTripped` and `OnlyOperatorReleases` hold outside these two, and say so.
* *The loss of the day is of the day* (`kill_switch_service.py:441`): nothing calls
  `reset_daily_counters`.
* *A block of both sides stays one*: the daily report looks at the switch
  (`strategy_log_report_task.py:152`) and overwrites it after the lock; a strategy tripped by its losses in
  between may sell again.

*Scheduler*

* *A stop by hand is remembered* (`view/web/routes/scheduler.py:57`): `stop` closes the store
  (`strategy_scheduler.py:425`) before `clear_saved_state` (`:62` of the route) writes to it, which fails
  silently: the next process starts the strategies again.
* *Flat before the close* by the net of the records: two errors of the records may cancel out.  With three shares,
  a sale the records have that dies and a sale of a cancelled loop that they have not
  leave records whose net is what is held, by chance.  That is why `FlatBeforeClose` excuses a day on which the records and what
  was traded have been apart at any time (`parted`).
* *Flat before the close* on a day on which something `lingered`: a BUY executed but not reported when the last tier
  runs is neither in the ledger nor recovered, and the tier is noted (`:102`); the retry of the first tier,
  still open, defers the second tier's sale with a quantity that is stale when it goes.  `FlatBeforeClose` excuses
  those days only: whatever outlasted an earlier tier and ended before the last one ran is in the run and the theorem.
* Two stops and starts may cross: a `start` during the awaits of a `stop` leaves a loop
  nobody holds or strategies disabled under a running loop; `start_strategy` in the wait makes no loop.
  A stop and a start within the last tier's time do not run it again, and a last tier that fails for another
  reason than the breaker is not retried.
* A popped retry and the deferred queue outlive `stop`.  Two threads that save the state may
  write out of order.

*Ledger*

* A purchase that is logged between the balance and the reading of the rows is
  force-closed (`virtual_trade_service.py:274`); a code sold in between is registered
  again as `broker_reconciled`; a force-close takes the newest row, which may be another than the one it read.
  A report that is late by a whole reconciliation gives a second row.
* The scheduler's reconciliation has no guard for a replaced paper account, the opening task's has.
* `docs/opening_position_reconcile_policy.md:20` says a quantity is only warned about; the service corrects it
  when there is one row (`:321`).

*Channel*

* *An order is not sent twice* (`client_with_retry_queue.py:8`: orders are kept out of retries because they are not
  idempotent): a JSON answer with an error ends the call, but one that is no JSON raises
  (`korea_invest_api_base.py:264`) and is retried (`:163`), though the broker may have taken the order.
  `TakenOnce` without its `unread` has this trace; with it, it says that this is the only way.
* The failure of a hashkey request is a response object, which is taken for the hashkey; the order then fails
  at every attempt without being sent.
* `refresh_token` takes no lock: it throws away the token another call has just
  fetched, and the broker's minute (EGW00133) costs both 65 seconds.
* Orders that passed the breaker and wait for their lane are sent after it opened; their failures extend it.
* `ApiRequestQueue.stop` leaves the futures of what it held unresolved (`api_request_queue.py:80`);
  a cancelled sleeper keeps its rate slot (`api_budget_limiter.py:258`).

*Subscriptions*

* In mode "busy" overlapping rebalances carry out stale plans: a code that was removed is
  subscribed, or two codes compete for a slot both plans gave away.
* *The rebalance of the start happens in the background* (`view/web/web_main.py:141`): the start registers its codes with
  `rebalance=False` (`:144`) after the watchdog's task was created.  If that has restored by then, nothing
  rebalances; the repair passes over codes that were never asked for, as their age is 0
  (`websocket_watchdog_task.py:276`); they stay unsubscribed until another change.  `WatchedAreServed` leaves out
  what no rebalance has seen (`late`), and without that has this trace.
* *A free slot is used*: a code that is dropped for an old price leaves its slot empty until the next rebalance
  (`subscription_policy.py:197`).  That is why `BestAreRegistered` claims the best codes after one (`late = {}`).
* Answers are matched by code: the late answer of an earlier request confirms a later
  one, so that a code is active without a registration, or keeps a slot nobody counts.  A code that is unsubscribed
  and at once subscribed again (a refresh, a dropped favorite) meets this without a fault: the answer
  to the first is taken for that to the second.
* A connection that is cut, forced or given up before the policy's books are cleared leaves entries in the
  client's ledger that the next connection has not: a code confirmed late is in the ledger only, and
  keeps its stale entry until the next rebalance.  Mode "calm" leaves these out; with a watchdog's connection that
  fails `LedgerIsReal` fails, and `WatchedAreServed` still passes.
* An unsubscription while the line is down is forgotten by the client's ledger only when it was
  sent: the reconnection subscribes the code again.
* With fewer slots than codes, the resubscriptions of a reconnection go out in the order of a set:
  a code that is refused leaves the ledger, but stays active in the policy's books and is not asked for
  again (`ActiveIsReal` is about slots for all; without that TLC finds it with 3 faults and 1 slot).
* Codes of `add_subscription` are not noted as wanted in the repository, so the repair never
  looks for them.

*Batch work*

* A crash between the save of the date and the publication loses the ticket of the
  day; so does a full queue.  `opening_position_reconcile` is registered with the dispatcher without a
  handler (`scheduler_bootstrap.py:127`), so its ticket is dropped.
* A task whose run ended while it was suspended shows RUNNING after the resume until its next run.
* `_is_collecting` (`ohlcv_update_task.py:144`) is checked, awaited and set: two runs may
  collect at the same time.


## 7. Proofs

| Module | Theorem | Statement |
|---|---|---|
| `OrderSubmission` | `TypeCorrect` | `Spec => []TypeOK` |
| | `CallGuarded` | `Spec => []CallIsGuarded` |
| | `OneLive` | `Spec => []OneLiveOrder` |
| | `NoneForgotten` | `Spec => []NoLostWakeup` |
| | `Implements` | `Spec => ImplementsBook` |
| `FillReconciliation` | `FillsInvariant`, `NoExecutionTwice` | `Spec => []IInv`, `Spec => []FilledIsExecuted` |
| | `RecordedOnce`, `FillsOnlyGrow` | `Spec => LedgerIsOnce`, `Spec => FilledOnlyGrows` |
| `KillSwitch` | `SwitchTyped`, `LimitTrips` | `SwitchSpec => []SwitchTypeOK`, `SwitchSpec => []OverLimitIsTripped` |
| | `OperatorReleases` | `SwitchSpec => OnlyOperatorReleases` |
| `BrokerReconcile` | `ReconcileTyped`, `Blocks` | `Spec => []TypeOK`, `Spec => []NumberlessBlocks` |
| | `Tracked`, `DeadWhenGivenUp` | `Spec => []OpenIsTracked`, `Spec => GivenUpIsDead` |
| `OrderChannel` | `ChannelTyped`, `FirstIsOwn` | `Spec => []TypeOK`, `Spec => []FirstCarriesItsOwn` |
| | `LaneKeeps` | `Spec => []LaneKeepsHeaders` |
| | `NeverTakenTwice` | `Spec => []TakenOnce` |
| | `BreakerLasts` | `Spec => BlockLasts` |
| `BatchWork` | `WorkTyped`, `OnceADay` | `Spec => []TypeOK`, `Spec => []OncePerDay` |
| | `PausesMatch`, `IdleIsIdle` | `Spec => []PausedByRequests`, `Spec => []IdleHasNoRun` |
| `StrategyScheduler` | `Lives`, `LoopInHand` | `Spec => []LifeInv`, `Spec => []OneLoopInHand` |
| | `FinalStop`, `Remembered` | `Spec => []StopIsFinal`, `Spec => ShutdownIsRemembered` |
| | `SchedulerTyped` | `Spec => []TypeOK` |
| | `FlatAtTheClose` | `Spec => []FlatBeforeClose` |
| `VirtualLedger` | `LedgerInvariant`, `LedgerTyped` | `Spec => []IInv`, `Spec => []TypeOK` |
| | `OneRowEach`, `ReplacedAccountKeepsRows` | `Spec => []OneHold`, `Spec => []RolloverKeepsHolds` |
| | `UndisturbedRepairs` | `Spec => RepairsBooks` |
| `Subscriptions` | `SubscriptionsTyped`, `LedgerReal` | `Spec => []TypeOK`, `Spec => []LedgerIsReal` |
| | `ActiveReal`, `BestRegistered` | `Spec => []ActiveIsReal`, `Spec => []BestAreRegistered` |

They assume each module's `ConstantsAssumption` (`SwitchConstants` in `KillSwitch`) and nothing else.  Where the code has
an exception the property has it, in the state the exception comes from: `unread` in `TakenOnce`, `lingered`, `parted` and
`crossed` in `FlatBeforeClose`, `Inherited` in `GivenUpIsDead`, `strayed` in `OpenIsTracked`, `late` in
`BestAreRegistered`.  Section 6 has the trace behind each.

**OrderSubmission.**  `OneLiveOrder` is not inductive: `Register` does not look at
the orders again, it relies on what `Enter` saw.  `IInv` is `TypeOK` and, per
task, `HolderInv` (from `gate` on the task holds the lock of its symbol; at the
gates the symbol is free; in a call its order is the numberless
PENDING_SUBMIT), `KeyInv` (what kind of task has which key) and `AttemptInv`
(a task that sleeps has an attempt left).  A step of one task
leaves the others alone because two holders are on different symbols (`Holders`,
`OtherTask`); a report needs the lock to be free; the lock-free `GiveUp` needs a
number, which no order in a call has.  `TypeStep` and `TaskStep` go through the
actions one by one.  `OrdersStep` then says what any step does to the orders:
nothing, an admission under a free symbol, or progress along the table.  That is
`OrderBook`'s next-state relation, and `OneLiveOrder` is inductive under it.
`NoLostWakeup` is inductive with `IInv`: `BusyStep` (an order that stops being
alive leaves a wake-up), `StillPops` (a release run past its BUY entry will still
pop the SELL entry, whatever its `submit` ends in) and `ServedStep`.

**FillReconciliation.**  `FilledIsExecuted` compares a sum over the notices seen with what was executed.  The sum is
never computed: `NoticesInv` says that the executed shares can be *split* among the notices (`Split`, a
set of shares for each, disjoint, as large as the notice says), so that the filled quantity is the number of
shares in the notices seen.  An execution extends the witness by the new notice, a notice that counts adds a
set disjoint from those before, and no set of executed shares is larger than all of them.  For polling,
`RowsInv` says that a row that was not seen is of the order under way and its only one, and has no more than
was executed.  `EndedInv` keeps the
orders of a key apart: when an order ends here, every report of it that could have an effect was seen, so
none is left for the next one.  That is what fails with two sources, where `FillsOnlyGrow` and `RecordedOnce` hold.
`LedgerInv`, for any sources: what is recorded of the order under way is recorded in its context, which is
terminal then and takes no more, and other orders' quantities nobody touches.

**KillSwitch.**  `OverLimitIsTripped` speaks of a free lock; its strengthening says which one switch
may be behind its counters while the lock is held: the account's at `trip` (`AccountInv`), strategy `s`
while `lock = s` (`StrategyInv`), and no other.  `FileInv`, the file is the memory unless a write
failed, carries both over a restart.  `OneStrategy` does the four steps that change one strategy.

**BrokerReconcile.**  `BlockInv`: an order without a number that is taken for open keeps its alarm, because no
check looks it up.  `NumberInv`: the orders of a side are taken one after the other, and the number a
context has is of an order of its side the broker took.  `CountInv`: a mismatch was
counted for an order (`counted`) the broker took before the check under way began, so the check has it among the open
ones as long as it is open; that is why an order given up on its *own* count is not open, and where the count is another
order's nothing is known.  `BookInv`: from the restore of the open
orders on, an open order without an execution has its side's context (`Has`: by its number, or as the latest
order of the side while the number is unknown), unless it strayed; and no check runs before.

**OrderChannel.**  `CallInv` is about one call: the first attempt has its own headers, and what is
taken and still to be sent had an answer nobody could read.  `OwnInv` says the shared headers are those of the lane's call as
long as there is one lane, `LaneInv` that a slot has one call.

**BatchWork.**  `IdleHasNoRun` needs that the depth of a task is the number of the runs inside, forced one
included; the proof counts the set of those workers (`Cardinality`) through each step that enters or leaves.
`DatesInv`: a ticket that is pending or was issued has its date saved, and the running process knows
every date of today that is saved; so no crash between the two gives a second ticket.  `GatesInv`: the pool
is open when no request is served, and a task behind its gate is suspended for one.

**StrategyScheduler, its life.**  `LifeInv` leaves out what is traded.  `CallInv` says where the one call
that stops or restores stands, `LoopInv` that as long as no start crossed a stop there is one loop, which is
`_task`, and the stop waits for it, `LeftInv` that what the shutdown saved is
still there when the next process reads it.

**StrategyScheduler, its day.**  `Books` holds always: a row has what the strategy has and what an executed sale will
take (`BookInv`), records and what was traded are the same unless they were `parted`
(`RecordInv`).  `DayInv` adds what holds while nothing `lingered`; `DueInv` is the two together.  `DueStep` has the two ways into `DayInv`: a last
tier's time that begins with nothing under way, and one in which everything ended before the tier ran (`SettledDay`),
whatever an earlier tier's order or retry sold.  `ExitInv` is the heart of it: in the time of the last tier,
as long as ledger or records *know* what is held, either all of it is on sale, or there is no open order and
every sale that is to come (planned by any actor, deferred, or asleep behind the breaker) is for all of it.  So
whichever of them is placed first sells everything, and every other meets it; that is why a retry, a restart, a
deferred entry and the loop cannot sell half or twice.  `ComingInv`: once the tier was run and while
nothing stopped the strategy, there is such a sale or nothing is left; a loop that is cancelled with its
order on the way is excluded by `LoopInv`, and a stop by `HandInv`.  The settling of the slot then leaves
nothing (`FlatInv`).  The steps come in four kinds, each with a lemma: those that trade (`TradeDay`), plan
(`PlanDay`), belong to the life (`LifeDay`), or pass time.  The first attempt compared the net of the
records at the cutoff only; the proof did not go through, and TLC has a counterexample with three shares
(section 6), which is why `parted` is in the module.

**VirtualLedger.**  Rows have distinct names, and every write keeps that: a purchase of a name that has a
row adds to it, a reconciliation changes or removes rows it found by name, and one that adds looks first.  The
balance is a fold over the traders, which would need induction; instead the function the fold chooses is
compared with the one that counts pairs of a trader and a share, on a smallest set on which they differ.
`QuietInv` is about a reconciliation nothing traded in (`quiet`): it knows the balance, and
the rows are as it read them or as the *other* undisturbed reconciliation leaves them (`OnCourse`), which is
why two of them that overlap still leave the right quantity.  `FreshInv`: until a replaced account trades nothing is
held or reported, and the opening task does not close.

**Subscriptions.**  The three invariants speak of the moment when two queues, requests and answers, are empty; their
strengthening says what each queue may hold before that.  `Steps` first reduces every action to its effect, so that the
proofs by cases do not look at records again, and `SendFacts`, `TakeFacts`, `ReplyFacts` and `HearFacts` say what a
queue holds after a frame was added or taken.  `AskedInv`: what was not asked for on this connection is neither
registered nor on its way.  `PlanInv`, as long as nobody starts while another is at work: there is one
plan, which drops what is not desired and takes what is.  *Calm* has three parts.  `TrafficInv`, per code: an answer of
success to the request the client last sent means that the code is registered, and an unsubscription on its way is of
a code outside the ledger, with no subscription ahead of it that could be taken for a newer one; that is what
matching answers by code alone needs, and what a resubscription keeps because it runs on a new
connection.  `LedgerInv`: a code in the ledger is registered, still to be resubscribed, in the plan, or waits for an answer
that will settle it.  `StartInv` and `CutInv` are about callers that were there before the watchdog restored.
`RoomInv` adds, for slots for all, that no desired code is refused (`RoomForAll` counts).  `BestInv`, for runs without a
fault, computes ahead: `Ending(c)`, the code will be registered once the wire is empty, is true of exactly the active codes
and the one that is waited for, and there are no more of them than slots (`Fits`).  `Settled` is what idle coroutines leave: only wanted codes are
active, and exactly the best unless something came or went without a rebalance.  No subscription is refused
because the unsubscriptions go first and `DesiredFacts` (an injection of the ranks into the slots) says there are no more desired codes than
slots.  `BestAtRest` says what holds when nothing is under way, `BestOfOne` that only one
job is to be looked at, and `FlowDrops`, `FlowTakes`, `FlowAnswers` what a frame that is sent, taken or answered does to `Ending`.
TLC checked this
invariant on the instance of the run, on 3 codes, and on 2 callers, before it was proved.

**Only model-checked.**  The liveness properties: the prover has no fairness and no ENABLED.  Every invariant
and every action property of the passing runs has a theorem.


## 8. Not modelled, and the plan

*Parts of modelled components that are left out*: a registration of the reconciliation that `log_buy` takes for
the repetition of a record of the same second; the deadlines of the fast poll, the index
of intents, the escalation in `safe_transition`, the bound of 5000 processed events (with the bound reached
an old notice counts again), the warning for stuck orders, the cancellation by an
operator, the execution-quality metrics; the modes of the kill switch
that only notify or are off; the contents of the gates (`OrderSubmission` has their outcome);
rate slots and the cache of the HTTP layer; the subscriptions for program trading, whose
slots are taken off; several strategies and the sizing of their orders, as
strategies meet in the ledger's rows by name only.

*Components that are left out*:

* `OrderExecutionService` is a facade: it validates arguments and hands over to the parts above.
* `ApiRequestQueue` serves queries; orders bypass it.
* Caches, notifications, operator alerts: they change nothing that the modelled parts read.
* Strategies, indicators, backtests, reports, research, news, themes, AI: computations on market
  data, with little state and no interleaving; most of the repository's lines.
* The overseas dry run places no orders.

*Next*: submission and reports composed in one module, so that a late report meets the very submission it
was for; the risk gate's rules as operators against a reference; the request queue with
its stop; the streaming of ticks.
