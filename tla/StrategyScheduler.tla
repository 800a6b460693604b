-------------------------- MODULE StrategyScheduler --------------------------
(***************************************************************************)
(* The life of StrategyScheduler and the day of one strategy that must not  *)
(* hold overnight (force_exit_on_close): start, stop and restart, the loop  *)
(* and its forced exits in tiers, the retry after the circuit breaker, the  *)
(* state kept in SQLite, and the requests that come in between.             *)
(*                                                                          *)
(* The strategy trades one code and wants one position.  What becomes of an *)
(* order is the matter of OrderSubmission and FillReconciliation: here the  *)
(* coordinator defers an order while another of the code is open, and an    *)
(* order executes in one piece or not at all.                               *)
(***************************************************************************)
EXTENDS Integers, FiniteSets

CONSTANTS
    Qty,        \* shares of a buy signal
    Loops,      \* loop tasks
    NoLoop,     \* _task is None
    MaxDays,    \* bound: trading days
    MaxStops    \* bound: stops, shutdowns and crashes

ASSUME ConstantsAssumption ==
    /\ Qty \in Nat \ {0}
    /\ IsFiniteSet(Loops) /\ NoLoop \notin Loops
    /\ {"stop", "retry"} \cap Loops = {}
    /\ MaxDays \in Nat \ {0} /\ MaxStops \in Nat

VARIABLES
    day,
    slot,       \* stretch of the day, see Slots
    up,         \* the process runs
    running,    \* _running
    enabled,    \* cfg.enabled
    task,       \* _task
    job,        \* what each loop does, the call that stops (or restores), and the
                \* retry that woke up
    call,       \* which call that is: stop_strategy ("one"), stop ("all"),
                \* stop(save_state=True) of the shutdown ("save"), "restore"
    progress,   \* _force_exit_progress, in halves
    synced,     \* _force_exit_done_date
    retry,      \* quantity of the retry that sleeps, 0 for none
    order,      \* the open order of the code
    deferred,   \* the entry of the deferred-order queue
    own,        \* the strategy's shares at the broker
    ledger,     \* quantity of its HOLD in the ledger
    signals,    \* today's successful records of _signal_history: the net quantity,
                \* and whether a BUY is among them
    kept,       \* the same in SQLite
    saved,      \* the saved state: "none", or whether the strategy was enabled
    store,      \* the SQLite connection is open
    covered,    \* the strategy was not stopped once its last tier was run; from the
                \* cutoff on, it ran when that came and was not stopped since
    crossed,    \* a request to start came while a stop was under way
    halted,     \* the last request of this process was the route's stop
    stops,      \* stops, shutdowns and crashes so far
    left,       \* what a shutdown of the last process left: "on", "off", "unknown"
    parted,     \* today the records of a process and what was traded have differed
    lingered    \* an order or a retry was under way when the time of the last tier
                \* began, and has not ended before that tier ran; or when it ended
                \* (the last eight are no fields of the program)

clock == <<day, slot>>
life == <<up, running, enabled, task, call>>
exits == <<progress, synced>>
market == <<order, deferred, own, ledger>>
records == <<signals, kept>>
disk == <<saved, store>>
asked == <<covered, crossed, halted, left, stops>>
vars == <<clock, life, job, exits, retry, market, records, disk, asked, parted, lingered>>

\* Regular trading; from 30 and from 25 minutes before the close (FORCE_EXIT_TIERS); from
\* 20 minutes before it (the order cutoff) to the next open.
Slots == [Regular |-> 1, Half |-> 2, All |-> 3, Cutoff |-> 4]

Actors == Loops \cup {"stop", "retry"}
NoOrder == [side |-> "none", qty |-> 0, done |-> FALSE]
NoJob == [pc |-> "none", side |-> "none", qty |-> 0, forced |-> FALSE,
          cancelled |-> FALSE, awaits |-> NoLoop]
NoSignals == [net |-> 0, bought |-> FALSE]

Sides == {"none", "BUY", "SELL"}
Shares == 0..Qty
Orders == [side : Sides, qty : Shares, done : BOOLEAN]

\* Bound: how far the net of the records may drift from what was traded.
Nets == (-2 * Qty)..(2 * Qty)
Signals == [net : Nets, bought : BOOLEAN]

Jobs == [pc : {"none", "top", "wait", "plan", "submit", "disable", "close"},
         side : Sides, qty : Shares, forced : BOOLEAN,
         cancelled : BOOLEAN, awaits : Loops \cup {NoLoop}]

FieldsOK ==
    /\ day \in 1..MaxDays /\ slot \in 1..4
    /\ {up, running, enabled, store, covered, crossed} \subseteq BOOLEAN
    /\ task \in Loops \cup {NoLoop}
    /\ job \in [Actors -> Jobs]
    /\ call \in {"none", "one", "all", "save", "restore"}
    /\ progress \in 0..2 /\ synced \in 0..MaxDays /\ retry \in Shares
    /\ order \in Orders /\ deferred \in Orders
    /\ own \in Shares /\ ledger \in Shares
    /\ signals \in Signals /\ kept \in Signals
    /\ saved \in {"none", "on", "off"}
    /\ {halted, parted} \subseteq BOOLEAN /\ stops \in 0..MaxStops /\ left \in {"on", "off", "unknown"}

TypeOK == FieldsOK /\ lingered \in BOOLEAN

Init ==
    /\ day = 1 /\ slot = Slots.Regular
    /\ up = FALSE /\ running = FALSE /\ enabled = FALSE
    /\ task = NoLoop /\ call = "none" /\ job = [a \in Actors |-> NoJob]
    /\ progress = 0 /\ synced = 0 /\ retry = 0
    /\ order = NoOrder /\ deferred = NoOrder /\ own = 0 /\ ledger = 0
    /\ signals = NoSignals /\ kept = NoSignals
    /\ saved = "none" /\ store = FALSE
    /\ covered = TRUE /\ crossed = FALSE /\ halted = FALSE /\ left = "off" /\ stops = 0
    /\ parted = FALSE /\ lingered = FALSE

Open == order # NoOrder
Alive(l) == job[l].pc # "none"
At(a, pc) == job[a].pc = pc
Least(m, n) == IF m < n THEN m ELSE n

-----------------------------------------------------------------------------
(* Time *)

\* Mutant of Progress: what an earlier day's exits have done counts.
ProgressOfAnyDay == progress

\* _sync_force_exit_done_date
Progress == IF synced = day THEN progress ELSE 0

\* _pending_force_exit_tier: the furthest tier that is due, 0 for none.
Tier(p) == IF slot \in {Slots.Half, Slots.All} /\ p < slot - 1 THEN slot - 1 ELSE 0

\* No order and no retry is under way.
AllSettled ==
    /\ ~Open /\ deferred = NoOrder /\ retry = 0
    /\ \A a \in Actors : job[a].pc \in {"none", "top"}

\* A loop that waits for nothing comes round in the time of the last tier.
NextSlot ==
    /\ slot # Slots.Cutoff
    /\ slot = Slots.All /\ running /\ enabled /\ AllSettled => Tier(Progress) = 0
    /\ slot' = slot + 1
    /\ covered' = (covered /\ (slot = Slots.All => running /\ enabled))
    /\ UNCHANGED <<day, life, job, exits, retry, market, records, disk, crossed, halted, left, stops>>

\* Orders, a retry and the records that count are of the day.
NextDay ==
    /\ slot = Slots.Cutoff /\ day < MaxDays /\ AllSettled
    /\ day' = day + 1 /\ slot' = Slots.Regular
    /\ signals' = NoSignals /\ kept' = NoSignals
    /\ covered' = TRUE
    /\ UNCHANGED <<life, job, exits, retry, market, disk, crossed, halted, left, stops>>

-----------------------------------------------------------------------------
(* Broker, order book and ledger, as the scheduler meets them *)

Executes ==
    /\ Open /\ ~order.done
    /\ order' = [order EXCEPT !.done = TRUE]
    /\ own' = IF order.side = "BUY" THEN own + order.qty ELSE own - order.qty
    /\ UNCHANGED <<clock, life, job, exits, retry, deferred, ledger, records, disk, asked>>

\* The report ends the order and writes the ledger: a BUY only if the strategy holds
\* nothing, a SELL up to what it holds.
Reported ==
    /\ up /\ Open /\ order.done
    /\ order' = NoOrder
    /\ ledger' = IF order.side = "SELL" THEN ledger - Least(order.qty, ledger)
                 ELSE IF ledger > 0 THEN ledger ELSE order.qty
    /\ UNCHANGED <<clock, life, job, exits, retry, deferred, own, records, disk, asked>>

\* The row of a BUY is not written, though the records know of it.
LedgerMisses ==
    /\ up /\ order.side = "BUY" /\ order.done
    /\ signals.net >= order.qty
    /\ order' = NoOrder
    /\ UNCHANGED <<clock, life, job, exits, retry, deferred, own, ledger, records, disk, asked>>

\* The broker takes and executes the sales of the last tier's time.
Firm(o) == o.side = "SELL" /\ slot = Slots.All

\* Cancelled by hand or by the broker.
Dies ==
    /\ Open /\ ~order.done /\ ~Firm(order)
    /\ order' = NoOrder
    /\ UNCHANGED <<clock, life, job, exits, retry, deferred, own, ledger, records, disk, asked>>

\* The broker refuses to sell more than the account has.  Bound: what is bought while the
\* strategy holds shares does not go through.
Covers(o) == IF o.side = "SELL" THEN o.qty <= own ELSE own = 0

\* The deferred-order queue submits its entry, which may be refused or too old.
DeferredGoes ==
    /\ up /\ deferred # NoOrder /\ ~Open
    /\ deferred' = NoOrder
    /\ \/ Covers(deferred) /\ order' = deferred
       \/ /\ Firm(deferred) => ~Covers(deferred)
          /\ UNCHANGED order
    /\ UNCHANGED <<clock, life, job, exits, retry, own, ledger, records, disk, asked>>

-----------------------------------------------------------------------------
(* _execute_signal: the answers to an order that is under way *)

Asks(a) == [side |-> job[a].side, qty |-> job[a].qty, done |-> FALSE]

\* What the actor does when it has its answer.
Answered(a) ==
    job' = [job EXCEPT ![a] = [NoJob EXCEPT !.pc =
                IF a \in Loops THEN "top" ELSE IF a = "stop" THEN "disable" ELSE "none"]]

\* _record_signal of a success.  Bound: the net stays within Nets.
Record(o) ==
    LET net == IF o.side = "BUY" THEN signals.net + o.qty ELSE signals.net - o.qty
    IN  /\ signals' = [net |-> IF net \in Nets THEN net ELSE signals.net,
                       bought |-> signals.bought \/ o.side = "BUY"]
        /\ kept' = IF store THEN signals' ELSE kept

Submits(a) == At(a, "submit") /\ ~job[a].cancelled

\* An order of the code is alive: ORDER_DEFERRED.
Deferred(a) ==
    /\ Submits(a) /\ Open
    /\ Answered(a)
    /\ deferred' = IF deferred = NoOrder THEN Asks(a) ELSE deferred
    /\ UNCHANGED <<clock, life, exits, retry, order, own, ledger, records, disk, asked>>

Taken(a) ==
    /\ Submits(a) /\ ~Open /\ Covers(Asks(a))
    /\ Answered(a)
    /\ order' = Asks(a) /\ Record(Asks(a))
    /\ UNCHANGED <<clock, life, exits, retry, deferred, own, ledger, disk, asked>>

\* A gate, the broker or an exception.
Refused(a) ==
    /\ Submits(a) /\ ~Open
    /\ Firm(Asks(a)) => ~Covers(Asks(a))
    /\ Answered(a)
    /\ UNCHANGED <<clock, life, exits, retry, market, records, disk, asked>>

\* The circuit breaker is open and a forced exit is retried when it closes, unless that
\* is after the cutoff (then the answer is like Refused): one retry sleeps at a time.
Blocked(a) ==
    /\ Submits(a) /\ ~Open /\ job[a].forced /\ slot # Slots.Cutoff
    /\ Answered(a)
    /\ retry' = IF retry = 0 THEN job[a].qty ELSE retry
    /\ UNCHANGED <<clock, life, exits, market, records, disk, asked>>

-----------------------------------------------------------------------------
(* Forced exits *)

\* _get_force_liquidation_holdings: the ledger's, or what today's records and the balance
\* agree on; the balance may fail to come.
Liquidation(answered) ==
    IF ledger > 0 THEN ledger
    ELSE IF answered /\ signals.bought /\ order.side # "BUY" /\ signals.net > 0
         THEN Least(signals.net, own)
    ELSE 0

Sell(n, forced) ==
    IF n = 0 THEN [NoJob EXCEPT !.pc = "top"]
    ELSE [NoJob EXCEPT !.pc = "submit", !.side = "SELL", !.qty = n, !.forced = forced]

-----------------------------------------------------------------------------
(* The loop *)

Turns(l) == l \in Loops /\ At(l, "top") /\ ~job[l].cancelled /\ running

\* A tier is due: noted before it runs, and not again.
ForceExit(l) ==
    LET target == Tier(Progress)
    IN  /\ Turns(l) /\ enabled /\ target > 0
        /\ synced' = day /\ progress' = target
        /\ \E answered \in BOOLEAN :
            LET n == Liquidation(answered)
            IN  /\ target = 2 => answered
                /\ job' = [job EXCEPT ![l] = Sell(IF target = 2 THEN n ELSE n \div 2, TRUE)]
        /\ UNCHANGED <<clock, life, retry, market, records, disk, asked>>

\* check_exits and scan of the regular hours: a sale, a purchase or neither.  Bound: no
\* second purchase once one is on record.
RunStrategy(l) ==
    /\ Turns(l) /\ enabled /\ slot = Slots.Regular
    /\ synced' = day /\ progress' = Progress
    /\ \/ ledger > 0 /\ job' = [job EXCEPT ![l] = Sell(ledger, FALSE)]
       \/ /\ ledger = 0 /\ own = 0 /\ ~signals.bought
          /\ job' = [job EXCEPT ![l] = [NoJob EXCEPT !.pc = "submit", !.side = "BUY",
                                                     !.qty = Qty]]
    /\ UNCHANGED <<clock, life, retry, market, records, disk, asked>>

\* Nothing is due.
Pass(l) ==
    /\ Turns(l)
    /\ enabled => Tier(Progress) = 0
    /\ synced' = day /\ progress' = Progress
    /\ UNCHANGED <<clock, life, job, retry, market, records, disk, asked>>

\* The loop sees that it is not running, or is cancelled, wherever it is: an order that
\* is under way may be taken, unknown to the records.
LoopEnds(l) ==
    /\ \/ At(l, "top") /\ ~running
       \/ Alive(l) /\ job[l].cancelled
    /\ job' = [job EXCEPT ![l] = NoJob]
    /\ \/ UNCHANGED order
       \/ /\ At(l, "submit") /\ ~Open /\ Covers(Asks(l))
          /\ order' = Asks(l)
    /\ UNCHANGED <<clock, life, exits, retry, deferred, own, ledger, records, disk, asked>>

-----------------------------------------------------------------------------
(* The retry after the circuit breaker *)

\* What the balance leaves of the quantity.
Again(n) == Least(n, own)

RetryWakes ==
    /\ retry > 0 /\ At("retry", "none")
    /\ retry' = 0
    /\ \/ /\ \/ ~running \/ slot = Slots.Cutoff \/ (order.side = "SELL" /\ ~order.done) \/ own = 0
             \/ slot # Slots.All       \* a query fails
          /\ UNCHANGED job
       \/ /\ running /\ slot # Slots.Cutoff /\ own > 0
          /\ order.side = "SELL" => order.done
          /\ job' = [job EXCEPT !["retry"] = Sell(Again(retry), TRUE)]
    /\ UNCHANGED <<clock, life, exits, market, records, disk, asked>>

-----------------------------------------------------------------------------
(* The routes *)

\* _save_scheduler_state, which logs what fails.  The routes run it in a thread; here it is
\* done when the route answers.
Saved(on) == IF ~store THEN saved ELSE IF on THEN "on" ELSE "off"

\* Requests are served once the restore is over and until the shutdown.
Serves == up /\ call \notin {"restore", "save"}

\* Bound: so many stops, shutdowns and crashes.
Counted == stops < MaxStops /\ stops' = stops + 1

\* A request to start.
Asked ==
    /\ Serves
    /\ halted' = FALSE /\ crossed' = (crossed \/ ~At("stop", "none"))

\* Loops are alike: the next one is any that is not alive.
NewLoop ==
    /\ \E l \in Loops : ~Alive(l)
    /\ task' = CHOOSE l \in Loops : ~Alive(l)
    /\ job' = [job EXCEPT !["stop"] = IF call = "restore" THEN NoJob ELSE @,
                          ![task'] = [NoJob EXCEPT !.pc = "top"]]

Start ==
    /\ Asked /\ ~running
    /\ enabled' = TRUE /\ running' = TRUE
    /\ NewLoop
    /\ saved' = Saved(TRUE)
    /\ UNCHANGED <<clock, up, call, exits, retry, market, records, store, covered, left, stops>>

\* Mutant of StartStrategy: it makes a loop whenever it is asked to.
StartStrategyAnew ==
    /\ Asked
    /\ enabled' = TRUE /\ running' = TRUE
    /\ NewLoop
    /\ saved' = Saved(TRUE)
    /\ UNCHANGED <<clock, up, call, exits, retry, market, records, store, covered, left, stops>>

\* start_strategy makes a loop if the last one is done.
StartStrategy ==
    /\ Asked
    /\ enabled' = TRUE /\ running' = TRUE
    /\ IF ~running /\ (task = NoLoop \/ ~Alive(task))
       THEN NewLoop
       ELSE UNCHANGED <<task, job>>
    /\ saved' = Saved(TRUE)
    /\ UNCHANGED <<clock, up, call, exits, retry, market, records, store, covered, left, stops>>

\* stop_strategy
StopStrategy ==
    /\ Serves /\ At("stop", "none") /\ Counted
    /\ call' = "one"
    /\ job' = [job EXCEPT !["stop"].pc = "plan"]
    /\ UNCHANGED <<clock, up, running, enabled, task, exits, retry, market, records, disk,
                   covered, crossed, halted, left>>

\* Mutant of StopLoop: it does not wait.
StopLoopUnheard ==
    /\ running' = FALSE
    /\ job' = [job EXCEPT !["stop"].pc = "plan"]

\* stop cancels the loop in hand and waits for it.
StopLoop ==
    /\ running' = FALSE
    /\ job' = IF task = NoLoop THEN [job EXCEPT !["stop"].pc = "plan"]
              ELSE [a \in Actors |->
                     IF a = "stop" THEN [NoJob EXCEPT !.pc = "wait", !.awaits = task]
                     ELSE [job[a] EXCEPT !.cancelled = @ \/ (a = task /\ Alive(a))]]

Stop ==
    /\ Serves /\ At("stop", "none") /\ Counted
    /\ call' = "all" /\ StopLoop
    /\ UNCHANGED <<clock, up, enabled, task, exits, retry, market, records, disk,
                   covered, crossed, halted, left>>

StopWaited ==
    /\ At("stop", "wait") /\ ~Alive(job["stop"].awaits)
    /\ task' = NoLoop
    /\ job' = [job EXCEPT !["stop"] = [NoJob EXCEPT !.pc = "plan"]]
    /\ UNCHANGED <<clock, up, running, enabled, call, exits, retry, market, records, disk, asked>>

\* stop_strategy liquidates an enabled strategy, unless the state was saved.
StopPlans ==
    /\ At("stop", "plan")
    /\ \E answered \in BOOLEAN :
        LET n == IF enabled /\ call # "save" THEN Liquidation(answered) ELSE 0
        IN  job' = [job EXCEPT !["stop"] =
                        IF n = 0 THEN [NoJob EXCEPT !.pc = "disable"] ELSE Sell(n, TRUE)]
    /\ UNCHANGED <<clock, life, exits, retry, market, records, disk, asked>>

StillCovered == covered /\ slot # Slots.Cutoff /\ ~(slot = Slots.All /\ Progress = 2)

\* Mutant of StopDisables: it saves whoever disables.
StopDisablesSaves ==
    /\ At("stop", "disable") /\ call # "restore"
    /\ enabled' = FALSE /\ covered' = StillCovered /\ saved' = Saved(FALSE)
    /\ IF call = "one"
       THEN job' = [job EXCEPT !["stop"] = NoJob] /\ call' = "none"
       ELSE job' = [job EXCEPT !["stop"].pc = "close"] /\ UNCHANGED call
    /\ UNCHANGED <<clock, up, running, task, exits, retry, market, records, store,
                   crossed, halted, left, stops>>

StopDisables ==
    /\ At("stop", "disable") /\ call # "restore"
    /\ enabled' = FALSE /\ covered' = StillCovered
    /\ IF call = "one"
       THEN /\ job' = [job EXCEPT !["stop"] = NoJob]
            /\ call' = "none" /\ saved' = Saved(FALSE)
       ELSE /\ job' = [job EXCEPT !["stop"].pc = "close"]
            /\ UNCHANGED <<call, saved>>
    /\ UNCHANGED <<clock, up, running, task, exits, retry, market, records, store,
                   crossed, halted, left, stops>>

\* What is in memory when a process starts.
Forget ==
    /\ up' = FALSE /\ running' = FALSE /\ enabled' = FALSE /\ task' = NoLoop
    /\ call' = "none" /\ job' = [a \in Actors |-> NoJob]
    /\ progress' = 0 /\ synced' = 0 /\ retry' = 0 /\ deferred' = NoOrder
    /\ signals' = NoSignals /\ store' = FALSE
    /\ covered' = (slot # Slots.Cutoff) /\ crossed' = FALSE
    /\ halted' = FALSE

\* The route's stop ends: the retry that sleeps is cancelled, the connection closed, and
\* clear_saved_state, which comes after, finds it closed.
StopCloses ==
    /\ At("stop", "close") /\ call = "all"
    /\ job' = [job EXCEPT !["stop"] = NoJob] /\ call' = "none"
    /\ retry' = 0 /\ store' = FALSE
    /\ saved' = IF store' THEN "none" ELSE saved
    /\ halted' = (halted \/ ~running)
    /\ UNCHANGED <<clock, up, running, enabled, task, exits, market, records,
                   covered, crossed, left, stops>>

-----------------------------------------------------------------------------
(* The process *)

\* The shutdown saves the state, then stops as above ...
Shutdown ==
    /\ Serves /\ At("stop", "none") /\ running /\ Counted
    /\ call' = "save" /\ StopLoop
    /\ saved' = Saved(enabled)
    /\ left' = IF store THEN saved' ELSE "unknown"
    /\ UNCHANGED <<clock, up, enabled, task, exits, retry, market, records, store,
                   covered, crossed, halted>>

\* ... and the process ends.  A scheduler that does not run is left alone.
ProcessEnds ==
    /\ up
    /\ \/ At("stop", "close") /\ call = "save" /\ UNCHANGED <<left, stops>>
       \/ Serves /\ At("stop", "none") /\ ~running /\ left' = "unknown" /\ Counted
    /\ Forget
    /\ UNCHANGED <<clock, order, own, ledger, kept, saved>>

Crash ==
    /\ up /\ Counted /\ left' = "unknown" /\ Forget
    /\ UNCHANGED <<clock, order, own, ledger, kept, saved>>

\* restore_state: a strategy that was enabled runs again, after a look at the exits: all
\* of its HOLD in the time of the tiers, what check_exits says before it.
Restore ==
    /\ ~up /\ up' = TRUE
    /\ store' = TRUE /\ signals' = kept
    /\ IF saved = "on"
       THEN /\ enabled' = TRUE /\ running' = TRUE /\ call' = "restore"
            /\ progress' = IF ledger > 0 /\ slot \in {Slots.Half, Slots.All} THEN 2 ELSE 0
            /\ \E n \in IF slot = Slots.Regular THEN {0, ledger}
                        ELSE IF slot = Slots.Cutoff THEN {0} ELSE {ledger} :
                job' = [job EXCEPT !["stop"] =
                            IF n = 0 THEN [NoJob EXCEPT !.pc = "disable"]
                            ELSE Sell(n, slot # Slots.Regular)]
       ELSE UNCHANGED <<enabled, running, call, progress, job>>
    /\ UNCHANGED <<clock, task, synced, retry, market, kept, saved, asked>>

RestoreEnds ==
    /\ call = "restore" /\ At("stop", "disable")
    /\ call' = "none"
    /\ NewLoop
    /\ UNCHANGED <<clock, up, running, enabled, exits, retry, market, records, disk, asked>>

-----------------------------------------------------------------------------

Step ==
    \/ NextSlot \/ NextDay
    \/ Executes \/ Reported \/ LedgerMisses \/ Dies \/ DeferredGoes
    \/ \E a \in Actors : Deferred(a) \/ Taken(a) \/ Refused(a) \/ Blocked(a)
    \/ \E l \in Loops : ForceExit(l) \/ RunStrategy(l) \/ Pass(l) \/ LoopEnds(l)
    \/ RetryWakes
    \/ Start \/ StartStrategy \/ StopStrategy \/ Stop
    \/ StopWaited \/ StopPlans \/ StopDisables \/ StopCloses
    \/ Shutdown \/ ProcessEnds \/ Crash \/ Restore \/ RestoreEnds

\* What the strategy has or will have from its open order.
Traded ==
    IF order.done THEN own
    ELSE IF order.side = "SELL" THEN own - order.qty ELSE own + order.qty

Compared == parted' = ((parted /\ day' = day) \/ (up' /\ signals'.net # Traded'))

\* What is under way when the time of the last tier begins or ends.
Watched ==
    lingered' = /\ slot' \in {Slots.All, Slots.Cutoff}
                /\ \/ slot' # slot /\ ~AllSettled
                   \/ lingered /\ ~(AllSettled' /\ slot' = Slots.All /\ Progress' # 2)

Next == Step /\ Compared /\ Watched

Spec == Init /\ [][Next]_vars

-----------------------------------------------------------------------------
(* What must hold *)

\* A strategy that runs when orders cannot be placed any more is flat, whatever the breaker
\* blocked, a restart interrupted or the ledger missed; unless it was stopped and started
\* again once its last tier was run, an order or a retry outlasted its tier into the run of the
\* last or that into the cutoff, or the ledger has nothing of shares that the records have
\* not followed all day either.
FlatBeforeClose ==
    ~crossed /\ ~lingered /\ slot = Slots.Cutoff /\ running /\ enabled /\ covered =>
        ledger = 0 /\ (own > 0 => parted)

\* While it runs and nothing stops it, there is exactly one loop, and _task is it, so
\* that the next stop finds it.
OneLoopInHand ==
    ~crossed /\ up /\ running /\ At("stop", "none") =>
        \A l \in Loops : Alive(l) <=> l = task

\* When the route's stop has returned, no loop and no sleeping retry is left but one that
\* a retry under way makes.
StopIsFinal ==
    ~crossed /\ halted => ~running /\ ~enabled /\ \A l \in Loops : ~Alive(l)

\* The process after a shutdown runs what ran before it.
ShutdownIsRemembered ==
    [][~up /\ up' /\ left # "unknown" => (running' <=> left = "on")]_vars

=============================================================================
