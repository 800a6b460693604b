-------------------------- MODULE OrderSubmission ---------------------------
(***************************************************************************)
(* Submission of orders: OrderSubmissionCoordinator.submit under the symbol *)
(* lock, the broker call with retries of BrokerOrderSubmitter, the order    *)
(* state machine they drive, and the deferred-order queue that a terminal   *)
(* order wakes.                                                             *)
(*                                                                          *)
(* A task of Tasks is an asyncio task: it runs submit() for a caller (the   *)
(* scheduler, a route) or notify_terminal() of the deferred queue.  A step  *)
(* is what runs between two awaits that may suspend.  Execution reports and *)
(* the broker reconciliation appear by what they may do to an order's       *)
(* state; FillReconciliation and BrokerReconcile model them in full.        *)
(***************************************************************************)
EXTENDS OrderFSM, Naturals, FiniteSets

CONSTANTS
    Symbols,        \* stock codes (one exchange)
    Tasks,          \* asyncio tasks
    NoTask,         \* "nobody holds the lock"
    NoKey,          \* the key of an idle task
    NoEntry,        \* no deferred entry under a key
    MaxRetries,     \* BrokerOrderSubmitter._max_retries
    TTL,            \* ttl_sec of a deferred entry, in ticks
    Paper,          \* paper trading: a caller may ask for immediate finalisation
    Numbering,      \* whether a success answer of the broker carries an order number
    LostAnswers,    \* how many orders the broker may take in one call, unknown to the caller
    Alarms,         \* the values the reconciliation may set the alarm to
    MaxWork         \* bound: callers come only while less than this is under way

ASSUME ConstantsAssumption ==
    /\ NoTask \notin Tasks
    /\ NoKey \notin Symbols \X Sides
    /\ MaxRetries \in Nat \ {0}
    /\ TTL \in Nat
    /\ Paper \in BOOLEAN
    /\ Numbering \subseteq BOOLEAN
    /\ LostAnswers \subseteq Nat
    /\ Alarms \subseteq BOOLEAN
    /\ MaxWork \in Nat
    /\ NoEntry \notin Nat

VARIABLES
    order,      \* _order_states: the context under each key
    lock,       \* _order_locks: the holder of each symbol lock
    deferred,   \* DeferredOrderQueue._entries: the age of the entry under a key, in ticks
    wakeups,    \* notify_terminal tasks created and not yet started
    task,       \* where each task is
    alarm       \* _reconcile_alarm

vars == <<order, lock, deferred, wakeups, task, alarm>>

Keys == Symbols \X Sides

\* numbered: the context has a broker_order_no.  taken is no field of the program: it
\* counts the orders the broker took for the context.
Context == [state : OrderState \cup {Absent}, numbered : BOOLEAN, taken : Nat]

\* Ages stop at TTL + 1, where nothing distinguishes them any more.
Age == 0..(TTL + 1)

TaskState == [pc : {"idle", "pop", "wait", "gate", "call", "backoff"},
              kind : {"caller", "release"},
              key : Keys \cup {NoKey},
              attempt : 0..MaxRetries]

TypeOK ==
    /\ order \in [Keys -> Context]
    /\ lock \in [Symbols -> Tasks \cup {NoTask}]
    /\ deferred \in [Keys -> Age \cup {NoEntry}]
    /\ wakeups \in [Symbols -> Nat]
    /\ task \in [Tasks -> TaskState]
    /\ alarm \in BOOLEAN

Idle == [pc |-> "idle", kind |-> "caller", key |-> NoKey, attempt |-> 0]

Init ==
    /\ order = [k \in Keys |-> [state |-> Absent, numbered |-> FALSE, taken |-> 0]]
    /\ lock = [s \in Symbols |-> NoTask]
    /\ deferred = [k \in Keys |-> NoEntry]
    /\ wakeups = [s \in Symbols |-> 0]
    /\ task = [t \in Tasks |-> Idle]
    /\ alarm = FALSE

-----------------------------------------------------------------------------
(* Reading the state *)

Live(k) == IsLive(order[k].state)

\* Some side of the symbol has a non-terminal order: the loop of submit().
Busy(s) == \E d \in Sides : Live(<<s, d>>)

\* What is under way for a symbol: an order alive, entries, wake-ups, tasks.  Only a
\* new caller adds to it.
Work(s) ==
    Cardinality({d \in Sides : Live(<<s, d>>)})
      + Cardinality({d \in Sides : deferred[<<s, d>>] # NoEntry})
      + wakeups[s]
      + Cardinality({t \in Tasks : task[t].key \in {s} \X Sides})

Older(n) == IF n > TTL THEN n ELSE n + 1

Popping(s, d) == [pc |-> "pop", kind |-> "release", key |-> <<s, d>>, attempt |-> 0]
Waiting(k) == [pc |-> "wait", kind |-> "caller", key |-> k, attempt |-> 0]

\* Where a task goes when its submit() returns or its entry is dropped:
\* notify_terminal goes from BUY to SELL, everybody else is done.
After(t) ==
    IF task[t].kind = "release" /\ task[t].key[2] = "BUY"
    THEN Popping(task[t].key[1], "SELL")
    ELSE Idle

\* Mutant of Woken: only a completed order wakes the queue.
WokenByFill(s, new) ==
    IF new = "FILLED" THEN [wakeups EXCEPT ![s] = @ + 1] ELSE wakeups

\* The wake-ups after the orders of symbol s took the states new: a transition
\* into a terminal state creates one task.
Woken(s, new) ==
    IF new \in Terminal THEN [wakeups EXCEPT ![s] = @ + 1] ELSE wakeups

Finish(t) ==
    /\ task' = [task EXCEPT ![t] = After(t)]
    /\ lock' = [lock EXCEPT ![task[t].key[1]] = NoTask]
-----------------------------------------------------------------------------
(* OrderSubmissionCoordinator.submit, up to the symbol lock *)

\* A caller passes the alarm check and goes for the lock of the symbol.
Call(t, k) ==
    /\ task[t].pc = "idle"
    /\ ~alarm
    /\ Work(k[1]) < MaxWork
    /\ task' = [task EXCEPT ![t] = Waiting(k)]
    /\ UNCHANGED <<order, lock, deferred, wakeups, alarm>>

\* A caller that is blocked by the alarm returns; nothing changes, so that case is
\* no step.  A deferred entry that meets the alarm is gone (Pop).

\* Under the lock, another order of the symbol is alive: the request is deferred,
\* or dropped when its key already holds an entry, and the lock is given back.
Defer(t) ==
    LET k == task[t].key
        s == k[1]
    IN  /\ task[t].pc = "wait"
        /\ lock[s] = NoTask
        /\ Busy(s)
        /\ deferred' = IF deferred[k] = NoEntry
                       THEN [deferred EXCEPT ![k] = 0]
                       ELSE deferred
        /\ task' = [task EXCEPT ![t] = After(t)]
        /\ UNCHANGED <<order, lock, wakeups, alarm>>

\* Mutant of Enter: only the task's own side is looked at.
EnterOwnSide(t) ==
    LET s == task[t].key[1]
    IN  /\ task[t].pc = "wait"
        /\ lock[s] = NoTask
        /\ ~Live(task[t].key)
        /\ lock' = [lock EXCEPT ![s] = t]
        /\ task' = [task EXCEPT ![t].pc = "gate"]
        /\ UNCHANGED <<order, deferred, wakeups, alarm>>

\* The symbol is free: the task keeps the lock and awaits the data-quality, order
\* policy and risk checks.
Enter(t) ==
    LET s == task[t].key[1]
    IN  /\ task[t].pc = "wait"
        /\ lock[s] = NoTask
        /\ ~Busy(s)
        /\ lock' = [lock EXCEPT ![s] = t]
        /\ task' = [task EXCEPT ![t].pc = "gate"]
        /\ UNCHANGED <<order, deferred, wakeups, alarm>>

\* Mutant of Block: an early return that forgets the lock.
BlockKeepsLock(t) ==
    /\ task[t].pc = "gate"
    /\ task' = [task EXCEPT ![t] = After(t)]
    /\ UNCHANGED <<order, lock, deferred, wakeups, alarm>>

\* One of the checks blocks the order, or raises.
Block(t) ==
    /\ task[t].pc = "gate"
    /\ Finish(t)
    /\ UNCHANGED <<order, deferred, wakeups, alarm>>

\* The context is registered and the first broker call goes out.
Register(t) ==
    /\ task[t].pc = "gate"
    /\ order' = [order EXCEPT ![task[t].key] =
                     [state |-> "PENDING_SUBMIT", numbered |-> FALSE, taken |-> 0]]
    /\ task' = [task EXCEPT ![t] =
                     [pc |-> "call", kind |-> @.kind, key |-> @.key, attempt |-> 1]]
    /\ UNCHANGED <<lock, deferred, wakeups, alarm>>

-----------------------------------------------------------------------------
(* BrokerOrderSubmitter.submit_with_retry, and the rest of submit() *)

\* The call ends, the broker took some more orders in it, and the order enters state
\* st: submit() returns, the lock is free.
Answered(t, st, num, some) ==
    LET k == task[t].key
    IN  /\ task[t].pc = "call"
        /\ order' = [order EXCEPT ![k] =
                       [state |-> st, numbered |-> num, taken |-> @.taken + some]]
        /\ wakeups' = Woken(k[1], st)
        /\ Finish(t)
        /\ UNCHANGED deferred

\* Success, for the last of the orders sent in the call; without an order number the
\* alarm goes up.
Accepted(t, num, lost) ==
    /\ Answered(t, "SUBMITTED", num, lost + 1)
    /\ alarm' = (alarm \/ ~num)

\* Success in paper trading for a caller that asked for immediate finalisation
\* (a deferred retry never does).
Finalized(t, num, lost) ==
    /\ Paper
    /\ task[t].kind = "caller"
    /\ Answered(t, "FILLED", num, lost + 1)
    /\ alarm' = (alarm \/ ~num)

\* A business refusal or an answer nobody can read at any attempt, or a transient
\* error at the last one: not all of them mean that the broker took nothing.
Refused(t, lost) ==
    /\ Answered(t, "REJECTED", FALSE, lost)
    /\ UNCHANGED alarm

\* Mutant of RetryLater: one retry too many.
RetryOnceMore(t, lost) ==
    /\ task[t].pc = "call"
    /\ task[t].attempt <= MaxRetries
    /\ task' = [task EXCEPT ![t].pc = "backoff"]
    /\ UNCHANGED <<order, lock, deferred, wakeups, alarm>>

\* A transient error with attempts left: the task sleeps, holding the lock.  A lost
\* answer is one such error, whether or not the broker took the order, and call_api
\* sends the request again by itself, ten times at most, so that one attempt may
\* make several orders.
RetryLater(t, lost) ==
    /\ task[t].pc = "call"
    /\ task[t].attempt < MaxRetries
    /\ order' = [order EXCEPT ![task[t].key].taken = @ + lost]
    /\ task' = [task EXCEPT ![t].pc = "backoff"]
    /\ UNCHANGED <<lock, deferred, wakeups, alarm>>

CallAgain(t) ==
    /\ task[t].pc = "backoff"
    /\ task' = [task EXCEPT ![t].pc = "call", ![t].attempt = @ + 1]
    /\ UNCHANGED <<order, lock, deferred, wakeups, alarm>>

\* Mutant of Cancelled: the lock is not given back.
CancelledKeepsLock(t) ==
    /\ task[t].pc \in {"wait", "gate", "call", "backoff"}
    /\ task[t].kind = "caller"
    /\ task' = [task EXCEPT ![t] = Idle]
    /\ UNCHANGED <<order, lock, deferred, wakeups, alarm>>

\* StrategyScheduler.stop cancels its loop, and with it the submit() it awaits:
\* the lock is given back, whatever was registered stays.
Cancelled(t) ==
    /\ task[t].pc \in {"wait", "gate", "call", "backoff"}
    /\ task[t].kind = "caller"
    /\ task' = [task EXCEPT ![t] = Idle]
    /\ lock' = IF task[t].pc = "wait" THEN lock
               ELSE [lock EXCEPT ![task[t].key[1]] = NoTask]
    /\ UNCHANGED <<order, deferred, wakeups, alarm>>

-----------------------------------------------------------------------------
(* DeferredOrderQueue.notify_terminal *)

StartRelease(t, s) ==
    /\ task[t].pc = "idle"
    /\ wakeups[s] > 0
    /\ wakeups' = [wakeups EXCEPT ![s] = @ - 1]
    /\ task' = [task EXCEPT ![t] = Popping(s, "BUY")]
    /\ UNCHANGED <<order, lock, deferred, alarm>>

\* The entry of the key leaves the queue.  A fresh one is submitted again, as far
\* as the lock, unless the alarm is up; an expired one is dropped.
Pop(t) ==
    LET k == task[t].key
        retried == deferred[k] # NoEntry /\ deferred[k] <= TTL /\ ~alarm
    IN  /\ task[t].pc = "pop"
        /\ deferred' = [deferred EXCEPT ![k] = NoEntry]
        /\ task' = [task EXCEPT ![t] =
                       IF retried THEN [@ EXCEPT !.pc = "wait"] ELSE After(t)]
        /\ UNCHANGED <<order, lock, wakeups, alarm>>

\* A tick of the clock.
Tick ==
    /\ deferred' = [k \in Keys |->
                       IF deferred[k] = NoEntry THEN NoEntry ELSE Older(deferred[k])]
    /\ UNCHANGED <<order, lock, wakeups, task, alarm>>

-----------------------------------------------------------------------------
(* The other writers of orders and of the alarm, as FillReconciliationService has them *)

\* Mutant of ApplyReport: a late report is applied to an order that has ended.
ApplyLateReport(k, st) ==
    /\ lock[k[1]] = NoTask
    /\ order[k].state # Absent
    /\ order' = [order EXCEPT ![k].state = st, ![k].numbered = TRUE]
    /\ wakeups' = Woken(k[1], st)
    /\ UNCHANGED <<lock, deferred, task, alarm>>

\* An execution report is applied, under the symbol lock: any transition the
\* table allows for the order's state.  A report brings an order number along.
ApplyReport(k, st) ==
    /\ lock[k[1]] = NoTask
    /\ Live(k)
    /\ CanTransition(order[k].state, st)
    /\ order' = [order EXCEPT ![k] =
                     [state |-> st, numbered |-> TRUE, taken |-> @.taken]]
    /\ wakeups' = Woken(k[1], st)
    /\ UNCHANGED <<lock, deferred, task, alarm>>

\* Mutant of GiveUp: an order without a number is given up as well.
GiveUpAny(k) ==
    /\ Live(k)
    /\ order' = [order EXCEPT ![k].state = "CANCELED"]
    /\ wakeups' = Woken(k[1], "CANCELED")
    /\ UNCHANGED <<lock, deferred, task, alarm>>

\* The reconciliation gives up an order the broker does not know.  It holds no
\* lock, and passes over the orders without a number.
GiveUp(k) ==
    /\ Live(k)
    /\ order[k].numbered
    /\ order' = [order EXCEPT ![k].state = "CANCELED"]
    /\ wakeups' = Woken(k[1], "CANCELED")
    /\ UNCHANGED <<lock, deferred, task, alarm>>

\* The reconciliation raises or clears the alarm.
SetAlarm(on) ==
    /\ alarm' = on
    /\ UNCHANGED <<order, lock, deferred, wakeups, task>>

-----------------------------------------------------------------------------

Submit(t) ==
    \/ Defer(t) \/ Enter(t) \/ Block(t) \/ Register(t)
    \/ \E num \in Numbering, lost \in LostAnswers :
           Accepted(t, num, lost) \/ Finalized(t, num, lost)
    \/ \E lost \in LostAnswers : Refused(t, lost) \/ RetryLater(t, lost)
    \/ CallAgain(t)

Next ==
    \/ \E t \in Tasks :
        \/ \E k \in Keys : Call(t, k)
        \/ Submit(t)
        \/ Cancelled(t)
        \/ \E s \in Symbols : StartRelease(t, s)
        \/ Pop(t)
    \/ \E k \in Keys : GiveUp(k) \/ \E st \in OrderState : ApplyReport(k, st)
    \/ \E on \in Alarms : SetAlarm(on)
    \/ Tick

Spec == Init /\ [][Next]_vars

\* Every await of submit() returns (HTTP and gate calls time out), asyncio.Lock
\* serves its waiters in turn, and the event loop runs every task it was given.
Fairness ==
    /\ \A t \in Tasks :
        /\ SF_vars(Defer(t) \/ Enter(t))
        /\ WF_vars(Submit(t))
        /\ WF_vars(Pop(t))
    /\ \A s \in Symbols : SF_vars(\E t \in Tasks : StartRelease(t, s))

FairSpec == Spec /\ Fairness
-----------------------------------------------------------------------------
(* Properties *)

\* A symbol never has two orders alive, whatever sides they are on: what the double
\* loop of submit() under the symbol lock is for.
OneLiveOrder ==
    \A s \in Symbols : \A d, e \in Sides : Live(<<s, d>>) /\ Live(<<s, e>>) => d = e

\* While a task talks to the broker, or sleeps between two attempts, it holds the
\* symbol lock and its order is still the numberless PENDING_SUBMIT it registered:
\* neither a report nor the lock-free reconciliation moves it under the task's feet.
CallIsGuarded ==
    \A t \in Tasks : task[t].pc \in {"call", "backoff"} =>
        /\ lock[task[t].key[1]] = t
        /\ order[task[t].key].state = "PENDING_SUBMIT"
        /\ ~order[task[t].key].numbered

\* A notify_terminal run of s that has yet to pop the entry of side d.
WillPop(t, s, d) ==
    /\ task[t].kind = "release"
    /\ \/ task[t] = Popping(s, d)
       \/ task[t].key = <<s, "BUY">> /\ d = "SELL"

\* A deferred entry is never forgotten: the order it waits for is alive, or a wake-up
\* that will pop it is on its way.
NoLostWakeup ==
    \A s \in Symbols, d \in Sides : deferred[<<s, d>>] # NoEntry =>
        Busy(s) \/ wakeups[s] > 0 \/ \E t \in Tasks : WillPop(t, s, d)

\* The orders are an order book: at most one alive per symbol, admitted only when
\* the symbol is free, moving only along the life cycle.
Book == INSTANCE OrderBook WITH book <- [k \in Keys |-> order[k].state]
ImplementsBook == Book!Spec

\* A deferred entry whose symbol became free leaves the queue, or the symbol is
\* taken again.
DeferredIsServed ==
    \A k \in Keys : (deferred[k] # NoEntry /\ ~Busy(k[1]))
                        ~> (deferred[k] = NoEntry \/ Busy(k[1]))

\* Every submission returns: retries are bounded and the symbol lock always comes
\* back, after a block, a refusal or a cancellation.
SubmissionReturns ==
    \A t \in Tasks : task[t].pc # "idle" ~> task[t].pc = "idle"

\* Orders are "not idempotent" and must not be sent again blindly: a submission
\* makes at most one order at the broker.
OneOrderPerSubmission == \A k \in Keys : order[k].taken <= 1

=============================================================================
