------------------------ MODULE FillReconciliation --------------------------
(***************************************************************************)
(* Fills of the orders under one order key (one symbol, one side): the      *)
(* broker executes them; execution notices of the WebSocket and rows of the *)
(* order-query polling report it; apply_execution_report of                 *)
(* FillReconciliationService applies the reports to the one context the     *)
(* state machine keeps under the key and records the terminal fill in the   *)
(* virtual-trade ledger.                                                    *)
(*                                                                          *)
(* Orders come one after the other: the coordinator admits an order only    *)
(* when the last one is terminal (OrderSubmission shows it).  A notice may  *)
(* be lost, repeated and reordered; a polling answer is as old as its query. *)
(***************************************************************************)
EXTENDS OrderFSM, Integers, FiniteSets

CONSTANTS
    Qty,            \* quantity of every order
    MaxOrders,      \* bound: orders submitted under the key
    MaxShared,      \* bound: orders submitted when both sources of reports are at work
    Feeds,          \* the sets of report sources that may be at work
    Numbering       \* whether the answer to a submission carries the order number

ASSUME ConstantsAssumption ==
    /\ Qty \in Nat \ {0}
    /\ MaxOrders \in Nat /\ MaxShared \in Nat
    /\ Feeds \subseteq SUBSET {"websocket", "polling"}
    /\ Numbering \subseteq BOOLEAN

VARIABLES
    market,     \* the broker's orders: status and executions, by order number
    ctx,        \* the OrderContext under the key
    index,      \* _order_no_index: the order numbers that lead to the key
    seen,       \* _processed_execution_events
    lock,       \* the symbol lock: "free", or what its holder awaits
    poll,       \* _poll_single_order_context: what it asked for and the rows to apply
    alarm,      \* _reconcile_alarm, raised for a missing order number
    ledger,     \* quantity recorded in the virtual-trade ledger, by order
    feed        \* the report sources at work; stays what it is

vars == <<market, ctx, index, seen, lock, poll, alarm, ledger, feed>>

Nos == 1..MaxOrders
NoNumber == 0

\* own is no field of the program: the broker's number of this very order, which
\* the properties compare with what the context believes.
Context == [state : OrderState \cup {Absent}, filled : Nat, recorded : Nat,
            no : Nos \cup {NoNumber}, own : Nos \cup {NoNumber}]

\* An OrderExecutionReport, which is also its event key: at is the second of the
\* execution (0 when it has none), qty the increment of a notice and the total
\* of a polling row.  The remaining quantity of a row is Qty - qty.
Report == [src : {"websocket", "polling"}, no : Nos, at : Nat,
           state : OrderState, qty : Nat]

TypeOK ==
    /\ market \in [Nos -> [status : {"none", "open", "filled", "canceled", "rejected"},
                           done : 0..Qty, notices : SUBSET Report]]
    /\ ctx \in Context
    /\ index \subseteq Nos
    /\ seen \subseteq Report
    /\ lock \in {"free", "submit", "persist"}
    /\ poll.pc \in {"idle", "asking", "applying"}
    /\ poll.asked \in Nos \cup {NoNumber}
    /\ poll.rows \subseteq Report
    /\ alarm \in BOOLEAN
    /\ ledger \in [Nos -> Nat]
    /\ feed \in Feeds

PollIdle == [pc |-> "idle", asked |-> NoNumber, rows |-> {}]

Init ==
    /\ market = [n \in Nos |-> [status |-> "none", done |-> 0, notices |-> {}]]
    /\ ctx = [state |-> Absent, filled |-> 0, recorded |-> 0,
              no |-> NoNumber, own |-> NoNumber]
    /\ index = {}
    /\ seen = {}
    /\ lock = "free"
    /\ poll = PollIdle
    /\ alarm = FALSE
    /\ ledger = [n \in Nos |-> 0]
    /\ feed \in Feeds

-----------------------------------------------------------------------------
(* The broker *)

Notice(n, at, st, q) ==
    [src |-> "websocket", no |-> n, at |-> at, state |-> st, qty |-> q]

\* The next order number is opened for the order being submitted, as yet unanswered.
Open(n) ==
    /\ lock = "submit"
    /\ ctx.own = NoNumber
    /\ market[n].status = "none"
    /\ \A m \in Nos : m < n => market[m].status # "none"
    /\ market' = [market EXCEPT ![n].status = "open",
                                ![n].notices = {Notice(n, 0, "SUBMITTED", 0)}]
    /\ ctx' = [ctx EXCEPT !.own = n]
    /\ UNCHANGED <<index, seen, lock, poll, alarm, ledger, feed>>

\* An execution of q, published as BrokerOrderResponseMapper.from_signing_notice
\* reads it: the increment alone, at a second of the day, which may still be that of
\* the execution before.
Execute(n, q) ==
    LET total == market[n].done + q
        Seconds == {r.at : r \in market[n].notices}
    IN  /\ market[n].status = "open"
        /\ total <= Qty
        /\ \E at \in {Cardinality(Seconds) - 1, Cardinality(Seconds)} \ {0} :
           market' = [market EXCEPT
               ![n].done = total,
               ![n].status = IF total = Qty THEN "filled" ELSE "open",
               ![n].notices = @ \cup {Notice(n, at,
                                 IF q >= Qty THEN "FILLED" ELSE "PARTIAL_FILLED", q)}]
        /\ UNCHANGED <<ctx, index, seen, lock, poll, alarm, ledger, feed>>

\* The rest of the order is canceled (by the operator, by the end of the session),
\* of which there is no notice; an order without a fill may still be rejected.
Cancel(n) ==
    /\ market[n].status = "open"
    /\ market' = [market EXCEPT ![n].status = "canceled"]
    /\ UNCHANGED <<ctx, index, seen, lock, poll, alarm, ledger, feed>>

Reject(n) ==
    /\ market[n].status = "open"
    /\ market[n].done = 0
    /\ market' = [market EXCEPT ![n].status = "rejected",
                                ![n].notices = @ \cup {Notice(n, 0, "REJECTED", 0)}]
    /\ UNCHANGED <<ctx, index, seen, lock, poll, alarm, ledger, feed>>

\* BrokerOrderResponseMapper.from_order_query: the row of an order, with its total.
Row(n) ==
    [src |-> "polling", no |-> n, at |-> 0, qty |-> market[n].done,
     state |-> CASE market[n].status = "rejected" -> "REJECTED"
                 [] market[n].status = "canceled" -> "CANCELED"
                 [] market[n].status = "filled"   -> "FILLED"
                 [] OTHER -> IF market[n].done > 0 THEN "PARTIAL_FILLED" ELSE "SUBMITTED"]

Placed == {n \in Nos : market[n].status # "none"}

-----------------------------------------------------------------------------
(* Submission, as OrderSubmission has it, for one order at a time *)

\* One source of reports only.  With both, an increment of the WebSocket comes on top
\* of a total that polling brought already, and the same shares count twice.
OneSource == feed # {"websocket", "polling"}

Live == IsLive(ctx.state)

Submit ==
    /\ lock = "free"
    /\ ~alarm
    /\ ~Live
    /\ Nos \ Placed # {}
    /\ OneSource \/ Cardinality(Placed) < MaxShared
    /\ lock' = "submit"
    /\ ctx' = [state |-> "PENDING_SUBMIT", filled |-> 0, recorded |-> 0,
               no |-> NoNumber, own |-> NoNumber]
    /\ UNCHANGED <<market, index, seen, poll, alarm, ledger, feed>>

Answer(num) ==
    /\ lock = "submit"
    /\ ctx.own # NoNumber
    /\ ctx' = [ctx EXCEPT !.state = "SUBMITTED", !.no = IF num THEN ctx.own ELSE NoNumber]
    /\ index' = IF num THEN index \cup {ctx.own} ELSE index
    /\ alarm' = ~num
    /\ lock' = "free"
    /\ UNCHANGED <<market, seen, poll, ledger, feed>>

\* The broker refuses the order.  No notification is sent from here.
Refuse ==
    /\ lock = "submit"
    /\ ctx.own = NoNumber
    /\ ctx' = [ctx EXCEPT !.state = "REJECTED"]
    /\ lock' = "free"
    /\ UNCHANGED <<market, index, seen, poll, alarm, ledger, feed>>

-----------------------------------------------------------------------------
(* apply_execution_report *)

\* OrderStateMachine.find_context_for_execution_report: the context the number
\* leads to, else the context of the side the report names.  Under one key that
\* is the current context, whatever order the report is about.
Found == ctx.state # Absent

\* Mutant of FilledAfter: the total of a row counts even when it is an old one.
FilledByRow(r) == IF r.src = "polling" THEN r.qty ELSE ctx.filled + r.qty

\* max(cumulative_filled_qty, filled_qty), or filled_qty + fill_qty.
FilledAfter(r) ==
    IF r.src = "polling"
    THEN IF r.qty > ctx.filled THEN r.qty ELSE ctx.filled
    ELSE ctx.filled + r.qty

\* remaining_qty <= 0 of a row, else filled_qty >= qty.
CompletedBy(r) == IF r.src = "polling" THEN r.qty >= Qty ELSE FilledAfter(r) >= Qty

IsFill(r) == r.state \notin {"REJECTED", "CANCELED"} /\ r.qty > 0

StateAfter(r) ==
    IF IsFill(r)
    THEN IF CompletedBy(r) THEN "FILLED" ELSE "PARTIAL_FILLED"
    ELSE IF r.state \in {"REJECTED", "CANCELED"} THEN r.state
    ELSE IF ctx.state = "PENDING_SUBMIT" THEN "SUBMITTED" ELSE ctx.state

\* The context after the report: a fill brings its quantity and its order number,
\* anything else only a number where there is none.
Applied(r) ==
    [ctx EXCEPT
        !.state  = StateAfter(r),
        !.filled = IF IsFill(r) THEN FilledAfter(r) ELSE @,
        !.no     = IF IsFill(r) \/ @ = NoNumber THEN r.no ELSE @]

\* Mutant of Effective: events are not remembered.
EffectiveAgain(r) == Found /\ Live

\* Mutant of Effective: the event key is the source and the order number alone.
EffectiveByNumber(r) == Found /\ Live /\ \A e \in seen : e.src # r.src \/ e.no # r.no

\* The report has an effect, or is dropped: the order is terminal, the event was seen.
Effective(r) == Found /\ Live /\ r \notin seen

\* Mutant of ToRecord: partial fills are recorded as they come.
ToRecordPartial(c) == c.filled > c.recorded

\* _persist_virtual_trade_for_terminal_report has a quantity to record.
ToRecord(c) == c.state \in {"FILLED", "CANCELED"} /\ c.filled > c.recorded

\* A transition the table forbids raises: the event counts as seen, the number the
\* context lacked is set, and nothing else happens.
Raises(r) == ~CanTransition(ctx.state, StateAfter(r))

Apply(r) ==
    /\ lock = "free"
    /\ IF Effective(r)
       THEN LET c == IF Raises(r)
                     THEN [ctx EXCEPT !.no = IF @ = NoNumber THEN r.no ELSE @]
                     ELSE Applied(r)
            IN  /\ ctx' = c
                /\ seen' = seen \cup {r}
                /\ index' = index \cup ({c.no} \ {NoNumber})
                /\ lock' = IF ToRecord(c) THEN "persist" ELSE "free"
       ELSE UNCHANGED <<ctx, seen, index, lock>>
    /\ UNCHANGED <<market, alarm, ledger, feed>>

\* The lock is held until the ledger answers; an error leaves the fill unrecorded.
Persist(ok) ==
    /\ lock = "persist"
    /\ lock' = "free"
    /\ IF ok
       THEN /\ ledger' = [ledger EXCEPT ![ctx.own] = @ + ctx.filled]
            /\ ctx' = [ctx EXCEPT !.recorded = ctx.filled]
       ELSE UNCHANGED <<ledger, ctx>>
    /\ UNCHANGED <<market, index, seen, poll, alarm, feed>>

\* handle_signing_notice: any notice the broker ever published, any number of times.
Deliver(r) ==
    /\ "websocket" \in feed
    /\ Apply(r)
    /\ UNCHANGED poll

-----------------------------------------------------------------------------
(* _poll_single_order_context *)

\* The loop takes an active context and asks for its number, without the lock; for
\* a context that has none yet it asks for every order of the symbol and side.
PollStart ==
    /\ "polling" \in feed
    /\ poll.pc = "idle"
    /\ Live
    /\ poll' = [PollIdle EXCEPT !.pc = "asking", !.asked = ctx.no]
    /\ UNCHANGED <<market, ctx, index, seen, lock, alarm, ledger, feed>>

\* The broker answers with the rows as they are now.
PollRows ==
    /\ poll.pc = "asking"
    /\ poll' = [poll EXCEPT
           !.pc = "applying",
           !.rows = {Row(n) : n \in IF poll.asked = NoNumber THEN Placed ELSE {poll.asked}}]
    /\ UNCHANGED <<market, ctx, index, seen, lock, alarm, ledger, feed>>

\* One row after the other; a row that raises ends the poll.
PollApply(r) ==
    /\ poll.pc = "applying"
    /\ r \in poll.rows
    /\ Apply(r)
    /\ poll' = IF Effective(r) /\ Raises(r) THEN PollIdle
               ELSE [poll EXCEPT !.rows = @ \ {r}]

\* No row is left, or the query failed.
PollEnd ==
    /\ \/ poll.pc = "asking"
       \/ poll.pc = "applying" /\ poll.rows = {}
    /\ poll' = PollIdle
    /\ UNCHANGED <<market, ctx, index, seen, lock, alarm, ledger, feed>>

-----------------------------------------------------------------------------

Broker(n) ==
    \/ Open(n)
    \/ \E q \in 1..Qty : Execute(n, q)
    \/ Cancel(n)
    \/ Reject(n)
    \/ \E r \in market[n].notices : Deliver(r)

Polling == PollStart \/ PollRows \/ PollEnd \/ \E r \in poll.rows : PollApply(r)

Next ==
    \/ \E n \in Nos : Broker(n)
    \/ Submit
    \/ \E num \in Numbering : Answer(num)
    \/ Refuse
    \/ \E ok \in BOOLEAN : Persist(ok)
    \/ Polling

Spec == Init /\ [][Next]_vars

\* The scheduler loop polls again and again, some query succeeds, the awaits under
\* the lock return, and the FIFO lock lets the poll through between the notices.
Fairness ==
    /\ WF_vars(\E num \in Numbering : Answer(num))
    /\ WF_vars(Refuse)
    /\ WF_vars(\E ok \in BOOLEAN : Persist(ok))
    /\ WF_vars(PollStart)
    /\ SF_vars(PollRows)
    /\ WF_vars(PollEnd)
    /\ SF_vars(\E r \in poll.rows : PollApply(r))

FairSpec == Spec /\ Fairness
-----------------------------------------------------------------------------
(* Properties *)

\* With one source of reports, neither the context nor the ledger believes in more than
\* the broker executed for the order: no execution counts twice.
FilledIsExecuted ==
    OneSource =>
        /\ ctx.own # NoNumber => ctx.filled <= market[ctx.own].done
        /\ \A n \in Nos : ledger[n] <= market[n].done

\* While an order lives, the quantity it has filled does not shrink, whatever the
\* order in which notices and old polling answers arrive.
FilledOnlyGrows ==
    [][Live /\ ctx'.own = ctx.own => ctx'.filled >= ctx.filled]_vars

\* A fill enters the ledger once and in full, only after the order ended here: whatever
\* either source reports afterwards, what is recorded of an order stays as it is, and so
\* does what its context has filled.
LedgerIsOnce ==
    [][\A n \in Nos : ledger'[n] # 0 =>
          /\ ledger[n] \in {0, ledger'[n]}
          /\ ctx'.own = n => ctx'.state \in Terminal /\ ctx'.filled = ledger'[n]]_vars

\* An order the broker ended is terminal here too, sooner or later: polling repairs every
\* lost notice, and a row that raises ends one poll only.  Excused is a context which a late
\* report has given another order's number: polling asks for that order from then on.
PollingHeals ==
    \A n \in Nos :
        (/\ "polling" \in feed
         /\ market[n].status \in {"filled", "canceled", "rejected"}
         /\ ctx.own = n
         /\ Live)
            ~> ~(ctx.own = n /\ Live /\ ctx.no \in {n, NoNumber})

=============================================================================
