-------------------------- MODULE BrokerReconcile ---------------------------
(***************************************************************************)
(* What the program believes of its orders against what the broker holds:   *)
(* restore_state_from_broker after a restart, and the checks of             *)
(* reconcile_orders_with_broker at startup and after the market's close.    *)
(*                                                                          *)
(* One symbol, in live trading (both operations skip paper trading).  The   *)
(* reconciliation awaits three queries one after the other without a lock:  *)
(* orders are submitted, filled and reported while it waits, and its picture *)
(* of the broker is as old as each query.  Submission and reports appear by *)
(* their outcome; OrderSubmission and FillReconciliation have their detail. *)
(***************************************************************************)
EXTENDS OrderFSM, Naturals

CONSTANTS
    PerKey,         \* bound: orders submitted on each side
    Qty,            \* quantity of every order
    Numbering,      \* whether the answer to a submission carries the order number
    Failing         \* whether queries of the broker may fail, of which a behaviour has one

ASSUME ConstantsAssumption ==
    /\ PerKey \in Nat \ {0}
    /\ Qty \in Nat \ {0}
    /\ Numbering \subseteq BOOLEAN
    /\ Failing \subseteq BOOLEAN

VARIABLES
    market,     \* the broker's orders, by number
    held,       \* the broker's balance of the symbol
    ctx,        \* _order_states, by side
    miss,       \* _reconcile_consecutive_mismatch_by_key
    alarm,      \* _reconcile_alarm
    manual,     \* _critical_alarm_manual_required
    recon,      \* reconcile_orders_with_broker: what it awaits and has learnt
    phase,      \* startup: what the lifespan awaits; "open" once it serves
    fails,      \* whether queries may fail; stays what it is
    counted,    \* the order for which the last mismatch of a side was counted
    strayed     \* the open orders that lost their context to another order of their side:
                \* given up on its count, passed over for it by the restore, or completed
                \* by its execution (the last two are no fields of the program)

history == <<counted, strayed>>
vars == <<market, held, ctx, miss, alarm, manual, recon, phase, fails, history>>

\* A broker order number, with the side it is for.
Nos == Sides \X (1..PerKey)
NoNumber == <<>>

\* The mismatches in a row that let an order be given up; the count stops there.
Threshold == 2

Context == [state : OrderState \cup {Absent}, no : Nos \cup {NoNumber}]

TypeOK ==
    /\ market \in [Nos -> [status : {"none", "open", "filled", "canceled"},
                           done : 0..Qty, today : BOOLEAN]]
    /\ held \in Nat
    /\ ctx \in [Sides -> Context]
    /\ miss \in [Sides -> 0..Threshold]
    /\ alarm \in BOOLEAN
    /\ manual \in BOOLEAN
    /\ recon \in [pc : {"idle", "unfilled", "filled", "balance", "compare"},
                  unfilled : SUBSET Nos, filled : SUBSET Nos, holds : BOOLEAN]
    /\ phase \in {"unfilled", "filled", "check", "open"}
    /\ fails \in Failing
    /\ counted \in [Sides -> Nos \cup {NoNumber}]
    /\ strayed \subseteq Nos

NoContext == [state |-> Absent, no |-> NoNumber]
ReconIdle == [pc |-> "idle", unfilled |-> {}, filled |-> {}, holds |-> FALSE]

Init ==
    /\ market = [n \in Nos |-> [status |-> "none", done |-> 0, today |-> FALSE]]
    /\ held = 0
    /\ ctx = [d \in Sides |-> NoContext]
    /\ miss = [d \in Sides |-> 0]
    /\ alarm = FALSE
    /\ manual = FALSE
    /\ recon = ReconIdle
    /\ phase = "unfilled"
    /\ fails \in Failing
    /\ counted = [d \in Sides |-> NoNumber]
    /\ strayed = {}

\* What a crash takes.
memory == <<ctx, miss, alarm, manual, recon, phase>>

-----------------------------------------------------------------------------
(* The broker *)

Open == {n \in Nos : market[n].status = "open"}

\* Mutant of Executed: the history of today has the orders without an execution too.
ExecutedOrNot == {n \in Nos : market[n].status # "none" /\ market[n].today}

\* inquire_filled_history of today: the orders with an execution, partial or not.
Executed == {n \in Nos : market[n].done > 0 /\ market[n].today}

Execute(n, q) ==
    LET total == market[n].done + q
    IN  /\ n \in Open
        /\ total <= Qty
        /\ n[1] = "SELL" => q <= held
        /\ market' = [market EXCEPT ![n].done = total,
                                    ![n].status = IF total = Qty THEN "filled" ELSE "open"]
        /\ held' = IF n[1] = "BUY" THEN held + q ELSE held - q
        /\ UNCHANGED <<memory, fails, history>>

Cancel(n) ==
    /\ n \in Open
    /\ market' = [market EXCEPT ![n].status = "canceled"]
    /\ UNCHANGED <<held, memory, fails, history>>

\* The session ends: what is open is canceled, and tomorrow's history starts empty.
NewDay ==
    /\ recon.pc = "idle"
    /\ phase = "open"
    /\ market' = [n \in Nos |->
                     [market[n] EXCEPT !.status = IF @ = "open" THEN "canceled" ELSE @,
                                       !.today = FALSE]]
    /\ UNCHANGED <<held, memory, fails, history>>

-----------------------------------------------------------------------------
(* Submission and reports, by their outcome *)

Live(d) == IsLive(ctx[d].state)

Submit(d) ==
    /\ phase = "open"
    /\ ~alarm
    /\ \A e \in Sides : ~Live(e)
    /\ d = "SELL" => held >= Qty
    /\ \E i \in 1..PerKey : market[<<d, i>>].status = "none"
    /\ ctx' = [ctx EXCEPT ![d] = [state |-> "PENDING_SUBMIT", no |-> NoNumber]]
    /\ UNCHANGED <<market, held, miss, alarm, manual, recon, phase, fails, history>>

\* The broker takes the order; an answer without a number raises the alarm that
\* only an operator clears (on_broker_order_no_missing).
Accept(n, num) ==
    /\ ctx[n[1]].state = "PENDING_SUBMIT"
    /\ market[n].status = "none"
    /\ \A i \in 1..PerKey : i < n[2] => market[<<n[1], i>>].status # "none"
    /\ market' = [market EXCEPT ![n] = [status |-> "open", done |-> 0, today |-> TRUE]]
    /\ ctx' = [ctx EXCEPT ![n[1]] =
                  [state |-> "SUBMITTED", no |-> IF num THEN n ELSE NoNumber]]
    /\ alarm' = (alarm \/ ~num)
    /\ manual' = (manual \/ ~num)
    /\ UNCHANGED <<held, miss, recon, phase, fails, history>>

Refuse(d) ==
    /\ ctx[d].state = "PENDING_SUBMIT"
    /\ ctx' = [ctx EXCEPT ![d].state = "REJECTED"]
    /\ UNCHANGED <<market, held, miss, alarm, manual, recon, phase, fails, history>>

\* What a row of the order query says of an order.
RowState(n) ==
    CASE market[n].status = "canceled" -> "CANCELED"
      [] market[n].status = "filled"   -> "FILLED"
      [] OTHER -> IF market[n].done > 0 THEN "PARTIAL_FILLED" ELSE "SUBMITTED"

\* A polling row or a notice of the order brings its context up to date.
Report(n) ==
    LET d == n[1]
    IN  /\ phase = "open"
        /\ market[n].status # "none"
        /\ Live(d)
        /\ \/ ctx[d].no = n
           \/ /\ ctx[d] = [state |-> "SUBMITTED", no |-> NoNumber]
              /\ \A i \in 1..PerKey : i > n[2] => market[<<d, i>>].status = "none"
        /\ CanTransition(ctx[d].state, RowState(n))
        /\ ctx' = [ctx EXCEPT ![d] = [state |-> RowState(n), no |-> n]]
        /\ UNCHANGED <<market, held, miss, alarm, manual, recon, phase, fails, history>>

-----------------------------------------------------------------------------
(* reconcile_orders_with_broker *)

Start ==
    /\ recon.pc = "idle"
    /\ phase \in {"check", "open"}
    /\ recon' = [recon EXCEPT !.pc = "unfilled"]
    /\ UNCHANGED <<market, held, ctx, miss, alarm, manual, phase, fails, history>>

AskUnfilled ==
    /\ recon.pc = "unfilled"
    /\ recon' = [recon EXCEPT !.pc = "filled", !.unfilled = Open]
    /\ UNCHANGED <<market, held, ctx, miss, alarm, manual, phase, fails, history>>

AskFilled ==
    /\ recon.pc = "filled"
    /\ recon' = [recon EXCEPT !.pc = "balance", !.filled = Executed]
    /\ UNCHANGED <<market, held, ctx, miss, alarm, manual, phase, fails, history>>

AskBalance ==
    /\ recon.pc = "balance"
    /\ recon' = [recon EXCEPT !.pc = "compare", !.holds = held > 0]
    /\ UNCHANGED <<market, held, ctx, miss, alarm, manual, phase, fails, history>>

\* A query fails: the check is given up as if nothing were wrong.
AskFails ==
    /\ fails
    /\ recon.pc \in {"unfilled", "filled", "balance"}
    /\ recon' = ReconIdle
    /\ phase' = "open"
    /\ UNCHANGED <<market, held, ctx, miss, alarm, manual, fails, history>>

\* Only a live context with a number is compared.
Compared == {d \in Sides : Live(d) /\ ctx[d].no # NoNumber}

Missing == {d \in Compared : ctx[d].no \notin recon.unfilled \cup recon.filled}

\* Mutant of Count: every check counts afresh.
CountAfresh(d) == 1

Count(d) == IF miss[d] < Threshold THEN miss[d] + 1 ELSE Threshold

\* Mutant of GivenUp: the first mismatch is enough.
GivenUpAtOnce == {d \in Missing : d = "SELL" \/ ~recon.holds}

\* The second mismatch in a row gives an order up, a BUY only without a balance.
GivenUp == {d \in Missing : Count(d) >= Threshold /\ (d = "SELL" \/ ~recon.holds)}

\* The count is of an earlier order of the side: it belongs to the side.
Inherited(d) == counted[d] \notin {NoNumber, ctx[d].no}

\* A completed BUY without a balance.
Vanished == ctx["BUY"].state = "FILLED" /\ ~recon.holds

\* Mutant of AlarmAfter: a clean check clears an operator's alarm too.
AlarmCleared == Missing # {} \/ Vanished

\* A clean check clears the alarm, unless an operator has to.
AlarmAfter == Missing # {} \/ Vanished \/ (alarm /\ manual)

\* From the last answer on nothing is awaited.
Compare ==
    /\ recon.pc = "compare"
    /\ ctx' = [d \in Sides |->
                  IF d \in GivenUp THEN [ctx[d] EXCEPT !.state = "CANCELED"] ELSE ctx[d]]
    /\ miss' = [d \in Sides |->
                  IF d \in Missing \ GivenUp THEN Count(d)
                  ELSE IF d \in Compared THEN 0 ELSE miss[d]]
    /\ alarm' = AlarmAfter
    /\ recon' = ReconIdle
    /\ phase' = "open"
    /\ counted' = [d \in Sides |-> IF miss'[d] = 0 THEN NoNumber
                                   ELSE IF d \in Missing THEN ctx[d].no ELSE counted[d]]
    /\ strayed' = (strayed \cup {ctx[d].no : d \in {e \in GivenUp : Inherited(e)}})
                     \cap Open
    /\ UNCHANGED <<market, held, manual, fails>>

-----------------------------------------------------------------------------
(* A crash, and the startup after it *)

\* A request on its way reaches the broker before the process is gone (Accept).
Crash ==
    /\ phase = "open"
    /\ ctx' = [d \in Sides |-> NoContext]
    /\ miss' = [d \in Sides |-> 0]
    /\ alarm' = FALSE
    /\ manual' = FALSE
    /\ recon' = ReconIdle
    /\ phase' = "unfilled"
    /\ counted' = [d \in Sides |-> NoNumber] /\ strayed' = {}
    /\ UNCHANGED <<market, held, fails>>

Of(d, orders) == {n \in orders : n[1] = d}

\* The orders restored, one at most under a key: the first row of a key counts.
Picks(orders) ==
    {pick \in [Sides -> orders \cup {NoNumber}] :
        \A d \in Sides : IF Of(d, orders) = {} THEN pick[d] = NoNumber
                                               ELSE pick[d] \in Of(d, orders)}

\* Open orders come back as SUBMITTED, whatever they have executed.
RestoreUnfilled ==
    /\ phase = "unfilled"
    /\ \E pick \in Picks(Open) :
        /\ ctx' = [d \in Sides |->
                      IF pick[d] = NoNumber THEN ctx[d]
                      ELSE [state |-> "SUBMITTED", no |-> pick[d]]]
        /\ strayed' = {n \in Open : pick[n[1]] # n}
    /\ phase' = "filled"
    /\ UNCHANGED <<market, held, miss, alarm, manual, recon, fails, counted>>

\* A row of today's executions completes the live context of its key, or comes
\* back as an order that is FILLED.
RestoreFilled ==
    /\ phase = "filled"
    /\ \E pick \in Picks(Executed) :
        /\ ctx' = [d \in Sides |->
                      IF pick[d] = NoNumber THEN ctx[d]
                      ELSE IF Live(d) THEN [ctx[d] EXCEPT !.state = "FILLED"]
                      ELSE [state |-> "FILLED", no |-> pick[d]]]
        /\ strayed' = strayed \cup
              {n \in Open : ctx[n[1]].no = n /\ pick[n[1]] \notin {n, NoNumber}}
    /\ phase' = "check"
    /\ UNCHANGED <<market, held, miss, alarm, manual, recon, fails, counted>>

\* The query of a restore step fails: the step is passed over.
RestoreFails ==
    /\ fails
    /\ \/ phase = "unfilled" /\ phase' = "filled"
       \/ phase = "filled" /\ phase' = "check"
    /\ UNCHANGED <<market, held, ctx, miss, alarm, manual, recon, fails, history>>

-----------------------------------------------------------------------------

Restore == RestoreUnfilled \/ RestoreFilled \/ RestoreFails

Reconcile == Start \/ AskUnfilled \/ AskFilled \/ AskBalance \/ AskFails \/ Compare

Next ==
    \/ \E n \in Nos :
        \/ \E q \in 1..Qty : Execute(n, q)
        \/ Cancel(n)
        \/ \E num \in Numbering : Accept(n, num)
        \/ Report(n)
    \/ NewDay
    \/ \E d \in Sides : Submit(d) \/ Refuse(d)
    \/ Reconcile
    \/ Crash
    \/ Restore

Spec == Init /\ [][Next]_vars

\* Startup goes through, the check runs after every session, and a query that is
\* asked again and again is answered in the end.
Fairness ==
    /\ WF_vars(Restore)
    /\ WF_vars(Start)
    /\ SF_vars(AskUnfilled)
    /\ SF_vars(AskFilled)
    /\ SF_vars(AskBalance)
    /\ SF_vars(Compare)

FairSpec == Spec /\ Fairness
-----------------------------------------------------------------------------
(* Properties *)

\* An order the program has no number for, which the reconciliation and the polling
\* by number cannot see, keeps new orders blocked as long as it is taken for open:
\* no clean check clears that alarm.
NumberlessBlocks ==
    \A d \in Sides : ctx[d] = [state |-> "SUBMITTED", no |-> NoNumber] => alarm

\* What the reconciliation gives up as canceled on its own second mismatch is no longer
\* open at the broker: the picture may be old, and that is what the second one is for.
\* Of an order given up on another's mismatch it is not so.
GivenUpIsDead ==
    [][Compare => \A d \in GivenUp : ~Inherited(d) => ctx[d].no \notin Open]_vars

\* While the program trades, every order open at the broker and not yet executed is
\* alive in its book, after a restart as well: otherwise a second order may go out on
\* the symbol.  Of an order executed in part it is not so: a restart takes the row of
\* its execution for a completed order; nor of one that strayed.
OpenIsTracked ==
    phase = "open" /\ ~fails =>
        \A n \in Open \ strayed : market[n].done = 0 =>
            Live(n[1]) /\ ctx[n[1]].no \in {n, NoNumber}

\* An order that the broker dropped without an execution, and nobody reported.
Ghost(d) == \E n \in Nos :
    /\ ctx[d].no = n /\ Live(d)
    /\ market[n].status = "canceled" /\ market[n].done = 0
    /\ d = "SELL" \/ held = 0

\* It does not keep its symbol forever: the check gives it up, a BUY while nothing is held.
GhostIsReleased == \A d \in Sides : []<>~Ghost(d)

=============================================================================
