----------------------------- MODULE KillSwitch ------------------------------
(***************************************************************************)
(* KillSwitchService: the switch of the account and the switches of the     *)
(* strategies, the counters of losses and of API errors that trip them, the *)
(* state file that carries them over a restart, the daily report that blocks *)
(* a strategy and the operator who resets them.                             *)
(*                                                                          *)
(* Every operation runs under one asyncio lock and writes the state file    *)
(* between awaits: the process may die between two writes, or a write fail  *)
(* and be logged only, but no other task runs there.  The lock stays taken  *)
(* while the operator is notified of a trip by a counter.  The report looks *)
(* at a strategy's switch before it waits for the lock.                     *)
(*                                                                          *)
(* The names that every specification has begin with Switch here, as this   *)
(* module is extended together with another one in the proofs.              *)
(***************************************************************************)
EXTENDS Integers

CONSTANTS
    Strategies,
    NoStrategy,
    StrategyLosses, \* max_consecutive_losses_for_kill
    StrategyLimit,  \* daily_loss_won_for_kill, in the same lots
    MaxFailed,      \* bound: writes that fail in a row
    MaxLosses,      \* max_consecutive_losses
    MaxErrors,      \* max_consecutive_api_errors
    LossLimit,      \* daily_loss_threshold_won, in lots of one losing trade
    MaxCount        \* bound: losses and errors are counted up to it

ASSUME SwitchConstants ==
    /\ MaxLosses \in Nat \ {0}
    /\ MaxErrors \in Nat \ {0}
    /\ LossLimit \in Nat \ {0}
    /\ StrategyLosses \in Nat \ {0}
    /\ StrategyLimit \in Nat \ {0}
    /\ MaxCount \in Nat
    /\ MaxFailed \in Nat
    /\ NoStrategy \notin Strategies
    /\ Strategies \cap {"free", "trip", "notify"} = {}

VARIABLES
    mem,        \* the switches and their counters in memory
    disk,       \* the same in the state file
    lock,       \* "free", "trip" or a strategy: about to trip the account or the strategy,
                \* "notify": the operator is told
    due,        \* sales recorded for the account and not yet for their strategy
    report,     \* the strategy the daily report saw without a block and waits to block
    stale,      \* the writes that failed since the last one that did not; 1 after a start
                \* that could not read the file
    excused,    \* an operator or a crash undid the account's trip, and none came since
    lost        \* the strategies whose trip a crash may have lost, with none since
                \* (no fields of the program, nor is stale)

switchVars == <<mem, disk, lock, due, report, stale, excused, lost>>

\* block: the sides a strategy may not trade.
Strategy == [block : {"none", "buy", "all"}, losses : Nat, loss : Nat]

State == [tripped : BOOLEAN, losses : Nat, errors : Nat, loss : Nat,
          strategy : [Strategies -> Strategy]]

SwitchTypeOK ==
    /\ mem \in State
    /\ disk \in State
    /\ lock \in {"free", "trip", "notify"} \cup Strategies
    /\ due \subseteq Strategies \X BOOLEAN
    /\ report \in Strategies \cup {NoStrategy}
    /\ stale \in Nat
    /\ excused \in BOOLEAN
    /\ lost \subseteq Strategies

Unblocked == [block |-> "none", losses |-> 0, loss |-> 0]

Fresh == [tripped |-> FALSE, losses |-> 0, errors |-> 0, loss |-> 0,
          strategy |-> [s \in Strategies |-> Unblocked]]

SwitchInit ==
    /\ mem = Fresh
    /\ disk = Fresh
    /\ lock = "free"
    /\ due = {}
    /\ report = NoStrategy
    /\ stale = 0
    /\ excused = FALSE
    /\ lost = {}

-----------------------------------------------------------------------------

\* _save_state after the memory became st: the file follows, or a failed write
\* leaves it as it was.
Save(st) ==
    /\ mem' = st
    /\ \/ disk' = st /\ stale' = 0
       \/ stale < MaxFailed /\ UNCHANGED disk /\ stale' = stale + 1

TooManyLosses(st) == st.losses >= MaxLosses
TooManyErrors(st) == st.errors >= MaxErrors
TooMuchLost(st) == st.loss >= LossLimit

OverStrategyLimit(x) == x.losses >= StrategyLosses \/ x.loss >= StrategyLimit

-----------------------------------------------------------------------------
(* What is recorded *)

\* Mutant of Result: a gain makes up for one loss, also where there is none.
ResultMakesUp(gain, counts) ==
    [tripped |-> mem.tripped, errors |-> mem.errors, strategy |-> mem.strategy,
     losses  |-> IF ~counts THEN mem.losses ELSE IF gain THEN mem.losses - 1
                 ELSE mem.losses + 1,
     loss    |-> IF gain THEN mem.loss ELSE mem.loss + 1]

\* The counters after a sale; a position held overnight does not count for the
\* losses in a row.
Result(gain, counts) ==
    [tripped |-> mem.tripped, errors |-> mem.errors, strategy |-> mem.strategy,
     losses  |-> IF ~counts THEN mem.losses ELSE IF gain THEN 0 ELSE mem.losses + 1,
     loss    |-> IF gain THEN mem.loss ELSE mem.loss + 1]

\* record_trade_result for a sale of strategy s, or of none, whose own result is recorded
\* after it.  pct: the loss of the day is past its share of the account.
\* Bound: a strategy has one gain and one loss waiting.
RecordTradeResult(s, gain, counts, pct) ==
    LET st == Result(gain, counts)
    IN  /\ lock = "free"
        /\ gain \/ mem.loss < MaxCount
        /\ <<s, gain>> \notin due
        /\ due' = due \cup ({<<s, gain>>} \cap (Strategies \X BOOLEAN))
        /\ pct => st.loss > 0
        /\ Save(st)
        /\ lock' = IF TooManyLosses(st) \/ TooMuchLost(st) \/ pct THEN "trip" ELSE "free"
        /\ UNCHANGED <<report, excused, lost>>

RecordApiFailure ==
    /\ lock = "free"
    /\ mem.errors < MaxCount
    /\ Save([mem EXCEPT !.errors = @ + 1])
    /\ lock' = IF mem.errors + 1 >= MaxErrors THEN "trip" ELSE "free"
    /\ UNCHANGED <<due, report, excused, lost>>

RecordApiSuccess ==
    /\ lock = "free"
    /\ mem.errors # 0
    /\ Save([mem EXCEPT !.errors = 0])
    /\ UNCHANGED <<lock, due, report, excused, lost>>

\* record_fill_event with a price too far off, or manual_trip.
AskTrip ==
    /\ lock = "free"
    /\ lock' = "trip"
    /\ UNCHANGED <<mem, disk, due, report, stale, excused, lost>>

\* _trip: written only when it was not tripped before.
Trip ==
    /\ lock = "trip"
    /\ lock' = "notify"
    /\ IF mem.tripped THEN UNCHANGED <<mem, disk, stale>>
                      ELSE Save([mem EXCEPT !.tripped = TRUE])
    /\ excused' = FALSE
    /\ UNCHANGED <<due, report, lost>>

\* The notification was sent and the lock is given back.
Notified ==
    /\ lock = "notify"
    /\ lock' = "free"
    /\ UNCHANGED <<mem, disk, due, report, stale, excused, lost>>

\* manual_reset: the counters stay.
ManualReset ==
    /\ lock = "free"
    /\ mem.tripped
    /\ Save([mem EXCEPT !.tripped = FALSE])
    /\ excused' = TRUE
    /\ UNCHANGED <<lock, due, report, lost>>

-----------------------------------------------------------------------------
(* The strategies' switches *)

\* Memory in which s has become x.
With(s, x) == [mem EXCEPT !.strategy = [@ EXCEPT ![s] = x]]

\* The counters of a strategy after a sale of its own; each one counts.
StrategyResult(x, gain) ==
    [block  |-> x.block,
     losses |-> IF gain THEN 0 ELSE x.losses + 1,
     loss   |-> IF gain THEN x.loss ELSE x.loss + 1]

\* Mutant of RecordStrategyResult: the strategy is judged by what it was before the sale.
JudgedBefore(s, gain) ==
    LET x == StrategyResult(mem.strategy[s], gain)
    IN  /\ lock = "free"
        /\ <<s, gain>> \in due
        /\ due' = due \ {<<s, gain>>}
        /\ Save(With(s, x))
        /\ lock' = IF x.block = "none" /\ OverStrategyLimit(mem.strategy[s]) THEN s ELSE "free"
        /\ UNCHANGED <<report, excused, lost>>

\* record_strategy_trade_result, which follows the account's for a sale by a strategy:
\* a strategy already blocked on any side is not judged again.
RecordStrategyResult(s, gain) ==
    LET x == StrategyResult(mem.strategy[s], gain)
    IN  /\ lock = "free"
        /\ <<s, gain>> \in due
        /\ due' = due \ {<<s, gain>>}
        /\ Save(With(s, x))
        /\ lock' = IF x.block = "none" /\ OverStrategyLimit(x) THEN s ELSE "free"
        /\ UNCHANGED <<report, excused, lost>>

\* _trip_strategy_locked: both sides, as it names none.
TripStrategy(s) ==
    /\ lock = s
    /\ lock' = "notify"
    /\ Save(With(s, [mem.strategy[s] EXCEPT !.block = "all"]))
    /\ lost' = lost \ {s}
    /\ UNCHANGED <<due, report, excused>>

\* The daily report finds a strategy in decline and without a block.
ReportDecline(s) ==
    /\ report = NoStrategy
    /\ mem.strategy[s].block = "none"
    /\ report' = s
    /\ UNCHANGED <<mem, disk, lock, due, stale, excused, lost>>

\* trip_strategy of the report, whatever happened to the switch since: it blocks buys,
\* and tells the operator without the lock.
ReportBlocks(s) ==
    /\ report = s
    /\ lock = "free"
    /\ Save(With(s, [mem.strategy[s] EXCEPT !.block = "buy"]))
    /\ report' = NoStrategy
    /\ lost' = lost \ {s}
    /\ UNCHANGED <<lock, due, excused>>

\* reset_strategy: the counters go with the block.
ResetStrategy(s) ==
    /\ lock = "free"
    /\ Save(With(s, Unblocked))
    /\ lost' = lost \ {s}
    /\ UNCHANGED <<lock, due, report, excused>>

-----------------------------------------------------------------------------
(* The process.  No trading day begins: nothing calls reset_daily_counters, nor *)
(* reset_strategy_daily_counters                                               *)

\* Mutant of Restart: what the file says of strategies is not read back.
RestartWithout ==
    /\ mem' = [disk EXCEPT !.strategy = Fresh.strategy]
    /\ lock' = "free"
    /\ due' = {}
    /\ report' = NoStrategy
    /\ stale' = 0
    /\ excused' = (excused \/ stale # 0 \/ lock = "trip")
    /\ lost' = IF stale # 0 THEN Strategies ELSE lost \cup ({lock} \cap Strategies)
    /\ UNCHANGED disk

\* The process dies and comes back: _load_state reads the file and judges nothing.
Restart ==
    /\ mem' = disk
    /\ lock' = "free"
    /\ due' = {}
    /\ report' = NoStrategy
    /\ stale' = 0
    /\ excused' = (excused \/ stale # 0 \/ lock = "trip")
    /\ lost' = IF stale # 0 THEN Strategies ELSE lost \cup ({lock} \cap Strategies)
    /\ UNCHANGED disk

\* _load_state cannot read the file and only logs that: nothing is tripped and nothing
\* counted, and the file is left as it is until the next write.
RestartUnread ==
    /\ mem' = Fresh
    /\ lock' = "free"
    /\ due' = {}
    /\ report' = NoStrategy
    /\ stale' = 1
    /\ excused' = FALSE
    /\ lost' = {}
    /\ UNCHANGED disk

-----------------------------------------------------------------------------

SwitchNext ==
    \/ \E s \in Strategies \cup {NoStrategy}, gain, counts, pct \in BOOLEAN :
          RecordTradeResult(s, gain, counts, pct)
    \/ RecordApiFailure
    \/ RecordApiSuccess
    \/ AskTrip
    \/ Trip
    \/ Notified
    \/ ManualReset
    \/ \E s \in Strategies : \/ \E gain \in BOOLEAN : RecordStrategyResult(s, gain)
                             \/ TripStrategy(s)
                             \/ ReportDecline(s)
                             \/ ReportBlocks(s)
                             \/ ResetStrategy(s)
    \/ Restart
    \/ RestartUnread

SwitchSpec == SwitchInit /\ [][SwitchNext]_switchVars
-----------------------------------------------------------------------------
(* Properties *)

\* Only the operator releases a tripped switch, the account's or a strategy's: no later
\* result, no success, no report and no restart does, unless a write failed or the start
\* could not read the file ("the release is always the operator's").
OnlyOperatorReleases ==
    [][/\ mem.tripped /\ ~mem'.tripped => ManualReset \/ stale # 0 \/ RestartUnread
       /\ \A s \in Strategies :
             mem.strategy[s].block # "none" /\ mem'.strategy[s].block = "none"
                 => ResetStrategy(s) \/ stale # 0 \/ RestartUnread]_switchVars

OverLimit(st) == TooManyLosses(st) \/ TooManyErrors(st) \/ TooMuchLost(st)

\* A counter at its limit means a tripped switch, unless an operator released it, or a
\* crash lost the write that tripped it, and nothing has tripped it since: no order of
\* results, errors, successes, reports and restarts leaves the account or a strategy
\* trading past a limit.  The operator who releases a strategy is no excuse for it.
OverLimitIsTripped ==
    lock = "free" =>
        /\ OverLimit(mem) => mem.tripped \/ excused
        /\ \A s \in Strategies \ lost :
              OverStrategyLimit(mem.strategy[s]) => mem.strategy[s].block # "none"
=============================================================================
