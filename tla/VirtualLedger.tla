---------------------------- MODULE VirtualLedger ----------------------------
(***************************************************************************)
(* The HOLD rows of the virtual ledger (VirtualTradeRepository) and the two *)
(* tasks that reconcile them with the account at the opening of the market: *)
(* OpeningPositionReconcileTask and the scheduler's _run_reconciliation.    *)
(* Between the balance a task asks for and its last write to the ledger     *)
(* trades execute, their reports are written, and the other task writes.    *)
(*                                                                          *)
(* One code: the rows of a code are the concern of that code alone.         *)
(***************************************************************************)
EXTENDS Integers, Sequences, SequencesExt, FiniteSets

CONSTANTS
    Strategies,     \* strategies that trade the code
    Manual,         \* the trader of manual orders
    Reconciled,     \* the name of rows that reconciliation registers
    MaxShares,      \* bound: shares of the account
    Lots            \* bound: quantities of trades

ASSUME ConstantsAssumption ==
    /\ IsFiniteSet(Strategies)
    /\ Manual \notin Strategies /\ Reconciled \notin Strategies \cup {Manual}
    /\ MaxShares \in Nat \ {0} /\ Lots \subseteq 1..MaxShares

VARIABLES
    shares,     \* what each trader has at the broker
    reports,    \* the executed trade of each trader that is not in the ledger yet
    holds,      \* the HOLD rows in the order of their id
    job,        \* what each reconciliation does
    done,       \* it is stamped with the day (_last_checked_date, _reconciled_dates)
    paper,      \* the account is a paper account
    saved,      \* the account number in the state file
    fresh       \* no trade has executed since the paper account was replaced
                \* (no field of the program)

vars == <<shares, reports, holds, job, done, paper, saved, fresh>>

Traders == Strategies \cup {Manual}
Names == Traders \cup {Reconciled}
Tasks == {"opening", "scheduler"}
Quantities == 1..MaxShares

Rows == [name : Names, qty : Quantities]
Reports == [side : {"BUY", "SELL"}, qty : Lots] \cup {<<>>}
NoReport == <<>>

\* What a task has found that it must do, and for which row.
\* quiet: nothing was executed or written since the balance was taken, except by another
\* reconciliation of which the same is true; and once the rows are read, there were no
\* several rows to choose from (no field of the program).
NoJob == [pc |-> "idle", balance |-> 0, todo |-> "nothing", row |-> Reconciled,
          calls |-> 0, force |-> TRUE, quiet |-> TRUE]
Jobs == [pc : {"idle", "asked", "told"}, balance : 0..MaxShares,
         todo : {"nothing", "close", "register", "correct"}, row : Names,
         calls : 0..Cardinality(Names), force : BOOLEAN, quiet : BOOLEAN]

TypeOK ==
    /\ shares \in [Traders -> 0..MaxShares]
    /\ reports \in [Traders -> Reports]
    /\ Len(holds) <= Cardinality(Names) /\ \A i \in DOMAIN holds : holds[i] \in Rows
    /\ job \in [Tasks -> Jobs]
    /\ done \in [Tasks -> BOOLEAN]
    /\ paper \in BOOLEAN /\ fresh \in BOOLEAN
    /\ saved \in {"none", "this", "other"}

Init ==
    /\ shares = [t \in Traders |-> 0] /\ reports = [t \in Traders |-> NoReport]
    /\ holds = <<>>
    /\ job = [j \in Tasks |-> NoJob] /\ done = [j \in Tasks |-> FALSE]
    /\ paper \in BOOLEAN /\ saved = "none" /\ fresh = FALSE

Balance == FoldFunction(+, 0, shares)
Quantity(rows) == FoldLeft(LAMBDA n, row : n + row.qty, 0, rows)
At(j, pc) == job[j].pc = pc

\* Every reconciliation under way but j has lost its quiet.
Disturb(jobs, j) ==
    [k \in Tasks |-> IF k = j \/ jobs[k].pc = "idle" THEN jobs[k]
                     ELSE [jobs[k] EXCEPT !.quiet = FALSE]]

-----------------------------------------------------------------------------
(* Trades and their records *)

\* Bound: in a paper account only manual orders.
Trade(t, side, n) ==
    /\ paper => t = Manual
    /\ reports[t] = NoReport
    /\ reports' = [reports EXCEPT ![t] = [side |-> side, qty |-> n]]
    /\ shares' = [shares EXCEPT ![t] = IF side = "BUY" THEN @ + n ELSE @ - n]
    /\ job' = Disturb(job, "none")
    /\ fresh' = FALSE
    /\ UNCHANGED <<holds, done, paper, saved>>

Buys(t) == \E n \in Lots : Balance + n <= MaxShares /\ Trade(t, "BUY", n)
Sells(t) == \E n \in Lots : n <= shares[t] /\ Trade(t, "SELL", n)

Holding(rows, name) == \E i \in DOMAIN rows : rows[i].name = name

\* Mutant of Bought: it does not look whether the strategy holds the code.
BoughtAgain(rows, name, n) == Append(rows, [name |-> name, qty |-> n])

\* log_buy, under the repository's lock.  That it takes a purchase for the record of the same
\* second, price and quantity, sold since, and does not write it: see Unlogged.
Bought(rows, name, n) ==
    IF Holding(rows, name) THEN rows ELSE Append(rows, [name |-> name, qty |-> n])

\* _settle_hold_sale: what is left of the row stays as HOLD.
Settled(rows, i, n) ==
    IF n < rows[i].qty THEN [rows EXCEPT ![i].qty = @ - n] ELSE RemoveAt(rows, i)

\* log_sell_by_strategy and log_sell: the newest row of the strategy, or of anybody.
Sold(rows, whose, n) ==
    LET own == {i \in DOMAIN rows : rows[i].name \in whose}
    IN  IF own = {} THEN rows
        ELSE Settled(rows, CHOOSE i \in own : \A k \in own : k <= i, n)

Whose(t) == IF t = Manual THEN Names ELSE {t}

Logged(t) ==
    LET r == reports[t]
    IN  /\ r # NoReport
        /\ reports' = [reports EXCEPT ![t] = NoReport]
        /\ holds' = IF r.side = "BUY" THEN Bought(holds, t, r.qty)
                    ELSE Sold(holds, Whose(t), r.qty)
        /\ job' = Disturb(job, "none")
        /\ UNCHANGED <<shares, done, paper, saved, fresh>>

\* The write fails, log_buy finds a record like it of the same second (_has_same_buy_record),
\* or the trade was made outside the program.
Unlogged(t) ==
    /\ reports[t] # NoReport
    /\ reports' = [reports EXCEPT ![t] = NoReport]
    /\ UNCHANGED <<shares, holds, job, done, paper, saved, fresh>>

-----------------------------------------------------------------------------
(* Reconciliation *)

\* The broker reads the balance.  The scheduler notes the day before it asks.
Ask(j) ==
    /\ At(j, "idle") /\ ~done[j]
    /\ done' = IF j = "scheduler" THEN [done EXCEPT ![j] = TRUE] ELSE done
    /\ job' = [job EXCEPT ![j] = [NoJob EXCEPT !.pc = "asked", !.balance = Balance]]
    /\ UNCHANGED <<shares, reports, holds, paper, saved, fresh>>

\* _detect_paper_account_rollover, for the opening task
Rollover(balance) ==
    paper /\ holds # <<>> /\ balance = 0 /\ saved \in {"none", "other"}

\* The answer: the rows are read, and what is to be done follows.  A code the account does
\* not have is closed, by as many calls as there are rows, unless the account was
\* replaced; a code the ledger does not have is registered; the quantity of a row that is
\* the only one is corrected.
Answered(j) ==
    /\ At(j, "asked")
    /\ LET balance == job[j].balance
           rolled == j = "opening" /\ Rollover(balance)
           todo == IF balance = 0 THEN (IF holds = <<>> \/ rolled THEN "nothing" ELSE "close")
                   ELSE IF holds = <<>> THEN "register"
                   ELSE IF Len(holds) = 1 /\ Quantity(holds) # balance THEN "correct"
                   ELSE "nothing"
       IN  job' = [job EXCEPT ![j] =
                    [job[j] EXCEPT !.pc = "told", !.todo = todo, !.force = ~rolled,
                              !.row = IF todo = "correct" THEN holds[1].name ELSE @,
                              !.calls = IF todo = "close" THEN Len(holds) ELSE 0,
                              !.balance = IF todo \in {"register", "correct"} THEN @ ELSE 0,
                              !.quiet = @ /\ ~rolled /\ (balance = 0 \/ Len(holds) <= 1)]]
    /\ UNCHANGED <<shares, reports, holds, done, paper, saved, fresh>>

\* An error: the opening task asks again.
Fails(j) ==
    /\ At(j, "asked")
    /\ job' = [job EXCEPT ![j] = NoJob]
    /\ UNCHANGED <<shares, reports, holds, done, paper, saved, fresh>>

\* What j writes disturbs the others if it is not quiet itself.
Writes(j, jobs) == job' = IF job[j].quiet THEN jobs ELSE Disturb(jobs, j)

\* Mutant of ForceClose: it closes the rows of traders only.
ForceCloseTraded(j) ==
    /\ At(j, "told") /\ job[j].calls > 0
    /\ holds' = Sold(holds, Traders, MaxShares)
    /\ Writes(j, [job EXCEPT ![j].calls = @ - 1])
    /\ UNCHANGED <<shares, reports, done, paper, saved, fresh>>

\* Each call of log_sell closes the newest row there is.
ForceClose(j) ==
    /\ At(j, "told") /\ job[j].calls > 0
    /\ holds' = Sold(holds, Names, MaxShares)
    /\ Writes(j, [job EXCEPT ![j].calls = @ - 1])
    /\ UNCHANGED <<shares, reports, done, paper, saved, fresh>>

\* update_hold_qty
Corrected(rows, name, n) ==
    [i \in DOMAIN rows |-> IF rows[i].name = name THEN [rows[i] EXCEPT !.qty = n]
                           ELSE rows[i]]

Booked(j) ==
    CASE job[j].todo = "register" -> Bought(holds, Reconciled, job[j].balance)
      [] job[j].todo = "correct" -> Corrected(holds, job[j].row, job[j].balance)
      [] OTHER -> holds

\* Mutant of Ends: the account number is noted in any case.
EndsNoting(j) ==
    /\ At(j, "told") /\ job[j].calls = 0
    /\ holds' = Booked(j)
    /\ Writes(j, [job EXCEPT ![j] = NoJob])
    /\ done' = [done EXCEPT ![j] = TRUE]
    /\ saved' = IF j = "opening" /\ paper THEN "this" ELSE saved
    /\ UNCHANGED <<shares, reports, paper, fresh>>

\* After its last write the opening task stamps the day, and notes the account unless it
\* held back.
Ends(j) ==
    /\ At(j, "told") /\ job[j].calls = 0
    /\ holds' = Booked(j)
    /\ Writes(j, [job EXCEPT ![j] = NoJob])
    /\ done' = [done EXCEPT ![j] = TRUE]
    /\ saved' = IF j = "opening" /\ paper /\ job[j].force THEN "this" ELSE saved
    /\ UNCHANGED <<shares, reports, paper, fresh>>

-----------------------------------------------------------------------------
(* Days and processes *)

\* Mutant of NewDay: the scheduler's stamp stays.
NewDayStamped ==
    /\ \A j \in Tasks : At(j, "idle")
    /\ done' = [done EXCEPT !["opening"] = FALSE]
    /\ UNCHANGED <<shares, reports, holds, job, paper, saved, fresh>>

\* The opening task may miss its window.
NewDay ==
    /\ \A j \in Tasks : At(j, "idle")
    /\ done' = [j \in Tasks |-> FALSE]
    /\ UNCHANGED <<shares, reports, holds, job, paper, saved, fresh>>

\* The process starts again, without the stamps; what was executed in the meantime is
\* reported later.
Restart ==
    /\ job' = [j \in Tasks |-> NoJob] /\ done' = [j \in Tasks |-> FALSE]
    /\ UNCHANGED <<shares, reports, holds, paper, saved, fresh>>

\* A paper account expires and the program is started with another one.
NewAccount ==
    /\ paper
    /\ shares' = [t \in Traders |-> 0] /\ reports' = [t \in Traders |-> NoReport]
    /\ job' = [j \in Tasks |-> NoJob] /\ done' = [j \in Tasks |-> FALSE]
    /\ saved' = IF saved = "this" THEN "other" ELSE saved
    /\ fresh' = TRUE
    /\ UNCHANGED <<holds, paper>>

-----------------------------------------------------------------------------

Writing(j) == ForceClose(j) \/ Ends(j)

Next ==
    \/ \E t \in Traders : Buys(t) \/ Sells(t) \/ Logged(t) \/ Unlogged(t)
    \/ \E j \in Tasks : Ask(j) \/ Answered(j) \/ Fails(j) \/ Writing(j)
    \/ NewDay \/ Restart \/ NewAccount

\* Days follow each other, a task that has begun gets on, the scheduler's loop comes to its
\* reconciliation, and of its questions to the broker not all fail.
Fairness ==
    /\ SF_vars(NewDay) /\ SF_vars(Ask("scheduler")) /\ SF_vars(Answered("scheduler"))
    /\ SF_vars(Writing("scheduler"))
    /\ WF_vars(Answered("opening") \/ Fails("opening")) /\ WF_vars(Writing("opening"))

Spec == Init /\ [][Next]_vars /\ Fairness

-----------------------------------------------------------------------------
(* What must hold *)

\* A strategy has one HOLD row of the code, whatever reports and reconciliations write.
OneHold ==
    \A i, k \in DOMAIN holds : holds[i].name = holds[k].name => i = k

\* A reconciliation in whose course nothing traded leaves the quantity of the account in
\* the ledger, if the account was empty or the ledger had at most one row; also when the
\* other one runs at the same time.
RepairsBooks ==
    [][\A j \in Tasks : Ends(j) /\ job[j].quiet => Quantity(holds') = Balance]_vars

\* The rows of a paper account that was replaced are not force-closed by the opening task
\* on any day before the new account trades.
RolloverKeepsHolds == fresh /\ paper => job["opening"].calls = 0

NothingToReport == \A t \in Traders : reports[t] = NoReport

\* Once trading has stopped the ledger comes to hold the code exactly if the account does.
LedgerHeals == <>[]NothingToReport => <>[](holds = <<>> <=> Balance = 0)

=============================================================================
