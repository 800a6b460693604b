----------------------- MODULE BrokerReconcileProofs ------------------------
(***************************************************************************)
(* Proofs about BrokerReconcile, for any number of orders on a side and of  *)
(* any quantity.                                                            *)
(***************************************************************************)
EXTENDS BrokerReconcile, TLAPS

Order == [status : {"none", "open", "filled", "canceled"}, done : 0..Qty, today : BOOLEAN]
Picture == [pc : {"idle", "unfilled", "filled", "balance", "compare"},
            unfilled : SUBSET Nos, filled : SUBSET Nos, holds : BOOLEAN]

LEMMA Constants == PerKey \in Nat /\ Qty \in Nat /\ PerKey >= 1 /\ Qty >= 1
BY ConstantsAssumption DEF ConstantsAssumption

-----------------------------------------------------------------------------
(* Types *)

LEMMA TypeStep == TypeOK /\ [Next]_vars => TypeOK'
<1> SUFFICES ASSUME TypeOK, [Next]_vars PROVE TypeOK'
  OBVIOUS
<1>0. /\ market \in [Nos -> Order] /\ held \in Nat /\ ctx \in [Sides -> Context]
      /\ miss \in [Sides -> 0..Threshold] /\ recon \in Picture
      /\ counted \in [Sides -> Nos \cup {NoNumber}] /\ strayed \subseteq Nos
  BY DEF TypeOK, Order, Picture
<1>1. ASSUME NEW n \in Nos, NEW q \in 1..Qty, Execute(n, q) PROVE TypeOK'
  <2> DEFINE total == market[n].done + q
             one == [market[n] EXCEPT !.done = total]
             two == [one EXCEPT !.status = IF total = Qty THEN "filled" ELSE "open"]
  <2>1. market[n] \in Order /\ total \in 0..Qty
    BY <1>0, <1>1, Constants DEF Execute, Order
  <2>2. two \in Order
    BY <2>1 DEF Order
  <2>3. market' = [market EXCEPT ![n] = two]
    BY <1>0, <1>1 DEF Execute
  <2>4. held' \in Nat
    <3>1. CASE n[1] = "BUY"
      BY <1>0, <1>1, <3>1, Constants DEF Execute
    <3>2. CASE n[1] # "BUY"
      BY <1>0, <1>1, <3>2, Constants DEF Execute, Nos, Sides
    <3> QED BY <3>1, <3>2
  <2>5. market' \in [Nos -> Order] /\ UNCHANGED <<memory, fails, history>>
    BY <1>0, <1>1, <2>2, <2>3 DEF Execute
  <2> QED BY <2>4, <2>5 DEF TypeOK, Order, memory, history
<1>2. ASSUME NEW n \in Nos, Cancel(n) PROVE TypeOK'
  BY <1>0, <1>2 DEF Cancel, TypeOK, memory, history
<1>3. CASE NewDay
  <2> DEFINE day == [n \in Nos |-> [market[n] EXCEPT
                       !.status = IF @ = "open" THEN "canceled" ELSE @, !.today = FALSE]]
  <2>1. ASSUME NEW n \in Nos PROVE day[n] \in Order
    <3>1. market[n] \in Order
      BY <1>0
    <3> QED BY <3>1 DEF Order
  <2>2. market' = day /\ UNCHANGED <<held, memory, fails, history>>
    BY <1>3 DEF NewDay
  <2>3. market' \in [Nos -> Order]
    BY <2>1, <2>2
  <2> QED BY <2>2, <2>3 DEF TypeOK, Order, memory, history
<1>4. ASSUME NEW d \in Sides, Submit(d) \/ Refuse(d) PROVE TypeOK'
  <2>1. ctx' \in [Sides -> Context]
    BY <1>0, <1>4 DEF Submit, Refuse, Context, OrderState
  <2> QED BY <1>4, <2>1 DEF Submit, Refuse, TypeOK, history
<1>5. ASSUME NEW n \in Nos, NEW num \in Numbering, Accept(n, num) PROVE TypeOK'
  <2>1. n[1] \in Sides /\ num \in BOOLEAN
    BY ConstantsAssumption DEF Nos, ConstantsAssumption
  <2>2. ctx' \in [Sides -> Context]
    BY <1>0, <1>5, <2>1 DEF Accept, Context, OrderState
  <2>3. market' \in [Nos -> Order]
    BY <1>0, <1>5, Constants DEF Accept, Order
  <2>4. alarm' \in BOOLEAN /\ manual' \in BOOLEAN
    BY <1>5, Zenon DEF Accept
  <2>5. UNCHANGED <<held, miss, recon, phase, fails, history>>
    BY <1>5 DEF Accept
  <2> QED BY <2>2, <2>3, <2>4, <2>5 DEF TypeOK, Order, history
<1>6. ASSUME NEW n \in Nos, Report(n) PROVE TypeOK'
  <2>1. n[1] \in Sides /\ RowState(n) \in OrderState
    BY DEF Nos, RowState, OrderState
  <2>2. ctx' \in [Sides -> Context]
    BY <1>0, <1>6, <2>1 DEF Report, Context
  <2> QED BY <1>6, <2>2 DEF Report, TypeOK, history
<1>7. CASE Start \/ AskUnfilled \/ AskFilled \/ AskBalance \/ AskFails
  <2>1. recon' \in Picture
    <3>1. Open \in SUBSET Nos /\ Executed \in SUBSET Nos /\ (held > 0) \in BOOLEAN
      BY DEF Open, Executed
    <3>2. CASE Start
      BY <1>0, <3>2 DEF Start, Picture
    <3>3. CASE AskUnfilled
      BY <1>0, <3>1, <3>3 DEF AskUnfilled, Picture
    <3>4. CASE AskFilled
      BY <1>0, <3>1, <3>4 DEF AskFilled, Picture
    <3>5. CASE AskBalance
      <4>1. recon' = [[recon EXCEPT !.pc = "compare"] EXCEPT !.holds = held > 0]
        BY <3>5 DEF AskBalance
      <4> QED BY <1>0, <3>1, <4>1 DEF Picture
    <3>6. CASE AskFails
      BY <3>6 DEF AskFails, ReconIdle, Picture
    <3> QED BY <1>7, <3>2, <3>3, <3>4, <3>5, <3>6
  <2>2. phase' \in {"unfilled", "filled", "check", "open"}
        /\ UNCHANGED <<market, held, ctx, miss, alarm, manual, fails, history>>
    BY <1>7 DEF Start, AskUnfilled, AskFilled, AskBalance, AskFails, TypeOK
  <2> QED BY <2>1, <2>2 DEF TypeOK, Picture, history
<1>8. CASE Compare
  <2>1. ctx' \in [Sides -> Context]
    <3>1. \A d \in Sides : [ctx[d] EXCEPT !.state = "CANCELED"] \in Context
      BY <1>0 DEF Context, OrderState
    <3> QED BY <1>0, <1>8, <3>1 DEF Compare
  <2>2. miss' \in [Sides -> 0..Threshold]
    BY <1>0, <1>8 DEF Compare, Count, Threshold
  <2>3. alarm' \in BOOLEAN
    BY <1>8, Zenon DEF Compare, AlarmAfter
  <2>4. recon' \in Picture /\ phase' = "open" /\ UNCHANGED <<market, held, manual, fails>>
    BY <1>8 DEF Compare, ReconIdle, Picture
  <2>5. counted' \in [Sides -> Nos \cup {NoNumber}] /\ strayed' \subseteq Nos
    <3>1. \A d \in Sides : ctx[d].no \in Nos \cup {NoNumber}
      BY <1>0 DEF Context
    <3>2. Open \subseteq Nos
      BY DEF Open
    <3> QED BY <1>0, <1>8, <3>1, <3>2 DEF Compare
  <2> QED BY <2>1, <2>2, <2>3, <2>4, <2>5 DEF TypeOK, Picture
<1>9. CASE Crash
  <2>1. ctx' \in [Sides -> Context] /\ miss' \in [Sides -> 0..Threshold]
    BY <1>9 DEF Crash, NoContext, Context, Threshold
  <2>2. recon' \in Picture
    BY <1>9 DEF Crash, ReconIdle, Picture
  <2> QED BY <1>9, <2>1, <2>2 DEF Crash, TypeOK, Picture
<1>10. ASSUME NEW orders \in SUBSET Nos, NEW pick \in Picks(orders), NEW d \in Sides
       PROVE  pick[d] # NoNumber => pick[d] \in orders /\ pick[d][1] = d
  BY DEF Picks, Of
<1>11. CASE RestoreUnfilled
  <2>1. PICK pick \in Picks(Open) :
           ctx' = [d \in Sides |-> IF pick[d] = NoNumber THEN ctx[d]
                                   ELSE [state |-> "SUBMITTED", no |-> pick[d]]]
    BY <1>11 DEF RestoreUnfilled
  <2>2. Open \in SUBSET Nos
    BY DEF Open
  <2>3. ctx' \in [Sides -> Context]
    BY <1>0, <1>10, <2>1, <2>2 DEF Context, OrderState
  <2>4. strayed' \subseteq Nos
    BY <1>0, <1>11 DEF RestoreUnfilled, Open
  <2> QED BY <1>11, <2>3, <2>4 DEF RestoreUnfilled, TypeOK
<1>12. CASE RestoreFilled
  <2>1. PICK pick \in Picks(Executed) :
           ctx' = [d \in Sides |-> IF pick[d] = NoNumber THEN ctx[d]
                                   ELSE IF Live(d) THEN [ctx[d] EXCEPT !.state = "FILLED"]
                                   ELSE [state |-> "FILLED", no |-> pick[d]]]
    BY <1>12 DEF RestoreFilled
  <2>2. Executed \in SUBSET Nos
    BY DEF Executed
  <2>3. ctx' \in [Sides -> Context]
    BY <1>0, <1>10, <2>1, <2>2 DEF Context, OrderState
  <2>4. strayed' \subseteq Nos
    BY <1>0, <1>12 DEF RestoreFilled, Open
  <2> QED BY <1>12, <2>3, <2>4 DEF RestoreFilled, TypeOK
<1>13. CASE RestoreFails
  BY <1>13 DEF RestoreFails, TypeOK, history
<1>14. CASE UNCHANGED vars
  BY <1>14 DEF vars, TypeOK, history
<1> QED
  BY <1>1, <1>2, <1>3, <1>4, <1>5, <1>6, <1>7, <1>8, <1>9, <1>11, <1>12, <1>13, <1>14
     DEF Next, Reconcile, Restore

LEMMA StartTyped == Init => TypeOK
<1> SUFFICES ASSUME Init PROVE TypeOK
  OBVIOUS
<1>1. market \in [Nos -> Order]
  BY Constants DEF Init, Order
<1>2. ctx \in [Sides -> Context] /\ miss \in [Sides -> 0..Threshold]
  BY DEF Init, NoContext, Context, Threshold
<1>3. recon \in Picture
  BY DEF Init, ReconIdle, Picture
<1> QED BY <1>1, <1>2, <1>3 DEF Init, TypeOK, Order, Picture

LEMMA PicksFacts ==
    ASSUME NEW orders \in SUBSET Nos, NEW pick \in Picks(orders), NEW d \in Sides
    PROVE  /\ pick[d] # NoNumber => pick[d] \in orders /\ pick[d][1] = d
           /\ pick[d] = NoNumber /\ NoNumber \notin orders => \A n \in orders : n[1] # d
BY DEF Picks, Of

LEMMA NumberFacts == \A n \in Nos : n # NoNumber /\ n[1] \in Sides
BY DEF Nos, NoNumber

LEMMA OrdersFacts == Open \in SUBSET Nos /\ Executed \in SUBSET Nos
BY DEF Open, Executed

-----------------------------------------------------------------------------
(* An order without a number blocks *)

\* The alarm of such an order is one that only an operator clears.
BlockInv ==
    \A d \in Sides : ctx[d].state = "SUBMITTED" /\ ctx[d].no = NoNumber => alarm /\ manual

LEMMA BlockStep == TypeOK /\ BlockInv /\ [Next]_vars => BlockInv'
<1> SUFFICES ASSUME TypeOK, BlockInv, [Next]_vars PROVE BlockInv'
  OBVIOUS
<1>0. ctx \in [Sides -> Context] /\ alarm \in BOOLEAN /\ manual \in BOOLEAN
  BY DEF TypeOK
\* Steps that bring no order into that state and leave the alarm.
<1>01. ASSUME UNCHANGED <<alarm, manual>>,
              \A d \in Sides : \/ ctx'[d] = ctx[d]
                               \/ ctx'[d].state # "SUBMITTED"
                               \/ ctx'[d].no # NoNumber
       PROVE  BlockInv'
  BY <1>01 DEF BlockInv
<1>1. CASE \/ NewDay \/ Start \/ AskUnfilled \/ AskFilled \/ AskBalance \/ AskFails
           \/ RestoreFails \/ UNCHANGED vars
           \/ \E n \in Nos : Cancel(n) \/ \E q \in 1..Qty : Execute(n, q)
  <2>1. UNCHANGED <<ctx, alarm, manual>>
    BY <1>1 DEF NewDay, Start, AskUnfilled, AskFilled, AskBalance, AskFails, RestoreFails,
                vars, Cancel, Execute, memory, history
  <2> QED BY <1>01, <2>1
<1>2. ASSUME NEW d \in Sides, Submit(d) \/ Refuse(d) PROVE BlockInv'
  BY <1>0, <1>01, <1>2 DEF Submit, Refuse, Context
<1>3. ASSUME NEW n \in Nos, NEW num \in Numbering, Accept(n, num) PROVE BlockInv'
  <2>1. /\ ctx' = [ctx EXCEPT ![n[1]] =
                     [state |-> "SUBMITTED", no |-> IF num THEN n ELSE NoNumber]]
        /\ alarm' = (alarm \/ ~num) /\ manual' = (manual \/ ~num)
    BY <1>3 DEF Accept
  <2>2. CASE num
    <3>1. alarm' = alarm /\ manual' = manual
      BY <1>0, <2>1, <2>2, Zenon
    <3>2. ctx' = [ctx EXCEPT ![n[1]] = [state |-> "SUBMITTED", no |-> n]] /\ n # NoNumber
      BY <2>1, <2>2, NumberFacts
    <3> QED BY <1>0, <1>01, <3>1, <3>2
  <2>3. CASE ~num
    <3>1. alarm' /\ manual'
      BY <2>1, <2>3, Zenon
    <3> QED BY <3>1 DEF BlockInv
  <2> QED BY <2>2, <2>3
<1>4. ASSUME NEW n \in Nos, Report(n) PROVE BlockInv'
  <2>1. ctx' = [ctx EXCEPT ![n[1]] = [state |-> RowState(n), no |-> n]]
        /\ UNCHANGED <<alarm, manual>>
    BY <1>4 DEF Report
  <2> QED BY <1>0, <1>01, <2>1, NumberFacts
<1>5. CASE Compare
  <2>1. ASSUME NEW d \in Sides, ctx'[d].state = "SUBMITTED", ctx'[d].no = NoNumber
        PROVE  alarm' /\ manual'
    <3>1. ctx'[d] = IF d \in GivenUp THEN [ctx[d] EXCEPT !.state = "CANCELED"] ELSE ctx[d]
      BY <1>5, <2>1 DEF Compare
    <3>2. d \notin GivenUp
      BY <1>0, <2>1, <3>1 DEF Context
    <3>3. alarm /\ manual
      BY <2>1, <3>1, <3>2 DEF BlockInv
    <3> QED BY <1>5, <3>3, Zenon DEF Compare, AlarmAfter
  <2> QED BY <2>1 DEF BlockInv
<1>6. CASE Crash
  BY <1>6 DEF Crash, BlockInv, NoContext, Absent
<1>7. CASE RestoreUnfilled
  <2>1. PICK pick \in Picks(Open) :
           ctx' = [d \in Sides |-> IF pick[d] = NoNumber THEN ctx[d]
                                   ELSE [state |-> "SUBMITTED", no |-> pick[d]]]
    BY <1>7 DEF RestoreUnfilled
  <2> QED BY <1>01, <1>7, <2>1 DEF RestoreUnfilled
<1>8. CASE RestoreFilled
  <2>1. PICK pick \in Picks(Executed) :
           ctx' = [d \in Sides |-> IF pick[d] = NoNumber THEN ctx[d]
                                   ELSE IF Live(d) THEN [ctx[d] EXCEPT !.state = "FILLED"]
                                   ELSE [state |-> "FILLED", no |-> pick[d]]]
    BY <1>8 DEF RestoreFilled
  <2>2. ASSUME NEW d \in Sides PROVE ctx'[d] = ctx[d] \/ ctx'[d].state # "SUBMITTED"
    BY <1>0, <2>1 DEF Context
  <2> QED BY <1>01, <1>8, <2>2 DEF RestoreFilled
<1> QED
  BY <1>1, <1>2, <1>3, <1>4, <1>5, <1>6, <1>7, <1>8 DEF Next, Reconcile, Restore

-----------------------------------------------------------------------------
(* The orders of a side *)

Untaken(d, i) == market[<<d, i>>].status = "none"

\* Every order taken after n of its side is none.
Latest(n) == \A i \in 1..PerKey : i > n[2] => Untaken(n[1], i)

\* The orders of a side are taken one after the other; a context's number is that of an
\* order of its side the broker took.
NumberInv ==
    /\ \A n \in Nos : market[n].status = "none" => market[n].done = 0 /\ Latest(n)
    /\ \A d \in Sides :
         ctx[d].no # NoNumber => ctx[d].no[1] = d /\ market[ctx[d].no].status # "none"

\* A mismatch was counted for an order the broker took before the check under way began,
\* so that the check has it among the open ones as long as it is open.
CountInv ==
    \A d \in Sides : miss[d] > 0 =>
        /\ counted[d] \in Nos /\ market[counted[d]].status # "none"
        /\ recon.pc \in {"filled", "balance", "compare"} /\ counted[d] \in Open
             => counted[d] \in recon.unfilled

\* The context of the side is the order's: it has its number, or will learn it.
Has(n) ==
    /\ Live(n[1]) /\ ctx[n[1]].state # "PENDING_SUBMIT"
    /\ ctx[n[1]].no = n \/ (ctx[n[1]].no = NoNumber /\ Latest(n))

\* An order that is to be found in the book.
Owed(n) == n \in Open \ strayed /\ market[n].done = 0

\* From the restore of the open orders on, an open order without an execution has its
\* context unless it strayed; no check runs before the restore is over.
BookInv ==
    /\ recon.pc # "idle" => phase \in {"check", "open"}
    /\ phase = "unfilled" => \A d \in Sides : ctx[d].state = Absent
    /\ phase = "filled" => \A d \in Sides : Live(d) => ctx[d].no # NoNumber
    /\ \A d \in Sides : ctx[d].state = "PENDING_SUBMIT" => phase = "open"
    /\ ~fails /\ phase # "unfilled" => \A n \in Nos : Owed(n) => Has(n)

OrdersInv == TypeOK /\ NumberInv /\ CountInv /\ BookInv

LEMMA NosFacts ==
    /\ \A n \in Nos : n[1] \in Sides /\ n[2] \in 1..PerKey /\ n = <<n[1], n[2]>>
    /\ \A d \in Sides, i \in 1..PerKey : <<d, i>> \in Nos /\ <<d, i>>[1] = d /\ <<d, i>>[2] = i
    /\ NoNumber \notin Nos /\ PerKey \in Nat
BY Constants DEF Nos, NoNumber

\* An order that a check gives up on its own count is no longer open.
LEMMA GivenUpFacts ==
    ASSUME OrdersInv, recon.pc = "compare", NEW d \in GivenUp
    PROVE  d \in Sides /\ ctx[d].no \in Nos /\ (~Inherited(d) => ctx[d].no \notin Open)
<1>1. /\ d \in Sides /\ ctx[d].no # NoNumber /\ ctx[d].no \notin recon.unfilled
      /\ Count(d) >= Threshold
  BY DEF GivenUp, Missing, Compared
<1>2. ctx[d].no \in Nos /\ miss[d] \in 0..Threshold
  BY <1>1 DEF OrdersInv, TypeOK, Context
<1>3. miss[d] > 0
  BY <1>1, <1>2 DEF Count, Threshold
<1>4. ~Inherited(d) => ctx[d].no = counted[d]
  BY <1>1, <1>3, NosFacts DEF OrdersInv, CountInv, Inherited
<1> QED BY <1>1, <1>2, <1>3, <1>4 DEF OrdersInv, CountInv

LEMMA OrdersStart == Init => OrdersInv
<1> SUFFICES ASSUME Init PROVE OrdersInv
  OBVIOUS
<1>1. TypeOK
  BY StartTyped
<1>2. \A n \in Nos : market[n].status = "none" /\ market[n].done = 0
  BY DEF Init
<1>3. NumberInv
  BY <1>2, NosFacts DEF Init, NumberInv, NoContext, Latest, Untaken
<1>4. CountInv
  BY DEF Init, CountInv
<1>5. BookInv
  BY DEF Init, BookInv, ReconIdle, NoContext, Owed, Open, Absent
<1> QED BY <1>1, <1>3, <1>4, <1>5 DEF OrdersInv

\* What a step may do to an order: one that was taken is never taken again, an order is
\* opened by an acceptance alone, and nothing is taken back from what it executed.
LEMMA OrderStep ==
    ASSUME OrdersInv, [Next]_vars, NEW n \in Nos
    PROVE  /\ market[n].status = "none" =>
                \/ market'[n].status = "none" /\ market'[n].done = market[n].done
                \/ \E num \in Numbering : Accept(n, num)
           /\ market[n].status # "none" =>
                /\ market'[n].status # "none"
                /\ market'[n].status = "open" => market[n].status = "open"
                /\ market'[n].done = 0 => market[n].done = 0
<1>0. market \in [Nos -> Order] /\ market[n] \in Order
  BY DEF OrdersInv, TypeOK, Order
<1>1. CASE \E m \in Nos, q \in 1..Qty : Execute(m, q)
  <2>1. PICK m \in Nos, q \in 1..Qty : Execute(m, q)
    BY <1>1
  <2> DEFINE total == market[m].done + q
             one == [market[m] EXCEPT !.done = total]
             two == [one EXCEPT !.status = IF total = Qty THEN "filled" ELSE "open"]
  <2>2. market[m].status = "open" /\ market[m] \in Order
    BY <1>0, <2>1 DEF Execute, Open
  <2>3. total # 0 /\ two.status \in {"filled", "open"} /\ two.done = total
    BY <2>2, Constants DEF Order
  <2>4. market' = [market EXCEPT ![m] = two]
    BY <1>0, <2>1 DEF Execute
  <2> HIDE DEF two, total
  <2> QED BY <1>0, <2>2, <2>3, <2>4
<1>2. CASE \E m \in Nos : Cancel(m)
  <2>1. PICK m \in Nos : Cancel(m)
    BY <1>2
  <2>2. market' = [market EXCEPT ![m] = [market[m] EXCEPT !.status = "canceled"]]
        /\ market[m] \in Order /\ market[m].status = "open"
    BY <1>0, <2>1 DEF Cancel, Open
  <2> QED BY <1>0, <2>2 DEF Order
<1>3. CASE NewDay
  <2>1. market'[n] = [market[n] EXCEPT !.status = IF @ = "open" THEN "canceled" ELSE @,
                                       !.today = FALSE]
    BY <1>0, <1>3 DEF NewDay
  <2>2. /\ market'[n].done = market[n].done
        /\ market'[n].status = IF market[n].status = "open" THEN "canceled"
                               ELSE market[n].status
    BY <1>0, <2>1 DEF Order
  <2> QED BY <2>2
<1>4. CASE \E m \in Nos, num \in Numbering : Accept(m, num)
  <2>1. PICK m \in Nos, num \in Numbering : Accept(m, num)
    BY <1>4
  <2>2. /\ market' = [market EXCEPT ![m] = [status |-> "open", done |-> 0, today |-> TRUE]]
        /\ market[m].status = "none"
    BY <2>1 DEF Accept
  <2> QED BY <1>0, <2>1, <2>2
<1>5. CASE \/ \E e \in Sides : Submit(e) \/ Refuse(e)
           \/ \E m \in Nos : Report(m)
           \/ Reconcile \/ Crash \/ Restore \/ UNCHANGED vars
  <2>1. UNCHANGED market
    BY <1>5 DEF Submit, Refuse, Report, Reconcile, Start, AskUnfilled, AskFilled, AskBalance,
                AskFails, Compare, Crash, Restore, RestoreUnfilled, RestoreFilled,
                RestoreFails, vars
  <2> QED BY <2>1
<1> QED BY <1>1, <1>2, <1>3, <1>4, <1>5 DEF Next

Accepts == \E n \in Nos, num \in Numbering : Accept(n, num)

\* But for an acceptance an order that is to be found was so before, and the latest is it still.
LEMMA OwedBefore ==
    ASSUME OrdersInv, [Next]_vars, ~Accepts, strayed \cap Open' \subseteq strayed',
           NEW n \in Nos, Owed(n)'
    PROVE  Owed(n) /\ (Latest(n) => Latest(n)')
<1>1. market'[n].status = "open" /\ market'[n].done = 0 /\ n \notin strayed'
  BY DEF Owed, Open
<1>2. market[n].status = "open" /\ market[n].done = 0
  BY <1>1, OrderStep DEF Accepts
<1>3. n \notin strayed
  BY <1>1 DEF Open
<1>4. ASSUME Latest(n) PROVE Latest(n)'
  BY <1>4, NosFacts, OrderStep DEF Latest, Untaken, Accepts
<1> QED BY <1>2, <1>3, <1>4 DEF Owed, Open

\* The two latest orders of a side are one.
LEMMA LatestFacts ==
    ASSUME NEW m \in Nos, NEW n \in Nos, m[1] = n[1], Latest(m), Latest(n),
           market[m].status # "none", market[n].status # "none"
    PROVE  m = n
<1>1. /\ m[2] \in 1..PerKey /\ n[2] \in 1..PerKey /\ m = <<m[1], m[2]>> /\ n = <<n[1], n[2]>>
      /\ PerKey \in Nat
  BY NosFacts
<1>2. ~(m[2] > n[2]) /\ ~(n[2] > m[2])
  BY <1>1 DEF Latest, Untaken
<1> QED BY <1>1, <1>2

LEMMA NumberStep == OrdersInv /\ [Next]_vars => NumberInv'
<1> SUFFICES ASSUME OrdersInv, [Next]_vars PROVE NumberInv'
  OBVIOUS
<1>0. market \in [Nos -> Order] /\ ctx \in [Sides -> Context] /\ NumberInv
  BY DEF OrdersInv, TypeOK, Order
<1>1. ASSUME NEW n \in Nos, market'[n].status = "none" PROVE market'[n].done = 0 /\ Latest(n)'
  <2>1. market[n].status = "none" /\ market[n].done = 0 /\ Latest(n)
    BY <1>0, <1>1, OrderStep DEF NumberInv
  <2>2. ASSUME NEW num \in Numbering, Accept(n, num) PROVE FALSE
    <3>1. market' = [market EXCEPT ![n] = [status |-> "open", done |-> 0, today |-> TRUE]]
      BY <2>2 DEF Accept
    <3> QED BY <1>0, <1>1, <3>1
  <2>3. ASSUME NEW i \in 1..PerKey, i > n[2] PROVE market'[<<n[1], i>>].status = "none"
    <3> DEFINE m == <<n[1], i>>
    <3>1. m \in Nos /\ m[1] = n[1] /\ m[2] = i /\ market[m].status = "none"
      BY <2>1, <2>3, NosFacts DEF Latest, Untaken
    <3>2. ASSUME NEW num \in Numbering, Accept(m, num) PROVE FALSE
      <4>1. n[2] \in 1..PerKey /\ n[2] < m[2] /\ n = <<m[1], n[2]>>
        BY <2>3, <3>1, NosFacts
      <4>2. market[<<m[1], n[2]>>].status # "none"
        BY <3>2, <4>1 DEF Accept
      <4> QED BY <2>1, <4>1, <4>2
    <3> QED BY <3>1, <3>2, OrderStep
  <2> QED BY <2>1, <2>2, <2>3, OrderStep DEF Latest, Untaken
\* What a new context says is of an order the broker took.
<1>2. ASSUME \A d \in Sides : \/ ctx'[d].no \in {ctx[d].no, NoNumber}
                              \/ /\ ctx'[d].no \in Nos /\ ctx'[d].no[1] = d
                                 /\ market'[ctx'[d].no].status # "none"
      PROVE  NumberInv'
  <2>1. ASSUME NEW d \in Sides, ctx'[d].no # NoNumber
        PROVE  ctx'[d].no[1] = d /\ market'[ctx'[d].no].status # "none"
    <3>1. CASE ctx'[d].no = ctx[d].no
      <4>1. ctx[d].no \in Nos /\ ctx[d].no[1] = d /\ market[ctx[d].no].status # "none"
        BY <1>0, <2>1, <3>1 DEF NumberInv, Context
      <4> QED BY <3>1, <4>1, OrderStep
    <3> QED BY <1>2, <2>1, <3>1
  <2> QED BY <1>1, <2>1 DEF NumberInv
<1>3. CASE \/ \E n \in Nos : Cancel(n) \/ \E q \in 1..Qty : Execute(n, q)
           \/ NewDay \/ Start \/ AskUnfilled \/ AskFilled \/ AskBalance \/ AskFails
           \/ RestoreFails \/ UNCHANGED vars
  <2>1. UNCHANGED ctx
    BY <1>3 DEF Cancel, Execute, NewDay, Start, AskUnfilled, AskFilled, AskBalance, AskFails,
                RestoreFails, memory, vars
  <2> QED BY <1>2, <2>1
<1>4. CASE \E d \in Sides : Submit(d) \/ Refuse(d)
  <2>1. PICK d \in Sides : \/ ctx' = [ctx EXCEPT ![d] = [state |-> "PENDING_SUBMIT",
                                                         no |-> NoNumber]]
                           \/ ctx' = [ctx EXCEPT ![d] = [ctx[d] EXCEPT !.state = "REJECTED"]]
    BY <1>0, <1>4 DEF Submit, Refuse
  <2> QED BY <1>0, <1>2, <2>1 DEF Context
<1>5. CASE Accepts
  <2>1. PICK n \in Nos, num \in Numbering : Accept(n, num)
    BY <1>5 DEF Accepts
  <2>2. /\ ctx' = [ctx EXCEPT ![n[1]] =
                     [state |-> "SUBMITTED", no |-> IF num THEN n ELSE NoNumber]]
        /\ market' = [market EXCEPT ![n] = [status |-> "open", done |-> 0, today |-> TRUE]]
    BY <2>1 DEF Accept
  <2> QED BY <1>0, <1>2, <2>2, NosFacts
<1>6. CASE \E n \in Nos : Report(n)
  <2>1. PICK n \in Nos : /\ ctx' = [ctx EXCEPT ![n[1]] = [state |-> RowState(n), no |-> n]]
                         /\ market'[n].status # "none"
    BY <1>6 DEF Report
  <2> QED BY <1>0, <1>2, <2>1, NosFacts
<1>7. CASE Compare
  <2>1. ASSUME NEW d \in Sides
        PROVE  ctx'[d] = ctx[d] \/ ctx'[d] = [ctx[d] EXCEPT !.state = "CANCELED"]
    BY <1>7 DEF Compare
  <2> QED BY <1>0, <1>2, <2>1 DEF Context
<1>8. CASE Crash
  BY <1>2, <1>8 DEF Crash, NoContext
<1>9. CASE RestoreUnfilled
  <2>1. PICK pick \in Picks(Open) :
           ctx' = [d \in Sides |-> IF pick[d] = NoNumber THEN ctx[d]
                                   ELSE [state |-> "SUBMITTED", no |-> pick[d]]]
    BY <1>9 DEF RestoreUnfilled
  <2>2. UNCHANGED market
    BY <1>9 DEF RestoreUnfilled
  <2>3. ASSUME NEW d \in Sides, pick[d] # NoNumber
        PROVE  pick[d] \in Nos /\ pick[d][1] = d /\ market[pick[d]].status # "none"
    BY <2>3, OrdersFacts, PicksFacts DEF Open
  <2> QED BY <1>2, <2>1, <2>2, <2>3
<1>10. CASE RestoreFilled
  <2>1. PICK pick \in Picks(Executed) :
           ctx' = [d \in Sides |-> IF pick[d] = NoNumber THEN ctx[d]
                                   ELSE IF Live(d) THEN [ctx[d] EXCEPT !.state = "FILLED"]
                                   ELSE [state |-> "FILLED", no |-> pick[d]]]
    BY <1>10 DEF RestoreFilled
  <2>2. UNCHANGED market
    BY <1>10 DEF RestoreFilled
  <2>3. ASSUME NEW d \in Sides, pick[d] # NoNumber
        PROVE  pick[d] \in Nos /\ pick[d][1] = d /\ market[pick[d]].status # "none"
    <3>1. pick[d] \in Executed /\ pick[d] \in Nos /\ pick[d][1] = d
      BY <2>3, OrdersFacts, PicksFacts
    <3>2. market[pick[d]] \in Order /\ market[pick[d]].done > 0
      BY <1>0, <3>1 DEF Executed
    <3> QED BY <1>0, <3>1, <3>2 DEF NumberInv
  <2>4. ASSUME NEW d \in Sides
        PROVE  ctx'[d].no = ctx[d].no \/ (ctx'[d].no = pick[d] /\ pick[d] # NoNumber)
    <3>1. ctx[d] \in Context
      BY <1>0
    <3> QED BY <2>1, <3>1 DEF Context
  <2> QED BY <1>2, <2>2, <2>3, <2>4
<1> QED
  BY <1>3, <1>4, <1>5, <1>6, <1>7, <1>8, <1>9, <1>10 DEF Next, Reconcile, Restore, Accepts

LEMMA CountStep == OrdersInv /\ [Next]_vars => CountInv'
<1> SUFFICES ASSUME OrdersInv, [Next]_vars PROVE CountInv'
  OBVIOUS
<1>0. CountInv /\ miss \in [Sides -> 0..Threshold]
  BY DEF OrdersInv, TypeOK
\* Steps that count nothing and leave the check where it is, or set it back.
<1>01. ASSUME \A d \in Sides : miss'[d] > 0 => miss[d] > 0 /\ counted'[d] = counted[d],
              \/ UNCHANGED recon
              \/ recon'.pc \in {"idle", "unfilled"}
              \/ recon.pc # "unfilled" /\ recon'.unfilled = recon.unfilled
                   /\ recon.pc \in {"filled", "balance", "compare"}
       PROVE  CountInv'
  <2> SUFFICES ASSUME NEW d \in Sides, miss'[d] > 0
               PROVE  /\ counted'[d] \in Nos /\ market'[counted'[d]].status # "none"
                      /\ recon'.pc \in {"filled", "balance", "compare"}
                           /\ market'[counted'[d]].status = "open"
                           => counted'[d] \in recon'.unfilled
    BY DEF CountInv, Open
  <2> DEFINE n == counted[d]
  <2>1. /\ n \in Nos /\ counted'[d] = n /\ market[n].status # "none"
        /\ recon.pc \in {"filled", "balance", "compare"} /\ market[n].status = "open"
             => n \in recon.unfilled
    BY <1>0, <1>01 DEF CountInv, Open
  <2> HIDE DEF n
  <2>2. /\ market'[n].status # "none"
        /\ market'[n].status = "open" => market[n].status = "open"
    BY <2>1, OrderStep
  <2> QED BY <1>01, <2>1, <2>2
<1>1. CASE \/ NewDay
           \/ \E d \in Sides : Submit(d) \/ Refuse(d)
           \/ \E n \in Nos : \/ Cancel(n) \/ Report(n)
                             \/ \E q \in 1..Qty : Execute(n, q)
                             \/ \E num \in Numbering : Accept(n, num)
           \/ Restore \/ UNCHANGED vars
  <2>1. UNCHANGED <<miss, recon, counted>>
    BY <1>1 DEF NewDay, Submit, Refuse, Cancel, Report, Execute, Accept, Restore,
                RestoreUnfilled, RestoreFilled, RestoreFails, memory, history, vars
  <2> QED BY <1>01, <2>1
<1>2. CASE Start \/ AskFails
  <2>1. UNCHANGED <<miss, counted>> /\ recon'.pc \in {"idle", "unfilled"}
    BY <1>2 DEF Start, AskFails, ReconIdle, OrdersInv, TypeOK, history
  <2> QED BY <1>01, <2>1
<1>3. CASE AskUnfilled
  <2>1. UNCHANGED <<miss, market, counted>> /\ recon'.unfilled = Open
    <3>1. recon \in Picture
      BY DEF OrdersInv, TypeOK, Picture
    <3> QED BY <1>3, <3>1 DEF AskUnfilled, Picture, history
  <2> QED BY <1>0, <2>1 DEF CountInv, Open
<1>4. CASE AskFilled \/ AskBalance
  <2>1. UNCHANGED <<miss, counted>> /\ recon'.unfilled = recon.unfilled
        /\ recon.pc \in {"filled", "balance"}
    <3>1. recon \in Picture
      BY DEF OrdersInv, TypeOK, Picture
    <3> QED BY <1>4, <3>1 DEF AskFilled, AskBalance, Picture, history
  <2> QED BY <1>01, <2>1
<1>5. CASE Compare
  <2>1. UNCHANGED market /\ recon' = ReconIdle
    BY <1>5 DEF Compare
  <2>2. ASSUME NEW d \in Sides, miss'[d] > 0
        PROVE  counted'[d] \in Nos /\ market[counted'[d]].status # "none"
    <3>1. /\ miss'[d] = IF d \in Missing \ GivenUp THEN Count(d)
                        ELSE IF d \in Compared THEN 0 ELSE miss[d]
          /\ counted'[d] = IF miss'[d] = 0 THEN NoNumber
                           ELSE IF d \in Missing THEN ctx[d].no ELSE counted[d]
      BY <1>5 DEF Compare
    <3>2. CASE d \in Missing
      <4>1. counted'[d] = ctx[d].no /\ ctx[d].no # NoNumber
        BY <2>2, <3>1, <3>2 DEF Missing, Compared
      <4> QED BY <4>1 DEF OrdersInv, NumberInv, TypeOK, Context
    <3>3. CASE d \notin Missing
      BY <1>0, <2>2, <3>1, <3>3 DEF CountInv
    <3> QED BY <3>2, <3>3
  <2> QED BY <2>1, <2>2 DEF CountInv, ReconIdle
<1>6. CASE Crash
  BY <1>6 DEF Crash, CountInv
<1> QED
  BY <1>1, <1>2, <1>3, <1>4, <1>5, <1>6 DEF Next, Reconcile

LEMMA BookStep == OrdersInv /\ [Next]_vars => BookInv'
<1> SUFFICES ASSUME OrdersInv, [Next]_vars PROVE BookInv'
  OBVIOUS
<1>0. /\ BookInv /\ market \in [Nos -> Order] /\ ctx \in [Sides -> Context]
      /\ recon \in Picture
  BY DEF OrdersInv, TypeOK, Order, Picture
<1>01. UNCHANGED fails
  BY DEF Next, NewDay, Submit, Refuse, Cancel, Report, Execute, Accept, Reconcile, Start,
         AskUnfilled, AskFilled, AskBalance, AskFails, Compare, Crash, Restore,
         RestoreUnfilled, RestoreFilled, RestoreFails, vars
\* Steps of the market and of the check that leave the book.
<1>02. ASSUME UNCHANGED <<ctx, phase>>, ~Accepts, strayed \cap Open' \subseteq strayed',
              recon'.pc # "idle" => phase \in {"check", "open"}
       PROVE  BookInv'
  <2>1. ASSUME ~fails, phase # "unfilled", NEW n \in Nos, Owed(n)' PROVE Has(n)'
    <3>1. Has(n) /\ (Latest(n) => Latest(n)')
      BY <1>0, <1>02, <2>1, OwedBefore DEF BookInv
    <3> QED BY <1>02, <3>1 DEF Has, Live
  <2> QED BY <1>0, <1>01, <1>02, <2>1 DEF BookInv, Live
\* Steps of the book while the program serves.
<1>03. ASSUME phase = "open", phase' = "open", 
              ~fails => \A n \in Nos : Owed(n)' => Has(n)'
       PROVE  BookInv'
  BY <1>01, <1>03 DEF BookInv
<1>1. CASE Accepts
  <2>1. PICK m \in Nos, num \in Numbering : Accept(m, num)
    BY <1>1 DEF Accepts
  <2>2. /\ ctx' = [ctx EXCEPT ![m[1]] =
                     [state |-> "SUBMITTED", no |-> IF num THEN m ELSE NoNumber]]
        /\ market' = [market EXCEPT ![m] = [status |-> "open", done |-> 0, today |-> TRUE]]
        /\ ctx[m[1]].state = "PENDING_SUBMIT" /\ market[m].status = "none"
        /\ UNCHANGED <<phase, strayed>>
    BY <2>1 DEF Accept, history
  <2>3. m[1] \in Sides /\ phase = "open" /\ Latest(m)
    BY <1>0, <2>2, NosFacts DEF BookInv, OrdersInv, NumberInv
  <2>4. ASSUME NEW n \in Nos, ~fails, Owed(n)' PROVE Has(n)'
    <3>1. CASE n = m
      <4>1. ctx'[n[1]].state = "SUBMITTED" /\ ctx'[n[1]].no \in {n, NoNumber}
        BY <1>0, <2>2, <2>3, <3>1
      <4>2. Latest(n)'
        BY <1>0, <2>2, <2>3, <3>1, NosFacts DEF Latest, Untaken
      <4> QED BY <4>1, <4>2 DEF Has, Live, IsLive, OrderState, Terminal
    <3>2. CASE n # m
      <4>1. Owed(n)
        BY <1>0, <2>2, <2>4, <3>2 DEF Owed, Open
      <4>2. Has(n)
        BY <1>0, <2>3, <2>4, <4>1 DEF BookInv
      <4>3. n[1] # m[1]
        BY <2>2, <4>2 DEF Has
      <4>4. ctx'[n[1]] = ctx[n[1]] /\ (Latest(n) => Latest(n)')
        BY <1>0, <2>2, <4>3, NosFacts DEF Latest, Untaken
      <4> QED BY <4>2, <4>4 DEF Has, Live
    <3> QED BY <3>1, <3>2
  <2> QED BY <1>03, <2>2, <2>3, <2>4
<1>2. CASE /\ ~Accepts
           /\ \/ NewDay \/ UNCHANGED vars
              \/ \E n \in Nos : Cancel(n) \/ \E q \in 1..Qty : Execute(n, q)
  <2>1. UNCHANGED <<ctx, recon, phase, strayed>>
    BY <1>2 DEF NewDay, Cancel, Execute, memory, history, vars
  <2> QED BY <1>0, <1>02, <1>2, <2>1 DEF BookInv
<1>3. CASE ~Accepts /\ \E d \in Sides : Submit(d)
  <2>1. phase = "open" /\ phase' = "open" /\ UNCHANGED strayed /\ \A e \in Sides : ~Live(e)
    BY <1>3 DEF Submit, history
  <2>2. ASSUME NEW n \in Nos, ~fails, Owed(n)' PROVE FALSE
    <3>1. Has(n)
      BY <1>0, <1>3, <2>1, <2>2, OwedBefore DEF BookInv
    <3> QED BY <2>1, <3>1, NosFacts DEF Has
  <2> QED BY <1>03, <2>1, <2>2
<1>4. ASSUME ~Accepts, NEW d \in Sides, Refuse(d) PROVE BookInv'
  <2>1. /\ ctx' = [ctx EXCEPT ![d].state = "REJECTED"] /\ ctx[d].state = "PENDING_SUBMIT"
        /\ UNCHANGED <<phase, strayed>>
    BY <1>4 DEF Refuse, history
  <2>2. phase = "open"
    BY <1>0, <2>1 DEF BookInv
  <2>3. ASSUME NEW n \in Nos, ~fails, Owed(n)' PROVE Has(n)'
    <3>1. Has(n) /\ (Latest(n) => Latest(n)')
      BY <1>0, <1>4, <2>1, <2>2, <2>3, OwedBefore DEF BookInv
    <3>2. ctx'[n[1]] = ctx[n[1]]
      BY <1>0, <2>1, <3>1, NosFacts DEF Has
    <3> QED BY <3>1, <3>2 DEF Has, Live
  <2> QED BY <1>03, <2>1, <2>2, <2>3
<1>5. ASSUME ~Accepts, NEW m \in Nos, Report(m) PROVE BookInv'
  <2>1. /\ ctx' = [ctx EXCEPT ![m[1]] = [state |-> RowState(m), no |-> m]]
        /\ phase = "open" /\ market[m].status # "none" /\ UNCHANGED <<market, phase, strayed>>
        /\ \/ ctx[m[1]].no = m
           \/ ctx[m[1]].no = NoNumber /\ Latest(m)
    BY <1>5 DEF Report, history, Latest, Untaken
  <2>2. ASSUME NEW n \in Nos, ~fails, Owed(n)' PROVE Has(n)'
    <3>1. Has(n) /\ Owed(n) /\ (Latest(n) => Latest(n)')
      BY <1>0, <1>5, <2>1, <2>2, OwedBefore DEF BookInv
    <3>2. CASE n[1] # m[1]
      <4>1. ctx'[n[1]] = ctx[n[1]]
        BY <1>0, <2>1, <3>2, NosFacts
      <4> QED BY <3>1, <4>1 DEF Has, Live
    <3>3. CASE n[1] = m[1]
      <4>1. market[n].status = "open" /\ market[n].done = 0
        BY <3>1 DEF Owed, Open
      <4>2. n = m
        <5>1. CASE ctx[m[1]].no = NoNumber
          <6>1. Latest(m) /\ Latest(n)
            BY <2>1, <3>1, <3>3, <5>1, NosFacts DEF Has
          <6> QED BY <2>1, <3>3, <4>1, <6>1, LatestFacts
        <5>2. CASE ctx[m[1]].no # NoNumber
          BY <2>1, <3>1, <3>3, <5>2 DEF Has
        <5> QED BY <5>1, <5>2
      <4>3. RowState(m) = "SUBMITTED"
        BY <4>1, <4>2 DEF RowState
      <4>4. ctx'[n[1]].state = "SUBMITTED" /\ ctx'[n[1]].no = n
        BY <1>0, <2>1, <4>2, <4>3, NosFacts
      <4> QED BY <4>4 DEF Has, Live, IsLive, OrderState, Terminal
    <3> QED BY <3>2, <3>3
  <2> QED BY <1>03, <2>1, <2>2
<1>6. CASE ~Accepts /\ (Start \/ AskUnfilled \/ AskFilled \/ AskBalance)
  <2>1. UNCHANGED <<ctx, phase, strayed>> /\ phase \in {"check", "open"}
    BY <1>0, <1>6 DEF Start, AskUnfilled, AskFilled, AskBalance, BookInv, history
  <2> QED BY <1>02, <1>6, <2>1
<1>7. CASE AskFails
  <2>1. fails /\ recon' = ReconIdle /\ phase' = "open"
    BY <1>7 DEF AskFails
  <2> QED BY <1>01, <2>1 DEF BookInv, ReconIdle
<1>8. CASE ~Accepts /\ Compare
  <2>1. /\ recon.pc = "compare" /\ recon' = ReconIdle /\ phase' = "open" /\ UNCHANGED market
        /\ \A d \in Sides : d \notin GivenUp => ctx'[d] = ctx[d]
        /\ \A d \in GivenUp : Inherited(d) /\ ctx[d].no \in Open => ctx[d].no \in strayed'
        /\ strayed \cap Open \subseteq strayed'
    BY <1>8 DEF Compare
  <2>2. phase # "unfilled"
    BY <1>0, <2>1 DEF BookInv
  <2>3. UNCHANGED Open
    BY <2>1 DEF Open
  <2>4. ASSUME NEW n \in Nos, ~fails, Owed(n)' PROVE Has(n)'
    <3>1. Has(n) /\ Owed(n) /\ (Latest(n) => Latest(n)')
      BY <1>0, <1>8, <2>1, <2>2, <2>3, <2>4, OwedBefore DEF BookInv
    <3>2. n[1] \notin GivenUp
      <4> SUFFICES ASSUME n[1] \in GivenUp PROVE FALSE
        OBVIOUS
      <4>1. ctx[n[1]].no \in Nos /\ (~Inherited(n[1]) => ctx[n[1]].no \notin Open)
        BY <2>1, GivenUpFacts
      <4>2. ctx[n[1]].no = n
        BY <3>1, <4>1, NosFacts DEF Has
      <4>3. n \in Open /\ n \notin strayed'
        BY <2>3, <2>4 DEF Owed
      <4> QED BY <2>1, <4>1, <4>2, <4>3
    <3>3. ctx'[n[1]] = ctx[n[1]]
      BY <2>1, <3>2, NosFacts
    <3> QED BY <3>1, <3>3 DEF Has, Live
  <2>5. ASSUME NEW d \in Sides, ctx'[d].state = "PENDING_SUBMIT" PROVE phase' = "open"
    BY <2>1
  <2> QED BY <1>01, <2>1, <2>4, <2>5 DEF BookInv, ReconIdle
<1>9. CASE Crash
  BY <1>9 DEF Crash, BookInv, ReconIdle, NoContext, Absent
<1>10. CASE RestoreUnfilled
  <2>1. PICK pick \in Picks(Open) :
           /\ ctx' = [d \in Sides |-> IF pick[d] = NoNumber THEN ctx[d]
                                      ELSE [state |-> "SUBMITTED", no |-> pick[d]]]
           /\ strayed' = {n \in Open : pick[n[1]] # n}
    BY <1>10 DEF RestoreUnfilled
  <2>2. phase = "unfilled" /\ phase' = "filled" /\ UNCHANGED <<market, recon>>
    BY <1>10 DEF RestoreUnfilled
  <2>3. recon'.pc = "idle" /\ \A d \in Sides : ctx[d].state = Absent
    BY <1>0, <2>2 DEF BookInv
  <2>4. ASSUME NEW n \in Nos, Owed(n)' PROVE Has(n)'
    <3>1. n \in Open /\ pick[n[1]] = n
      BY <2>1, <2>2, <2>4 DEF Owed, Open
    <3>2. ctx'[n[1]] = [state |-> "SUBMITTED", no |-> n]
      BY <2>1, <3>1, NosFacts
    <3> QED BY <3>2 DEF Has, Live, IsLive, OrderState, Terminal
  <2>5. ASSUME NEW d \in Sides
        PROVE  (Live(d)' => ctx'[d].no # NoNumber) /\ ctx'[d].state # "PENDING_SUBMIT"
    BY <2>1, <2>3 DEF Live, IsLive, OrderState, Terminal, Absent
  <2> QED BY <2>2, <2>3, <2>4, <2>5 DEF BookInv
<1>11. CASE ~Accepts /\ RestoreFilled
  <2>1. PICK pick \in Picks(Executed) :
           /\ ctx' = [d \in Sides |-> IF pick[d] = NoNumber THEN ctx[d]
                                      ELSE IF Live(d) THEN [ctx[d] EXCEPT !.state = "FILLED"]
                                      ELSE [state |-> "FILLED", no |-> pick[d]]]
           /\ strayed' = strayed \cup
                {n \in Open : ctx[n[1]].no = n /\ pick[n[1]] \notin {n, NoNumber}}
    BY <1>11 DEF RestoreFilled
  <2>2. phase = "filled" /\ phase' = "check" /\ UNCHANGED <<market, recon>>
    BY <1>11 DEF RestoreFilled
  <2>3. ASSUME NEW n \in Nos, ~fails, Owed(n)' PROVE Has(n)'
    <3>1. Has(n) /\ Owed(n) /\ (Latest(n) => Latest(n)')
      BY <1>0, <1>11, <2>1, <2>2, <2>3, OwedBefore DEF BookInv
    <3>2. ctx[n[1]].no = n
      BY <1>0, <2>2, <3>1, NosFacts DEF Has, BookInv
    <3>3. pick[n[1]] \in {n, NoNumber}
      BY <2>1, <2>2, <2>3, <3>2 DEF Owed, Open
    <3>4. pick[n[1]] = NoNumber
      <4>1. n \notin Executed
        BY <3>1 DEF Owed, Executed
      <4> QED BY <3>3, <4>1, OrdersFacts, PicksFacts, NosFacts
    <3>5. ctx'[n[1]] = ctx[n[1]]
      BY <2>1, <3>4, NosFacts
    <3> QED BY <3>1, <3>5 DEF Has, Live
  <2>4. ASSUME NEW d \in Sides PROVE ctx'[d].state # "PENDING_SUBMIT"
    <3>1. ctx[d] \in Context /\ ctx[d].state # "PENDING_SUBMIT"
      BY <1>0, <2>2 DEF BookInv
    <3> QED BY <2>1, <3>1 DEF Context
  <2> QED BY <1>0, <1>01, <2>2, <2>3, <2>4 DEF BookInv
<1>12. CASE RestoreFails
  <2>1. fails /\ UNCHANGED <<ctx, recon>> /\ phase' \in {"filled", "check"}
        /\ phase \in {"unfilled", "filled"} /\ (phase' = "filled" => phase = "unfilled")
    BY <1>12 DEF RestoreFails
  <2>2. ASSUME phase' = "filled", NEW d \in Sides PROVE ~Live(d)'
    BY <1>0, <2>1, <2>2 DEF BookInv, Live, IsLive, OrderState, Absent
  <2> QED BY <1>0, <1>01, <2>1, <2>2 DEF BookInv
<1> QED
  BY <1>1, <1>2, <1>3, <1>4, <1>5, <1>6, <1>7, <1>8, <1>9, <1>10, <1>11, <1>12
     DEF Next, Reconcile, Restore, Accepts

LEMMA OrdersStepAll == OrdersInv /\ [Next]_vars => OrdersInv'
BY TypeStep, NumberStep, CountStep, BookStep DEF OrdersInv

-----------------------------------------------------------------------------
(* Theorems *)

\* Every variable keeps its type, whatever is submitted, executed, reported, restored
\* or given up, and in whatever order.
THEOREM ReconcileTyped == Spec => []TypeOK
<1>1. Init => TypeOK
  BY StartTyped
<1>2. TypeOK /\ [Next]_vars => TypeOK'
  BY TypeStep
<1> QED BY <1>1, <1>2, PTL DEF Spec

\* An order taken without a number keeps new orders blocked as long as it is taken for
\* open, for any number of orders on a side: no check clears that alarm.
THEOREM Blocks == Spec => []NumberlessBlocks
<1>1. Init => BlockInv
  BY DEF Init, BlockInv, NoContext, Absent
<1>2. BlockInv => NumberlessBlocks
  BY DEF BlockInv, NumberlessBlocks
<1> QED BY <1>1, <1>2, ReconcileTyped, BlockStep, PTL DEF Spec

\* While the program trades and no query failed, an order open at the broker and not yet
\* executed is alive in its book, through crashes and restores, unless another order of its
\* side cost it its context: for any number of orders on a side.
THEOREM Tracked == Spec => []OpenIsTracked
<1>1. OrdersInv => OpenIsTracked
  <2> SUFFICES ASSUME OrdersInv, phase = "open", ~fails, NEW n \in Open \ strayed,
                      market[n].done = 0
               PROVE  Live(n[1]) /\ ctx[n[1]].no \in {n, NoNumber}
    BY DEF OpenIsTracked
  <2>1. n \in Nos /\ Owed(n)
    BY DEF Open, Owed
  <2>2. Has(n)
    BY <2>1 DEF OrdersInv, BookInv
  <2> QED BY <2>2 DEF Has
<1> QED BY <1>1, OrdersStart, OrdersStepAll, PTL DEF Spec

\* What a check gives up as canceled on its own second mismatch is no longer open at the
\* broker, however old the answers are that it compares, for any number of orders on a side.
THEOREM DeadWhenGivenUp == Spec => GivenUpIsDead
<1>1. OrdersInv => (Compare => \A d \in GivenUp : ~Inherited(d) => ctx[d].no \notin Open)
  <2> SUFFICES ASSUME OrdersInv, Compare, NEW d \in GivenUp, ~Inherited(d)
               PROVE  ctx[d].no \notin Open
    OBVIOUS
  <2>1. recon.pc = "compare"
    BY DEF Compare
  <2> QED BY <2>1, GivenUpFacts
<1> QED BY <1>1, OrdersStart, OrdersStepAll, PTL DEF Spec, GivenUpIsDead
=============================================================================
