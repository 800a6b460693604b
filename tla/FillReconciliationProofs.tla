---------------------- MODULE FillReconciliationProofs -----------------------
(***************************************************************************)
(* Proofs about FillReconciliation, for any quantity, any number of orders  *)
(* and any set of feeds: an execution counts once, the filled quantity does *)
(* not shrink, and a terminal fill enters the ledger once.                  *)
(*                                                                          *)
(* What the notices of an order sum up to is never computed.  The invariant *)
(* says instead that the executed shares can be split among the notices, so *)
(* that each notice has as many as it reports and no share has two.         *)
(***************************************************************************)
EXTENDS FillReconciliation, FiniteSetTheorems, TLAPS

-----------------------------------------------------------------------------
(* The invariant *)

Ended == {"filled", "canceled", "rejected"}

IsNotice(r, n, status) ==
    /\ r.src = "websocket" /\ r.no = n
    /\ r.state \in {"SUBMITTED", "PARTIAL_FILLED", "FILLED", "REJECTED"}
    /\ r.state \in {"SUBMITTED", "REJECTED"} <=> r.qty = 0
    /\ r.state = "REJECTED" => status = "rejected" /\ r.at = 0

\* The broker's orders.
OrderInv(m, n) ==
    /\ m.status = "none" => m.done = 0 /\ m.notices = {}
    /\ m.status # "none" => m.notices # {}
    /\ m.status = "rejected" => m.done = 0
    /\ m.status = "filled" <=> m.done = Qty
    /\ IsFiniteSet({r.at : r \in m.notices})
    /\ \A r \in m.notices : IsNotice(r, n, m.status)

MarketInv == \A n \in Nos : OrderInv(market[n], n)

\* The context against the lock: who is being submitted has nothing, who is being
\* persisted has ended and nothing of it is recorded.
CtxInv ==
    /\ lock = "submit" <=> ctx.state = "PENDING_SUBMIT"
    /\ ctx.own = NoNumber => ctx.state \in {Absent, "PENDING_SUBMIT", "REJECTED"}
    /\ ctx.own = NoNumber \/ ctx.state \in {Absent, "PENDING_SUBMIT"} => ctx.filled = 0
    /\ ctx.own # NoNumber => market[ctx.own].status # "none"
    /\ lock = "persist" => ctx.own # NoNumber /\ ToRecord(ctx) /\ ctx.recorded = 0
    /\ ctx.recorded \in {0, ctx.filled}
    /\ Live => ctx.recorded = 0

\* The broker ended order n and every report of it that could have an effect was seen.
Settled(n) ==
    /\ market[n].status \in Ended
    /\ "polling" \notin feed => \A r \in market[n].notices : r.state = "SUBMITTED" \/ r \in seen
    /\ "websocket" \notin feed => Row(n) \in seen

\* No report of an order that is not the one under way has an effect on that one.
EndedInv ==
    OneSource => \A n \in Placed : n # ctx.own \/ ~Live => Settled(n)

\* The executed shares 1..total are split among the notices.
Split(w, notices, total) ==
    /\ w \in [notices -> SUBSET (1..total)]
    /\ \A r \in notices : Cardinality(w[r]) = r.qty
    /\ \A r, s \in notices : r # s => w[r] \cap w[s] = {}

Of(w, reports) == UNION {w[r] : r \in reports}

\* The notices alone: the filled quantity is that of the shares in the notices seen.
NoticesInv ==
    "polling" \notin feed =>
        /\ poll = PollIdle
        /\ \A r \in seen : r.no \in Nos /\ r \in market[r.no].notices
        /\ \A n \in Nos : \E w :
              /\ Split(w, market[n].notices, market[n].done)
              /\ n = ctx.own =>
                    ctx.filled = Cardinality(Of(w, seen \cap market[n].notices))

IsRow(r) ==
    /\ r.qty <= market[r.no].done
    /\ r.qty >= Qty => r.state = "FILLED"
    /\ r.state \in Terminal => market[r.no].status \in Ended /\ r = Row(r.no)

\* The rows alone: a row that was not seen is of the order under way, and its only one.
RowsInv ==
    "websocket" \notin feed =>
        /\ {poll.asked, ctx.no} \subseteq Placed \cup {NoNumber}
        /\ \A r \in poll.rows :
              /\ r.src = "polling" /\ r.no \in Placed
              /\ \/ r \in seen
                 \/ /\ Live /\ r.no = ctx.own /\ IsRow(r)
                    /\ \A s \in poll.rows : s.no = r.no => s = r

PollShape == poll \in [pc : {"idle", "asking", "applying"}, asked : Nos \cup {NoNumber},
                       rows : SUBSET Report]

\* What is recorded for the order under way is what its context says; of an order that was
\* never placed there is nothing.
LedgerInv ==
    \A n \in Nos : /\ market[n].status = "none" => ledger[n] = 0
                   /\ ctx.own = n => ledger[n] = ctx.recorded

BookInv == MarketInv /\ CtxInv
FeedInv == EndedInv /\ NoticesInv /\ RowsInv

IInv == TypeOK /\ PollShape /\ BookInv /\ FeedInv /\ FilledIsExecuted /\ LedgerInv
-----------------------------------------------------------------------------
(* Typing *)

LEMMA Constants == Qty \in Nat /\ Qty > 0 /\ MaxOrders \in Nat /\ NoNumber \notin Nos /\ Nos \subseteq Nat
BY ConstantsAssumption DEF ConstantsAssumption, NoNumber, Nos

LEMMA NoticeType ==
    ASSUME NEW n \in Nos, NEW at \in Nat, NEW st \in OrderState, NEW q \in Nat
    PROVE  /\ Notice(n, at, st, q) \in Report
           /\ Notice(n, at, st, q).src = "websocket" /\ Notice(n, at, st, q).no = n
           /\ Notice(n, at, st, q).at = at
           /\ Notice(n, at, st, q).state = st /\ Notice(n, at, st, q).qty = q
BY DEF Notice, Report

LEMMA RowFacts ==
    ASSUME TypeOK, NEW n \in Nos
    PROVE  /\ Row(n) \in Report /\ Row(n).src = "polling" /\ Row(n).no = n
           /\ Row(n).qty = market[n].done
           /\ Row(n).state = IF market[n].status = "rejected" THEN "REJECTED"
                             ELSE IF market[n].status = "canceled" THEN "CANCELED"
                             ELSE IF market[n].status = "filled" THEN "FILLED"
                             ELSE IF market[n].done > 0 THEN "PARTIAL_FILLED" ELSE "SUBMITTED"
<1>1. market[n].done \in Nat
  BY Constants DEF TypeOK
<1> QED BY <1>1, Constants DEF Row, Report, OrderState

\* What an effective report leaves in the context.
LEMMA AppliedFacts ==
    ASSUME TypeOK, NEW r \in Report, Live
    PROVE  /\ Applied(r) \in Context
           /\ Applied(r).state = StateAfter(r)
           /\ Applied(r).filled = IF IsFill(r) THEN FilledAfter(r) ELSE ctx.filled
           /\ Applied(r).recorded = ctx.recorded /\ Applied(r).own = ctx.own
           /\ Applied(r).no \in {ctx.no, r.no}
           /\ Applied(r).filled \in Nat /\ Applied(r).filled >= ctx.filled
<1>1. ctx.filled \in Nat /\ ctx.recorded \in Nat /\ r.qty \in Nat /\ r.no \in Nos
      /\ ctx.no \in Nos \cup {NoNumber} /\ ctx.own \in Nos \cup {NoNumber}
  BY DEF TypeOK, Context, Report
<1>2. FilledAfter(r) \in Nat /\ FilledAfter(r) >= ctx.filled
  BY <1>1 DEF FilledAfter
<1>3. StateAfter(r) \in OrderState
  BY <1>1 DEF StateAfter, Live, IsLive, OrderState, Report
<1> DEFINE st == StateAfter(r)
           filled == IF IsFill(r) THEN FilledAfter(r) ELSE ctx.filled
           no == IF IsFill(r) \/ ctx.no = NoNumber THEN r.no ELSE ctx.no
           c == [ctx EXCEPT !.state = st, !.filled = filled, !.no = no]
<1>4. st \in OrderState /\ filled \in Nat /\ filled >= ctx.filled
      /\ no \in Nos \cup {NoNumber} /\ no \in {ctx.no, r.no}
  BY <1>1, <1>2, <1>3
<1>5. Applied(r) = c
  BY DEF Applied
<1> HIDE DEF st, filled, no
<1>6. /\ c \in Context /\ c.state = st /\ c.filled = filled /\ c.no = no
      /\ c.recorded = ctx.recorded /\ c.own = ctx.own
  BY <1>4 DEF TypeOK, Context
<1> HIDE DEF c
<1> QED BY <1>4, <1>5, <1>6 DEF st, filled

\* Apply in three cases: the report has no effect, its transition is refused, or it counts.
Drops(r) == ~Effective(r) /\ UNCHANGED <<ctx, seen, index, lock>>

Refuses(r) ==
    /\ Effective(r) /\ Raises(r)
    /\ ctx' \in Context /\ ctx'.state = ctx.state /\ ctx'.filled = ctx.filled
    /\ ctx'.recorded = ctx.recorded /\ ctx'.own = ctx.own /\ ctx'.no \in {ctx.no, r.no}
    /\ seen' = seen \cup {r}
    /\ lock' = IF ToRecord(ctx') THEN "persist" ELSE "free"

Counts(r) ==
    /\ Effective(r) /\ ~Raises(r) /\ ctx' = Applied(r)
    /\ seen' = seen \cup {r}
    /\ lock' = IF ToRecord(ctx') THEN "persist" ELSE "free"

LEMMA ApplyCases ==
    ASSUME TypeOK, NEW r \in Report, Apply(r)
    PROVE  /\ Drops(r) \/ Refuses(r) \/ Counts(r)
           /\ lock = "free" /\ UNCHANGED <<market, alarm, ledger, feed>>
           /\ index' \subseteq Nos /\ (Drops(r) \/ r \notin seen)
<1>1. CASE ~Effective(r)
  BY <1>1 DEF Apply, Drops, TypeOK
<1>2. CASE Effective(r) /\ Raises(r)
  <2>1. ctx' = [ctx EXCEPT !.no = IF ctx.no = NoNumber THEN r.no ELSE ctx.no]
    BY <1>2 DEF Apply
  <2>2. r.no \in Nos
    BY DEF Report
  <2>3. /\ ctx' \in Context /\ ctx'.state = ctx.state /\ ctx'.filled = ctx.filled
        /\ ctx'.recorded = ctx.recorded /\ ctx'.own = ctx.own /\ ctx'.no \in {ctx.no, r.no}
    BY <2>1, <2>2 DEF TypeOK, Context
  <2>4. /\ seen' = seen \cup {r} /\ index' = index \cup ({ctx'.no} \ {NoNumber})
        /\ lock' = IF ToRecord(ctx') THEN "persist" ELSE "free"
    BY <1>2 DEF Apply
  <2>5. index' \subseteq Nos
    BY <2>3, <2>4 DEF TypeOK, Context
  <2> QED BY <1>2, <2>3, <2>4, <2>5 DEF Apply, Refuses, Effective
<1>3. CASE Effective(r) /\ ~Raises(r)
  <2>1. ctx' = Applied(r) /\ Live
    BY <1>3 DEF Apply, Effective
  <2>2. /\ seen' = seen \cup {r} /\ index' = index \cup ({ctx'.no} \ {NoNumber})
        /\ lock' = IF ToRecord(ctx') THEN "persist" ELSE "free"
    BY <1>3 DEF Apply
  <2>3. ctx'.no \in Nos \cup {NoNumber}
    BY <2>1, AppliedFacts DEF Context
  <2> QED BY <1>3, <2>1, <2>2, <2>3 DEF Apply, Counts, Effective, TypeOK
<1> QED BY <1>1, <1>2, <1>3

-----------------------------------------------------------------------------
(* The broker's orders *)

MarketType == market \in [Nos -> [status : {"none", "open", "filled", "canceled", "rejected"},
                                  done : 0..Qty, notices : SUBSET Report]]

\* Order n becomes an order with these fields, and the other orders stay.
Becomes(n, status, done, notices) ==
    /\ MarketType'
    /\ market'[n].status = status /\ market'[n].done = done /\ market'[n].notices = notices
    /\ \A k \in Nos \ {n} : market'[k] = market[k]

LEMMA OpenFacts ==
    ASSUME TypeOK, NEW n \in Nos, Open(n)
    PROVE  Becomes(n, "open", market[n].done, {Notice(n, 0, "SUBMITTED", 0)})
<1> DEFINE x == Notice(n, 0, "SUBMITTED", 0)
<1>1. x \in Report
  BY NoticeType DEF OrderState
<1>2. market' = [market EXCEPT ![n].status = "open", ![n].notices = {x}]
  BY DEF Open
<1> HIDE DEF x
<1>3. Becomes(n, "open", market[n].done, {x})
  BY <1>1, <1>2 DEF Becomes, MarketType, TypeOK
<1> QED BY <1>3 DEF x

\* The notice of an execution, and the second it names.
Published(n, at, q) == Notice(n, at, IF q >= Qty THEN "FILLED" ELSE "PARTIAL_FILLED", q)

LEMMA ExecuteFacts ==
    ASSUME TypeOK, MarketInv, NEW n \in Nos, NEW q \in 1..Qty, Execute(n, q)
    PROVE  /\ market[n].status = "open" /\ market[n].done + q \in 0..Qty
           /\ \E at \in Nat :
                 Becomes(n, IF market[n].done + q = Qty THEN "filled" ELSE "open",
                         market[n].done + q, market[n].notices \cup {Published(n, at, q)})
<1> DEFINE Seconds == {r.at : r \in market[n].notices}
           total == market[n].done + q
           status == IF total = Qty THEN "filled" ELSE "open"
<1>1. market[n].status = "open" /\ total <= Qty
  BY DEF Execute
<1>2. market[n].notices # {} /\ IsFiniteSet(Seconds)
  BY <1>1 DEF MarketInv, OrderInv
<1>3. Cardinality(Seconds) \in Nat /\ Cardinality(Seconds) # 0
  <2>1. Seconds # {}
    BY <1>2
  <2> HIDE DEF Seconds
  <2> QED BY <1>2, <2>1, FS_CardinalityType, FS_EmptySet
<1>4. PICK at \in {Cardinality(Seconds) - 1, Cardinality(Seconds)} \ {0} :
           market' = [market EXCEPT ![n].done = total, ![n].status = status,
                                    ![n].notices = @ \cup {Published(n, at, q)}]
  BY DEF Execute, Published
<1>5. at \in Nat
  BY <1>3, <1>4
<1>6. Published(n, at, q) \in Report
  BY <1>5, Constants, NoticeType DEF Published, OrderState
<1>7. total \in 0..Qty /\ status \in {"filled", "open"}
  BY <1>1, Constants DEF TypeOK
<1> HIDE DEF Seconds, total, status
<1>8. Becomes(n, status, total, market[n].notices \cup {Published(n, at, q)})
  BY <1>4, <1>6, <1>7 DEF Becomes, MarketType, TypeOK
<1> QED BY <1>1, <1>5, <1>7, <1>8 DEF total, status

LEMMA CancelFacts ==
    ASSUME TypeOK, NEW n \in Nos, Cancel(n)
    PROVE  Becomes(n, "canceled", market[n].done, market[n].notices)
BY DEF Cancel, Becomes, MarketType, TypeOK

LEMMA RejectFacts ==
    ASSUME TypeOK, NEW n \in Nos, Reject(n)
    PROVE  Becomes(n, "rejected", market[n].done,
                   market[n].notices \cup {Notice(n, 0, "REJECTED", 0)})
<1> DEFINE x == Notice(n, 0, "REJECTED", 0)
<1>1. x \in Report
  BY NoticeType DEF OrderState
<1>2. market' = [market EXCEPT ![n].status = "rejected", ![n].notices = @ \cup {x}]
  BY DEF Reject
<1> HIDE DEF x
<1>3. Becomes(n, "rejected", market[n].done, market[n].notices \cup {x})
  BY <1>1, <1>2 DEF Becomes, MarketType, TypeOK
<1> QED BY <1>3 DEF x

\* The steps that are not the broker's.
Own == Submit \/ (\E num \in Numbering : Answer(num)) \/ Refuse \/ (\E ok \in BOOLEAN : Persist(ok))
Quiet == PollStart \/ PollRows \/ PollEnd \/ UNCHANGED vars
Trades(n) == Open(n) \/ (\E q \in 1..Qty : Execute(n, q)) \/ Cancel(n) \/ Reject(n)
Applies == \/ \E n \in Nos : \E r \in market[n].notices : Deliver(r)
           \/ \E r \in poll.rows : PollApply(r)

LEMMA Steps == [Next]_vars => (\E n \in Nos : Trades(n)) \/ Applies \/ Own \/ Quiet
BY DEF Next, Broker, Polling, Own, Quiet, Trades, Applies

LEMMA SameMarket ==
    ASSUME TypeOK, Applies \/ Own \/ Quiet
    PROVE  UNCHANGED market
BY DEF Applies, Own, Quiet, Deliver, PollApply, Apply, Submit, Answer, Refuse, Persist, PollStart,
       PollRows, PollEnd, vars

\* The seconds of one more report.
LEMMA OneMoreSecond ==
    ASSUME NEW notices, NEW x
    PROVE  {r.at : r \in notices \cup {x}} = {r.at : r \in notices} \cup {x.at}
OBVIOUS

LEMMA OrderStep ==
    ASSUME TypeOK, MarketInv, NEW n \in Nos, Trades(n)
    PROVE  OrderInv(market'[n], n) /\ MarketType' /\ \A k \in Nos \ {n} : market'[k] = market[k]
<1> DEFINE Seconds(notices) == {r.at : r \in notices}
<1>0. OrderInv(market[n], n) /\ market[n].done \in 0..Qty /\ IsFiniteSet(Seconds(market[n].notices))
  BY DEF MarketInv, OrderInv, TypeOK
<1>1. CASE Open(n)
  <2> DEFINE x == Notice(n, 0, "SUBMITTED", 0)
  <2>1. market[n].status = "none"
    BY <1>1 DEF Open
  <2>2. Becomes(n, "open", market[n].done, {x})
    BY <1>1, OpenFacts
  <2>3. x.src = "websocket" /\ x.no = n /\ x.state = "SUBMITTED" /\ x.qty = 0 /\ x.at = 0
    BY NoticeType DEF OrderState
  <2> HIDE DEF x
  <2>4. Seconds({x}) = {0} /\ IsFiniteSet({0})
    BY <2>3, FS_Singleton
  <2>5. IsNotice(x, n, "open")
    BY <2>3 DEF IsNotice
  <2> QED BY <1>0, <2>1, <2>2, <2>4, <2>5, Constants DEF Becomes, OrderInv
<1>2. ASSUME NEW q \in 1..Qty, Execute(n, q) PROVE OrderInv(market'[n], n) /\ Becomes(n, market'[n].status, market'[n].done, market'[n].notices)
  <2>1. PICK at \in Nat :
           Becomes(n, IF market[n].done + q = Qty THEN "filled" ELSE "open",
                   market[n].done + q, market[n].notices \cup {Published(n, at, q)})
    BY <1>2, ExecuteFacts
  <2>2. market[n].status = "open" /\ market[n].done + q \in 0..Qty /\ market[n].done + q > 0
    BY <1>0, <1>2, ExecuteFacts
  <2> DEFINE x == Published(n, at, q)
             new == market[n].notices \cup {x}
             status == IF market[n].done + q = Qty THEN "filled" ELSE "open"
  <2>3. x.src = "websocket" /\ x.no = n /\ x.state \in {"FILLED", "PARTIAL_FILLED"} /\ x.qty = q
        /\ x.at = at
    BY Constants, NoticeType DEF Published, OrderState
  <2> HIDE DEF x
  <2>4. Seconds(new) = Seconds(market[n].notices) \cup {x.at}
    BY OneMoreSecond
  <2>5. IsFiniteSet(Seconds(new))
    <3> HIDE DEF Seconds, new
    <3> QED BY <1>0, <2>4, FS_AddElement
  <2>6. \A r \in new : IsNotice(r, n, status)
    BY <1>0, <2>2, <2>3 DEF OrderInv, IsNotice
  <2>7. market'[n].status = status /\ market'[n].done = market[n].done + q /\ market'[n].notices = new
    BY <2>1 DEF Becomes, x
  <2>8. status \in {"filled", "open"} /\ (status = "filled" <=> market[n].done + q = Qty)
        /\ new # {}
    OBVIOUS
  <2> HIDE DEF status, new, Seconds
  <2>9. OrderInv(market'[n], n)
    BY <2>2, <2>5, <2>6, <2>7, <2>8 DEF OrderInv, Seconds
  <2> QED BY <2>1, <2>9 DEF Becomes
<1>3. CASE Cancel(n)
  <2>1. market[n].status = "open" /\ Becomes(n, "canceled", market[n].done, market[n].notices)
    BY <1>3, CancelFacts DEF Cancel
  <2> QED BY <1>0, <2>1 DEF Becomes, OrderInv, IsNotice
<1>4. CASE Reject(n)
  <2> DEFINE x == Notice(n, 0, "REJECTED", 0)
             new == market[n].notices \cup {x}
  <2>1. market[n].status = "open" /\ market[n].done = 0 /\ Becomes(n, "rejected", market[n].done, new)
    BY <1>4, RejectFacts DEF Reject
  <2>2. x.src = "websocket" /\ x.no = n /\ x.state = "REJECTED" /\ x.qty = 0 /\ x.at = 0
    BY NoticeType DEF OrderState
  <2> HIDE DEF x
  <2>3. Seconds(new) = Seconds(market[n].notices) \cup {x.at}
    OBVIOUS
  <2>4. IsFiniteSet(Seconds(new))
    BY <1>0, <2>3, FS_AddElement
  <2>5. \A r \in new : IsNotice(r, n, "rejected")
    BY <1>0, <2>1, <2>2 DEF OrderInv, IsNotice
  <2>6. new # {}
    OBVIOUS
  <2> HIDE DEF new
  <2> QED BY <2>1, <2>4, <2>5, <2>6, Constants DEF Becomes, OrderInv
<1> QED BY <1>1, <1>2, <1>3, <1>4, OpenFacts, CancelFacts, RejectFacts DEF Trades, Becomes

LEMMA MarketStep == TypeOK /\ MarketInv /\ [Next]_vars => MarketInv' /\ MarketType'
<1> SUFFICES ASSUME TypeOK, MarketInv, [Next]_vars PROVE MarketInv' /\ MarketType'
  OBVIOUS
<1>1. CASE \E n \in Nos : Trades(n)
  BY <1>1, OrderStep DEF MarketInv
<1>2. CASE UNCHANGED market
  BY <1>2 DEF MarketInv, OrderInv, MarketType, TypeOK
<1> QED BY <1>1, <1>2, Steps, SameMarket

LEMMA NoticeInMarket ==
    ASSUME TypeOK, NEW n \in Nos, NEW r \in market[n].notices
    PROVE  r \in Report
BY DEF TypeOK

LEMMA RowInPoll ==
    ASSUME TypeOK, NEW r \in poll.rows
    PROVE  r \in Report
BY DEF TypeOK

LEMMA TypeStep == TypeOK /\ PollShape /\ MarketInv /\ [Next]_vars => TypeOK' /\ PollShape'
<1> SUFFICES ASSUME TypeOK, PollShape, MarketInv, [Next]_vars PROVE TypeOK' /\ PollShape'
  OBVIOUS
<1> DEFINE RestOK == /\ index' \subseteq Nos /\ seen' \subseteq Report
                     /\ lock' \in {"free", "submit", "persist"} /\ alarm' \in BOOLEAN
                     /\ ledger' \in [Nos -> Nat] /\ feed' \in Feeds
<1>0. MarketType'
  BY MarketStep
<1>1. ASSUME ctx' \in Context, PollShape', RestOK PROVE TypeOK' /\ PollShape'
  BY <1>0, <1>1 DEF TypeOK, PollShape, MarketType
<1>2. ASSUME NEW n \in Nos, Trades(n) PROVE ctx' \in Context /\ PollShape' /\ RestOK
  <2>1. ctx' \in Context
    BY <1>2 DEF Trades, Open, Execute, Cancel, Reject, TypeOK, Context
  <2>2. UNCHANGED <<index, seen, lock, poll, alarm, ledger, feed>>
    BY <1>2 DEF Trades, Open, Execute, Cancel, Reject
  <2> QED BY <2>1, <2>2 DEF TypeOK, PollShape
<1>3. ASSUME NEW r \in Report, Apply(r), PollShape' PROVE ctx' \in Context /\ PollShape' /\ RestOK
  <2>1. /\ Drops(r) \/ Refuses(r) \/ Counts(r)
        /\ UNCHANGED <<alarm, ledger, feed>> /\ index' \subseteq Nos
    BY <1>3, ApplyCases
  <2>2. ctx' \in Context
    BY <2>1, AppliedFacts DEF Drops, Refuses, Counts, Effective, TypeOK
  <2>3. seen' \subseteq Report /\ lock' \in {"free", "submit", "persist"}
    BY <2>1 DEF Drops, Refuses, Counts, TypeOK
  <2> QED BY <1>3, <2>1, <2>2, <2>3 DEF TypeOK
<1>4. CASE Applies
  <2>1. ASSUME NEW n \in Nos, NEW r \in market[n].notices, Deliver(r) PROVE TypeOK' /\ PollShape'
    <3>1. r \in Report /\ Apply(r) /\ PollShape'
      BY <2>1, NoticeInMarket DEF Deliver, PollShape
    <3> QED BY <1>1, <1>3, <3>1
  <2>2. ASSUME NEW r \in poll.rows, PollApply(r) PROVE TypeOK' /\ PollShape'
    <3>1. r \in Report /\ Apply(r)
      BY <2>2, RowInPoll DEF PollApply
    <3>2. PollShape'
      BY <2>2 DEF PollApply, PollShape, PollIdle
    <3> QED BY <1>1, <1>3, <3>1, <3>2
  <2> QED BY <1>4, <2>1, <2>2 DEF Applies
<1>5. CASE Own
  <2>1. PollShape' /\ UNCHANGED <<seen, feed>>
    BY <1>5 DEF Own, Submit, Answer, Refuse, Persist, PollShape
  <2>2. ctx' \in Context
    <3>1. CASE Submit
      BY <3>1 DEF Submit, Context, OrderState
    <3>2. ASSUME NEW num \in Numbering, Answer(num) PROVE ctx' \in Context
      <4> DEFINE no == IF num THEN ctx.own ELSE NoNumber
      <4>1. no \in Nos \cup {NoNumber}
        BY DEF TypeOK, Context
      <4>2. ctx' = [ctx EXCEPT !.state = "SUBMITTED", !.no = no]
        BY <3>2 DEF Answer
      <4> HIDE DEF no
      <4> QED BY <4>1, <4>2 DEF TypeOK, Context, OrderState
    <3>3. CASE Refuse
      BY <3>3 DEF Refuse, TypeOK, Context, OrderState
    <3>4. CASE \E ok \in BOOLEAN : Persist(ok)
      BY <3>4 DEF Persist, TypeOK, Context
    <3> QED BY <1>5, <3>1, <3>2, <3>3, <3>4 DEF Own
  <2>3. index' \subseteq Nos /\ lock' \in {"free", "submit", "persist"}
    BY <1>5 DEF Own, Submit, Answer, Refuse, Persist, TypeOK, Context
  <2>4. alarm' \in BOOLEAN
    BY <1>5, ConstantsAssumption
       DEF Own, Submit, Answer, Refuse, Persist, TypeOK, ConstantsAssumption
  <2>5. ledger' \in [Nos -> Nat]
    <3>1. CASE \E ok \in BOOLEAN : Persist(ok)
      <4>1. ctx.filled \in Nat
        BY DEF TypeOK, Context
      <4> QED BY <3>1, <4>1 DEF Persist, TypeOK
    <3> QED BY <1>5, <3>1 DEF Own, Submit, Answer, Refuse, TypeOK
  <2> QED BY <1>1, <2>1, <2>2, <2>3, <2>4, <2>5 DEF TypeOK
<1>6. CASE Quiet
  <2>1. UNCHANGED <<ctx, index, seen, lock, alarm, ledger, feed>>
    BY <1>6 DEF Quiet, PollStart, PollRows, PollEnd, vars
  <2>2. PollShape'
    <3>1. CASE PollStart
      BY <3>1 DEF PollStart, PollShape, PollIdle, TypeOK, Context
    <3>2. CASE PollRows
      <4>1. {Row(n) : n \in IF poll.asked = NoNumber THEN Placed ELSE {poll.asked}} \subseteq Report
        BY RowFacts DEF Placed, TypeOK
      <4> QED BY <3>2, <4>1 DEF PollRows, PollShape
    <3> QED BY <1>6, <3>1, <3>2 DEF Quiet, PollEnd, PollShape, PollIdle, vars
  <2> QED BY <1>1, <2>1, <2>2 DEF TypeOK
<1> QED BY <1>1, <1>2, <1>4, <1>5, <1>6, Steps

-----------------------------------------------------------------------------
(* The context and the lock *)

\* Where a report finds an order, and where it takes it.
LEMMA AfterFacts ==
    ASSUME NEW r \in Report, ctx.state \in {"SUBMITTED", "PARTIAL_FILLED"}
    PROVE  /\ r.state \in {"REJECTED", "CANCELED"} => StateAfter(r) = r.state
           /\ IsFill(r) => StateAfter(r) = IF CompletedBy(r) THEN "FILLED" ELSE "PARTIAL_FILLED"
           /\ r.state \notin {"REJECTED", "CANCELED"} /\ ~IsFill(r) => StateAfter(r) = ctx.state
           /\ StateAfter(r) \in OrderState \ {"PENDING_SUBMIT"}
           /\ StateAfter(r) \in Terminal =>
                 IF IsFill(r) THEN CompletedBy(r) ELSE r.state \in {"REJECTED", "CANCELED"}
BY DEF StateAfter, IsFill, Report, OrderState, Terminal

\* A fill is never refused.
LEMMA FillCounts ==
    ASSUME NEW r \in Report, ctx.state \in {"SUBMITTED", "PARTIAL_FILLED"}, IsFill(r)
    PROVE  ~Raises(r)
<1>1. StateAfter(r) \in {"FILLED", "PARTIAL_FILLED"}
  BY AfterFacts
<1>2. Allowed["SUBMITTED"] = {"PARTIAL_FILLED", "FILLED", "CANCELED", "REJECTED"}
  BY DEF Allowed, OrderState
<1>3. Allowed["PARTIAL_FILLED"] = {"FILLED", "CANCELED"}
  BY DEF Allowed, OrderState
<1> QED BY <1>1, <1>2, <1>3 DEF Raises, CanTransition

\* The order a report has an effect on.
LEMMA EffectiveFacts ==
    ASSUME TypeOK, CtxInv, lock = "free", NEW r \in Report, Effective(r)
    PROVE  /\ ctx.state \in {"SUBMITTED", "PARTIAL_FILLED"} /\ Live /\ r \notin seen
           /\ ctx.own \in Nos /\ ctx.recorded = 0 /\ ctx.filled \in Nat
<1>1. Live /\ r \notin seen
  BY DEF Effective
<1>2. ctx.state \in {"SUBMITTED", "PARTIAL_FILLED"}
  BY <1>1 DEF Live, IsLive, CtxInv, OrderState, Terminal
<1> QED BY <1>1, <1>2 DEF CtxInv, TypeOK, Context, Absent

LEMMA CtxStep == TypeOK /\ MarketInv /\ CtxInv /\ [Next]_vars => CtxInv'
<1> SUFFICES ASSUME TypeOK, MarketInv, CtxInv, [Next]_vars PROVE CtxInv'
  OBVIOUS
<1> USE DEF Absent, NoNumber
<1>0. \A n \in Nos : n # 0
  BY Constants
<1>1. ASSUME NEW n \in Nos, Trades(n) PROVE CtxInv'
  <2>1. \A k \in Nos : market[k].status # "none" => market'[k].status # "none"
    <3>1. market'[n].status # "none"
      BY <1>1, OpenFacts, ExecuteFacts, CancelFacts, RejectFacts DEF Trades, Becomes
    <3>2. \A k \in Nos \ {n} : market'[k] = market[k]
      BY <1>1, OrderStep
    <3> QED BY <3>1, <3>2
  <2>2. ctx.own # 0 => ctx.own \in Nos
    BY DEF TypeOK, Context
  <2>3. CASE ctx' = ctx /\ lock' = lock
    BY <2>1, <2>2, <2>3 DEF CtxInv, ToRecord, Live
  <2>4. CASE Open(n)
    <3>1. /\ ctx' \in Context /\ ctx'.own = n /\ ctx'.state = ctx.state /\ ctx'.filled = ctx.filled
          /\ ctx'.recorded = ctx.recorded /\ lock' = "submit" /\ lock = "submit"
      BY <2>4 DEF Open, TypeOK, Context
    <3>2. market'[n].status = "open"
      BY <2>4, OpenFacts DEF Becomes
    <3>3. ctx'.state = "PENDING_SUBMIT" /\ ctx'.filled = 0 /\ ctx'.recorded \in {0, 0}
      BY <2>4, <3>1 DEF CtxInv, Open
    <3> QED BY <1>0, <3>1, <3>2, <3>3 DEF CtxInv
  <2> QED BY <1>1, <2>3, <2>4 DEF Trades, Execute, Cancel, Reject
<1>2. CASE UNCHANGED <<market, ctx, lock>>
  BY <1>2 DEF CtxInv, ToRecord, Live
<1>3. CASE Quiet
  BY <1>2, <1>3 DEF Quiet, PollStart, PollRows, PollEnd, vars
<1>4. ASSUME NEW r \in Report, Apply(r) PROVE CtxInv'
  <2>1. /\ Drops(r) \/ Refuses(r) \/ Counts(r)
        /\ lock = "free" /\ UNCHANGED market
    BY <1>4, ApplyCases
  <2>2. CASE Drops(r)
    BY <1>2, <2>1, <2>2 DEF Drops
  <2>3. CASE Refuses(r)
    <3>1. ctx.state \in {"SUBMITTED", "PARTIAL_FILLED"} /\ ctx.recorded = 0 /\ ctx.own \in Nos
      BY <2>1, <2>3, EffectiveFacts DEF Refuses
    <3>2. /\ ctx'.state = ctx.state /\ ctx'.filled = ctx.filled /\ ctx'.recorded = 0
          /\ ctx'.own = ctx.own /\ lock' \in {"free", "persist"}
          /\ lock' = IF ToRecord(ctx') THEN "persist" ELSE "free"
      BY <2>3, <3>1 DEF Refuses
    <3> QED BY <1>0, <2>1, <3>1, <3>2 DEF CtxInv
  <2>4. CASE Counts(r)
    <3>1. /\ ctx.state \in {"SUBMITTED", "PARTIAL_FILLED"} /\ ctx.recorded = 0 /\ ctx.own \in Nos
          /\ Live
      BY <2>1, <2>4, EffectiveFacts DEF Counts
    <3>2. /\ ctx'.recorded = 0 /\ ctx'.own = ctx.own /\ ctx'.state \in OrderState \ {"PENDING_SUBMIT"}
      BY <2>4, <3>1, AppliedFacts, AfterFacts DEF Counts
    <3>3. lock' = IF ToRecord(ctx') THEN "persist" ELSE "free"
      BY <2>4 DEF Counts
    <3> QED BY <1>0, <2>1, <3>1, <3>2, <3>3 DEF CtxInv, OrderState
  <2> QED BY <2>1, <2>2, <2>3, <2>4
<1>5. CASE Applies
  BY <1>4, <1>5, NoticeInMarket, RowInPoll DEF Applies, Deliver, PollApply
<1>6. CASE Submit
  <2>1. ctx' = [state |-> "PENDING_SUBMIT", filled |-> 0, recorded |-> 0, no |-> 0, own |-> 0]
        /\ lock' = "submit"
    BY <1>6 DEF Submit
  <2> QED BY <2>1 DEF CtxInv
<1>7. ASSUME NEW num \in Numbering, Answer(num) PROVE CtxInv'
  <2>1. /\ ctx'.state = "SUBMITTED" /\ ctx'.own = ctx.own /\ ctx'.filled = ctx.filled
        /\ ctx'.recorded = ctx.recorded
    BY <1>7 DEF Answer, TypeOK, Context
  <2>2. lock = "submit" /\ ctx.own # 0 /\ lock' = "free" /\ UNCHANGED market
    BY <1>7 DEF Answer
  <2> QED BY <2>1, <2>2 DEF CtxInv
<1>8. CASE Refuse
  <2>1. /\ ctx'.state = "REJECTED" /\ ctx'.own = ctx.own /\ ctx'.filled = ctx.filled
        /\ ctx'.recorded = ctx.recorded
    BY <1>8 DEF Refuse, TypeOK, Context
  <2>2. lock = "submit" /\ ctx.own = 0 /\ lock' = "free" /\ UNCHANGED market
    BY <1>8 DEF Refuse
  <2>3. ~(ctx'.state \in OrderState \ Terminal)
    BY <2>1 DEF Terminal
  <2> QED BY <2>1, <2>2, <2>3 DEF CtxInv, Live, IsLive
<1>9. ASSUME NEW ok \in BOOLEAN, Persist(ok) PROVE CtxInv'
  <2>1. /\ ctx'.state = ctx.state /\ ctx'.own = ctx.own /\ ctx'.filled = ctx.filled
        /\ ctx'.recorded \in {ctx.recorded, ctx.filled}
    BY <1>9 DEF Persist, TypeOK, Context
  <2>2. lock = "persist" /\ lock' = "free" /\ UNCHANGED market
    BY <1>9 DEF Persist
  <2>3. ctx.state \in {"FILLED", "CANCELED"}
    BY <2>2 DEF CtxInv, ToRecord
  <2>4. ~(ctx'.state \in OrderState \ Terminal)
    BY <2>1, <2>3 DEF Terminal
  <2> QED BY <2>1, <2>2, <2>3, <2>4 DEF CtxInv, Live, IsLive
<1> QED BY <1>1, <1>3, <1>5, <1>6, <1>7, <1>8, <1>9, Steps DEF Own

-----------------------------------------------------------------------------
(* Shares and notices *)

\* The shares of some of the notices.
LEMMA SplitFacts ==
    ASSUME NEW total \in Nat, NEW N, NEW w, Split(w, N, total), NEW S \in SUBSET N
    PROVE  /\ Of(w, S) \subseteq 1..total /\ IsFiniteSet(Of(w, S))
           /\ Cardinality(Of(w, S)) \in Nat /\ Cardinality(Of(w, S)) <= total
           /\ Cardinality(Of(w, S)) = total => Of(w, S) = 1..total
<1>1. Of(w, S) \in SUBSET (1..total)
  BY DEF Of, Split
<1>2. IsFiniteSet(1..total) /\ Cardinality(1..total) = total
  BY FS_Interval
<1> QED BY <1>1, <1>2, FS_Subset, FS_CardinalityType

\* One more notice brings the shares it reports.
LEMMA SplitAdd ==
    ASSUME NEW total \in Nat, NEW N, NEW w, Split(w, N, total), NEW S \in SUBSET N,
           NEW r \in N, r \notin S, r.qty \in Nat
    PROVE  /\ Cardinality(Of(w, S \cup {r})) = Cardinality(Of(w, S)) + r.qty
           /\ r.qty = 0 => Of(w, S \cup {r}) = Of(w, S)
<1>1. Of(w, S \cup {r}) = Of(w, S) \cup w[r] /\ Of(w, S) \cap w[r] = {}
  BY DEF Of, Split
<1>2. w[r] \in SUBSET (1..total) /\ Cardinality(w[r]) = r.qty
  BY DEF Split
<1>3. IsFiniteSet(w[r]) /\ IsFiniteSet(Of(w, S))
  <2>1. IsFiniteSet(1..total)
    BY FS_Interval
  <2> QED BY <1>2, <2>1, FS_Subset, SplitFacts
<1>4. Cardinality({}) = 0 /\ (r.qty = 0 => w[r] = {})
  BY <1>2, <1>3, FS_EmptySet
<1>5. Cardinality(Of(w, S)) \in Nat
  BY SplitFacts
<1>6. Cardinality(Of(w, S) \cup w[r]) = Cardinality(Of(w, S)) + Cardinality(w[r])
  <2> DEFINE A == Of(w, S)
             B == w[r]
  <2>1. IsFiniteSet(A) /\ IsFiniteSet(B) /\ A \cap B = {} /\ Cardinality(A) \in Nat /\ Cardinality(B) \in Nat
    BY <1>1, <1>2, <1>3, <1>5
  <2> HIDE DEF A, B
  <2>2. Cardinality(A \cup B) = Cardinality(A) + Cardinality(B)
    <3>1. Cardinality(A \cap B) = 0
      BY <2>1, FS_EmptySet
    <3>2. Cardinality(A \cup B) = Cardinality(A) + Cardinality(B) - Cardinality(A \cap B)
      BY <2>1, FS_Union
    <3> QED BY <2>1, <3>1, <3>2
  <2> QED BY <2>2 DEF A, B
<1> QED BY <1>1, <1>2, <1>4, <1>5, <1>6

\* All shares are in S: no other notice reports any.
LEMMA SplitFull ==
    ASSUME NEW total \in Nat, NEW N, NEW w, Split(w, N, total), NEW S \in SUBSET N,
           Cardinality(Of(w, S)) >= total, NEW r \in N \ S
    PROVE  r.qty = 0
<1>1. Of(w, S) = 1..total
  BY SplitFacts
<1>2. w[r] \subseteq 1..total /\ Cardinality(w[r]) = r.qty /\ \A s \in S : w[r] \cap w[s] = {}
  BY DEF Split
<1>3. w[r] = {}
  BY <1>1, <1>2 DEF Of
<1> QED BY <1>2, <1>3, FS_EmptySet

\* A notice x of q further shares can be given shares of its own.
Extensible(w, N, x, total, q) ==
    \E v : /\ Split(v, N \cup {x}, total + q)
           /\ \A S \in SUBSET N : Of(v, S) = Of(w, S)

LEMMA SplitExtend ==
    ASSUME NEW total \in Nat, NEW q \in Nat, NEW N, NEW w, Split(w, N, total),
           NEW x, x.qty = q
    PROVE  Extensible(w, N, x, total, q)
<1> DEFINE more == (total + 1)..(total + q)
           new == N \cup {x}
           v == [r \in new |-> IF r \in N THEN w[r] ELSE more]
<1>1. Cardinality(more) = q
  BY FS_Interval
<1>2. 1..total \subseteq 1..(total + q) /\ more \subseteq 1..(total + q) /\ more \cap (1..total) = {}
  OBVIOUS
<1> HIDE DEF more
<1>3. /\ w \in [N -> SUBSET (1..total)] /\ \A r \in N : Cardinality(w[r]) = r.qty
      /\ \A r, s \in N : r # s => w[r] \cap w[s] = {}
  BY DEF Split
<1>4. v \in [new -> SUBSET (1..(total + q))]
  BY <1>2, <1>3
<1>5. \A r \in new : v[r] = IF r \in N THEN w[r] ELSE more
  OBVIOUS
<1> HIDE DEF v
<1>6. \A r \in new : Cardinality(v[r]) = r.qty
  BY <1>1, <1>3, <1>5
<1>7. \A r, s \in new : r # s => v[r] \cap v[s] = {}
  <2> SUFFICES ASSUME NEW r \in new, NEW s \in new, r # s PROVE v[r] \cap v[s] = {}
    OBVIOUS
  <2>1. CASE r \in N /\ s \in N
    BY <1>3, <1>5, <2>1
  <2>2. CASE r \in N /\ s \notin N
    BY <1>2, <1>3, <1>5, <2>2
  <2>3. CASE r \notin N /\ s \in N
    BY <1>2, <1>3, <1>5, <2>3
  <2> QED BY <2>1, <2>2, <2>3
<1>8. \A S \in SUBSET N : Of(v, S) = Of(w, S)
  BY <1>5 DEF Of
<1> QED BY <1>4, <1>6, <1>7, <1>8 DEF Split, Extensible

-----------------------------------------------------------------------------
(* The notices *)

\* A report that is refused, or that is no fill, moves no quantity.
LEMMA NoticeEffect ==
    ASSUME TypeOK, MarketInv, CtxInv, lock = "free", NEW n \in Nos, NEW r \in market[n].notices,
           Effective(r), Refuses(r) \/ Counts(r)
    PROVE  /\ ctx'.own = ctx.own /\ ctx'.filled = ctx.filled + r.qty
           /\ IsFill(r) <=> r.qty > 0
<1>1. r \in Report /\ r.qty \in Nat
  BY NoticeInMarket DEF Report
<1>2. IsNotice(r, n, market[n].status)
  BY DEF MarketInv, OrderInv
<1>3. /\ ctx.state \in {"SUBMITTED", "PARTIAL_FILLED"} /\ Live /\ ctx.filled \in Nat
  BY <1>1, EffectiveFacts
<1>4. IsFill(r) <=> r.qty > 0
  BY <1>1, <1>2 DEF IsFill, IsNotice
<1>5. CASE Refuses(r)
  BY <1>1, <1>3, <1>4, <1>5, FillCounts DEF Refuses
<1>6. CASE Counts(r)
  <2>1. Applied(r).own = ctx.own /\ Applied(r).filled = IF IsFill(r) THEN FilledAfter(r) ELSE ctx.filled
    BY <1>1, <1>3, AppliedFacts
  <2>2. FilledAfter(r) = ctx.filled + r.qty
    BY <1>2 DEF FilledAfter, IsNotice
  <2> QED BY <1>1, <1>3, <1>4, <1>6, <2>1, <2>2 DEF Counts
<1> QED BY <1>4, <1>5, <1>6

\* What NoticesInv says of one order.
Shared(n) ==
    \E w : /\ Split(w, market[n].notices, market[n].done)
           /\ n = ctx.own => ctx.filled = Cardinality(Of(w, seen \cap market[n].notices))

\* A step of the broker: a notice of an execution brings the shares of the execution.
LEMMA SharedTrade ==
    ASSUME TypeOK, MarketInv, CtxInv, NEW n \in Nos, Trades(n), Shared(n),
           \A r \in seen : r.no \in Nos /\ r \in market[r.no].notices
    PROVE  Shared(n)' /\ market[n].notices \subseteq market'[n].notices
<1> DEFINE N == market[n].notices
           total == market[n].done
<1>1. PICK w : Split(w, N, total) /\ (n = ctx.own => ctx.filled = Cardinality(Of(w, seen \cap N)))
  BY DEF Shared
<1>2. total \in Nat /\ seen' = seen
  <2>1. total \in Nat
    BY Constants DEF TypeOK
  <2> QED BY <2>1 DEF Trades, Open, Execute, Cancel, Reject
<1>3. ASSUME NEW x, NEW q \in Nat, x.no = n, x.qty = q,
             market'[n].notices = N \cup {x}, market'[n].done = total + q, ctx' = ctx
      PROVE  Shared(n)'
  <2>1. PICK v : /\ Split(v, N \cup {x}, total + q)
                 /\ \A S \in SUBSET N : Of(v, S) = Of(w, S)
    <3>1. Split(w, N, total) /\ total \in Nat /\ x.qty = q
      BY <1>1, <1>2, <1>3
    <3>2. Extensible(w, N, x, total, q)
      <4> HIDE DEF N, total
      <4> QED BY ONLY <3>1, q \in Nat, SplitExtend
    <3> QED BY ONLY <3>2 DEF Extensible
  <2>2. seen \cap (N \cup {x}) = seen \cap N
    BY <1>3
  <2>3. Of(v, seen \cap N) = Of(w, seen \cap N)
    BY <2>1
  <2> QED BY <1>1, <1>2, <1>3, <2>1, <2>2, <2>3 DEF Shared
<1>4. CASE Open(n)
  <2> DEFINE x == Notice(n, 0, "SUBMITTED", 0)
  <2>1. market'[n].notices = {x} /\ market'[n].done = total /\ x.qty = 0
    BY <1>4, OpenFacts, NoticeType DEF Becomes, OrderState
  <2>2. N = {} /\ total = 0
    BY <1>4 DEF Open, MarketInv, OrderInv
  <2>3. ctx.filled = 0 /\ ctx'.filled = ctx.filled
    BY <1>4 DEF Open, CtxInv, TypeOK, Context
  <2> HIDE DEF x
  <2>4. PICK v : Split(v, {x}, 0)
    BY <1>1, <1>2, <2>1, <2>2, SplitExtend DEF Extensible
  <2>5. Cardinality(Of(v, seen \cap {x})) = 0
    BY <2>4, SplitFacts
  <2> QED BY <1>2, <2>1, <2>2, <2>3, <2>4, <2>5 DEF Shared
<1>5. ASSUME NEW q \in 1..Qty, Execute(n, q) PROVE Shared(n)' /\ N \subseteq market'[n].notices
  <2>1. PICK at \in Nat : /\ market'[n].done = total + q
                          /\ market'[n].notices = N \cup {Published(n, at, q)}
    BY <1>5, ExecuteFacts DEF Becomes
  <2>2. Published(n, at, q).no = n /\ Published(n, at, q).qty = q
    BY Constants, NoticeType DEF Published, OrderState
  <2>3. ctx' = ctx
    BY <1>5 DEF Execute
  <2> QED BY <1>3, <2>1, <2>2, <2>3
<1>6. CASE Cancel(n)
  <2>1. market'[n].done = total /\ market'[n].notices = N /\ ctx' = ctx
    BY <1>6, CancelFacts DEF Becomes, Cancel
  <2> QED BY <1>1, <1>2, <2>1 DEF Shared
<1>7. CASE Reject(n)
  <2> DEFINE x == Notice(n, 0, "REJECTED", 0)
  <2>1. market'[n].done = total /\ market'[n].notices = N \cup {x}
    <3>1. Becomes(n, "rejected", total, N \cup {x})
      BY <1>7, RejectFacts
    <3> QED BY <3>1 DEF Becomes
  <2>2. x.no = n /\ x.qty = 0 /\ ctx' = ctx /\ total = total + 0
    BY <1>2, <1>7, NoticeType DEF OrderState, Reject
  <2> QED BY <1>3, <2>1, <2>2
<1>8. Open(n) => N = {}
  BY DEF Open, MarketInv, OrderInv
<1>9. Cancel(n) \/ Reject(n) => N \subseteq market'[n].notices
  BY CancelFacts, RejectFacts DEF Becomes
<1> QED BY <1>4, <1>5, <1>6, <1>7, <1>8, <1>9 DEF Trades

\* feed is read and never assigned, and polling does nothing where it is not at work.
LEMMA FeedStays == [Next]_vars => feed' = feed
BY Steps DEF Trades, Applies, Own, Quiet, Deliver, PollApply, Apply, Open, Execute, Cancel, Reject,
             Submit, Answer, Refuse, Persist, PollStart, PollRows, PollEnd, vars

LEMMA OneFeed ==
    ASSUME TypeOK, OneSource
    PROVE  "polling" \notin feed \/ "websocket" \notin feed
<1>1. feed \subseteq {"websocket", "polling"}
  BY ConstantsAssumption DEF TypeOK, ConstantsAssumption
<1> QED BY <1>1 DEF OneSource

LEMMA NoticesOnly ==
    ASSUME NoticesInv, "polling" \notin feed, [Next]_vars
    PROVE  /\ UNCHANGED poll
           /\ Applies => \E n \in Nos : \E r \in market[n].notices : Deliver(r)
<1>1. poll = PollIdle
  BY DEF NoticesInv
<1>2. poll.rows = {} /\ poll.pc = "idle"
  BY <1>1 DEF PollIdle
<1>3. Applies => \E n \in Nos : \E r \in market[n].notices : Deliver(r)
  BY <1>2 DEF Applies
<1>4. ~PollStart /\ ~PollRows /\ ~PollEnd
  BY <1>2 DEF PollStart, PollRows, PollEnd
<1> QED BY <1>3, <1>4, Steps DEF Trades, Own, Quiet, Deliver, Open, Execute, Cancel, Reject, Submit,
           Answer, Refuse, Persist, vars

\* An effective notice is of the order under way, or it brings nothing.
LEMMA NoticeOfOwn ==
    ASSUME TypeOK, MarketInv, CtxInv, EndedInv, "polling" \notin feed, lock = "free",
           NEW n \in Nos, NEW r \in market[n].notices, Effective(r), n # ctx.own
    PROVE  r.state = "SUBMITTED" /\ r.qty = 0
<1>1. IsNotice(r, n, market[n].status) /\ market[n].status # "none"
  BY DEF MarketInv, OrderInv
<1>2. OneSource
  BY DEF OneSource
<1>3. Settled(n)
  BY <1>1, <1>2 DEF EndedInv, Placed
<1>4. r \notin seen
  BY DEF Effective
<1> QED BY <1>1, <1>3, <1>4 DEF Settled, IsNotice

\* A notice applied: the filled quantity stays that of the shares in the notices seen.
LEMMA SharedDeliver ==
    ASSUME TypeOK, MarketInv, CtxInv, EndedInv, "polling" \notin feed, NEW k \in Nos, Shared(k),
           NEW n \in Nos, NEW r \in market[n].notices, Apply(r)
    PROVE  Shared(k)'
<1> DEFINE N == market[k].notices
           total == market[k].done
           S == seen \cap N
<1>1. PICK w : Split(w, N, total) /\ (k = ctx.own => ctx.filled = Cardinality(Of(w, S)))
  BY DEF Shared
<1>2. r \in Report /\ r.no = n /\ total \in Nat /\ r.qty \in Nat
  <2>1. r \in Report /\ r.no = n
    BY NoticeInMarket DEF MarketInv, OrderInv, IsNotice
  <2>2. total \in Nat
    BY Constants DEF TypeOK
  <2> QED BY <2>1, <2>2 DEF Report
<1>3. /\ Drops(r) \/ ((Refuses(r) \/ Counts(r)) /\ Effective(r))
      /\ lock = "free" /\ market' = market /\ (Drops(r) \/ r \notin seen)
  BY <1>2, ApplyCases DEF Refuses, Counts
<1>4. CASE Drops(r)
  BY <1>1, <1>3, <1>4 DEF Drops, Shared
<1>5. CASE (Refuses(r) \/ Counts(r)) /\ Effective(r)
  <2>1. ctx'.own = ctx.own /\ ctx'.filled = ctx.filled + r.qty /\ seen' = seen \cup {r}
    BY <1>3, <1>5, NoticeEffect DEF Refuses, Counts
  <2>2. ctx.filled \in Nat
    BY DEF TypeOK, Context
  <2>3. CASE k # ctx.own
    BY <1>1, <1>3, <2>1, <2>3 DEF Shared
  <2>4. CASE k = ctx.own /\ n # k
    <3>1. r \notin N
      <4>1. \A s \in N : s.no = k
        <5>1. OrderInv(market[k], k)
          BY DEF MarketInv
        <5> QED BY <5>1 DEF OrderInv, IsNotice
      <4> QED BY <1>2, <2>4, <4>1
    <3>2. seen' \cap N = S /\ ctx'.filled = ctx.filled
      BY <1>3, <1>5, <2>1, <2>2, <2>4, <3>1, NoticeOfOwn
    <3> QED BY <1>1, <1>3, <2>1, <2>4, <3>2 DEF Shared
  <2>5. CASE k = ctx.own /\ n = k
    <3>1. r \in N /\ r \notin S /\ S \in SUBSET N /\ seen' \cap N = S \cup {r}
      BY <1>3, <1>5, <2>1, <2>5 DEF Effective
    <3>2. Cardinality(Of(w, S \cup {r})) = Cardinality(Of(w, S)) + r.qty
      <4>1. Split(w, N, total)
        BY <1>1
      <4> HIDE DEF N, total, S
      <4> QED BY <1>2, <3>1, <4>1, SplitAdd
    <3> QED BY <1>1, <1>3, <2>1, <2>5, <3>1, <3>2 DEF Shared
  <2> QED BY <2>3, <2>4, <2>5
<1> QED BY <1>3, <1>4, <1>5

LEMMA NoticesStep ==
    TypeOK /\ MarketInv /\ CtxInv /\ EndedInv /\ NoticesInv /\ [Next]_vars => NoticesInv'
<1> SUFFICES ASSUME TypeOK, MarketInv, CtxInv, EndedInv, NoticesInv, [Next]_vars,
                    "polling" \notin feed
             PROVE  NoticesInv'
  BY FeedStays DEF NoticesInv
<1> DEFINE SeenOK == \A r \in seen : r.no \in Nos /\ r \in market[r.no].notices
<1>1. poll' = PollIdle /\ SeenOK /\ \A n \in Nos : Shared(n)
  BY NoticesOnly DEF NoticesInv, Shared
<1>2. ASSUME SeenOK', \A n \in Nos : Shared(n)' PROVE NoticesInv'
  BY <1>1, <1>2 DEF NoticesInv, Shared
<1>3. ASSUME NEW n \in Nos, Trades(n) PROVE NoticesInv'
  <2>1. Shared(n)' /\ market[n].notices \subseteq market'[n].notices
    BY <1>1, <1>3, SharedTrade
  <2>2. \A k \in Nos \ {n} : market'[k] = market[k]
    BY <1>3, OrderStep
  <2>3. seen' = seen /\ ctx'.filled = ctx.filled /\ ctx'.own \in {ctx.own, n}
    BY <1>3 DEF Trades, Open, Execute, Cancel, Reject, TypeOK, Context
  <2>4. SeenOK'
    BY <1>1, <2>1, <2>2, <2>3
  <2>5. \A k \in Nos \ {n} : Shared(k)'
    BY <1>1, <2>2, <2>3 DEF Shared
  <2> QED BY <1>2, <2>1, <2>4, <2>5
<1>4. ASSUME NEW n \in Nos, NEW r \in market[n].notices, Deliver(r) PROVE NoticesInv'
  <2>1. Apply(r) /\ r \in Report /\ r.no = n
    BY <1>4, NoticeInMarket DEF Deliver, MarketInv, OrderInv, IsNotice
  <2>2. \A k \in Nos : Shared(k)'
    BY <1>1, <2>1, SharedDeliver
  <2>3. market' = market /\ seen' \subseteq seen \cup {r}
    BY <2>1, ApplyCases DEF Drops, Refuses, Counts
  <2>4. SeenOK'
    BY <1>1, <1>4, <2>1, <2>3
  <2> QED BY <1>2, <2>2, <2>4
<1>5. CASE Own \/ Quiet
  <2>1. UNCHANGED <<market, seen>>
    BY <1>5 DEF Own, Quiet, Submit, Answer, Refuse, Persist, PollStart, PollRows, PollEnd, vars
  <2>2. ctx'.own = NoNumber \/ (ctx'.own = ctx.own /\ ctx'.filled = ctx.filled)
    <3>1. CASE Submit
      BY <3>1 DEF Submit
    <3> QED BY <1>5, <3>1 DEF Own, Quiet, Answer, Refuse, Persist, PollStart, PollRows, PollEnd, vars,
                TypeOK, Context
  <2>3. \A k \in Nos : Shared(k)'
    BY <1>1, <2>1, <2>2, Constants DEF Shared
  <2> QED BY <1>1, <1>2, <2>1, <2>3
<1> QED BY <1>3, <1>4, <1>5, Steps, NoticesOnly

-----------------------------------------------------------------------------
(* The order that ended *)

LEMMA SettledStays ==
    ASSUME NEW k \in Nos, Settled(k), market'[k] = market[k], seen \subseteq seen', feed' = feed
    PROVE  Settled(k)'
<1>1. Row(k)' = Row(k)
  BY DEF Row
<1> QED BY <1>1 DEF Settled

\* The report that ends the order under way is a fill that completes it, or says so.
LEMMA EndFacts ==
    ASSUME TypeOK, CtxInv, lock = "free", NEW r \in Report, Counts(r), ~Live'
    PROVE  /\ IF IsFill(r) THEN CompletedBy(r) ELSE r.state \in {"REJECTED", "CANCELED"}
           /\ ctx'.own = ctx.own /\ ctx.own \in Nos /\ seen' = seen \cup {r}
<1>1. ctx.state \in {"SUBMITTED", "PARTIAL_FILLED"} /\ Live /\ ctx.own \in Nos
  BY EffectiveFacts DEF Counts
<1>2. ctx'.state = StateAfter(r) /\ ctx'.own = ctx.own /\ seen' = seen \cup {r}
  BY <1>1, AppliedFacts DEF Counts
<1>3. StateAfter(r) \in Terminal
  BY <1>1, <1>2, AfterFacts DEF Live, IsLive
<1> QED BY <1>1, <1>2, <1>3, AfterFacts

LEMMA SettledByNotice ==
    ASSUME TypeOK, MarketInv, CtxInv, EndedInv, NoticesInv, "polling" \notin feed, NEW n \in Nos,
           NEW r \in market[n].notices, Deliver(r), Counts(r), ~Live', NEW k \in Nos, k = ctx.own
    PROVE  Settled(k)'
<1> DEFINE N == market[k].notices
           total == market[k].done
           S == seen \cap N
<1>1. PICK w : Split(w, N, total) /\ ctx.filled = Cardinality(Of(w, S))
  BY DEF NoticesInv
<1>2. r \in Report /\ r.qty \in Nat /\ IsNotice(r, n, market[n].status)
  BY NoticeInMarket DEF MarketInv, OrderInv, Report
<1>3. Apply(r) /\ "websocket" \in feed
  BY DEF Deliver
<1>4. lock = "free" /\ UNCHANGED <<market, feed>> /\ seen' = seen \cup {r} /\ r \notin seen /\ Effective(r)
  BY <1>2, <1>3, ApplyCases DEF Counts, Effective
<1>5. IF IsFill(r) THEN CompletedBy(r) ELSE r.state \in {"REJECTED", "CANCELED"}
  BY <1>2, <1>4, EndFacts
<1>6. n = k
  BY <1>4, <1>5, NoticeOfOwn DEF IsFill
<1>7. total \in 0..Qty /\ total \in Nat /\ OrderInv(market[k], k) /\ N \subseteq Report
  <2>1. total \in 0..Qty /\ N \subseteq Report
    BY DEF TypeOK
  <2> QED BY <2>1, Constants DEF MarketInv
<1>8. ASSUME market[k].status \in Ended, \A s \in N : s.state = "SUBMITTED" \/ s \in S \cup {r}
      PROVE  Settled(k)'
  BY <1>3, <1>4, <1>8 DEF Settled
<1>9. CASE IsFill(r)
  <2>1. Cardinality(Of(w, S \cup {r})) = ctx.filled + r.qty
    <3>1. Split(w, N, total) /\ S \in SUBSET N /\ r \in N /\ r \notin S
      BY <1>1, <1>4, <1>6
    <3> HIDE DEF N, total, S
    <3> QED BY <1>1, <1>2, <1>7, <3>1, SplitAdd
  <2>2. ctx.filled + r.qty >= Qty
    BY <1>2, <1>5, <1>9 DEF CompletedBy, FilledAfter, IsNotice
  <2>3. Cardinality(Of(w, S \cup {r})) <= total
    <3>1. Split(w, N, total) /\ S \cup {r} \in SUBSET N
      BY <1>1, <1>6
    <3> HIDE DEF N, total, S
    <3> QED BY <1>7, <3>1, SplitFacts
  <2>4. ctx.filled + r.qty \in Nat
    BY <1>2 DEF TypeOK, Context
  <2>5. total = Qty
    BY <1>7, <2>1, <2>2, <2>3, <2>4, Constants
  <2>6. market[k].status = "filled"
    BY <1>7, <2>5 DEF OrderInv
  <2>7. ASSUME NEW s \in N, s \notin S \cup {r} PROVE s.state = "SUBMITTED"
    <3>1. s.qty = 0
      <4>1. Split(w, N, total) /\ S \cup {r} \in SUBSET N /\ s \in N \ (S \cup {r})
            /\ Cardinality(Of(w, S \cup {r})) >= total
        BY <1>1, <1>6, <2>1, <2>2, <2>5, <2>7
      <4> HIDE DEF N, total, S
      <4> QED BY <1>7, <4>1, SplitFull
    <3> QED BY <1>7, <2>6, <3>1 DEF OrderInv, IsNotice
  <2> QED BY <1>8, <2>6, <2>7 DEF Ended
<1>10. CASE ~IsFill(r)
  <2>1. r.state = "REJECTED" /\ market[k].status = "rejected" /\ total = 0
    BY <1>2, <1>5, <1>6, <1>7, <1>10 DEF IsNotice, OrderInv
  <2>2. ASSUME NEW s \in N, s.state # "SUBMITTED" PROVE s = r
    <3>1. s.qty = 0
      <4>1. Split(w, N, total) /\ {} \in SUBSET N /\ s \in N \ {}
        BY <1>1
      <4>2. Cardinality(Of(w, {})) >= total
        BY <1>1, <1>7, <2>1, SplitFacts
      <4> HIDE DEF N, total
      <4> QED BY <1>7, <4>1, <4>2, SplitFull
    <3>2. IsNotice(s, k, "rejected") /\ IsNotice(r, k, "rejected")
      BY <1>2, <1>6, <1>7, <2>1 DEF OrderInv
    <3>3. s.state = "REJECTED" /\ s.at = r.at /\ s.no = r.no /\ s.src = r.src /\ s.qty = r.qty
      BY <2>1, <2>2, <3>1, <3>2 DEF IsNotice
    <3>4. s \in Report /\ r \in Report
      BY <1>2, <1>7
    <3> HIDE DEF N
    <3> QED BY <2>1, <3>3, <3>4 DEF Report
  <2> QED BY <1>8, <2>1, <2>2 DEF Ended
<1> QED BY <1>9, <1>10

\* A row applied: an effective one is of the order under way, whose rows are all seen then.
LEMMA RowOfOwn ==
    ASSUME TypeOK, RowsInv, "websocket" \notin feed, NEW r \in poll.rows, r \notin seen
    PROVE  /\ r.src = "polling" /\ r.no = ctx.own /\ IsRow(r) /\ Live /\ r.no \in Placed
           /\ \A s \in poll.rows : s \in seen \/ s = r
BY DEF RowsInv

LEMMA SettledByRow ==
    ASSUME TypeOK, CtxInv, NoticesInv, RowsInv, "websocket" \notin feed,
           NEW r \in poll.rows, PollApply(r), Counts(r), ~Live', NEW k \in Nos, k = ctx.own
    PROVE  Settled(k)'
<1>1. r \in Report /\ Apply(r) /\ r \notin seen
  BY RowInPoll DEF PollApply, Counts, Effective
<1>2. lock = "free" /\ UNCHANGED <<market, feed>> /\ seen' = seen \cup {r}
  BY <1>1, ApplyCases DEF Counts
<1>3. IF IsFill(r) THEN CompletedBy(r) ELSE r.state \in {"REJECTED", "CANCELED"}
  BY <1>1, <1>2, EndFacts
<1>4. r.src = "polling" /\ r.no = k /\ IsRow(r)
  BY <1>1, RowOfOwn
<1>5. r.state \in Terminal
  BY <1>3, <1>4 DEF CompletedBy, IsRow, Terminal
<1>6. market[k].status \in Ended /\ r = Row(k)
  BY <1>4, <1>5 DEF IsRow
<1>7. "polling" \in feed
  BY DEF NoticesInv, PollIdle
<1>8. Row(k)' = Row(k)
  BY <1>2 DEF Row
<1> QED BY <1>2, <1>6, <1>7, <1>8 DEF Settled

LEMMA EndedStep ==
    TypeOK /\ MarketInv /\ CtxInv /\ FeedInv /\ [Next]_vars => EndedInv'
<1> SUFFICES ASSUME TypeOK, MarketInv, CtxInv, FeedInv, [Next]_vars, OneSource
             PROVE  \A k \in Placed' : k # ctx'.own \/ ~Live' => Settled(k)'
  BY FeedStays DEF EndedInv, OneSource
<1>0. /\ EndedInv /\ NoticesInv /\ RowsInv /\ feed' = feed
      /\ \A k \in Placed : k # ctx.own \/ ~Live => Settled(k)
  BY FeedStays DEF FeedInv, EndedInv
<1>1. ASSUME NEW n \in Nos, Trades(n), NEW k \in Placed', k # ctx'.own \/ ~Live' PROVE Settled(k)'
  <2>1. seen' = seen /\ ctx'.state = ctx.state
    BY <1>1 DEF Trades, Open, Execute, Cancel, Reject, TypeOK, Context
  <2>2. CASE k # n
    <3>1. market'[k] = market[k] /\ k \in Placed /\ k \in Nos
      BY <1>1, <2>2, OrderStep DEF Placed
    <3>2. k # ctx.own \/ ~Live
      <4>1. CASE Open(n)
        BY <4>1, <3>1, Constants DEF Open
      <4> QED BY <1>1, <4>1 DEF Trades, Execute, Cancel, Reject, Live
    <3> QED BY <1>0, <2>1, <3>1, <3>2, SettledStays
  <2>3. CASE k = n /\ Open(n)
    <3>1. ctx'.own = n /\ ctx'.state = "PENDING_SUBMIT"
      BY <2>3 DEF Open, CtxInv, TypeOK, Context
    <3> QED BY <1>1, <2>3, <3>1 DEF Live, IsLive, OrderState, Terminal
  <2>4. CASE k = n /\ ~Open(n)
    <3>1. ctx' = ctx /\ market[n].status = "open"
      BY <1>1, <2>4 DEF Trades, Execute, Cancel, Reject
    <3>2. Settled(n)
      BY <1>0, <1>1, <2>4, <3>1 DEF Placed, Live
    <3> QED BY <3>1, <3>2 DEF Settled, Ended
  <2> QED BY <2>2, <2>3, <2>4
<1>2. ASSUME NEW r \in Report, Apply(r), NEW k \in Placed', k # ctx'.own \/ ~Live',
             k = ctx.own /\ Counts(r) /\ ~Live' => Settled(k)'
      PROVE  Settled(k)'
  <2>1. Drops(r) \/ Refuses(r) \/ Counts(r)
    BY <1>2, ApplyCases
  <2>2. market' = market /\ seen \subseteq seen' /\ k \in Placed /\ k \in Nos /\ lock = "free"
    BY <1>2, <2>1, ApplyCases DEF Drops, Refuses, Counts, Placed
  <2>3. ctx'.own = ctx.own
    BY <1>2, <2>1, AppliedFacts DEF Drops, Refuses, Counts, Effective
  <2>4. CASE k # ctx.own \/ ~Live
    BY <1>0, <2>2, <2>4, SettledStays
  <2>5. CASE k = ctx.own /\ Live
    <3>1. Counts(r) /\ ~Live'
      BY <1>2, <2>1, <2>3, <2>5 DEF Drops, Refuses, Live
    <3> QED BY <1>2, <2>5, <3>1
  <2> QED BY <2>4, <2>5
<1>3. ASSUME NEW n \in Nos, NEW r \in market[n].notices, Deliver(r), NEW k \in Placed', k # ctx'.own \/ ~Live'
      PROVE  Settled(k)'
  <2>1. r \in Report /\ Apply(r) /\ "polling" \notin feed
    BY <1>3, NoticeInMarket, OneFeed DEF Deliver
  <2> QED BY <1>0, <1>2, <1>3, <2>1, SettledByNotice DEF Placed
<1>4. ASSUME NEW r \in poll.rows, PollApply(r), NEW k \in Placed', k # ctx'.own \/ ~Live'
      PROVE  Settled(k)'
  <2>1. r \in Report /\ Apply(r)
    BY <1>4, RowInPoll DEF PollApply
  <2>2. "polling" \in feed
    BY <1>0 DEF NoticesInv, PollIdle
  <2>3. "websocket" \notin feed
    BY <2>2, OneFeed
  <2> QED BY <1>0, <1>2, <1>4, <2>1, <2>3, SettledByRow DEF Placed
<1>5. CASE Own \/ Quiet
  <2>1. UNCHANGED <<market, seen>>
    BY <1>5 DEF Own, Quiet, Submit, Answer, Refuse, Persist, PollStart, PollRows, PollEnd, vars
  <2>2. ASSUME NEW k \in Placed', k # ctx'.own \/ ~Live' PROVE k # ctx.own \/ ~Live
    <3>1. k \in Nos /\ k # NoNumber
      BY Constants DEF Placed
    <3>2. CASE Submit
      BY <3>2 DEF Submit
    <3>3. CASE \E num \in Numbering : Answer(num)
      <4>1. ctx'.own = ctx.own /\ ctx'.state = "SUBMITTED"
        BY <3>3 DEF Answer, TypeOK, Context
      <4> QED BY <2>2, <4>1 DEF Live, IsLive, OrderState, Terminal
    <3>4. CASE Refuse
      BY <3>1, <3>4 DEF Refuse
    <3>5. CASE (\E ok \in BOOLEAN : Persist(ok)) \/ Quiet
      <4>1. ctx'.own = ctx.own /\ ctx'.state = ctx.state
        BY <3>5 DEF Persist, Quiet, PollStart, PollRows, PollEnd, vars, TypeOK, Context
      <4> QED BY <2>2, <4>1 DEF Live
    <3> QED BY <1>5, <3>2, <3>3, <3>4, <3>5 DEF Own
  <2> QED BY <1>0, <2>1, <2>2, SettledStays DEF Placed
<1> QED BY <1>1, <1>3, <1>4, <1>5, Steps DEF Applies

-----------------------------------------------------------------------------
(* The rows *)

LEMMA RowsOnly ==
    ASSUME "websocket" \notin feed, Applies
    PROVE  \E r \in poll.rows : PollApply(r)
BY DEF Applies, Deliver

\* A row of an order the broker still works on is no last word, and grows old in peace.
LEMMA RowKeeps ==
    ASSUME TypeOK, NEW r \in Report, IsRow(r), market[r.no].status = "open",
           market'[r.no].done \in Nat, market'[r.no].done >= market[r.no].done
    PROVE  IsRow(r)'
<1>1. r.state \notin Terminal
  BY DEF IsRow, Ended
<1>2. market[r.no].done \in Nat /\ r.qty \in Nat
  <2>1. r.no \in Nos /\ r.qty \in Nat
    BY DEF Report
  <2>2. market[r.no].done \in 0..Qty
    BY <2>1 DEF TypeOK
  <2> QED BY <2>1, <2>2, Constants
<1> QED BY <1>1, <1>2 DEF IsRow

\* A row the broker answers with now.
LEMMA RowIsRow ==
    ASSUME TypeOK, MarketInv, NEW n \in Placed
    PROVE  IsRow(Row(n)) /\ Row(n).src = "polling" /\ Row(n).no = n
<1> DEFINE r == Row(n)
<1>0. n \in Nos
  BY DEF Placed
<1>1. /\ r.src = "polling" /\ r.no = n /\ r.qty = market[n].done
      /\ r.state = IF market[n].status = "rejected" THEN "REJECTED"
                   ELSE IF market[n].status = "canceled" THEN "CANCELED"
                   ELSE IF market[n].status = "filled" THEN "FILLED"
                   ELSE IF market[n].done > 0 THEN "PARTIAL_FILLED" ELSE "SUBMITTED"
  BY <1>0, RowFacts
<1>2. /\ market[n].done \in Nat /\ market[n].done <= Qty
      /\ market[n].status \in {"none", "open", "filled", "canceled", "rejected"}
  BY <1>0, Constants DEF TypeOK
<1>3. market[n].status = "filled" <=> market[n].done = Qty
  BY <1>0 DEF MarketInv, OrderInv
<1> HIDE DEF r
<1>4. r.qty >= Qty => r.state = "FILLED"
  BY <1>1, <1>2, <1>3, Constants
<1>5. r.state \in Terminal => market[n].status \in Ended
  BY <1>1, <1>2 DEF Terminal, Ended
<1>6. r.qty <= market[r.no].done /\ (r.state \in Terminal => r = Row(r.no))
  BY <1>1, <1>2 DEF r
<1> QED BY <1>1, <1>4, <1>5, <1>6 DEF IsRow, r

LEMMA RowsStep ==
    TypeOK /\ PollShape /\ MarketInv /\ CtxInv /\ FeedInv /\ [Next]_vars => RowsInv'
<1> SUFFICES ASSUME TypeOK, PollShape, MarketInv, CtxInv, FeedInv, [Next]_vars,
                    "websocket" \notin feed
             PROVE  RowsInv'
  BY FeedStays DEF RowsInv
<1> DEFINE RowOK(r) ==
              /\ r.src = "polling" /\ r.no \in Placed
              /\ \/ r \in seen
                 \/ /\ Live /\ r.no = ctx.own /\ IsRow(r)
                    /\ \A s \in poll.rows : s.no = r.no => s = r
           AskedOK == {poll.asked, ctx.no} \subseteq Placed \cup {NoNumber}
<1>0. /\ EndedInv /\ RowsInv /\ feed' = feed /\ OneSource
      /\ AskedOK /\ \A r \in poll.rows : RowOK(r)
      /\ \A k \in Placed : k # ctx.own \/ ~Live => Settled(k)
  BY FeedStays DEF FeedInv, EndedInv, RowsInv, OneSource
<1>1. ASSUME AskedOK', \A r \in poll'.rows : RowOK(r)' PROVE RowsInv'
  BY <1>1 DEF RowsInv
<1>2. ASSUME NEW n \in Nos, Trades(n) PROVE RowsInv'
  <2>1. seen' = seen /\ ctx'.state = ctx.state /\ ctx'.no = ctx.no /\ poll' = poll
    BY <1>2 DEF Trades, Open, Execute, Cancel, Reject, TypeOK, Context
  <2>2. /\ market'[n].status # "none" /\ market'[n].done \in Nat /\ market'[n].done >= market[n].done
        /\ \A k \in Nos \ {n} : market'[k] = market[k]
    <3>1. \A k \in Nos \ {n} : market'[k] = market[k]
      BY <1>2, OrderStep
    <3>2. market[n].done \in Nat
      BY Constants DEF TypeOK
    <3> QED BY <1>2, <3>1, <3>2, OpenFacts, ExecuteFacts, CancelFacts, RejectFacts DEF Trades, Becomes
  <2>3. Placed \subseteq Placed'
    BY <2>2 DEF Placed
  <2>4. AskedOK'
    BY <1>0, <2>1, <2>3
  <2>5. ASSUME NEW r \in poll.rows PROVE RowOK(r)'
    <3>1. r \in Report /\ RowOK(r)
      BY <1>0, RowInPoll
    <3>2. CASE r \in seen
      BY <2>1, <2>3, <3>1, <3>2
    <3>3. CASE r \notin seen
      <4>1. Live /\ r.no = ctx.own /\ IsRow(r) /\ r.no \in Nos /\ r.no # NoNumber
        BY <3>1, <3>3, Constants DEF Placed
      <4>2. ~Open(n)
        BY <4>1 DEF Open
      <4>3. ctx' = ctx /\ market[n].status = "open"
        BY <1>2, <4>2 DEF Trades, Execute, Cancel, Reject
      <4>4. n = ctx.own
        BY <1>0, <4>3 DEF Placed, Settled, Ended
      <4>5. IsRow(r)'
        BY <2>2, <3>1, <4>1, <4>3, <4>4, RowKeeps
      <4> QED BY <2>1, <2>3, <3>1, <3>3, <4>1, <4>3, <4>5 DEF Live
    <3> QED BY <3>2, <3>3
  <2> QED BY <1>1, <2>1, <2>4, <2>5
<1>3. ASSUME NEW r \in poll.rows, PollApply(r) PROVE RowsInv'
  <2>1. r \in Report /\ Apply(r) /\ RowOK(r)
    BY <1>0, <1>3, RowInPoll DEF PollApply
  <2>2. Drops(r) \/ Refuses(r) \/ Counts(r)
    BY <2>1, ApplyCases
  <2>3. market' = market /\ Placed' = Placed /\ lock = "free"
    BY <2>1, ApplyCases DEF Placed
  <2>4. poll'.rows \subseteq poll.rows /\ poll'.asked \in {poll.asked, NoNumber}
    BY <1>3 DEF PollApply, PollIdle, PollShape
  <2>5. ctx'.no \in {ctx.no, r.no} /\ ctx'.own = ctx.own
    BY <2>1, <2>2, AppliedFacts DEF Drops, Refuses, Counts, Effective
  <2>6. AskedOK'
    BY <1>0, <2>1, <2>3, <2>4, <2>5
  <2>7. CASE Drops(r)
    <3>1. ctx' = ctx /\ seen' = seen
      BY <2>7 DEF Drops
    <3>2. \A s \in poll.rows : RowOK(s)'
      BY <1>0, <2>3, <2>4, <3>1 DEF IsRow, Row, Live
    <3> QED BY <1>1, <2>4, <2>6, <3>2
  <2>8. CASE Refuses(r) \/ Counts(r)
    <3>1. r \notin seen /\ seen' = seen \cup {r}
      BY <2>8 DEF Refuses, Counts, Effective
    <3>2. \A s \in poll.rows : s \in seen'
      BY <1>0, <3>1, RowOfOwn
    <3>3. \A s \in poll.rows : RowOK(s)'
      BY <1>0, <2>3, <3>2
    <3> QED BY <1>1, <2>4, <2>6, <3>3
  <2> QED BY <2>2, <2>7, <2>8
<1>4. CASE Own
  <2>1. UNCHANGED <<market, seen, poll>> /\ Placed' = Placed
    BY <1>4 DEF Own, Submit, Answer, Refuse, Persist, Placed
  <2>2. AskedOK'
    <3>1. ctx'.no \in {ctx.no, NoNumber, ctx.own}
      <4>1. ASSUME NEW num \in Numbering, Answer(num) PROVE ctx'.no \in {NoNumber, ctx.own}
        <5> DEFINE no == IF num THEN ctx.own ELSE NoNumber
        <5>1. ctx' = [ctx EXCEPT !.state = "SUBMITTED", !.no = no]
          BY <4>1 DEF Answer
        <5>2. no \in {NoNumber, ctx.own}
          OBVIOUS
        <5> HIDE DEF no
        <5> QED BY <5>1, <5>2 DEF TypeOK, Context
      <4> QED BY <1>4, <4>1 DEF Own, Submit, Refuse, Persist, TypeOK, Context
    <3>2. ctx.own \in Placed \cup {NoNumber}
      BY DEF CtxInv, Placed, TypeOK, Context
    <3> QED BY <1>0, <2>1, <3>1, <3>2
  <2>3. ASSUME NEW r \in poll.rows, r \notin seen PROVE Live' /\ ctx'.own = ctx.own
    <3>1. Live /\ r.no = ctx.own /\ r.no # NoNumber
      BY <1>0, <2>3, Constants DEF Placed
    <3>2. ~Submit /\ ~Refuse
      BY <3>1 DEF Submit, Refuse
    <3>3. CASE \E num \in Numbering : Answer(num)
      <4>1. ctx'.own = ctx.own /\ ctx'.state = "SUBMITTED"
        BY <3>3 DEF Answer, TypeOK, Context
      <4> QED BY <4>1 DEF Live, IsLive, OrderState, Terminal
    <3>4. CASE \E ok \in BOOLEAN : Persist(ok)
      <4>1. ctx'.own = ctx.own /\ ctx'.state = ctx.state
        BY <3>4 DEF Persist, TypeOK, Context
      <4> QED BY <3>1, <4>1 DEF Live
    <3> QED BY <1>4, <3>2, <3>3, <3>4 DEF Own
  <2>4. \A r \in poll.rows : RowOK(r)'
    BY <1>0, <2>1, <2>3 DEF IsRow, Row
  <2> QED BY <1>1, <2>1, <2>2, <2>4
<1>5. CASE Quiet
  <2>1. UNCHANGED <<market, seen, ctx>> /\ Placed' = Placed
    BY <1>5 DEF Quiet, PollStart, PollRows, PollEnd, vars, Placed
  <2>2. CASE UNCHANGED poll
    <3>1. \A r \in poll.rows : RowOK(r)'
      BY <1>0, <2>1, <2>2 DEF IsRow, Row, Live
    <3> QED BY <1>0, <1>1, <2>1, <2>2, <3>1
  <2>3. CASE PollStart \/ PollEnd
    <3>1. poll'.rows = {} /\ poll'.asked \in {ctx.no, NoNumber}
      <4>1. CASE PollStart
        BY <4>1 DEF PollStart, PollIdle
      <4>2. CASE PollEnd
        BY <4>2 DEF PollEnd, PollIdle
      <4> QED BY <2>3, <4>1, <4>2
    <3> QED BY <1>0, <1>1, <2>1, <3>1
  <2>4. CASE PollRows
    <3> DEFINE asked == IF poll.asked = NoNumber THEN Placed ELSE {poll.asked}
    <3>1. poll'.rows = {Row(n) : n \in asked} /\ poll'.asked = poll.asked
      BY <2>4 DEF PollRows, PollShape
    <3>2. asked \subseteq Placed
      BY <1>0
    <3> HIDE DEF asked
    <3>3. ASSUME NEW n \in asked PROVE RowOK(Row(n))'
      <4>1. n \in Placed /\ IsRow(Row(n)) /\ Row(n).src = "polling" /\ Row(n).no = n
        BY <3>2, RowIsRow
      <4>2. CASE Settled(n)
        <5>1. Row(n) \in seen
          BY <4>2 DEF Settled
        <5>2. Row(n)' = Row(n)
          BY <2>1 DEF Row
        <5> QED BY <2>1, <4>1, <5>1, <5>2
      <4>3. CASE ~Settled(n)
        <5>1. n = ctx.own /\ Live
          BY <1>0, <4>1, <4>3
        <5>2. \A m \in asked : Row(m).no = n => m = n
          BY <3>2, RowIsRow
        <5>3. Row(n)' = Row(n)
          BY <2>1 DEF Row
        <5>4. IsRow(Row(n))'
          BY <2>1, <4>1, <5>3 DEF IsRow, Row
        <5> QED BY <2>1, <3>1, <4>1, <5>1, <5>2, <5>3, <5>4 DEF Live
      <4> QED BY <4>2, <4>3
    <3>4. \A n \in asked : Row(n)' = Row(n)
      BY <2>1 DEF Row
    <3> QED BY <1>0, <1>1, <2>1, <3>1, <3>3, <3>4
  <2> QED BY <1>5, <2>2, <2>3, <2>4 DEF Quiet, vars
<1> QED BY <1>2, <1>3, <1>4, <1>5, Steps, RowsOnly

-----------------------------------------------------------------------------
(* The bound, and the ledger *)

LEMMA DoneGrows ==
    ASSUME TypeOK, MarketInv, [Next]_vars, NEW n \in Nos
    PROVE  market[n].done \in Nat /\ market'[n].done \in Nat /\ market[n].done <= market'[n].done
<1>1. market[n].done \in Nat /\ market'[n].done \in Nat
  <2>1. market[n].done \in 0..Qty /\ market'[n].done \in 0..Qty
    BY MarketStep DEF MarketType, TypeOK
  <2> QED BY <2>1, Constants
<1>2. ASSUME NEW k \in Nos, Trades(k) PROVE market[n].done <= market'[n].done
  <2>1. CASE n # k
    BY <1>1, <1>2, <2>1, OrderStep
  <2>2. CASE n = k
    BY <1>1, <1>2, <2>2, OpenFacts, ExecuteFacts, CancelFacts, RejectFacts DEF Trades, Becomes
  <2> QED BY <2>1, <2>2
<1> QED BY <1>1, <1>2, Steps, SameMarket

\* How own, the filled and the recorded quantity may change at all.
LEMMA FilledSteps ==
    ASSUME TypeOK, PollShape, MarketInv, CtxInv, [Next]_vars
    PROVE  \/ ctx'.own = NoNumber
           \/ /\ ctx.own = NoNumber /\ ctx'.own \in Nos
              /\ ctx.filled = 0 /\ ctx'.filled = 0 /\ ctx.recorded = 0 /\ ctx'.recorded = 0
              /\ UNCHANGED <<seen, ledger>> /\ market[ctx'.own].status = "none"
           \/ /\ ctx'.own = ctx.own /\ ctx.own \in Nos /\ ctx'.filled = ctx.filled
              /\ \/ ctx'.recorded = ctx.recorded /\ ledger' = ledger
                 \/ /\ ctx'.recorded = ctx.filled /\ ctx.recorded = 0
                    /\ ledger' = [ledger EXCEPT ![ctx.own] = @ + ctx.filled]
           \/ /\ ctx'.own = ctx.own /\ ctx.own \in Nos /\ ctx'.recorded = ctx.recorded
              /\ ledger' = ledger
              /\ \E r \in Report :
                    /\ Effective(r) /\ IsFill(r) /\ ctx'.filled = FilledAfter(r)
                    /\ \/ \E n \in Nos : r \in market[n].notices /\ Deliver(r)
                       \/ r \in poll.rows
<1>0. ctx.own \in Nos \cup {NoNumber} /\ ctx.filled \in Nat /\ ctx.recorded \in Nat
  BY DEF TypeOK, Context
<1>1. ASSUME NEW n \in Nos, Trades(n) PROVE (ctx' = ctx /\ ledger' = ledger) \/ Open(n)
  BY <1>1 DEF Trades, Execute, Cancel, Reject
<1>2. ASSUME NEW n \in Nos, Open(n)
      PROVE  /\ ctx.own = NoNumber /\ ctx'.own = n
             /\ ctx.filled = 0 /\ ctx'.filled = 0 /\ ctx.recorded = 0 /\ ctx'.recorded = 0
             /\ UNCHANGED <<seen, ledger>> /\ market[n].status = "none"
  <2>1. ctx.own = NoNumber /\ market[n].status = "none" /\ UNCHANGED <<seen, ledger>>
    BY <1>2 DEF Open
  <2>2. ctx'.own = n /\ ctx'.filled = ctx.filled /\ ctx'.recorded = ctx.recorded
    BY <1>2 DEF Open, TypeOK, Context
  <2>3. ctx.filled = 0 /\ ctx.recorded = 0
    BY <2>1 DEF CtxInv
  <2> QED BY <2>1, <2>2, <2>3
<1>3. ASSUME NEW r \in Report, Apply(r), r \in poll.rows \/ \E n \in Nos : r \in market[n].notices /\ Deliver(r)
      PROVE  \/ ctx'.filled = ctx.filled /\ ctx'.own = ctx.own /\ ctx'.recorded = ctx.recorded /\ ledger' = ledger
             \/ /\ ctx'.own = ctx.own /\ ctx.own \in Nos /\ ctx'.recorded = ctx.recorded
                /\ ledger' = ledger /\ Effective(r) /\ IsFill(r) /\ ctx'.filled = FilledAfter(r)
  <2>1. (Drops(r) \/ Refuses(r) \/ Counts(r)) /\ lock = "free" /\ ledger' = ledger
    BY <1>3, ApplyCases
  <2>2. CASE Drops(r) \/ Refuses(r)
    BY <2>1, <2>2 DEF Drops, Refuses
  <2>3. CASE Counts(r)
    <3>1. Live /\ Effective(r) /\ ctx.own \in Nos
      BY <2>1, <2>3, EffectiveFacts DEF Counts
    <3> QED BY <2>1, <2>3, <3>1, AppliedFacts DEF Counts
  <2> QED BY <2>1, <2>2, <2>3
<1>4. CASE Applies
  <2>1. \E r \in Report : /\ Apply(r)
                          /\ r \in poll.rows \/ \E n \in Nos : r \in market[n].notices /\ Deliver(r)
    BY <1>4, NoticeInMarket, RowInPoll DEF Applies, Deliver, PollApply
  <2> QED BY <1>0, <1>3, <2>1
<1>5. CASE Own
  <2>1. CASE Submit
    BY <2>1 DEF Submit
  <2>2. CASE (\E num \in Numbering : Answer(num)) \/ Refuse
    <3>1. ctx'.own = ctx.own /\ ctx'.filled = ctx.filled /\ ctx'.recorded = ctx.recorded /\ ledger' = ledger
      BY <2>2 DEF Answer, Refuse, TypeOK, Context
    <3> QED BY <1>0, <3>1
  <2>3. ASSUME NEW ok \in BOOLEAN, Persist(ok)
        PROVE  /\ ctx'.own = ctx.own /\ ctx.own \in Nos /\ ctx'.filled = ctx.filled
               /\ \/ ctx'.recorded = ctx.recorded /\ ledger' = ledger
                  \/ /\ ctx'.recorded = ctx.filled /\ ctx.recorded = 0
                     /\ ledger' = [ledger EXCEPT ![ctx.own] = @ + ctx.filled]
    <3>1. ctx.own \in Nos /\ ctx.recorded = 0
      BY <1>0, <2>3 DEF Persist, CtxInv
    <3>2. CASE ok
      BY <2>3, <3>1, <3>2 DEF Persist, TypeOK, Context
    <3>3. CASE ~ok
      BY <2>3, <3>1, <3>3 DEF Persist
    <3> QED BY <3>2, <3>3
  <2> QED BY <1>5, <2>1, <2>2, <2>3 DEF Own
<1>6. CASE ctx' = ctx /\ ledger' = ledger
  BY <1>0, <1>6
<1>7. Quiet => ctx' = ctx /\ ledger' = ledger
  BY DEF Quiet, PollStart, PollRows, PollEnd, vars
<1> QED BY <1>1, <1>2, <1>4, <1>5, <1>6, <1>7, Steps

\* An order once placed stays so.
LEMMA StaysPlaced ==
    ASSUME TypeOK, PollShape, MarketInv, [Next]_vars, NEW n \in Nos
    PROVE  market'[n].status = "none" => market[n].status = "none"
<1>1. ASSUME NEW k \in Nos, Trades(k)
      PROVE  market'[n].status = "none" => market[n].status = "none"
  <2>1. CASE n # k
    BY <1>1, <2>1, OrderStep
  <2>2. CASE n = k
    BY <1>1, <2>2, OpenFacts, ExecuteFacts, CancelFacts, RejectFacts DEF Trades, Becomes
  <2> QED BY <2>1, <2>2
<1> QED BY <1>1, Steps, SameMarket

\* Nothing is recorded in a step that leaves the key without an order of the broker.
LEMMA UnplacedLedger ==
    ASSUME TypeOK, CtxInv, [Next]_vars, ctx'.own = NoNumber
    PROVE  ledger' = ledger
BY Steps DEF Trades, Applies, Own, Quiet, Deliver, PollApply, Apply, Open, Execute, Cancel,
   Reject, Submit, Answer, Refuse, Persist, PollStart, PollRows, PollEnd, vars, CtxInv, TypeOK, Context

\* Only the order under way is recorded, and only what its context has filled.
LEMMA LedgerSteps ==
    ASSUME TypeOK, PollShape, MarketInv, CtxInv, [Next]_vars, NEW n \in Nos
    PROVE  \/ ledger'[n] = ledger[n]
           \/ /\ ctx.own = n /\ ctx'.own = n /\ ledger'[n] = ledger[n] + ctx.filled
              /\ ctx.recorded = 0
<1>1. CASE ledger' = ledger
  BY <1>1
<1>2. CASE /\ ctx'.own = ctx.own /\ ctx.own \in Nos /\ ctx.recorded = 0
           /\ ledger' = [ledger EXCEPT ![ctx.own] = @ + ctx.filled]
  BY <1>2 DEF TypeOK
<1> QED BY <1>1, <1>2, FilledSteps, UnplacedLedger

LEMMA BoundStep ==
    ASSUME TypeOK, PollShape, MarketInv, CtxInv, FeedInv, FilledIsExecuted, LedgerInv, NoticesInv',
           [Next]_vars
    PROVE  FilledIsExecuted'
<1> SUFFICES ASSUME OneSource
             PROVE  /\ ctx'.own # NoNumber => ctx'.filled <= market'[ctx'.own].done
                    /\ \A n \in Nos : ledger'[n] <= market'[n].done
  BY FeedStays DEF FilledIsExecuted, OneSource
<1>1. ASSUME NEW n \in Nos, n = ctx'.own PROVE ctx'.filled <= market'[n].done
  <2>0. ctx'.filled \in Nat /\ ctx.filled \in Nat /\ n # NoNumber
    BY TypeStep, Constants DEF TypeOK, Context
  <2>1. market[n].done \in Nat /\ market'[n].done \in Nat /\ market[n].done <= market'[n].done
    BY DoneGrows
  <2>2. CASE "polling" \notin feed
    <3>1. PICK w : /\ Split(w, market'[n].notices, market'[n].done)
                   /\ ctx'.filled = Cardinality(Of(w, seen' \cap market'[n].notices))
      BY <1>1, <2>2, FeedStays DEF NoticesInv
    <3> QED BY <2>1, <3>1, SplitFacts
  <2>3. CASE "websocket" \notin feed
    <3>1. CASE ctx'.filled = 0
      BY <2>1, <3>1
    <3>2. CASE ctx'.own = ctx.own /\ ctx'.filled = ctx.filled
      BY <1>1, <2>0, <2>1, <3>2 DEF FilledIsExecuted
    <3>3. ASSUME NEW r \in poll.rows, Effective(r), IsFill(r), ctx'.own = ctx.own,
                 ctx'.filled = FilledAfter(r)
          PROVE  ctx'.filled <= market'[n].done
      <4>1. r.src = "polling" /\ r.no = n /\ IsRow(r)
        BY <1>1, <2>3, <3>3, RowOfOwn DEF Effective, FeedInv
      <4>2. r.qty <= market[n].done /\ r.qty \in Nat
        BY <4>1, RowInPoll DEF IsRow, Report
      <4>3. ctx.filled <= market[n].done
        BY <1>1, <2>0, <3>3 DEF FilledIsExecuted
      <4> QED BY <2>0, <2>1, <3>3, <4>1, <4>2, <4>3 DEF FilledAfter
    <3>4. ~\E r \in Report : Deliver(r)
      BY <2>3 DEF Deliver
    <3> QED BY <1>1, <2>0, <3>1, <3>2, <3>3, <3>4, FilledSteps
  <2> QED BY <2>2, <2>3, OneFeed
<1>2. ASSUME NEW n \in Nos PROVE ledger'[n] <= market'[n].done
  <2>1. market[n].done \in Nat /\ market'[n].done \in Nat /\ market[n].done <= market'[n].done
    BY DoneGrows
  <2>2. ledger[n] \in Nat /\ ledger[n] <= market[n].done
    BY DEF FilledIsExecuted, TypeOK
  <2>3. CASE ledger'[n] = ledger[n]
    BY <2>1, <2>2, <2>3
  <2>4. CASE ctx.own = n /\ ledger'[n] = ledger[n] + ctx.filled /\ ctx.recorded = 0
    <3>1. ctx.filled \in Nat /\ ctx.filled <= market[n].done /\ ledger[n] = 0
      BY <2>4, Constants DEF FilledIsExecuted, LedgerInv, TypeOK, Context
    <3> QED BY <2>1, <2>4, <3>1
  <2> QED BY <2>3, <2>4, LedgerSteps
<1>3. ctx'.own \in Nos \cup {NoNumber}
  BY TypeStep DEF TypeOK, Context
<1> QED BY <1>1, <1>2, <1>3

LEMMA LedgerStep ==
    ASSUME TypeOK, PollShape, MarketInv, CtxInv, LedgerInv, [Next]_vars
    PROVE  LedgerInv'
<1> SUFFICES ASSUME NEW n \in Nos
             PROVE  /\ market'[n].status = "none" => ledger'[n] = 0
                    /\ ctx'.own = n => ledger'[n] = ctx'.recorded
  BY DEF LedgerInv
<1>1. market'[n].status = "none" => market[n].status = "none"
  BY StaysPlaced
<1>2. /\ market[n].status = "none" => ledger[n] = 0
      /\ ctx.own = n => ledger[n] = ctx.recorded
      /\ ctx.own = n => market[n].status # "none"
  BY Constants DEF LedgerInv, CtxInv
<1>3. n # NoNumber /\ ctx.filled \in Nat /\ ctx.recorded \in Nat
  BY Constants DEF TypeOK, Context
<1>4. CASE ledger' = ledger /\ (ctx'.own = n => ctx'.own = ctx.own /\ ctx'.recorded = ctx.recorded)
  BY <1>1, <1>2, <1>4
<1>5. CASE /\ ctx.own = NoNumber /\ ctx'.recorded = 0 /\ ledger' = ledger
           /\ market[ctx'.own].status = "none"
  BY <1>1, <1>2, <1>5
<1>6. CASE /\ ctx'.own = ctx.own /\ ctx.own \in Nos /\ ctx'.recorded = ctx.filled /\ ctx.recorded = 0
           /\ ledger' = [ledger EXCEPT ![ctx.own] = @ + ctx.filled]
  <2>1. CASE n = ctx.own
    <3>1. ledger'[n] = ledger[n] + ctx.filled
      BY <1>6, <2>1 DEF TypeOK
    <3> QED BY <1>1, <1>2, <1>3, <1>6, <2>1, <3>1
  <2>2. CASE n # ctx.own
    BY <1>1, <1>2, <1>6, <2>2 DEF TypeOK
  <2> QED BY <2>1, <2>2
<1>7. CASE ctx'.own = NoNumber
  <2>1. ledger' = ledger
    BY <1>7, UnplacedLedger
  <2> QED BY <1>3, <1>4, <1>7, <2>1
<1> QED BY <1>4, <1>5, <1>6, <1>7, FilledSteps

-----------------------------------------------------------------------------
(* The theorems *)

LEMMA InitInv == Init => IInv
<1> SUFFICES ASSUME Init PROVE IInv
  OBVIOUS
<1> USE DEF Absent, NoNumber
<1>1. \A n \in Nos : market[n] = [status |-> "none", done |-> 0, notices |-> {}]
  BY DEF Init
<1>2. ctx = [state |-> Absent, filled |-> 0, recorded |-> 0, no |-> NoNumber, own |-> NoNumber]
  BY DEF Init
<1>3. seen = {} /\ poll = PollIdle /\ lock = "free" /\ \A n \in Nos : ledger[n] = 0
  BY DEF Init
<1>4. TypeOK /\ PollShape
  <2>1. ctx \in Context /\ poll \in [pc : {"idle", "asking", "applying"}, asked : Nos \cup {NoNumber},
                                       rows : SUBSET Report]
    BY <1>2, <1>3 DEF Context, PollIdle
  <2>2. [status |-> "none", done |-> 0, notices |-> {}] \in
           [status : {"none", "open", "filled", "canceled", "rejected"}, done : 0..Qty,
            notices : SUBSET Report]
    BY Constants
  <2>3. market \in [Nos -> [status : {"none", "open", "filled", "canceled", "rejected"}, done : 0..Qty,
                            notices : SUBSET Report]]
    BY <2>2 DEF Init
  <2>4. ledger \in [Nos -> Nat] /\ index \subseteq Nos /\ seen \subseteq Report /\ alarm \in BOOLEAN
        /\ feed \in Feeds
    BY DEF Init
  <2> QED BY <1>3, <2>1, <2>3, <2>4 DEF TypeOK, PollShape, PollIdle
<1>5. MarketInv
  <2> SUFFICES ASSUME NEW n \in Nos PROVE OrderInv(market[n], n)
    BY DEF MarketInv
  <2> DEFINE m == market[n]
  <2>1. m.status = "none" /\ m.done = 0 /\ m.notices = {}
    BY <1>1
  <2> HIDE DEF m
  <2>2. {r.at : r \in m.notices} = {} /\ IsFiniteSet({})
    BY <2>1, FS_EmptySet
  <2>3. OrderInv(m, n)
    BY <2>1, <2>2, Constants DEF OrderInv
  <2> QED BY <2>3 DEF m
<1>6. CtxInv
  BY <1>2, <1>3 DEF CtxInv, ToRecord, Live, IsLive, OrderState, Terminal
<1>7. EndedInv /\ RowsInv
  BY <1>1, <1>2, <1>3 DEF EndedInv, Placed, RowsInv, PollIdle
<1>8. NoticesInv
  <2>1. \A n \in Nos : \E w : Split(w, market[n].notices, market[n].done)
    <3> SUFFICES ASSUME NEW n \in Nos PROVE \E w : Split(w, {}, 0)
      BY <1>1
    <3>1. Split([r \in {} |-> {}], {}, 0)
      BY DEF Split
    <3> QED BY <3>1
  <2> QED BY <1>2, <1>3, <2>1, Constants DEF NoticesInv
<1>9. FilledIsExecuted /\ LedgerInv
  <2>1. \A n \in Nos : market[n].done = 0
    BY <1>1
  <2>2. ctx.own = NoNumber
    BY <1>2
  <2> QED BY <1>3, <2>1, <2>2, Constants DEF FilledIsExecuted, LedgerInv
<1> QED BY <1>4, <1>5, <1>6, <1>7, <1>8, <1>9 DEF IInv, BookInv, FeedInv

LEMMA NextInv == IInv /\ [Next]_vars => IInv'
<1> SUFFICES ASSUME IInv, [Next]_vars PROVE IInv'
  OBVIOUS
<1>1. TypeOK' /\ PollShape' /\ MarketInv' /\ CtxInv'
  BY TypeStep, MarketStep, CtxStep DEF IInv, BookInv
<1>2. EndedInv' /\ NoticesInv' /\ RowsInv'
  BY EndedStep, NoticesStep, RowsStep DEF IInv, BookInv, FeedInv
<1>3. FilledIsExecuted' /\ LedgerInv'
  BY <1>2, BoundStep, LedgerStep DEF IInv, BookInv, FeedInv
<1> QED BY <1>1, <1>2, <1>3 DEF IInv, BookInv, FeedInv

\* The invariant holds in every reachable state.
THEOREM FillsInvariant == Spec => []IInv
BY InitInv, NextInv, PTL DEF Spec

\* _apply_execution_report_inner: with one source of reports, notices that are lost,
\* repeated or reordered and rows as old as their query never make the context or the ledger
\* believe in more shares than the broker executed for the order.
THEOREM NoExecutionTwice == Spec => []FilledIsExecuted
<1>1. IInv => FilledIsExecuted
  BY DEF IInv
<1> QED BY <1>1, FillsInvariant, PTL

\* _persist_virtual_trade_for_terminal_report: a fill enters the virtual-trade ledger once and
\* in full, after the order ended, with one source of reports or with both, however many orders
\* follow one another and whatever is reported of them.
THEOREM RecordedOnce == Spec => LedgerIsOnce
<1> DEFINE Once == \A n \in Nos : ledger'[n] # 0 =>
                       /\ ledger[n] \in {0, ledger'[n]}
                       /\ ctx'.own = n => ctx'.state \in Terminal /\ ctx'.filled = ledger'[n]
<1>1. IInv /\ [Next]_vars => [Once]_vars
  <2> SUFFICES ASSUME IInv, [Next]_vars, NEW n \in Nos, ledger'[n] # 0
               PROVE  /\ ledger[n] \in {0, ledger'[n]}
                      /\ ctx'.own = n => ctx'.state \in Terminal /\ ctx'.filled = ledger'[n]
    OBVIOUS
  <2>1. TypeOK' /\ CtxInv' /\ LedgerInv' /\ n # NoNumber
    BY NextInv, Constants DEF IInv, BookInv
  <2>2. ledger[n] \in {0, ledger'[n]}
    <3>1. CASE ledger'[n] = ledger[n]
      BY <3>1
    <3>2. CASE ctx.own = n /\ ctx.recorded = 0
      BY <3>2 DEF IInv, LedgerInv
    <3> QED BY <3>1, <3>2, LedgerSteps DEF IInv, BookInv
  <2>3. ASSUME ctx'.own = n PROVE ctx'.state \in Terminal /\ ctx'.filled = ledger'[n]
    <3>1. ctx'.recorded = ledger'[n] /\ ctx'.recorded # 0
      BY <2>1, <2>3 DEF LedgerInv
    <3>2. ctx'.recorded = ctx'.filled /\ ctx'.state # Absent /\ ~Live'
      BY <2>1, <2>3, <3>1 DEF CtxInv
    <3>3. ctx'.state \in Terminal
      BY <2>1, <3>2 DEF TypeOK, Context, Live, IsLive
    <3> QED BY <3>1, <3>2, <3>3
  <2> QED BY <2>2, <2>3
<1> QED BY <1>1, FillsInvariant, PTL DEF Spec, LedgerIsOnce

\* While an order lives its filled quantity does not shrink, whatever the order in
\* which notices and old rows arrive, with one source of reports or with both.
THEOREM FillsOnlyGrow == Spec => FilledOnlyGrows
<1> DEFINE Grows == Live /\ ctx'.own = ctx.own => ctx'.filled >= ctx.filled
<1>1. IInv /\ [Next]_vars => [Grows]_vars
  <2> SUFFICES ASSUME IInv, [Next]_vars, Live, ctx'.own = ctx.own PROVE ctx'.filled >= ctx.filled
    OBVIOUS
  <2>1. TypeOK /\ ctx.filled \in Nat
    BY DEF IInv, TypeOK, Context
  <2>2. CASE ctx'.filled = ctx.filled
    BY <2>1, <2>2
  <2>3. CASE Applies
    <3>1. PICK r \in Report : Apply(r)
      BY <2>1, <2>3, NoticeInMarket, RowInPoll DEF Applies, Deliver, PollApply
    <3>2. Drops(r) \/ Refuses(r) \/ Counts(r)
      BY <2>1, <3>1, ApplyCases
    <3> QED BY <2>1, <2>2, <3>2, AppliedFacts DEF Drops, Refuses, Counts
  <2>4. (\E n \in Nos : Trades(n)) \/ Own \/ Quiet => ctx'.filled = ctx.filled
    BY DEF IInv, TypeOK, Context, Trades, Open, Execute, Cancel, Reject, Own, Submit, Answer, Refuse,
       Persist, Quiet, PollStart, PollRows, PollEnd, vars
  <2> QED BY <2>2, <2>3, <2>4, Steps
<1> QED BY <1>1, FillsInvariant, PTL DEF Spec, FilledOnlyGrows
=============================================================================
