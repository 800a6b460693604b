----------------------- MODULE OrderSubmissionProofs ------------------------
(***************************************************************************)
(* Proofs about OrderSubmission, for any number of symbols, tasks and       *)
(* retries.                                                                 *)
(***************************************************************************)
EXTENDS OrderSubmission, TLAPS

-----------------------------------------------------------------------------
(* The inductive invariant *)

\* A task that has no key is idle, and an idle task runs for nobody.
KeyInv(t) ==
    /\ task[t].pc # "idle" => task[t].key \in Keys
    /\ task[t].pc = "idle" => task[t].kind = "caller"
    /\ task[t].pc = "pop" => task[t].kind = "release"

\* From the end of the wait on, the task holds the lock of its symbol; at the gates
\* the symbol has no order alive, then it has the one the task registered.
HolderInv(t) ==
    /\ task[t].pc \in {"gate", "call", "backoff"} => lock[task[t].key[1]] = t
    /\ task[t].pc = "gate" => ~Busy(task[t].key[1])
    /\ task[t].pc \in {"call", "backoff"} =>
           /\ order[task[t].key].state = "PENDING_SUBMIT"
           /\ ~order[task[t].key].numbered

\* A task sleeps only with an attempt left.
AttemptInv(t) == task[t].pc = "backoff" => task[t].attempt < MaxRetries

TaskInv == \A t \in Tasks : KeyInv(t) /\ HolderInv(t) /\ AttemptInv(t)

IInv == TypeOK /\ TaskInv
-----------------------------------------------------------------------------
(* The transition table *)

LEMMA AllowedFacts ==
    /\ Allowed["PENDING_SUBMIT"] = {"SUBMITTED", "CANCELED", "REJECTED"}
    /\ Allowed["SUBMITTED"] = {"PARTIAL_FILLED", "FILLED", "CANCELED", "REJECTED"}
    /\ Allowed["PARTIAL_FILLED"] = {"FILLED", "CANCELED"}
    /\ \A st \in Terminal : Allowed[st] = {}
<1>1. Allowed["PENDING_SUBMIT"] = {"SUBMITTED", "CANCELED", "REJECTED"}
  BY DEF Allowed, OrderState
<1>2. Allowed["SUBMITTED"] = {"PARTIAL_FILLED", "FILLED", "CANCELED", "REJECTED"}
  BY DEF Allowed, OrderState
<1>3. Allowed["PARTIAL_FILLED"] = {"FILLED", "CANCELED"}
  BY DEF Allowed, OrderState
<1>4. ASSUME NEW st \in Terminal PROVE Allowed[st] = {}
  BY DEF Allowed, OrderState, Terminal
<1> QED BY <1>1, <1>2, <1>3, <1>4

-----------------------------------------------------------------------------
(* Typing *)

LEMMA IdleType == Idle \in TaskState
BY ConstantsAssumption DEF ConstantsAssumption, Idle, TaskState

LEMMA PoppingType ==
    ASSUME NEW s \in Symbols, NEW d \in Sides
    PROVE  Popping(s, d) \in TaskState
BY ConstantsAssumption DEF ConstantsAssumption, TaskState, Popping, Keys

LEMMA WaitingType ==
    ASSUME NEW k \in Keys
    PROVE  Waiting(k) \in TaskState
BY ConstantsAssumption DEF ConstantsAssumption, TaskState, Waiting

\* What a finished task becomes.
LEMMA AfterFacts ==
    ASSUME NEW t \in Tasks, task[t].key \in Keys
    PROVE  /\ After(t) \in TaskState
           /\ After(t) \in {Idle, Popping(task[t].key[1], "SELL")}
<1>1. task[t].key[1] \in Symbols /\ "SELL" \in Sides
  BY DEF Keys, Sides
<1> QED BY <1>1, IdleType, PoppingType DEF After

LEMMA WokenType ==
    ASSUME TypeOK, NEW s \in Symbols, NEW new
    PROVE  Woken(s, new) \in [Symbols -> Nat]
BY DEF Woken, TypeOK

LEMMA InitIInv == Init => IInv
<1> SUFFICES ASSUME Init PROVE IInv
  OBVIOUS
<1> USE ConstantsAssumption DEF ConstantsAssumption, Init
<1>1. TypeOK
  <2>1. order \in [Keys -> Context]
    BY DEF Context
  <2>2. lock \in [Symbols -> Tasks \cup {NoTask}]
    OBVIOUS
  <2>3. deferred \in [Keys -> Age \cup {NoEntry}]
    OBVIOUS
  <2>4. wakeups \in [Symbols -> Nat]
    OBVIOUS
  <2>5. task \in [Tasks -> TaskState]
    BY IdleType
  <2> QED BY <2>1, <2>2, <2>3, <2>4, <2>5 DEF TypeOK
<1>2. TaskInv
  BY DEF TaskInv, KeyInv, HolderInv, AttemptInv, Idle
<1> QED BY <1>1, <1>2 DEF IInv

LEMMA TypeStep == IInv /\ [Next]_vars => TypeOK'
<1> SUFFICES ASSUME IInv, [Next]_vars PROVE TypeOK'
  OBVIOUS
<1> USE ConstantsAssumption DEF ConstantsAssumption, IInv
<1>0. TypeOK
  OBVIOUS
<1>1. ASSUME NEW t \in Tasks, NEW k \in Keys, Call(t, k) PROVE TypeOK'
  BY <1>1, WaitingType DEF Call, TypeOK
<1>2. ASSUME NEW t \in Tasks, Defer(t) PROVE TypeOK'
  BY <1>2, AfterFacts DEF Defer, TypeOK, TaskInv, KeyInv, Age
<1>3. ASSUME NEW t \in Tasks, Enter(t) PROVE TypeOK'
  BY <1>3 DEF Enter, TypeOK, TaskInv, KeyInv, TaskState, Keys
<1>4. ASSUME NEW t \in Tasks, Block(t) PROVE TypeOK'
  BY <1>4, AfterFacts DEF Block, Finish, TypeOK, TaskInv, KeyInv
<1>5. ASSUME NEW t \in Tasks, Register(t) PROVE TypeOK'
  <2>1. [state |-> "PENDING_SUBMIT", numbered |-> FALSE, taken |-> 0] \in Context
    BY DEF Context, OrderState
  <2>2. order' \in [Keys -> Context]
    BY <1>5, <2>1 DEF Register, TypeOK
  <2>3. [pc |-> "call", kind |-> task[t].kind, key |-> task[t].key, attempt |-> 1] \in TaskState
    BY DEF TypeOK, TaskState
  <2>4. task' \in [Tasks -> TaskState]
    BY <1>5, <2>3 DEF Register, TypeOK
  <2> QED BY <1>5, <2>2, <2>4 DEF Register, TypeOK
<1>6. ASSUME NEW t \in Tasks, CallAgain(t) PROVE TypeOK'
  BY <1>6 DEF CallAgain, TypeOK, TaskInv, KeyInv, AttemptInv, TaskState
<1>7. ASSUME NEW t \in Tasks, NEW lost \in LostAnswers, RetryLater(t, lost) PROVE TypeOK'
  <2>1. task[t].key \in Keys
    BY <1>7 DEF RetryLater, TaskInv, KeyInv
  <2>2. [order[task[t].key] EXCEPT !.taken = @ + lost] \in Context
    BY <2>1 DEF TypeOK, Context
  <2>3. order' \in [Keys -> Context]
    BY <1>7, <2>1, <2>2 DEF RetryLater, TypeOK
  <2>4. task' \in [Tasks -> TaskState]
    BY <1>7 DEF RetryLater, TypeOK, TaskState
  <2> QED BY <1>7, <2>3, <2>4 DEF RetryLater, TypeOK
<1>8. ASSUME NEW t \in Tasks, Cancelled(t) PROVE TypeOK'
  BY <1>8, IdleType DEF Cancelled, TypeOK, TaskInv, KeyInv
<1>9. ASSUME NEW t \in Tasks, NEW s \in Symbols, StartRelease(t, s) PROVE TypeOK'
  BY <1>9, PoppingType DEF StartRelease, TypeOK, Sides
<1>10. ASSUME NEW t \in Tasks, Pop(t) PROVE TypeOK'
  BY <1>10, AfterFacts DEF Pop, TypeOK, TaskInv, KeyInv, TaskState
<1>11. CASE Tick
  BY <1>11 DEF Tick, TypeOK, Age, Older
<1>12. ASSUME NEW t \in Tasks, NEW st \in OrderState, NEW num \in BOOLEAN,
              NEW some \in Nat, Answered(t, st, num, some), alarm' \in BOOLEAN
       PROVE  TypeOK'
  <2>1. order' \in [Keys -> Context]
    BY <1>12 DEF Answered, TypeOK, TaskInv, KeyInv, AttemptInv, TaskState, Context
  <2>2. wakeups' \in [Symbols -> Nat]
    <3>1. task[t].key[1] \in Symbols
      BY <1>12 DEF Answered, TaskInv, KeyInv, Keys
    <3> QED BY <1>12, <3>1, WokenType DEF Answered
  <2> QED BY <1>12, <2>1, <2>2, AfterFacts DEF Answered, Finish, TypeOK, TaskInv, KeyInv
<1>13. ASSUME NEW t \in Tasks, NEW num \in Numbering, NEW lost \in LostAnswers,
              Accepted(t, num, lost) \/ Finalized(t, num, lost)
       PROVE  TypeOK'
  <2>1. num \in BOOLEAN /\ lost + 1 \in Nat
    OBVIOUS
  <2>2. alarm' \in BOOLEAN
    BY <1>13, <2>1 DEF Accepted, Finalized, TypeOK
  <2>3. CASE Answered(t, "SUBMITTED", num, lost + 1)
    BY <1>12, <2>1, <2>2, <2>3 DEF OrderState
  <2>4. CASE Answered(t, "FILLED", num, lost + 1)
    BY <1>12, <2>1, <2>2, <2>4 DEF OrderState
  <2> QED BY <1>13, <2>3, <2>4 DEF Accepted, Finalized
<1>14. ASSUME NEW t \in Tasks, NEW lost \in LostAnswers, Refused(t, lost) PROVE TypeOK'
  BY <1>12, <1>14 DEF Refused, TypeOK, OrderState
<1>15. ASSUME NEW k \in Keys, NEW st \in OrderState, ApplyReport(k, st) PROVE TypeOK'
  <2>1. order' \in [Keys -> Context]
    BY <1>15 DEF ApplyReport, TypeOK, Context
  <2>2. wakeups' \in [Symbols -> Nat]
    BY <1>15, WokenType DEF ApplyReport, Keys
  <2> QED BY <1>15, <2>1, <2>2 DEF ApplyReport, TypeOK
<1>16. ASSUME NEW k \in Keys, GiveUp(k) PROVE TypeOK'
  <2>1. order' \in [Keys -> Context]
    BY <1>16 DEF GiveUp, TypeOK, Context, OrderState
  <2>2. wakeups' \in [Symbols -> Nat]
    BY <1>16, WokenType DEF GiveUp, Keys
  <2> QED BY <1>16, <2>1, <2>2 DEF GiveUp, TypeOK
<1>17. ASSUME NEW on \in Alarms, SetAlarm(on) PROVE TypeOK'
  BY <1>17 DEF SetAlarm, TypeOK
<1>18. CASE UNCHANGED vars
  BY <1>18 DEF vars, TypeOK
<1> QED
  BY <1>1, <1>2, <1>3, <1>4, <1>5, <1>6, <1>7, <1>8, <1>9, <1>10, <1>11, <1>13, <1>14,
     <1>15, <1>16, <1>17, <1>18
     DEF Next, Submit
-----------------------------------------------------------------------------
(* Tasks *)

\* What a task does leaves the other tasks' part of the invariant alone, as long as
\* locks they hold and orders they are sending stay what they are.
LEMMA OtherTask ==
    ASSUME TaskInv, NEW u \in Tasks, task'[u] = task[u],
           task[u].pc \in {"gate", "call", "backoff"} =>
               lock'[task[u].key[1]] = lock[task[u].key[1]],
           task[u].pc \in {"call", "backoff"} => order'[task[u].key] = order[task[u].key],
           task[u].pc = "gate" => ~Busy(task[u].key[1])'
    PROVE  (KeyInv(u) /\ HolderInv(u) /\ AttemptInv(u))'
BY DEF TaskInv, KeyInv, HolderInv, AttemptInv

\* Two tasks past the wait are at work on different symbols.
LEMMA Holders ==
    ASSUME TaskInv, NEW t \in Tasks, NEW u \in Tasks, u # t,
           task[t].pc \in {"gate", "call", "backoff"},
           task[u].pc \in {"gate", "call", "backoff"}
    PROVE  /\ task[u].key[1] # task[t].key[1]
           /\ task[u].key # task[t].key
           /\ \A d \in Sides : <<task[u].key[1], d>> # task[t].key
BY DEF TaskInv, KeyInv, HolderInv, Keys

LEMMA TaskStep == IInv /\ [Next]_vars => TaskInv'
<1> SUFFICES ASSUME IInv, [Next]_vars, NEW u \in Tasks
             PROVE  (KeyInv(u) /\ HolderInv(u) /\ AttemptInv(u))'
  BY DEF TaskInv
<1> DEFINE Goal == (KeyInv(u) /\ HolderInv(u) /\ AttemptInv(u))'
<1> USE ConstantsAssumption DEF ConstantsAssumption
<1>0. TypeOK /\ TaskInv /\ KeyInv(u) /\ HolderInv(u) /\ AttemptInv(u)
  BY DEF IInv, TaskInv
<1>1. ASSUME NEW t \in Tasks, NEW k \in Keys, Call(t, k) PROVE Goal
  <2>1. CASE u = t
    BY <1>1, <2>1, <1>0 DEF Call, Waiting, TypeOK, KeyInv, HolderInv, AttemptInv
  <2>2. CASE u # t
    BY <1>1, <2>2, <1>0, OtherTask DEF Call, TypeOK, Busy, Live, HolderInv
  <2> QED BY <2>1, <2>2
<1>2. ASSUME NEW t \in Tasks, Defer(t) PROVE Goal
  <2>1. CASE u = t
    BY <1>2, <2>1, <1>0, AfterFacts DEF Defer, Idle, Popping, TypeOK, KeyInv, HolderInv, AttemptInv, Keys, Sides
  <2>2. CASE u # t
    BY <1>2, <2>2, <1>0, OtherTask DEF Defer, TypeOK, Busy, Live, HolderInv
  <2> QED BY <2>1, <2>2
<1>3. ASSUME NEW t \in Tasks, Enter(t) PROVE Goal
  <2>1. CASE u = t
    BY <1>3, <2>1, <1>0 DEF Enter, TypeOK, TaskState, KeyInv, HolderInv, AttemptInv, Busy, Live, Keys
  <2>2. CASE u # t
    BY <1>3, <2>2, <1>0, OtherTask DEF Enter, TypeOK, Busy, Live, HolderInv, KeyInv, Keys
  <2> QED BY <2>1, <2>2
<1>4. ASSUME NEW t \in Tasks, Block(t) PROVE Goal
  <2>1. CASE u = t
    BY <1>4, <2>1, <1>0, AfterFacts
       DEF Block, Finish, Idle, Popping, TypeOK, KeyInv, HolderInv, AttemptInv, Keys, Sides
  <2>2. CASE u # t
    BY <1>4, <2>2, <1>0, OtherTask, Holders DEF Block, Finish, TypeOK, Busy, Live, HolderInv
  <2> QED BY <2>1, <2>2
<1>5. ASSUME NEW t \in Tasks, Register(t) PROVE Goal
  <2>1. CASE u = t
    BY <1>5, <2>1, <1>0 DEF Register, TypeOK, TaskState, KeyInv, HolderInv, AttemptInv, Keys
  <2>2. CASE u # t
    <3>1. task[u].pc \in {"gate", "call", "backoff"} =>
              /\ order'[task[u].key] = order[task[u].key]
              /\ \A d \in Sides : order'[<<task[u].key[1], d>>] = order[<<task[u].key[1], d>>]
      BY <1>5, <2>2, <1>0, Holders DEF Register, TypeOK, KeyInv, Keys
    <3>2. task[u].pc = "gate" => ~Busy(task[u].key[1])'
      BY <1>5, <2>2, <3>1, <1>0 DEF Register, TypeOK, Busy, Live, HolderInv
    <3>3. task'[u] = task[u]
      BY <1>5, <2>2, <1>0 DEF Register, TypeOK
    <3>4. task[u].pc \in {"gate", "call", "backoff"} =>
              lock'[task[u].key[1]] = lock[task[u].key[1]]
      BY <1>5, <2>2, <1>0, Holders DEF Register, TypeOK
    <3> QED BY <3>1, <3>2, <3>3, <3>4, <1>0, OtherTask
  <2> QED BY <2>1, <2>2
<1>6. ASSUME NEW t \in Tasks, CallAgain(t) PROVE Goal
  <2>1. CASE u = t
    BY <1>6, <2>1, <1>0 DEF CallAgain, TypeOK, TaskState, Context, KeyInv, HolderInv, AttemptInv
  <2>2. CASE u # t
    BY <1>6, <2>2, <1>0, OtherTask DEF CallAgain, TypeOK, Busy, Live, HolderInv
  <2> QED BY <2>1, <2>2
<1>7. ASSUME NEW t \in Tasks, NEW lost \in LostAnswers, RetryLater(t, lost) PROVE Goal
  <2>1. CASE u = t
    BY <1>7, <2>1, <1>0 DEF RetryLater, TypeOK, TaskState, Context, KeyInv, HolderInv, AttemptInv
  <2>2. CASE u # t
    <3>1. task[u].pc \in {"gate", "call", "backoff"} =>
              /\ order'[task[u].key] = order[task[u].key]
              /\ \A d \in Sides : order'[<<task[u].key[1], d>>] = order[<<task[u].key[1], d>>]
      BY <1>7, <2>2, <1>0, Holders DEF RetryLater, TypeOK, KeyInv, Keys
    <3>2. task[u].pc = "gate" => ~Busy(task[u].key[1])'
      BY <1>7, <2>2, <3>1, <1>0 DEF RetryLater, TypeOK, Busy, Live, HolderInv
    <3>3. task'[u] = task[u]
      BY <1>7, <2>2, <1>0 DEF RetryLater, TypeOK
    <3>4. task[u].pc \in {"gate", "call", "backoff"} =>
              lock'[task[u].key[1]] = lock[task[u].key[1]]
      BY <1>7, <2>2, <1>0, Holders DEF RetryLater, TypeOK
    <3> QED BY <3>1, <3>2, <3>3, <3>4, <1>0, OtherTask
  <2> QED BY <2>1, <2>2
<1>8. ASSUME NEW t \in Tasks, Cancelled(t) PROVE Goal
  <2>1. CASE u = t
    BY <1>8, <2>1, <1>0 DEF Cancelled, Idle, TypeOK, KeyInv, HolderInv, AttemptInv
  <2>2. CASE u # t
    BY <1>8, <2>2, <1>0, OtherTask, Holders DEF Cancelled, TypeOK, Busy, Live, HolderInv
  <2> QED BY <2>1, <2>2
<1>9. ASSUME NEW t \in Tasks, NEW s \in Symbols, StartRelease(t, s) PROVE Goal
  <2>1. CASE u = t
    BY <1>9, <2>1, <1>0 DEF StartRelease, Popping, TypeOK, KeyInv, HolderInv, AttemptInv, Keys, Sides
  <2>2. CASE u # t
    BY <1>9, <2>2, <1>0, OtherTask DEF StartRelease, TypeOK, Busy, Live, HolderInv
  <2> QED BY <2>1, <2>2
<1>10. ASSUME NEW t \in Tasks, Pop(t) PROVE Goal
  <2>1. CASE u = t
    BY <1>10, <2>1, <1>0, AfterFacts
       DEF Pop, Idle, Popping, TypeOK, TaskState, KeyInv, HolderInv, AttemptInv, Keys, Sides
  <2>2. CASE u # t
    BY <1>10, <2>2, <1>0, OtherTask DEF Pop, TypeOK, Busy, Live, HolderInv
  <2> QED BY <2>1, <2>2
<1>11. CASE Tick
  BY <1>11, <1>0, OtherTask DEF Tick, Busy, Live, HolderInv
<1>12. ASSUME NEW t \in Tasks, NEW st, NEW num, NEW some, Answered(t, st, num, some)
       PROVE  Goal
  <2>1. CASE u = t
    BY <1>12, <2>1, <1>0, AfterFacts
       DEF Answered, Finish, Idle, Popping, TypeOK, KeyInv, HolderInv, AttemptInv, Keys, Sides
  <2>2. CASE u # t
    <3>1. task[u].pc \in {"gate", "call", "backoff"} =>
              /\ order'[task[u].key] = order[task[u].key]
              /\ \A d \in Sides : order'[<<task[u].key[1], d>>] = order[<<task[u].key[1], d>>]
      BY <1>12, <2>2, <1>0, Holders DEF Answered, TypeOK, KeyInv, Keys
    <3>2. task'[u] = task[u]
      BY <1>12, <2>2, <1>0 DEF Answered, Finish, TypeOK
    <3>3. task[u].pc = "gate" => ~Busy(task[u].key[1])'
      BY <3>1, <3>2, <1>0 DEF Busy, Live, HolderInv
    <3>4. task[u].pc \in {"gate", "call", "backoff"} =>
              lock'[task[u].key[1]] = lock[task[u].key[1]]
      BY <1>12, <2>2, <1>0, Holders DEF Answered, Finish, TypeOK
    <3> QED BY <3>1, <3>2, <3>3, <3>4, <1>0, OtherTask
  <2> QED BY <2>1, <2>2
<1>13. ASSUME NEW t \in Tasks, NEW num \in Numbering, NEW lost \in LostAnswers,
              Accepted(t, num, lost) \/ Finalized(t, num, lost)
       PROVE  Goal
  BY <1>12, <1>13 DEF Accepted, Finalized
<1>14. ASSUME NEW t \in Tasks, NEW lost \in LostAnswers, Refused(t, lost) PROVE Goal
  BY <1>12, <1>14 DEF Refused
<1>15. ASSUME NEW k \in Keys, NEW st \in OrderState, ApplyReport(k, st) PROVE Goal
  <2>1. task[u].pc \in {"gate", "call", "backoff"} =>
            \A d \in Sides : order'[<<task[u].key[1], d>>] = order[<<task[u].key[1], d>>]
    BY <1>15, <1>0 DEF ApplyReport, TypeOK, KeyInv, HolderInv, Keys
  <2>2. task[u].pc \in {"call", "backoff"} => order'[task[u].key] = order[task[u].key]
    BY <2>1, <1>0 DEF KeyInv, Keys
  <2>3. UNCHANGED <<task, lock>>
    BY <1>15 DEF ApplyReport
  <2>4. task[u].pc = "gate" => ~Busy(task[u].key[1])'
    BY <2>1, <2>3, <1>0 DEF Busy, Live, HolderInv
  <2> QED BY <2>2, <2>3, <2>4, <1>0, OtherTask
<1>16. ASSUME NEW k \in Keys, GiveUp(k) PROVE Goal
  <2>1. task[u].pc \in {"call", "backoff"} => order'[task[u].key] = order[task[u].key]
    BY <1>16, <1>0 DEF GiveUp, TypeOK, KeyInv, HolderInv
  <2>2. task[u].pc = "gate" => ~Busy(task[u].key[1])'
    BY <1>16, <1>0 DEF GiveUp, TypeOK, KeyInv, HolderInv, Busy, Live, IsLive, Terminal, Keys
  <2> QED BY <1>16, <2>1, <2>2, <1>0, OtherTask DEF GiveUp
<1>17. ASSUME NEW on \in Alarms, SetAlarm(on) PROVE Goal
  BY <1>17, <1>0, OtherTask DEF SetAlarm, Busy, Live, HolderInv
<1>18. CASE UNCHANGED vars
  BY <1>18, <1>0, OtherTask DEF vars, Busy, Live, HolderInv
<1> QED
  BY <1>1, <1>2, <1>3, <1>4, <1>5, <1>6, <1>7, <1>8, <1>9, <1>10, <1>11, <1>13, <1>14,
     <1>15, <1>16, <1>17, <1>18
     DEF Next, Submit

-----------------------------------------------------------------------------
(* The theorems *)

\* The inductive invariant holds.
LEMMA Inductive == Spec => []IInv
<1>1. Init => IInv
  BY InitIInv
<1>2. IInv /\ [Next]_vars => IInv'
  BY TypeStep, TaskStep DEF IInv
<1> QED BY <1>1, <1>2, PTL DEF Spec

\* Every variable keeps its type: in particular attempts, and the orders the broker
\* took for one context, never exceed MaxRetries.
THEOREM TypeCorrect == Spec => []TypeOK
<1>1. IInv => TypeOK
  BY DEF IInv
<1> QED BY <1>1, Inductive, PTL

\* A task in a broker call, or between two attempts, holds its symbol lock and its
\* order is still the numberless PENDING_SUBMIT it registered.
THEOREM CallGuarded == Spec => []CallIsGuarded
<1>1. IInv => CallIsGuarded
  BY DEF IInv, TaskInv, HolderInv, CallIsGuarded
<1> QED BY <1>1, Inductive, PTL
-----------------------------------------------------------------------------
(* The orders as an order book *)

States == [k \in Keys |-> order[k].state]

LEMMA StatesSame ==
    ASSUME UNCHANGED order
    PROVE  States' = States
BY DEF States

LEMMA MayReachFacts ==
    /\ \A from, to \in OrderState : CanTransition(from, to) => MayReach(from, to)
    /\ \A to \in {"SUBMITTED", "FILLED", "CANCELED", "REJECTED"} :
           MayReach("PENDING_SUBMIT", to)
    /\ \A from \in OrderState \ Terminal : MayReach(from, "CANCELED")
<1>1. ASSUME NEW from \in OrderState, NEW to \in OrderState, CanTransition(from, to)
      PROVE  MayReach(from, to)
  BY <1>1 DEF MayReach, CanTransition
<1>2. MayReach("PENDING_SUBMIT", "FILLED")
  <2>1. CanTransition("PENDING_SUBMIT", "SUBMITTED") /\ CanTransition("SUBMITTED", "FILLED")
    BY AllowedFacts DEF CanTransition
  <2> QED BY <2>1 DEF MayReach, OrderState
<1>3. ASSUME NEW to \in {"SUBMITTED", "CANCELED", "REJECTED"}
      PROVE  MayReach("PENDING_SUBMIT", to)
  BY <1>1, AllowedFacts DEF CanTransition, OrderState
<1>4. ASSUME NEW from \in OrderState \ Terminal PROVE MayReach(from, "CANCELED")
  <2>1. CanTransition(from, "CANCELED")
    BY AllowedFacts DEF CanTransition, OrderState, Terminal
  <2> QED BY <1>1, <2>1 DEF OrderState
<1> QED BY <1>1, <1>2, <1>3, <1>4

Admits == \E k \in Keys : ~Busy(k[1]) /\ States' = [States EXCEPT ![k] = "PENDING_SUBMIT"]

Advances == \E k \in Keys, st \in OrderState :
                Live(k) /\ MayReach(order[k].state, st) /\ States' = [States EXCEPT ![k] = st]

\* What a step does to the orders: nothing, the admission of one under a free
\* symbol, or progress of one that is alive.
LEMMA OrdersStep == IInv /\ [Next]_vars => Admits \/ Advances \/ States' = States
<1> SUFFICES ASSUME IInv, [Next]_vars PROVE Admits \/ Advances \/ States' = States
  OBVIOUS
<1>0. TypeOK /\ TaskInv
  BY DEF IInv
<1>1. ASSUME NEW t \in Tasks, Register(t) PROVE Admits
  <2>1. task[t].key \in Keys /\ ~Busy(task[t].key[1])
    BY <1>0, <1>1 DEF Register, TaskInv, KeyInv, HolderInv
  <2>2. States' = [States EXCEPT ![task[t].key] = "PENDING_SUBMIT"]
    BY <1>0, <1>1, <2>1 DEF Register, States, TypeOK
  <2> QED BY <2>1, <2>2 DEF Admits
<1>2. ASSUME NEW t \in Tasks, NEW st \in {"SUBMITTED", "FILLED", "REJECTED"}, NEW num,
             NEW some, Answered(t, st, num, some)
      PROVE  Advances
  <2>1. task[t].key \in Keys
    BY <1>0, <1>2 DEF Answered, TaskInv, KeyInv
  <2>2. order[task[t].key].state = "PENDING_SUBMIT"
    BY <1>0, <1>2 DEF Answered, TaskInv, HolderInv
  <2>3. Live(task[t].key) /\ MayReach(order[task[t].key].state, st)
    BY <2>2, MayReachFacts DEF Live, IsLive, OrderState, Terminal
  <2>4. States' = [States EXCEPT ![task[t].key] = st]
    BY <1>0, <1>2, <2>1 DEF Answered, States, TypeOK
  <2> QED BY <2>1, <2>3, <2>4 DEF Advances, OrderState
<1>3. ASSUME NEW t \in Tasks, NEW lost \in LostAnswers, RetryLater(t, lost)
      PROVE  States' = States
  BY <1>0, <1>3 DEF RetryLater, States, TypeOK, TaskInv, KeyInv, Context
<1>4. ASSUME NEW k \in Keys, NEW st \in OrderState, ApplyReport(k, st) PROVE Advances
  <2>1. Live(k) /\ MayReach(order[k].state, st)
    BY <1>4, MayReachFacts DEF ApplyReport, Live, IsLive
  <2>2. States' = [States EXCEPT ![k] = st]
    BY <1>0, <1>4 DEF ApplyReport, States, TypeOK
  <2> QED BY <2>1, <2>2 DEF Advances
<1>5. ASSUME NEW k \in Keys, GiveUp(k) PROVE Advances
  <2>1. Live(k) /\ MayReach(order[k].state, "CANCELED")
    BY <1>5, MayReachFacts DEF GiveUp, Live, IsLive
  <2>2. States' = [States EXCEPT ![k] = "CANCELED"]
    BY <1>0, <1>5 DEF GiveUp, States, TypeOK, Context
  <2> QED BY <2>1, <2>2 DEF Advances, OrderState
<1>6. CASE \E t \in Tasks, k \in Keys : Call(t, k)
  BY <1>6, StatesSame DEF Call
<1>7. CASE \E t \in Tasks : Defer(t) \/ Enter(t) \/ Block(t) \/ CallAgain(t)
  BY <1>7, StatesSame DEF Defer, Enter, Block, CallAgain
<1>8. CASE \E t \in Tasks : Cancelled(t) \/ Pop(t) \/ \E s \in Symbols : StartRelease(t, s)
  BY <1>8, StatesSame DEF Cancelled, Pop, StartRelease
<1>9. CASE Tick \/ (\E on \in Alarms : SetAlarm(on)) \/ UNCHANGED vars
  BY <1>9, StatesSame DEF Tick, SetAlarm, vars
<1>10. ASSUME NEW t \in Tasks, NEW num \in Numbering, NEW lost \in LostAnswers,
              Accepted(t, num, lost) \/ Finalized(t, num, lost)
       PROVE  Advances
  BY <1>2, <1>10 DEF Accepted, Finalized
<1>11. ASSUME NEW t \in Tasks, NEW lost \in LostAnswers, Refused(t, lost) PROVE Advances
  BY <1>2, <1>11 DEF Refused
<1> QED
  BY <1>1, <1>3, <1>4, <1>5, <1>6, <1>7, <1>8, <1>9, <1>10, <1>11 DEF Next, Submit

\* The book's life cycle is the coordinator's.
LEMMA SameLifeCycle ==
    /\ Book!Sides = Sides
    /\ Book!OrderState = OrderState
    /\ Book!Absent = Absent
    /\ Book!Keys = Keys
    /\ \A st : Book!IsLive(st) <=> IsLive(st)
    /\ \A from, to : Book!MayReach(from, to) <=> MayReach(from, to)
<1>1. Book!Sides = Sides /\ Book!OrderState = OrderState /\ Book!Absent = Absent
  BY DEF Book!Sides, Sides, Book!OrderState, OrderState, Book!Absent, Absent
<1>2. Book!Keys = Keys
  BY <1>1 DEF Book!Keys, Keys
<1>3. \A st : Book!IsLive(st) <=> IsLive(st)
  BY <1>1 DEF Book!IsLive, IsLive, Book!Terminal, Terminal
<1>4. Book!Allowed = Allowed
  BY <1>1 DEF Book!Allowed, Allowed
<1>5. \A from, to : Book!CanTransition(from, to) <=> CanTransition(from, to)
  BY <1>4 DEF Book!CanTransition, CanTransition
<1>6. \A from, to : Book!MayReach(from, to) <=> MayReach(from, to)
  BY <1>1, <1>5 DEF Book!MayReach, MayReach
<1> QED BY <1>1, <1>2, <1>3, <1>6

\* The coordinator with its lock, the submitter, the reports and the lock-free
\* reconciliation together implement the order book: an order is admitted only when
\* its symbol has none alive, and moves only along the life cycle.
THEOREM Implements == Spec => ImplementsBook
<1>1. Init => Book!Init
  BY SameLifeCycle DEF Init, Book!Init
<1>2. IInv /\ [Next]_vars => [Book!Next]_States
  <2> SUFFICES ASSUME IInv, Admits \/ Advances PROVE Book!Next
    BY OrdersStep
  <2>1. CASE Admits
    <3>1. PICK k \in Keys : ~Busy(k[1]) /\ States' = [States EXCEPT ![k] = "PENDING_SUBMIT"]
      BY <2>1 DEF Admits
    <3>2. Book!SymbolFree(k[1])
      BY <3>1, SameLifeCycle DEF Busy, Live, Book!SymbolFree, Keys
    <3> QED BY <3>1, <3>2, SameLifeCycle DEF Book!Next, Book!Admit, States
  <2>2. CASE Advances
    <3>1. PICK k \in Keys, st \in OrderState :
              Live(k) /\ MayReach(order[k].state, st) /\ States' = [States EXCEPT ![k] = st]
      BY <2>2 DEF Advances
    <3> QED BY <3>1, SameLifeCycle DEF Book!Next, Book!Advance, States, Live
  <2> QED BY <2>1, <2>2
<1> QED BY <1>1, <1>2, Inductive, PTL DEF Spec, ImplementsBook, Book!Spec, States

\* A symbol never has two orders alive, whatever their sides: the invariant the
\* double loop of submit() under the symbol lock establishes.
THEOREM OneLive == Spec => []OneLiveOrder
<1>1. Init => OneLiveOrder
  BY DEF Init, OneLiveOrder, Live, IsLive, Absent, OrderState, Keys
<1>2. IInv /\ OneLiveOrder /\ [Next]_vars => OneLiveOrder'
  <2> SUFFICES ASSUME IInv, OneLiveOrder, [Next]_vars,
                      NEW s \in Symbols, NEW d \in Sides, NEW e \in Sides,
                      Live(<<s, d>>)', Live(<<s, e>>)'
               PROVE  d = e
    BY DEF OneLiveOrder
  <2>0. \A k \in Keys : /\ Live(k) <=> IsLive(States[k])
                        /\ Live(k)' <=> IsLive(States'[k])
    BY DEF Live, States
  <2>1. CASE States' = States
    BY <2>0, <2>1 DEF OneLiveOrder, Keys
  <2>2. CASE Admits
    <3>1. PICK k \in Keys : ~Busy(k[1]) /\ States' = [States EXCEPT ![k] = "PENDING_SUBMIT"]
      BY <2>2 DEF Admits
    <3>2. ASSUME NEW j \in Keys, j # k, Live(j)' PROVE Live(j)
      BY <2>0, <3>1, <3>2 DEF States
    <3> QED BY <3>1, <3>2 DEF Busy, OneLiveOrder, Keys
  <2>3. CASE Advances
    <3>1. PICK k \in Keys, st \in OrderState :
              Live(k) /\ MayReach(order[k].state, st) /\ States' = [States EXCEPT ![k] = st]
      BY <2>3 DEF Advances
    <3>2. ASSUME NEW j \in Keys, Live(j)' PROVE Live(j)
      BY <2>0, <3>1, <3>2 DEF States
    <3> QED BY <3>2 DEF OneLiveOrder, Keys
  <2> QED BY <2>1, <2>2, <2>3, OrdersStep
<1> QED BY <1>1, <1>2, Inductive, PTL DEF Spec
-----------------------------------------------------------------------------
(* Deferred entries *)

\* An entry under <<s, d>> has something that will serve it.
Served(s, d) ==
    deferred[<<s, d>>] # NoEntry =>
        Busy(s) \/ wakeups[s] > 0 \/ \E t \in Tasks : WillPop(t, s, d)

\* An order under a symbol stays alive or leaves a wake-up behind.
LEMMA BusyStep ==
    ASSUME IInv, [Next]_vars, NEW s \in Symbols, Busy(s)
    PROVE  Busy(s)' \/ wakeups'[s] > 0
<1>0. TypeOK /\ TaskInv
  BY DEF IInv
<1>1. ASSUME NEW t \in Tasks, Register(t) PROVE Busy(s)'
  <2>1. task[t].key \in Keys /\ task[t].key[1] # s
    BY <1>0, <1>1 DEF Register, TaskInv, KeyInv, HolderInv
  <2>2. \A d \in Sides : order'[<<s, d>>] = order[<<s, d>>]
    BY <1>0, <1>1, <2>1 DEF Register, TypeOK, Keys
  <2> QED BY <2>2 DEF Busy, Live
<1>2. ASSUME NEW k \in Keys, NEW st \in OrderState, order'[k].state = st,
             \A j \in Keys \ {k} : order'[j] = order[j], wakeups' = Woken(k[1], st)
      PROVE  Busy(s)' \/ wakeups'[s] > 0
  <2>1. CASE s # k[1]
    BY <1>2, <2>1 DEF Busy, Live, Keys
  <2>2. CASE s = k[1] /\ st \in Terminal
    BY <1>0, <1>2, <2>2 DEF Woken, TypeOK
  <2>3. CASE s = k[1] /\ st \notin Terminal
    BY <1>2, <2>3 DEF Busy, Live, IsLive, Keys
  <2> QED BY <2>1, <2>2, <2>3
<1>3. ASSUME NEW t \in Tasks, NEW st \in OrderState, NEW num, NEW some,
             Answered(t, st, num, some)
      PROVE  Busy(s)' \/ wakeups'[s] > 0
  <2>1. task[t].key \in Keys
    BY <1>0, <1>3 DEF Answered, TaskInv, KeyInv
  <2>2. /\ order'[task[t].key].state = st
        /\ \A j \in Keys \ {task[t].key} : order'[j] = order[j]
        /\ wakeups' = Woken(task[t].key[1], st)
    BY <1>0, <1>3, <2>1 DEF Answered, TypeOK
  <2> QED BY <1>2, <2>1, <2>2
<1>4. ASSUME NEW t \in Tasks, NEW num \in Numbering, NEW lost \in LostAnswers,
              Accepted(t, num, lost) \/ Finalized(t, num, lost)
      PROVE  Busy(s)' \/ wakeups'[s] > 0
  BY <1>3, <1>4 DEF Accepted, Finalized, OrderState
<1>5. ASSUME NEW t \in Tasks, NEW lost \in LostAnswers, Refused(t, lost)
      PROVE  Busy(s)' \/ wakeups'[s] > 0
  BY <1>3, <1>5 DEF Refused, OrderState
<1>6. ASSUME NEW t \in Tasks, NEW lost \in LostAnswers, RetryLater(t, lost) PROVE Busy(s)'
  <2>1. \A k \in Keys : order'[k].state = order[k].state
    BY <1>0, <1>6 DEF RetryLater, TypeOK, TaskInv, KeyInv, Context
  <2> QED BY <2>1 DEF Busy, Live, Keys
<1>7. ASSUME NEW k \in Keys, NEW st \in OrderState, ApplyReport(k, st)
      PROVE  Busy(s)' \/ wakeups'[s] > 0
  BY <1>0, <1>2, <1>7 DEF ApplyReport, TypeOK
<1>8. ASSUME NEW k \in Keys, GiveUp(k) PROVE Busy(s)' \/ wakeups'[s] > 0
  <2>1. /\ order'[k].state = "CANCELED"
        /\ \A j \in Keys \ {k} : order'[j] = order[j]
        /\ wakeups' = Woken(k[1], "CANCELED")
    BY <1>0, <1>8 DEF GiveUp, TypeOK, Context
  <2> QED BY <1>2, <2>1 DEF OrderState
<1>9. ASSUME UNCHANGED order PROVE Busy(s)'
  BY <1>9 DEF Busy, Live
<1>10. CASE \E t \in Tasks, k \in Keys : Call(t, k)
  BY <1>9, <1>10 DEF Call
<1>11. CASE \E t \in Tasks : Defer(t) \/ Enter(t) \/ Block(t) \/ CallAgain(t)
  BY <1>9, <1>11 DEF Defer, Enter, Block, CallAgain
<1>12. CASE \E t \in Tasks : Cancelled(t) \/ Pop(t) \/ \E r \in Symbols : StartRelease(t, r)
  BY <1>9, <1>12 DEF Cancelled, Pop, StartRelease
<1>13. CASE Tick \/ (\E on \in Alarms : SetAlarm(on)) \/ UNCHANGED vars
  BY <1>9, <1>13 DEF Tick, SetAlarm, vars
<1> QED
  BY <1>1, <1>4, <1>5, <1>6, <1>7, <1>8, <1>10, <1>11, <1>12, <1>13 DEF Next, Submit

\* A task that is past its BUY entry, or at it, will still pop the SELL entry when it
\* goes on, to its next step or to what follows a finished submit().
LEMMA StillPops ==
    ASSUME NEW t \in Tasks, NEW s \in Symbols, NEW d \in Sides, WillPop(t, s, d),
           task[t].pc # "pop",
           \/ task'[t] = After(t)
           \/ task'[t].kind = task[t].kind /\ task'[t].key = task[t].key
    PROVE  WillPop(t, s, d)'
<1>1. task[t].kind = "release" /\ task[t].key = <<s, "BUY">> /\ d = "SELL"
  BY DEF WillPop, Popping
<1>2. CASE task'[t] = After(t)
  BY <1>1, <1>2 DEF After, WillPop, Popping
<1>3. CASE task'[t].kind = task[t].kind /\ task'[t].key = task[t].key
  BY <1>1, <1>3 DEF WillPop
<1> QED BY <1>2, <1>3

\* When no entry appears, no wake-up is used up and no release is cut short, an
\* entry stays served.
LEMMA StaysServed ==
    ASSUME IInv, [Next]_vars, NEW s \in Symbols, NEW d \in Sides, Served(s, d),
           deferred'[<<s, d>>] # NoEntry => deferred[<<s, d>>] # NoEntry,
           wakeups[s] > 0 => wakeups'[s] > 0,
           \A t \in Tasks : WillPop(t, s, d) => WillPop(t, s, d)'
    PROVE  Served(s, d)'
<1>1. Busy(s) => Busy(s)' \/ wakeups'[s] > 0
  BY BusyStep
<1> QED BY <1>1 DEF Served

LEMMA ServedStep ==
    ASSUME IInv, [Next]_vars, NEW s \in Symbols, NEW d \in Sides, Served(s, d)
    PROVE  Served(s, d)'
<1>0. TypeOK /\ TaskInv
  BY DEF IInv
<1>w. ASSUME NEW r \in Symbols, NEW st, wakeups' = Woken(r, st), wakeups[s] > 0
      PROVE  wakeups'[s] > 0
  BY <1>0, <1>w DEF Woken, TypeOK
<1>p. ASSUME NEW t \in Tasks, task' = [task EXCEPT ![t] = task'[t]],
             WillPop(t, s, d) => WillPop(t, s, d)'
      PROVE  \A v \in Tasks : WillPop(v, s, d) => WillPop(v, s, d)'
  <2>1. ASSUME NEW v \in Tasks, v # t PROVE task'[v] = task[v]
    BY <1>0, <1>p, <2>1 DEF TypeOK
  <2> QED BY <1>p, <2>1 DEF WillPop, Popping
<1>1. ASSUME NEW t \in Tasks, NEW k \in Keys, Call(t, k) PROVE Served(s, d)'
  <2>1. ~WillPop(t, s, d)
    BY <1>0, <1>1 DEF Call, TaskInv, KeyInv, WillPop
  <2>2. task' = [task EXCEPT ![t] = task'[t]]
    BY <1>0, <1>1 DEF Call, TypeOK
  <2> QED BY <1>1, <1>p, <2>1, <2>2, StaysServed DEF Call
<1>2. ASSUME NEW t \in Tasks, Defer(t) PROVE Served(s, d)'
  <2>1. CASE task[t].key = <<s, d>>
    BY <1>2, <2>1 DEF Defer, Served, Busy, Live
  <2>2. CASE task[t].key # <<s, d>>
    <3>1. deferred'[<<s, d>>] = deferred[<<s, d>>]
      BY <1>0, <1>2, <2>2 DEF Defer, TypeOK, Keys
    <3>2. task' = [task EXCEPT ![t] = task'[t]] /\ task'[t] = After(t)
      BY <1>0, <1>2 DEF Defer, TypeOK
    <3>3. \A v \in Tasks : WillPop(v, s, d) => WillPop(v, s, d)'
      BY <1>2, <1>p, <3>2, StillPops DEF Defer
    <3> QED BY <1>2, <3>1, <3>3, StaysServed DEF Defer
  <2> QED BY <2>1, <2>2
<1>3. ASSUME NEW t \in Tasks, task[t].pc # "pop", task' = [task EXCEPT ![t] = task'[t]],
             \/ task'[t] = After(t)
             \/ task'[t].kind = task[t].kind /\ task'[t].key = task[t].key,
             UNCHANGED deferred, wakeups[s] > 0 => wakeups'[s] > 0
      PROVE  Served(s, d)'
  <2>1. \A v \in Tasks : WillPop(v, s, d) => WillPop(v, s, d)'
    BY <1>3, <1>p, StillPops
  <2> QED BY <1>3, <2>1, StaysServed
<1>4. ASSUME NEW t \in Tasks, Enter(t) \/ Block(t) \/ Register(t) \/ CallAgain(t)
      PROVE  Served(s, d)'
  <2>1. CASE Enter(t)
    BY <1>0, <1>3, <2>1 DEF Enter, TypeOK, TaskState
  <2>2. CASE Block(t)
    BY <1>0, <1>3, <2>2 DEF Block, Finish, TypeOK
  <2>3. CASE Register(t)
    BY <1>0, <1>3, <2>3 DEF Register, TypeOK
  <2>4. CASE CallAgain(t)
    BY <1>0, <1>3, <2>4 DEF CallAgain, TypeOK, TaskState
  <2> QED BY <1>4, <2>1, <2>2, <2>3, <2>4
<1>5. ASSUME NEW t \in Tasks, NEW lost \in LostAnswers, RetryLater(t, lost)
      PROVE  Served(s, d)'
  <2>1. task[t].pc # "pop" /\ task' = [task EXCEPT ![t].pc = "backoff"]
        /\ UNCHANGED <<deferred, wakeups>>
    BY <1>5 DEF RetryLater
  <2> QED BY <1>0, <1>3, <2>1 DEF TypeOK, TaskState
<1>6. ASSUME NEW t \in Tasks, NEW st, NEW num, NEW some, Answered(t, st, num, some)
      PROVE  Served(s, d)'
  <2>1. task[t].key[1] \in Symbols
    BY <1>0, <1>6 DEF Answered, TaskInv, KeyInv, Keys
  <2>2. wakeups[s] > 0 => wakeups'[s] > 0
    BY <1>6, <1>w, <2>1 DEF Answered
  <2>3. /\ task[t].pc # "pop" /\ UNCHANGED deferred
        /\ task' = [task EXCEPT ![t] = task'[t]] /\ task'[t] = After(t)
    BY <1>0, <1>6 DEF Answered, Finish, TypeOK
  <2> QED BY <1>3, <2>2, <2>3
<1>7. ASSUME NEW t \in Tasks, NEW num \in Numbering, NEW lost \in LostAnswers,
              Accepted(t, num, lost) \/ Finalized(t, num, lost)
      PROVE  Served(s, d)'
  BY <1>6, <1>7 DEF Accepted, Finalized
<1>8. ASSUME NEW t \in Tasks, NEW lost \in LostAnswers, Refused(t, lost)
      PROVE  Served(s, d)'
  BY <1>6, <1>8 DEF Refused
<1>9. ASSUME NEW t \in Tasks, Cancelled(t) PROVE Served(s, d)'
  <2>1. ~WillPop(t, s, d)
    BY <1>9 DEF Cancelled, WillPop
  <2>2. task' = [task EXCEPT ![t] = task'[t]]
    BY <1>0, <1>9 DEF Cancelled, TypeOK
  <2> QED BY <1>9, <1>p, <2>1, <2>2, StaysServed DEF Cancelled
<1>10. ASSUME NEW t \in Tasks, NEW r \in Symbols, StartRelease(t, r) PROVE Served(s, d)'
  <2>1. task'[t] = Popping(r, "BUY") /\ task' = [task EXCEPT ![t] = task'[t]]
    BY <1>0, <1>10 DEF StartRelease, TypeOK
  <2>2. CASE r = s
    BY <2>1, <2>2 DEF Served, WillPop, Popping, Sides
  <2>3. CASE r # s
    <3>1. ~WillPop(t, s, d)
      BY <1>0, <1>10 DEF StartRelease, TaskInv, KeyInv, WillPop
    <3>2. wakeups'[s] = wakeups[s] /\ UNCHANGED deferred
      BY <1>0, <1>10, <2>3 DEF StartRelease, TypeOK
    <3> QED BY <1>p, <2>1, <3>1, <3>2, StaysServed
  <2> QED BY <2>2, <2>3
<1>11. ASSUME NEW t \in Tasks, Pop(t) PROVE Served(s, d)'
  <2>1. /\ deferred' = [deferred EXCEPT ![task[t].key] = NoEntry]
        /\ task' = [task EXCEPT ![t] = task'[t]]
        /\ \/ task'[t] = After(t)
           \/ task'[t].kind = task[t].kind /\ task'[t].key = task[t].key
        /\ UNCHANGED wakeups
    BY <1>0, <1>11 DEF Pop, TypeOK, TaskState
  <2>2. task[t].key \in Keys
    BY <1>0, <1>11 DEF Pop, TaskInv, KeyInv
  <2>3. CASE task[t].key = <<s, d>>
    BY <1>0, <2>1, <2>3 DEF Served, TypeOK, Keys
  <2>4. CASE task[t].key # <<s, d>>
    <3>1. WillPop(t, s, d) => WillPop(t, s, d)'
      BY <2>1, <2>4 DEF WillPop, Popping, After
    <3>2. deferred'[<<s, d>>] = deferred[<<s, d>>]
      BY <1>0, <2>1, <2>4 DEF TypeOK, Keys
    <3>3. \A v \in Tasks : WillPop(v, s, d) => WillPop(v, s, d)'
      BY <1>p, <2>1, <3>1
    <3> QED BY <2>1, <3>2, <3>3, StaysServed
  <2> QED BY <2>3, <2>4
<1>12. ASSUME NEW k \in Keys, NEW st, wakeups' = Woken(k[1], st), UNCHANGED <<task, deferred>>
       PROVE  Served(s, d)'
  <2>1. wakeups[s] > 0 => wakeups'[s] > 0
    BY <1>12, <1>w DEF Keys
  <2> QED BY <1>12, <2>1, StaysServed DEF WillPop
<1>13. ASSUME NEW k \in Keys, NEW st \in OrderState, ApplyReport(k, st) PROVE Served(s, d)'
  BY <1>12, <1>13 DEF ApplyReport
<1>14. ASSUME NEW k \in Keys, GiveUp(k) PROVE Served(s, d)'
  BY <1>12, <1>14 DEF GiveUp
<1>15. CASE Tick
  <2>1. deferred'[<<s, d>>] # NoEntry => deferred[<<s, d>>] # NoEntry
    BY <1>15 DEF Tick, Keys
  <2> QED BY <1>15, <2>1, StaysServed DEF Tick, WillPop
<1>16. CASE (\E on \in Alarms : SetAlarm(on)) \/ UNCHANGED vars
  BY <1>16, StaysServed DEF SetAlarm, vars, WillPop
<1> QED
  BY <1>1, <1>2, <1>4, <1>5, <1>7, <1>8, <1>9, <1>10, <1>11, <1>13, <1>14, <1>15, <1>16
     DEF Next, Submit

\* A deferred entry is never forgotten: the order it waits for is alive, a wake-up is
\* pending, or a notify_terminal run has yet to pop it.
THEOREM NoneForgotten == Spec => []NoLostWakeup
<1>1. Init => NoLostWakeup
  BY DEF Init, NoLostWakeup, Keys
<1>2. IInv /\ NoLostWakeup /\ [Next]_vars => NoLostWakeup'
  <2> SUFFICES ASSUME IInv, [Next]_vars, \A s \in Symbols, d \in Sides : Served(s, d)
               PROVE  \A s \in Symbols, d \in Sides : Served(s, d)'
    BY DEF NoLostWakeup, Served
  <2> QED BY ServedStep
<1> QED BY <1>1, <1>2, Inductive, PTL DEF Spec
=============================================================================
