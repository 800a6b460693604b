-------------------------- MODULE BatchWorkProofs ---------------------------
(***************************************************************************)
(* Proofs about BatchWork, for any number of tasks, workers, retries, days  *)
(* and requests and any capacity of the queue.                              *)
(***************************************************************************)
EXTENDS BatchWork, FiniteSetTheorems, TLAPS

-----------------------------------------------------------------------------
(* The inductive invariants: types and depths, dates, gates *)

\* The workers whose run of t was counted in by _running_state.
Inside(t) ==
    {w \in Workers : /\ worker[w].pc = "run"
                     /\ worker[w].inside
                     /\ worker[w].ticket.key[1] = t}

Forced(t) == IF forced[t] = "inside" THEN 1 ELSE 0

HoldsTicket == \A w \in Workers : worker[w].pc \in {"run", "backoff"} => worker[w].ticket \in Tickets

\* The depth counts the runs inside, and is zero for an idle task.
DepthInv ==
    \A t \in Tasks : /\ depth[t] = Cardinality(Inside(t)) + Forced(t)
                     /\ state[t] = "IDLE" => depth[t] = 0

RunInv == TypeOK /\ IsFiniteSet(queue) /\ HoldsTicket /\ DepthInv

\* A ticket of a day that was issued, or will be, has its date saved; the running
\* process knows every date of today that is saved.
DatesInv ==
    /\ \A t \in Tasks : /\ saved[t] <= day
                        /\ phase = "up" /\ saved[t] = day => sent[t] = day
    /\ \A t \in Tasks, d \in Days :
         <<t, d>> \in pending \/ issued[<<t, d>>] # 0 => d <= saved[t]
    /\ \A k \in Keys : issued[k] <= 1 /\ (k \in pending => issued[k] = 0)

GatesInv ==
    /\ open <=> active = 0
    /\ phase # "up" => active = 0
    /\ \A t \in Tasks : ~gate[t] => state[t] = "SUSPENDED" /\ active > 0

-----------------------------------------------------------------------------
(* Runs that enter and leave *)

LEMMA InsideFacts ==
    ASSUME NEW t
    PROVE  IsFiniteSet(Inside(t)) /\ Cardinality(Inside(t)) \in Nat
<1>1. Inside(t) \subseteq Workers
  BY DEF Inside
<1> QED BY <1>1, FS_Subset, FS_CardinalityType, ConstantsAssumption DEF ConstantsAssumption

LEMMA IdleFacts == Idle \in WorkerStates /\ Idle.pc = "idle" /\ Idle.inside = FALSE
BY DEF Idle, WorkerStates

LEMMA AgainFacts == Again \in WorkerStates /\ Again.pc \in {"idle", "wait"}
BY DEF Again, Idle, WorkerStates

\* A worker that did not run begins to: only the task of its ticket counts one more.
LEMMA WorkerEnters ==
    ASSUME RunInv, NEW w \in Workers, NEW r \in WorkerStates,
           worker' = [worker EXCEPT ![w] = r],
           worker[w].pc # "run", r.pc = "run", NEW t \in Tasks
    PROVE  Cardinality(Inside(t))' =
              Cardinality(Inside(t)) + (IF r.inside /\ r.ticket.key[1] = t THEN 1 ELSE 0)
<1>1. worker' \in [Workers -> WorkerStates] /\ worker'[w] = r
      /\ \A v \in Workers : v # w => worker'[v] = worker[v]
  BY DEF RunInv, TypeOK
<1>2. w \notin Inside(t)
  BY DEF Inside
<1>3. Inside(t)' = IF r.inside /\ r.ticket.key[1] = t THEN Inside(t) \cup {w} ELSE Inside(t)
  BY <1>1, <1>2 DEF Inside
<1>4. Cardinality(Inside(t) \cup {w}) = Cardinality(Inside(t)) + 1
  BY <1>2, InsideFacts, FS_AddElement
<1>5. Cardinality(Inside(t)) + 0 = Cardinality(Inside(t))
  BY InsideFacts
<1> HIDE DEF Inside
<1> QED BY <1>3, <1>4, <1>5

\* A worker that runs stops: only the task of its ticket counts one less.
LEMMA WorkerLeaves ==
    ASSUME RunInv, NEW w \in Workers, NEW r \in WorkerStates,
           worker' = [worker EXCEPT ![w] = r],
           worker[w].pc = "run", r.pc # "run", NEW t \in Tasks
    PROVE  IF worker[w].inside /\ worker[w].ticket.key[1] = t
           THEN /\ Cardinality(Inside(t))' = Cardinality(Inside(t)) - 1
                /\ Cardinality(Inside(t)) > 0
           ELSE Cardinality(Inside(t))' = Cardinality(Inside(t))
<1> DEFINE inside == worker[w].inside /\ worker[w].ticket.key[1] = t
<1>1. worker' \in [Workers -> WorkerStates] /\ worker'[w] = r
      /\ \A v \in Workers : v # w => worker'[v] = worker[v]
  BY DEF RunInv, TypeOK
<1>2. w \in Inside(t) <=> inside
  BY DEF Inside
<1>3. Inside(t)' = Inside(t) \ {w}
  BY <1>1 DEF Inside
<1>4. inside => Cardinality(Inside(t)) # 0
  BY <1>2, InsideFacts, FS_EmptySet
<1>5. w \in Inside(t) => Cardinality(Inside(t) \ {w}) = Cardinality(Inside(t)) - 1
  BY InsideFacts, FS_RemoveElement
<1>6. w \notin Inside(t) => Inside(t) \ {w} = Inside(t)
  OBVIOUS
<1>7. Cardinality(Inside(t)) \in Nat
  BY InsideFacts
<1>8. CASE inside
  <2>1. Cardinality(Inside(t)') = Cardinality(Inside(t)) - 1
    BY <1>2, <1>3, <1>5, <1>8
  <2>2. Cardinality(Inside(t)) > 0
    BY <1>4, <1>7, <1>8
  <2> QED BY <1>8, <2>1, <2>2
<1>9. CASE ~inside
  BY <1>2, <1>3, <1>6, <1>7, <1>9
<1> QED BY <1>8, <1>9

\* A worker that neither ran nor runs counts nowhere.
LEMMA WorkerStays ==
    ASSUME RunInv, NEW w \in Workers, NEW r \in WorkerStates,
           worker' = [worker EXCEPT ![w] = r],
           worker[w].pc # "run", r.pc # "run", NEW t \in Tasks
    PROVE  Inside(t)' = Inside(t)
BY DEF Inside, RunInv, TypeOK

\* Nor do workers whose runs a step does not touch.
LEMMA InsideSame ==
    ASSUME \A w \in Workers : /\ worker'[w].pc = "run" <=> worker[w].pc = "run"
                              /\ worker[w].pc = "run" => worker'[w] = worker[w]
    PROVE  \A t \in Tasks : Inside(t)' = Inside(t)
BY DEF Inside

TaskStates == {"IDLE", "RUNNING", "SUSPENDED", "STOPPED"}

\* A run that enters adds one to the depth of its task, which is not idle then.
LEMMA RunEntersFacts ==
    ASSUME RunInv, NEW t \in Tasks, RunEnters(t)
    PROVE  /\ depth' \in [Tasks -> Nat] /\ state' \in [Tasks -> TaskStates]
           /\ \A u \in Tasks :
                /\ depth'[u] = IF Entered(t) /\ u = t THEN depth[u] + 1 ELSE depth[u]
                /\ state'[u] = "IDLE" => state[u] = "IDLE" /\ u # t
BY DEF RunEnters, Entered, RunInv, TypeOK, TaskStates

\* A run that leaves takes one off, and its task is idle when none is left.
LEMMA RunLeavesFacts ==
    ASSUME RunInv, NEW t \in Tasks, NEW inside \in BOOLEAN, RunLeaves(t, inside),
           inside => depth[t] > 0
    PROVE  /\ depth' \in [Tasks -> Nat] /\ state' \in [Tasks -> TaskStates]
           /\ \A u \in Tasks :
                /\ depth'[u] = IF inside /\ u = t THEN depth[u] - 1 ELSE depth[u]
                /\ state'[u] = "IDLE" => depth'[u] = 0
<1>0. /\ depth \in [Tasks -> Nat] /\ state \in [Tasks -> TaskStates]
      /\ \A u \in Tasks : state[u] = "IDLE" => depth[u] = 0
  BY DEF RunInv, TypeOK, DepthInv, TaskStates
<1>1. CASE inside
  <2>1. /\ depth' = [depth EXCEPT ![t] = @ - 1]
        /\ state' = [state EXCEPT ![t] = IF depth[t] = 1 /\ @ = "RUNNING" THEN "IDLE" ELSE @]
    BY <1>1 DEF RunLeaves
  <2>2. depth[t] - 1 \in Nat
    BY <1>0, <1>1
  <2> QED BY <1>0, <1>1, <2>1, <2>2 DEF TaskStates
<1>2. CASE ~inside
  BY <1>0, <1>2 DEF RunLeaves
<1> QED BY <1>1, <1>2

LEMMA PublishFacts ==
    ASSUME queue \subseteq Tickets, IsFiniteSet(queue), NEW ticket \in Tickets, Publish(ticket)
    PROVE  queue' \subseteq Tickets /\ IsFiniteSet(queue')
BY FS_AddElement DEF Publish

\* What the runs do not touch keeps its type.
RestTyped ==
    /\ phase \in {"up", "draining", "down"}
    /\ day \in Days /\ closed \in BOOLEAN
    /\ saved \in [Tasks -> 0..MaxDays] /\ sent \in [Tasks -> 0..MaxDays]
    /\ pending \subseteq Keys /\ poisons \in Nat
    /\ open \in BOOLEAN /\ active \in 0..MaxRequests
    /\ gate \in [Tasks -> BOOLEAN]
    /\ issued \in [Keys -> Nat] /\ settled \subseteq Keys

RunTyped ==
    /\ queue \subseteq Tickets /\ IsFiniteSet(queue)
    /\ worker \in [Workers -> WorkerStates] /\ HoldsTicket
    /\ state \in [Tasks -> TaskStates]
    /\ depth \in [Tasks -> Nat]
    /\ forced \in [Tasks -> {"no", "inside", "outside"}]

LEMMA RunInvParts == RunInv <=> RestTyped /\ RunTyped /\ DepthInv
BY DEF RunInv, TypeOK, RestTyped, RunTyped, TaskStates

LEMMA PoisonFacts ==
    ASSUME IsFiniteSet(queue), NEW n \in Nat
    PROVE  Poison(n) \in Nat
BY FS_CardinalityType, ConstantsAssumption DEF Poison, ConstantsAssumption

LEMMA RestTypedStep == RunInv /\ [Next]_vars => RestTyped'
<1> SUFFICES ASSUME RunInv, [Next]_vars PROVE RestTyped'
  OBVIOUS
<1>0. RestTyped /\ RunTyped
  BY RunInvParts
<1>1. CASE MarketCloses \/ Start \/ UNCHANGED vars
  BY <1>0, <1>1 DEF RestTyped, MarketCloses, Start, vars, dates, tasks, clock
<1>2. CASE NextDay
  <2>1. day' \in Days /\ closed' \in BOOLEAN
    <3>1. day \in 1..MaxDays /\ day < MaxDays /\ day' = day + 1 /\ closed' = FALSE
      BY <1>0, <1>2 DEF RestTyped, NextDay, Days
    <3>2. day' \in 1..MaxDays
      BY <3>1, ConstantsAssumption DEF ConstantsAssumption
    <3> QED BY <3>1, <3>2 DEF Days
  <2>2. UNCHANGED <<phase, saved, sent, pending, poisons, open, active, gate, issued, settled>>
    BY <1>2 DEF NextDay, dates, tasks
  <2> QED BY <1>0, <2>1, <2>2 DEF RestTyped
<1>3. CASE Gone /\ saved' \in [Tasks -> 0..MaxDays] /\ UNCHANGED <<clock, issued, settled>>
  <2>1. /\ phase' = "down" /\ sent' = [u \in Tasks |-> 0] /\ pending' = {} /\ poisons' = 0
        /\ active' = 0 /\ UNCHANGED <<day, closed, issued, settled>>
    BY <1>3 DEF Gone, clock
  <2>2. open' \in BOOLEAN /\ gate' \in [Tasks -> BOOLEAN]
    BY <1>3 DEF Gone
  <2>3. sent' \in [Tasks -> 0..MaxDays] /\ active' \in 0..MaxRequests
    BY <2>1, ConstantsAssumption DEF ConstantsAssumption
  <2> QED BY <1>0, <1>3, <2>1, <2>2, <2>3 DEF RestTyped
<1>4. ASSUME NEW written \in SUBSET Tasks, Crash(written) PROVE RestTyped'
  <2>1. saved' \in [Tasks -> 0..MaxDays]
    BY <1>0, <1>4, ConstantsAssumption DEF RestTyped, Crash, Days, ConstantsAssumption
  <2> QED BY <1>3, <1>4, <2>1 DEF Crash
<1>5. CASE Shutdown
  <2>1. Poison(Cardinality(Workers)) \in Nat
    BY <1>0, PoisonFacts, FS_CardinalityType, ConstantsAssumption DEF RunTyped, ConstantsAssumption
  <2> QED BY <1>0, <1>5, <2>1 DEF RestTyped, Shutdown, clock
<1>6. CASE Down
  BY <1>0, <1>3, <1>6 DEF Down, RestTyped
<1>7. CASE Dispatch
  <2>1. sent' \in [Tasks -> 0..MaxDays] /\ saved' \in [Tasks -> 0..MaxDays]
    BY <1>0, <1>7, ConstantsAssumption DEF RestTyped, Dispatch, Days, ConstantsAssumption
  <2>2. pending' \subseteq Keys
    BY <1>0, <1>7 DEF RestTyped, Dispatch, Due, Keys
  <2> QED BY <1>0, <1>7, <2>1, <2>2 DEF RestTyped, Dispatch, clock, tasks
<1>8. ASSUME NEW t \in Tasks, NEW before \in SUBSET Tasks, DispatchFails(before, t)
      PROVE  RestTyped'
  <2>1. sent' \in [Tasks -> 0..MaxDays] /\ saved' \in [Tasks -> 0..MaxDays]
    BY <1>0, <1>8, ConstantsAssumption DEF RestTyped, DispatchFails, Days, ConstantsAssumption
  <2>2. pending' \subseteq Keys
    BY <1>0, <1>8 DEF RestTyped, DispatchFails, Keys
  <2> QED BY <1>0, <1>8, <2>1, <2>2 DEF RestTyped, DispatchFails, clock, tasks
<1>9. ASSUME NEW k \in Keys, PublishAfterDelay(k) PROVE RestTyped'
  BY <1>0, <1>9 DEF RestTyped, PublishAfterDelay, clock, tasks
<1>10. ASSUME NEW t \in Tasks, ForceRun(t) \/ ForceRunEnds(t) PROVE RestTyped'
  BY <1>0, <1>10 DEF RestTyped, ForceRun, ForceRunEnds, clock, dates
<1>11. ASSUME NEW w \in Workers, NEW ticket \in Tickets, Take(w, ticket) PROVE RestTyped'
  BY <1>0, <1>11 DEF RestTyped, Take, clock, dates
<1>12. ASSUME NEW w \in Workers, TakePoison(w) PROVE RestTyped'
  BY <1>0, <1>12 DEF RestTyped, TakePoison, clock, dates, tasks
<1>13. ASSUME NEW w \in Workers, Done(w) \/ Fail(w) PROVE RestTyped'
  <2>1. worker[w].ticket.key \in Keys
    BY <1>0, <1>13 DEF RunTyped, HoldsTicket, Tickets, Done, Fail, Running
  <2> QED BY <1>0, <1>13, <2>1 DEF RestTyped, Done, Fail, clock, dates
<1>14. ASSUME NEW w \in Workers, Retry(w) PROVE RestTyped'
  BY <1>0, <1>14 DEF RestTyped, Retry, clock, dates, tasks
<1>15. CASE Enter
  <2>1. open' \in BOOLEAN /\ gate' \in [Tasks -> BOOLEAN]
    <3>1. open \in BOOLEAN /\ gate \in [Tasks -> BOOLEAN]
      BY <1>0 DEF RestTyped
    <3> QED BY <1>15, <3>1, Zenon DEF Enter
  <2>2. active' \in 0..MaxRequests
    BY <1>0, <1>15, ConstantsAssumption DEF RestTyped, Enter, ConstantsAssumption
  <2>3. UNCHANGED <<phase, clock, saved, sent, pending, poisons, issued, settled>>
    BY <1>15 DEF Enter, dates
  <2> QED BY <1>0, <2>1, <2>2, <2>3 DEF RestTyped, clock
<1>16. CASE Leave
  <2>1. open' \in BOOLEAN /\ gate' \in [Tasks -> BOOLEAN]
    <3>1. open \in BOOLEAN /\ gate \in [Tasks -> BOOLEAN]
      BY <1>0 DEF RestTyped
    <3> QED BY <1>16, <3>1, Zenon DEF Leave
  <2>2. active' \in 0..MaxRequests
    BY <1>0, <1>16, ConstantsAssumption DEF RestTyped, Leave, ConstantsAssumption
  <2>3. UNCHANGED <<phase, clock, saved, sent, pending, poisons, issued, settled>>
    BY <1>16 DEF Leave, dates
  <2> QED BY <1>0, <2>1, <2>2, <2>3 DEF RestTyped, clock
<1> QED
  BY <1>1, <1>2, <1>4, <1>5, <1>6, <1>7, <1>8, <1>9, <1>10, <1>11, <1>12, <1>13,
     <1>14, <1>15, <1>16 DEF Next

LEMMA RunInvStep == RunInv /\ [Next]_vars => RunInv'
<1> SUFFICES ASSUME RunInv, [Next]_vars PROVE RunInv'
  OBVIOUS
<1>00. RestTyped' /\ RunTyped' /\ DepthInv' => RunInv'
  BY RunInvParts, PTL
<1> SUFFICES RunTyped' /\ DepthInv'
  BY <1>00, RestTypedStep
<1>0. RunTyped /\ DepthInv
  BY RunInvParts
<1>01. \A t \in Tasks : Cardinality(Inside(t)) \in Nat /\ Forced(t) \in {0, 1}
  BY InsideFacts DEF Forced
\* Steps that leave runs, states and depths alone.
<1>02. ASSUME queue' \subseteq Tickets, IsFiniteSet(queue'),
              UNCHANGED <<worker, state, depth, forced>>
       PROVE  RunTyped' /\ DepthInv'
  <2>1. \A t \in Tasks : Inside(t)' = Inside(t) /\ Forced(t)' = Forced(t)
    BY <1>02 DEF Inside, Forced
  <2>2. DepthInv'
    BY <1>0, <1>02, <2>1 DEF DepthInv
  <2>3. RunTyped'
    BY <1>0, <1>02 DEF RunTyped, HoldsTicket
  <2> QED BY <2>2, <2>3
\* Steps that make no task idle and no run begin or end.
<1>03. ASSUME UNCHANGED <<queue, depth, forced>>,
              worker' \in [Workers -> WorkerStates],
              \A w \in Workers : worker'[w] = worker[w]
                                 \/ (worker[w].pc = "wait" /\ worker'[w] = Idle),
              state' \in [Tasks -> TaskStates],
              \A t \in Tasks : state'[t] = "IDLE" => state[t] = "IDLE"
       PROVE  RunTyped' /\ DepthInv'
  <2>1. \A w \in Workers : /\ worker'[w].pc = "run" <=> worker[w].pc = "run"
                           /\ worker[w].pc = "run" => worker'[w] = worker[w]
    BY <1>03, IdleFacts
  <2>2. \A t \in Tasks : Inside(t)' = Inside(t) /\ Forced(t)' = Forced(t)
    BY <1>03, <2>1, InsideSame DEF Forced
  <2>3. DepthInv'
    BY <1>0, <1>03, <2>2 DEF DepthInv
  <2>4. RunTyped'
    BY <1>0, <1>03, IdleFacts DEF RunTyped, HoldsTicket
  <2> QED BY <2>3, <2>4
<1>1. CASE MarketCloses \/ NextDay \/ Start \/ Dispatch \/ UNCHANGED vars
  BY <1>0, <1>02, <1>1
     DEF RunTyped, MarketCloses, NextDay, Start, Dispatch, vars, tasks
<1>2. ASSUME NEW t \in Tasks, NEW before \in SUBSET Tasks, DispatchFails(before, t)
      PROVE  RunTyped' /\ DepthInv'
  BY <1>0, <1>02, <1>2 DEF RunTyped, DispatchFails, tasks
<1>3. ASSUME NEW k \in Keys, PublishAfterDelay(k) PROVE RunTyped' /\ DepthInv'
  <2>1. [key |-> k, attempt |-> 0] \in Tickets
    BY ConstantsAssumption DEF Tickets, ConstantsAssumption
  <2>2. queue' \subseteq Tickets /\ IsFiniteSet(queue')
    BY <1>0, <1>3, <2>1, PublishFacts DEF RunTyped, PublishAfterDelay
  <2> QED BY <1>02, <1>3, <2>2 DEF PublishAfterDelay, tasks
<1>4. CASE Gone
  <2>1. /\ queue' = {} /\ worker' = [w \in Workers |-> Idle]
        /\ state' = [t \in Tasks |-> "IDLE"] /\ depth' = [t \in Tasks |-> 0]
        /\ forced' = [t \in Tasks |-> "no"]
    BY <1>4 DEF Gone
  <2>2. RunTyped'
    BY <2>1, IdleFacts, FS_EmptySet DEF RunTyped, HoldsTicket, TaskStates
  <2>3. \A t \in Tasks : Inside(t)' = {} /\ Forced(t)' = 0
    BY <2>1, IdleFacts DEF Inside, Forced
  <2>4. DepthInv'
    BY <2>1, <2>3, FS_EmptySet DEF DepthInv
  <2> QED BY <2>2, <2>4
<1>5. CASE Down \/ \E written \in SUBSET Tasks : Crash(written)
  BY <1>4, <1>5 DEF Down, Crash
<1>6. CASE Shutdown
  <2>1. /\ worker' \in [Workers -> WorkerStates]
        /\ \A w \in Workers : worker'[w] = worker[w]
                              \/ (worker[w].pc = "wait" /\ worker'[w] = Idle)
    <3>1. worker' = [w \in Workers |-> IF worker[w].pc = "wait" THEN Idle ELSE worker[w]]
      BY <1>6 DEF Shutdown
    <3>2. worker \in [Workers -> WorkerStates] /\ Idle \in WorkerStates
      BY <1>0, IdleFacts DEF RunTyped
    <3> QED BY <3>1, <3>2
  <2>2. state' \in [Tasks -> TaskStates]
        /\ \A t \in Tasks : state'[t] = "IDLE" => state[t] = "IDLE"
    BY <1>0, <1>6 DEF Shutdown, RunTyped, TaskStates
  <2> QED BY <1>03, <1>6, <2>1, <2>2 DEF Shutdown
<1>7. CASE Leave
  <2>1. /\ worker' \in [Workers -> WorkerStates]
        /\ \A w \in Workers : worker'[w] = worker[w]
                              \/ (worker[w].pc = "wait" /\ worker'[w] = Idle)
    <3>1. \/ worker' = [w \in Workers |-> IF worker[w].pc = "wait" THEN Idle ELSE worker[w]]
          \/ worker' = worker
      BY <1>7, Zenon DEF Leave
    <3>2. worker \in [Workers -> WorkerStates] /\ Idle \in WorkerStates
      BY <1>0, IdleFacts DEF RunTyped
    <3> QED BY <3>1, <3>2
  <2>2. state' \in [Tasks -> TaskStates]
        /\ \A t \in Tasks : state'[t] = "IDLE" => state[t] = "IDLE"
    BY <1>0, <1>7 DEF Leave, RunTyped, TaskStates
  <2> QED BY <1>03, <1>7, <2>1, <2>2 DEF Leave
<1>8. CASE Enter
  <2>1. state' \in [Tasks -> TaskStates]
        /\ \A t \in Tasks : state'[t] = "IDLE" => state[t] = "IDLE"
    BY <1>0, <1>8 DEF Enter, RunTyped, TaskStates
  <2>2. UNCHANGED <<queue, worker, depth, forced>>
    BY <1>8 DEF Enter
  <2>3. worker' \in [Workers -> WorkerStates] /\ \A w \in Workers : worker'[w] = worker[w]
    BY <1>0, <2>2 DEF RunTyped
  <2> QED BY <1>03, <2>1, <2>2, <2>3
<1>9. ASSUME NEW t \in Tasks, ForceRun(t) PROVE RunTyped' /\ DepthInv'
  <2>1. /\ RunEnters(t) /\ forced[t] = "no" /\ UNCHANGED <<queue, worker>>
        /\ forced' = [forced EXCEPT ![t] = IF Entered(t) THEN "inside" ELSE "outside"]
    BY <1>9 DEF ForceRun
  <2>2. RunTyped'
    BY <1>0, <2>1, RunEntersFacts DEF RunTyped, HoldsTicket
  <2>3. ASSUME NEW u \in Tasks
        PROVE  /\ depth'[u] = Cardinality(Inside(u))' + Forced(u)'
               /\ state'[u] = "IDLE" => depth'[u] = 0
    <3>1. Inside(u)' = Inside(u)
      BY <2>1 DEF Inside
    <3>2. Forced(u)' = Forced(u) + (IF Entered(t) /\ u = t THEN 1 ELSE 0)
      BY <1>0, <2>1 DEF Forced, RunTyped
    <3>3. depth'[u] = depth[u] + (IF Entered(t) /\ u = t THEN 1 ELSE 0)
      BY <1>0, <2>1, RunEntersFacts DEF RunTyped
    <3>4. state'[u] = "IDLE" => state[u] = "IDLE" /\ u # t
      BY <2>1, RunEntersFacts
    <3>5. depth[u] = Cardinality(Inside(u)) + Forced(u) /\ (state[u] = "IDLE" => depth[u] = 0)
      BY <1>0 DEF DepthInv
    <3> QED BY <1>01, <3>1, <3>2, <3>3, <3>4, <3>5
  <2> QED BY <2>2, <2>3 DEF DepthInv
<1>10. ASSUME NEW t \in Tasks, ForceRunEnds(t) PROVE RunTyped' /\ DepthInv'
  <2> DEFINE in == forced[t] = "inside"
  <2>1. /\ RunLeaves(t, in) /\ UNCHANGED <<queue, worker>>
        /\ forced' = [forced EXCEPT ![t] = "no"]
    BY <1>10 DEF ForceRunEnds
  <2>2. in \in BOOLEAN /\ (in => depth[t] > 0)
    BY <1>0, <1>01 DEF DepthInv, Forced
  <2>3. RunTyped'
    BY <1>0, <2>1, <2>2, RunLeavesFacts DEF RunTyped, HoldsTicket
  <2>4. ASSUME NEW u \in Tasks
        PROVE  /\ depth'[u] = Cardinality(Inside(u))' + Forced(u)'
               /\ state'[u] = "IDLE" => depth'[u] = 0
    <3>1. Inside(u)' = Inside(u)
      BY <2>1 DEF Inside
    <3>2. Forced(u)' = Forced(u) - (IF in /\ u = t THEN 1 ELSE 0)
      BY <1>0, <2>1 DEF Forced, RunTyped
    <3>3. IF in /\ u = t THEN depth'[u] = depth[u] - 1 ELSE depth'[u] = depth[u]
      <4> HIDE DEF in
      <4> QED BY <1>0, <2>1, <2>2, RunLeavesFacts
    <3>4. state'[u] = "IDLE" => depth'[u] = 0
      BY <2>1, <2>2, RunLeavesFacts
    <3>5. depth[u] = Cardinality(Inside(u)) + Forced(u)
      BY <1>0 DEF DepthInv
    <3> QED BY <1>01, <3>1, <3>2, <3>3, <3>4, <3>5
  <2> QED BY <2>3, <2>4 DEF DepthInv
<1>11. ASSUME NEW w \in Workers, NEW ticket \in Tickets, Take(w, ticket)
       PROVE  RunTyped' /\ DepthInv'
  <2> DEFINE t == ticket.key[1]
             r == [pc |-> "run", ticket |-> ticket, inside |-> Entered(t)]
  <2>1. /\ worker[w].pc = "idle" /\ queue' = queue \ {ticket}
        /\ worker' = [worker EXCEPT ![w] = r]
        /\ RunEnters(t) /\ UNCHANGED forced
    BY <1>11 DEF Take
  <2>2. t \in Tasks /\ Entered(t) \in BOOLEAN
    BY DEF Tickets, Keys, Entered
  <2>3. r \in WorkerStates /\ r.pc = "run" /\ r.ticket = ticket /\ r.inside = Entered(t)
    BY <2>2 DEF WorkerStates
  <2> HIDE DEF r
  <2>4. RunTyped'
    <3>1. queue' \subseteq Tickets /\ IsFiniteSet(queue')
      BY <1>0, <2>1, FS_RemoveElement DEF RunTyped
    <3>2. worker' \in [Workers -> WorkerStates] /\ HoldsTicket'
      BY <1>0, <2>1, <2>3 DEF RunTyped, HoldsTicket
    <3> QED BY <1>0, <2>1, <2>2, <3>1, <3>2, RunEntersFacts DEF RunTyped
  <2>5. ASSUME NEW u \in Tasks
        PROVE  /\ depth'[u] = Cardinality(Inside(u))' + Forced(u)'
               /\ state'[u] = "IDLE" => depth'[u] = 0
    <3>1. Cardinality(Inside(u))' =
            Cardinality(Inside(u)) + (IF Entered(t) /\ u = t THEN 1 ELSE 0)
      BY <2>1, <2>3, WorkerEnters
    <3>2. Forced(u)' = Forced(u)
      BY <2>1 DEF Forced
    <3>3. depth'[u] = depth[u] + (IF Entered(t) /\ u = t THEN 1 ELSE 0)
      BY <1>0, <2>1, <2>2, RunEntersFacts DEF RunTyped
    <3>4. state'[u] = "IDLE" => state[u] = "IDLE" /\ u # t
      BY <2>1, <2>2, RunEntersFacts
    <3>5. depth[u] = Cardinality(Inside(u)) + Forced(u) /\ (state[u] = "IDLE" => depth[u] = 0)
      BY <1>0 DEF DepthInv
    <3> HIDE DEF t
    <3> QED BY <1>01, <3>1, <3>2, <3>3, <3>4, <3>5
  <2> QED BY <2>4, <2>5 DEF DepthInv
\* A worker that ends a run, with a ticket in hand or without.
<1>12. ASSUME NEW w \in Workers, Running(w), NEW r \in WorkerStates, r.pc # "run",
              r.pc = "backoff" => r.ticket \in Tickets,
              worker' = [worker EXCEPT ![w] = r],
              RunLeaves(worker[w].ticket.key[1], worker[w].inside),
              UNCHANGED <<queue, forced>>
       PROVE  RunTyped' /\ DepthInv'
  <2> DEFINE t == worker[w].ticket.key[1]
             in == worker[w].inside
  <2>1. t \in Tasks /\ in \in BOOLEAN /\ worker[w].pc = "run"
    BY <1>0, <1>12 DEF RunTyped, HoldsTicket, Running, Tickets, Keys, WorkerStates
  <2>2. in => depth[t] > 0
    <3>1. in => Cardinality(Inside(t)) > 0
      BY <1>12, <2>1, WorkerLeaves
    <3>2. depth[t] = Cardinality(Inside(t)) + Forced(t)
      BY <1>0, <2>1 DEF DepthInv
    <3> HIDE DEF t, in
    <3> QED BY <1>01, <2>1, <3>1, <3>2
  <2>3. RunTyped'
    <3>1. worker' \in [Workers -> WorkerStates] /\ HoldsTicket'
      BY <1>0, <1>12 DEF RunTyped, HoldsTicket
    <3> QED BY <1>0, <1>12, <2>1, <2>2, <3>1, RunLeavesFacts DEF RunTyped
  <2>4. ASSUME NEW u \in Tasks
        PROVE  /\ depth'[u] = Cardinality(Inside(u))' + Forced(u)'
               /\ state'[u] = "IDLE" => depth'[u] = 0
    <3>1. IF in /\ u = t THEN Cardinality(Inside(u))' = Cardinality(Inside(u)) - 1
                         ELSE Cardinality(Inside(u))' = Cardinality(Inside(u))
      BY <1>12, <2>1, WorkerLeaves
    <3>2. Forced(u)' = Forced(u)
      BY <1>12 DEF Forced
    <3>3. IF in /\ u = t THEN depth'[u] = depth[u] - 1 ELSE depth'[u] = depth[u]
      BY <1>12, <2>1, <2>2, RunLeavesFacts
    <3>4. state'[u] = "IDLE" => depth'[u] = 0
      BY <1>12, <2>1, <2>2, RunLeavesFacts
    <3>5. depth[u] = Cardinality(Inside(u)) + Forced(u)
      BY <1>0 DEF DepthInv
    <3> HIDE DEF t, in
    <3> QED BY <1>01, <3>1, <3>2, <3>3, <3>4, <3>5
  <2> QED BY <2>3, <2>4 DEF DepthInv
<1>13. ASSUME NEW w \in Workers, Done(w) PROVE RunTyped' /\ DepthInv'
  BY <1>12, <1>13, AgainFacts DEF Done
<1>14. ASSUME NEW w \in Workers, Fail(w) PROVE RunTyped' /\ DepthInv'
  <2> DEFINE n == worker[w].ticket.attempt + 1
             k == [worker[w].ticket EXCEPT !.attempt = n]
             r == [pc |-> "backoff", inside |-> FALSE, ticket |-> k]
  <2>1. /\ Running(w) /\ UNCHANGED <<queue, forced>>
        /\ RunLeaves(worker[w].ticket.key[1], worker[w].inside)
        /\ IF n < MaxRetries THEN worker' = [worker EXCEPT ![w] = r]
                             ELSE worker' = [worker EXCEPT ![w] = Again]
    BY <1>14 DEF Fail
  <2>2. CASE n < MaxRetries
    <3>1. worker[w].ticket \in Tickets
      BY <1>0, <2>1 DEF RunTyped, HoldsTicket, Running
    <3>2. n \in 0..MaxRetries - 1
      BY <2>2, <3>1, ConstantsAssumption DEF Tickets, ConstantsAssumption
    <3>3. k \in Tickets
      BY <3>1, <3>2 DEF Tickets
    <3> HIDE DEF k
    <3>4. r \in WorkerStates /\ r.pc = "backoff" /\ r.ticket \in Tickets
      BY <3>3 DEF WorkerStates
    <3> HIDE DEF r
    <3> QED BY <1>12, <2>1, <2>2, <3>4
  <2>3. CASE ~(n < MaxRetries)
    BY <1>12, <2>1, <2>3, AgainFacts
  <2> QED BY <2>2, <2>3
\* A worker that neither ends a run nor begins one.
<1>15. ASSUME NEW w \in Workers, worker[w].pc # "run",
              NEW r \in WorkerStates, r.pc \notin {"run", "backoff"},
              worker' = [worker EXCEPT ![w] = r],
              queue' \subseteq Tickets, IsFiniteSet(queue'),
              UNCHANGED <<state, depth, forced>>
       PROVE  RunTyped' /\ DepthInv'
  <2>1. \A t \in Tasks : Inside(t)' = Inside(t) /\ Forced(t)' = Forced(t)
    BY <1>15, WorkerStays DEF Forced
  <2>2. DepthInv'
    BY <1>0, <1>15, <2>1 DEF DepthInv
  <2>3. RunTyped'
    BY <1>0, <1>15 DEF RunTyped, HoldsTicket
  <2> QED BY <2>2, <2>3
<1>16. ASSUME NEW w \in Workers, TakePoison(w) PROVE RunTyped' /\ DepthInv'
  <2> DEFINE r == [worker[w] EXCEPT !.pc = "gone"]
  <2>1. worker' = [worker EXCEPT ![w] = r] /\ worker[w].pc = "idle"
        /\ UNCHANGED <<queue, state, depth, forced>>
    BY <1>16 DEF TakePoison, tasks
  <2>2. r \in WorkerStates /\ r.pc = "gone"
    BY <1>0 DEF RunTyped, WorkerStates
  <2> HIDE DEF r
  <2> QED BY <1>0, <1>15, <2>1, <2>2 DEF RunTyped
<1>17. ASSUME NEW w \in Workers, Retry(w) PROVE RunTyped' /\ DepthInv'
  <2>1. worker' = [worker EXCEPT ![w] = Again] /\ worker[w].pc = "backoff"
        /\ Publish(worker[w].ticket) /\ UNCHANGED <<state, depth, forced>>
    BY <1>17 DEF Retry, tasks
  <2>2. queue' \subseteq Tickets /\ IsFiniteSet(queue')
    BY <1>0, <2>1, PublishFacts DEF RunTyped, HoldsTicket
  <2> QED BY <1>15, <2>1, <2>2, AgainFacts
<1> QED
  BY <1>1, <1>2, <1>3, <1>5, <1>6, <1>7, <1>8, <1>9, <1>10, <1>11, <1>13, <1>14,
     <1>16, <1>17 DEF Next

-----------------------------------------------------------------------------
(* Dates *)

\* A ticket may be under way or issued only if its date is saved.
Used(t, d) == <<t, d>> \in pending \/ issued[<<t, d>>] # 0

LEMMA DatesStep == RunInv /\ DatesInv /\ [Next]_vars => DatesInv'
<1> SUFFICES ASSUME RunInv, DatesInv, [Next]_vars PROVE DatesInv'
  OBVIOUS
<1>0. RestTyped
  BY RunInvParts
<1>01. /\ day \in Nat /\ saved \in [Tasks -> Nat] /\ sent \in [Tasks -> Nat]
       /\ issued \in [Keys -> Nat] /\ pending \subseteq Keys
       /\ \A d \in Days : d \in Nat
  BY <1>0, ConstantsAssumption DEF RestTyped, Days, ConstantsAssumption
\* Steps that leave the dates alone, or only let the process end or drain.
<1>02. ASSUME UNCHANGED <<day, saved, issued>>, pending' \subseteq pending,
              phase' = "up" => phase = "up" /\ UNCHANGED sent
       PROVE  DatesInv'
  BY <1>01, <1>02 DEF DatesInv
<1>1. CASE \/ MarketCloses \/ Enter \/ Leave \/ UNCHANGED vars
           \/ \E t \in Tasks : ForceRun(t) \/ ForceRunEnds(t)
           \/ \E w \in Workers : \/ \E ticket \in Tickets : Take(w, ticket)
                                 \/ TakePoison(w) \/ Done(w) \/ Fail(w) \/ Retry(w)
  <2>1. UNCHANGED <<phase, day, dates, issued>>
    BY <1>1 DEF MarketCloses, Enter, Leave, vars, ForceRun, ForceRunEnds, Take, TakePoison,
                Done, Fail, Retry, clock
  <2> QED BY <1>02, <2>1 DEF dates
<1>2. CASE Shutdown \/ Down
  BY <1>02, <1>2 DEF Shutdown, Down, Gone, clock
<1>3. CASE NextDay
  <2>1. day' = day + 1 /\ UNCHANGED <<phase, saved, sent, pending, issued>>
    BY <1>3 DEF NextDay, dates
  <2> QED BY <1>01, <2>1 DEF DatesInv
<1>4. CASE Start
  <2>1. sent' = saved /\ UNCHANGED <<day, saved, pending, issued>>
    BY <1>4 DEF Start, clock
  <2> QED BY <2>1 DEF DatesInv
\* Steps that save today's date for some tasks and send the tickets of some of these,
\* none of which was sent.
<1>03. ASSUME NEW news \in SUBSET Tasks, NEW told \in SUBSET news,
              saved' = [u \in Tasks |-> IF u \in news THEN day ELSE saved[u]],
              pending' = pending \cup (told \X {day}),
              \A u \in told : phase = "up" /\ sent[u] # day,
              phase' = "up" => \A u \in Tasks : (u \in news \/ saved[u] = day) => sent'[u] = day,
              UNCHANGED <<day, issued>>
       PROVE  DatesInv'
  <2>1. ASSUME NEW u \in Tasks
        PROVE  saved'[u] \in Nat /\ saved'[u] <= day /\ saved[u] <= saved'[u]
               /\ (phase' = "up" /\ saved'[u] = day => sent'[u] = day)
    BY <1>01, <1>03 DEF DatesInv
  <2>2. ASSUME NEW u \in told PROVE ~Used(u, day)
    <3>1. saved[u] # day /\ saved[u] <= day /\ saved[u] \in Nat
      BY <1>01, <1>03, <2>2 DEF DatesInv
    <3>2. day \in Days
      BY <1>0 DEF RestTyped
    <3> QED BY <1>01, <2>2, <3>1, <3>2 DEF DatesInv, Used
  <2>3. ASSUME NEW u \in Tasks, NEW d \in Days,
               <<u, d>> \in pending' \/ issued'[<<u, d>>] # 0
        PROVE  d <= saved'[u]
    <3>1. CASE Used(u, d)
      BY <1>01, <2>1, <3>1 DEF DatesInv, Used
    <3>2. CASE ~Used(u, d)
      <4>1. u \in told /\ d = day
        BY <1>03, <2>3, <3>2 DEF Used
      <4> QED BY <1>01, <1>03, <4>1
    <3> QED BY <3>1, <3>2
  <2>4. ASSUME NEW k \in Keys PROVE issued'[k] <= 1 /\ (k \in pending' => issued'[k] = 0)
    <3>1. CASE k \in pending
      BY <1>03, <3>1 DEF DatesInv
    <3>2. CASE k \notin pending
      <4>1. ASSUME k \in pending' PROVE issued[k] = 0
        <5>1. PICK u \in told : k = <<u, day>>
          BY <1>03, <3>2, <4>1
        <5> QED BY <2>2, <5>1 DEF Used
      <4> QED BY <1>03, <4>1 DEF DatesInv
    <3> QED BY <3>1, <3>2
  <2> QED BY <1>03, <2>1, <2>3, <2>4 DEF DatesInv
<1>5. CASE Dispatch
  <2>1. /\ saved' = [u \in Tasks |-> IF u \in Due THEN day ELSE saved[u]]
        /\ pending' = pending \cup (Due \X {day})
        /\ \A u \in Tasks : sent'[u] = day
        /\ UNCHANGED <<day, issued>> /\ phase = "up"
    BY <1>5 DEF Dispatch, clock
  <2>2. Due \in SUBSET Tasks /\ \A u \in Due : sent[u] # day
    BY DEF Due
  <2> HIDE DEF Due
  <2> QED BY <1>03, <2>1, <2>2
<1>6. ASSUME NEW t \in Tasks, NEW before \in SUBSET Tasks, DispatchFails(before, t)
      PROVE  DatesInv'
  <2>1. /\ saved' = [u \in Tasks |-> IF u \in before THEN day ELSE saved[u]]
        /\ pending' = pending \cup (before \X {day})
        /\ sent' = [u \in Tasks |-> IF u \in before \cup {t} THEN day ELSE sent[u]]
        /\ UNCHANGED <<phase, day, issued>> /\ phase = "up"
        /\ \A u \in before : sent[u] # day
    BY <1>6 DEF DispatchFails, Due, clock
  <2>2. \A u \in Tasks : (u \in before \/ saved[u] = day) => sent'[u] = day
    BY <2>1 DEF DatesInv
  <2> QED BY <1>03, <2>1, <2>2
<1>7. ASSUME NEW written \in SUBSET Tasks, Crash(written) PROVE DatesInv'
  <2>1. /\ saved' = [u \in Tasks |-> IF u \in written THEN day ELSE saved[u]]
        /\ pending' = {} /\ phase' = "down" /\ UNCHANGED <<day, issued>>
    BY <1>7 DEF Crash, Gone, clock
  <2>2. ASSUME NEW u \in Tasks PROVE saved'[u] <= day /\ saved[u] <= saved'[u]
    BY <1>01, <2>1 DEF DatesInv
  <2>3. \A u \in Tasks : saved'[u] \in Nat
    BY <1>01, <2>1
  <2>4. ASSUME NEW u \in Tasks, NEW d \in Days, issued[<<u, d>>] # 0 PROVE d <= saved'[u]
    <3>1. d <= saved[u]
      BY <2>4 DEF DatesInv
    <3> QED BY <1>01, <2>2, <2>3, <3>1
  <2> QED BY <2>1, <2>2, <2>4 DEF DatesInv
<1>8. ASSUME NEW k \in Keys, PublishAfterDelay(k) PROVE DatesInv'
  <2>1. /\ k \in pending /\ pending' = pending \ {k}
        /\ issued' = [issued EXCEPT ![k] = @ + 1]
        /\ UNCHANGED <<phase, day, saved, sent>>
    BY <1>8 DEF PublishAfterDelay, clock
  <2>2. issued[k] = 0
    BY <2>1 DEF DatesInv
  <2>3. ASSUME NEW u \in Tasks, NEW d \in Days,
               <<u, d>> \in pending' \/ issued'[<<u, d>>] # 0
        PROVE  <<u, d>> \in pending \/ issued[<<u, d>>] # 0
    BY <1>01, <2>1, <2>3
  <2>4. ASSUME NEW j \in Keys PROVE issued'[j] <= 1 /\ (j \in pending' => issued'[j] = 0)
    BY <1>01, <2>1, <2>2 DEF DatesInv
  <2> QED BY <2>1, <2>3, <2>4 DEF DatesInv
<1> QED
  BY <1>1, <1>2, <1>3, <1>4, <1>5, <1>6, <1>7, <1>8 DEF Next

-----------------------------------------------------------------------------
(* Gates *)

LEMMA GatesStep == RunInv /\ GatesInv /\ [Next]_vars => GatesInv'
<1> SUFFICES ASSUME RunInv, GatesInv, [Next]_vars PROVE GatesInv'
  OBVIOUS
<1>0. /\ active \in Nat /\ open \in BOOLEAN
      /\ gate \in [Tasks -> BOOLEAN] /\ state \in [Tasks -> TaskStates]
  BY ConstantsAssumption DEF RunInv, TypeOK, TaskStates, ConstantsAssumption
\* Runs begin and end without touching a suspended task.
<1>01. ASSUME UNCHANGED <<phase, open, active, gate>>,
              \A t \in Tasks : state[t] = "SUSPENDED" => state'[t] = "SUSPENDED"
       PROVE  GatesInv'
  BY <1>01 DEF GatesInv
<1>1. CASE \/ MarketCloses \/ NextDay \/ Dispatch \/ UNCHANGED vars
           \/ \E t \in Tasks, before \in SUBSET Tasks : DispatchFails(before, t)
           \/ \E k \in Keys : PublishAfterDelay(k)
           \/ \E w \in Workers : TakePoison(w) \/ Retry(w)
  <2>1. UNCHANGED <<phase, open, active, gate, state>>
    BY <1>1 DEF MarketCloses, NextDay, Dispatch, vars, DispatchFails, PublishAfterDelay,
                TakePoison, Retry, tasks
  <2> QED BY <1>01, <2>1
<1>2. CASE Start
  BY <1>2 DEF Start, GatesInv, tasks
<1>3. CASE Down \/ \E written \in SUBSET Tasks : Crash(written)
  <2>1. Gone
    BY <1>3 DEF Down, Crash
  <2>2. open' = TRUE /\ active' = 0 /\ \A t \in Tasks : gate'[t] = TRUE
    BY <2>1 DEF Gone
  <2> QED BY <2>2 DEF GatesInv
<1>4. CASE Shutdown
  <2>1. open' = TRUE /\ active = 0 /\ UNCHANGED <<active, gate>>
    BY <1>4 DEF Shutdown
  <2>2. \A t \in Tasks : gate[t]
    BY <2>1 DEF GatesInv
  <2> QED BY <2>1, <2>2 DEF GatesInv
<1>5. ASSUME NEW t \in Tasks, NEW inside, RunEnters(t) \/ RunLeaves(t, inside)
      PROVE  \A u \in Tasks : state[u] = "SUSPENDED" => state'[u] = "SUSPENDED"
  BY <1>0, <1>5 DEF RunEnters, RunLeaves, Entered
<1>6. ASSUME NEW t \in Tasks, ForceRun(t) \/ ForceRunEnds(t) PROVE GatesInv'
  BY <1>01, <1>5, <1>6 DEF ForceRun, ForceRunEnds
<1>7. ASSUME NEW w \in Workers, NEW ticket \in Tickets, Take(w, ticket) PROVE GatesInv'
  BY <1>01, <1>5, <1>7 DEF Take, Tickets, Keys
<1>8. ASSUME NEW w \in Workers, Done(w) \/ Fail(w) PROVE GatesInv'
  <2>1. worker[w].ticket.key[1] \in Tasks
    BY <1>8 DEF RunInv, HoldsTicket, Tickets, Keys, Done, Fail, Running
  <2> QED BY <1>01, <1>5, <1>8, <2>1 DEF Done, Fail
<1>9. CASE Enter
  <2>1. active' = active + 1 /\ phase = "up" /\ phase' = "up"
    BY <1>9 DEF Enter
  <2>2. CASE active = 0
    <3>1. /\ open' = FALSE
          /\ \A t \in Tasks : state'[t] = IF state[t] = "RUNNING" THEN "SUSPENDED" ELSE state[t]
          /\ gate' = [t \in Tasks |-> gate[t] /\ state[t] # "RUNNING"]
      BY <1>9, <2>2 DEF Enter
    <3>2. \A t \in Tasks : gate[t]
      BY <2>2 DEF GatesInv
    <3>3. \A t \in Tasks : ~gate'[t] => state[t] = "RUNNING"
      BY <3>1, <3>2, Zenon
    <3> QED BY <1>0, <2>1, <2>2, <3>1, <3>3 DEF GatesInv
  <2>3. CASE active # 0
    BY <1>0, <1>9, <2>1, <2>3 DEF Enter, GatesInv
  <2> QED BY <2>2, <2>3
<1>10. CASE Leave
  <2>1. active' = active - 1 /\ active > 0 /\ phase = "up" /\ phase' = "up"
    BY <1>10 DEF Leave
  <2>2. CASE active = 1
    <3>1. open' = TRUE /\ gate' = [t \in Tasks |-> gate[t] \/ state[t] = "SUSPENDED"]
      BY <1>10, <2>2 DEF Leave
    <3>2. \A t \in Tasks : gate'[t]
      BY <3>1, Zenon DEF GatesInv
    <3> QED BY <2>1, <2>2, <3>1, <3>2 DEF GatesInv
  <2>3. CASE active # 1
    BY <1>0, <1>10, <2>1, <2>3 DEF Leave, GatesInv
  <2> QED BY <2>2, <2>3
<1> QED
  BY <1>1, <1>2, <1>3, <1>4, <1>6, <1>7, <1>8, <1>9, <1>10 DEF Next

-----------------------------------------------------------------------------
(* The theorems *)

LEMMA InitInvs == Init => RunInv /\ DatesInv /\ GatesInv
<1> SUFFICES ASSUME Init PROVE RunInv /\ DatesInv /\ GatesInv
  OBVIOUS
<1>1. RestTyped
  <2>1. 1 \in Days /\ 0 \in 0..MaxDays /\ 0 \in 0..MaxRequests
    BY ConstantsAssumption DEF Days, ConstantsAssumption
  <2>2. open \in BOOLEAN /\ closed \in BOOLEAN /\ gate \in [Tasks -> BOOLEAN]
    BY DEF Init
  <2> QED BY <2>1, <2>2 DEF Init, RestTyped
<1>2. RunTyped
  BY IdleFacts, FS_EmptySet DEF Init, RunTyped, HoldsTicket, TaskStates
<1>3. \A t \in Tasks : Inside(t) = {} /\ Forced(t) = 0
  BY IdleFacts DEF Init, Inside, Forced
<1>4. DepthInv
  BY <1>3, FS_EmptySet DEF Init, DepthInv
<1>5. DatesInv
  BY ConstantsAssumption DEF Init, DatesInv, Keys, Days, ConstantsAssumption
<1>6. GatesInv
  BY DEF Init, GatesInv
<1> QED BY <1>1, <1>2, <1>4, <1>5, <1>6, RunInvParts

LEMMA Inductive == Spec => [](RunInv /\ DatesInv /\ GatesInv)
BY InitInvs, RunInvStep, DatesStep, GatesStep, PTL DEF Spec

\* Every variable keeps its type: depths and tickets stay what they are through
\* crashes, retries and requests.
THEOREM WorkTyped == Spec => []TypeOK
<1>1. RunInv => TypeOK
  BY DEF RunInv
<1> QED BY <1>1, Inductive, PTL

\* No task gets two tickets of a day, over crashes, restarts and failing writes.
THEOREM OnceADay == Spec => []OncePerDay
<1>1. DatesInv => OncePerDay
  BY DEF DatesInv, OncePerDay
<1> QED BY <1>1, Inductive, PTL

\* Pool and tasks are paused exactly while requests are served.
THEOREM PausesMatch == Spec => []PausedByRequests
<1>1. GatesInv => PausedByRequests
  BY DEF GatesInv, PausedByRequests
<1> QED BY <1>1, Inductive, PTL

\* A task shown as idle has no run inside, of the pool or forced by a route.
THEOREM IdleIsIdle == Spec => []IdleHasNoRun
<1>1. RunInv => IdleHasNoRun
  <2> SUFFICES ASSUME RunInv, NEW t \in Tasks, state[t] = "IDLE"
               PROVE  /\ forced[t] # "inside"
                      /\ \A w \in Workers : w \notin Inside(t)
    BY DEF IdleHasNoRun, Inside, Running
  <2>1. Cardinality(Inside(t)) \in Nat /\ IsFiniteSet(Inside(t))
    BY InsideFacts
  <2>2. Cardinality(Inside(t)) + Forced(t) = 0 /\ Forced(t) \in {0, 1}
    BY DEF RunInv, DepthInv, Forced
  <2>3. Cardinality(Inside(t)) = 0 /\ Forced(t) = 0
    BY <2>1, <2>2
  <2>4. Inside(t) = {}
    BY <2>1, <2>3, FS_EmptySet
  <2> QED BY <2>3, <2>4 DEF Forced
<1> QED BY <1>1, Inductive, PTL
=============================================================================
