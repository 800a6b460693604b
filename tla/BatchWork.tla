------------------------------ MODULE BatchWork -------------------------------
(***************************************************************************)
(* The batch work after the close: TimeDispatcher issues one ticket per     *)
(* task and trading day, MessageBroker queues it, WorkerPool runs it with   *)
(* retries, and ForegroundScheduler pauses pool and tasks while a web       *)
(* request that needs the broker's API is served.  BackgroundScheduler      *)
(* starts and stops them; the dates issued survive in SQLite.               *)
(***************************************************************************)
EXTENDS Naturals, FiniteSets

CONSTANTS
    Tasks,          \* tasks of AfterMarketTaskBase with a delay of their own
    Workers,        \* num_workers (1 in production)
    Capacity,       \* maxsize of the queue (100 in production)
    MaxRetries,     \* MAX_RETRIES
    MaxDays,        \* bound: trading days
    MaxRequests     \* bound: foreground requests at a time

\* The queue holds all that is issued and one poison per worker.
ASSUME ConstantsAssumption ==
    /\ IsFiniteSet(Tasks) /\ IsFiniteSet(Workers)
    /\ MaxRetries \in Nat \ {0}
    /\ MaxDays \in Nat \ {0} /\ MaxRequests \in Nat
    /\ Capacity \in Nat

Days == 1..MaxDays
Keys == Tasks \X Days
Tickets == [key : Keys, attempt : 0..MaxRetries - 1]
Nothing == [key |-> <<>>, attempt |-> 0]

VARIABLES
    phase,      \* of the process: "up", "draining" (shutdown), "down"
    day,        \* the trading day of the calendar
    closed,     \* its market has closed
    saved,      \* the date per task in SQLite
    sent,       \* _task_dispatched_dates
    pending,    \* publications that sleep their delay
    queue,      \* tickets
    poisons,    \* poison tickets, which leave the queue first
    worker,     \* what each worker does: "wait" (for the resume event), "idle" (past
                \* it, at the queue), "run", "backoff", "gone"; its ticket; inside
                \* says that _running_state counted the run
    open,       \* _resume_event
    active,     \* _active_count
    state,      \* TaskState per task
    gate,       \* _suspend_event per task
    depth,      \* _running_depth per task
    forced,     \* force_run of the task: "no", "inside", "outside"
    issued,     \* how often a ticket was published, over all processes
    settled     \* tickets that ended: done, or in the dead-letter file
                \* (the last two are no fields of the program)

clock == <<day, closed>>
dates == <<saved, sent, pending>>
tasks == <<state, gate, depth, forced>>
vars == <<phase, clock, dates, queue, poisons, worker, open, active, tasks, issued,
          settled>>

WorkerStates == [pc : {"wait", "idle", "run", "backoff", "gone"},
                 ticket : Tickets \cup {Nothing}, inside : BOOLEAN]

TypeOK ==
    /\ phase \in {"up", "draining", "down"}
    /\ day \in Days /\ closed \in BOOLEAN
    /\ saved \in [Tasks -> 0..MaxDays] /\ sent \in [Tasks -> 0..MaxDays]
    /\ pending \subseteq Keys
    /\ queue \subseteq Tickets /\ poisons \in Nat
    /\ worker \in [Workers -> WorkerStates]
    /\ open \in BOOLEAN /\ active \in 0..MaxRequests
    /\ state \in [Tasks -> {"IDLE", "RUNNING", "SUSPENDED", "STOPPED"}]
    /\ gate \in [Tasks -> BOOLEAN]
    /\ depth \in [Tasks -> Nat]
    /\ forced \in [Tasks -> {"no", "inside", "outside"}]
    /\ issued \in [Keys -> Nat] /\ settled \subseteq Keys

Idle == [pc |-> "idle", ticket |-> Nothing, inside |-> FALSE]

Init ==
    /\ phase = "down"
    /\ day = 1 /\ closed = FALSE
    /\ saved = [t \in Tasks |-> 0] /\ sent = [t \in Tasks |-> 0]
    /\ pending = {} /\ queue = {} /\ poisons = 0
    /\ worker = [w \in Workers |-> Idle]
    /\ open = TRUE /\ active = 0
    /\ state = [t \in Tasks |-> "IDLE"] /\ gate = [t \in Tasks |-> TRUE]
    /\ depth = [t \in Tasks |-> 0] /\ forced = [t \in Tasks |-> "no"]
    /\ issued = [k \in Keys |-> 0] /\ settled = {}

-----------------------------------------------------------------------------
(* The calendar *)

MarketCloses ==
    /\ ~closed /\ closed' = TRUE
    /\ UNCHANGED <<phase, day, dates, queue, poisons, worker, open, active, tasks,
                   issued, settled>>

NextDay ==
    /\ closed /\ day < MaxDays
    /\ day' = day + 1 /\ closed' = FALSE
    /\ UNCHANGED <<phase, dates, queue, poisons, worker, open, active, tasks,
                   issued, settled>>

-----------------------------------------------------------------------------
(* The process *)

\* register_task reads the dates, start_all starts workers, dispatcher and tasks.
Start ==
    /\ phase = "down"
    /\ phase' = "up"
    /\ sent' = saved
    /\ UNCHANGED <<clock, saved, pending, queue, poisons, worker, open, active, tasks,
                   issued, settled>>

\* What was in memory is as in a process that starts.
Gone ==
    /\ phase' = "down"
    /\ sent' = [t \in Tasks |-> 0]
    /\ pending' = {} /\ queue' = {} /\ poisons' = 0
    /\ worker' = [w \in Workers |-> Idle]
    /\ open' = TRUE /\ active' = 0
    /\ state' = [t \in Tasks |-> "IDLE"] /\ gate' = [t \in Tasks |-> TRUE]
    /\ depth' = [t \in Tasks |-> 0] /\ forced' = [t \in Tasks |-> "no"]

\* The process dies; written: the dates a dispatch had saved, of all it was to send.
Crash(written) ==
    /\ phase # "down"
    /\ \/ written = {}
       \/ /\ phase = "up" /\ closed
          /\ \A t \in written : sent[t] # day
    /\ Gone
    /\ saved' = [t \in Tasks |-> IF t \in written THEN day ELSE saved[t]]
    /\ UNCHANGED <<clock, issued, settled>>

\* Mutant of Poison: one short.
PoisonOneShort(n) == n - 1

\* The poisons that find room in the queue.
Poison(n) ==
    IF Cardinality(queue) + n <= Capacity THEN n
    ELSE IF Cardinality(queue) >= Capacity THEN 0 ELSE Capacity - Cardinality(queue)

\* BackgroundScheduler.shutdown: dispatcher and its sleeping publications, tasks,
\* then the poisons.  The server lets its requests end first.
Shutdown ==
    /\ phase = "up" /\ active = 0
    /\ phase' = "draining"
    /\ pending' = {}
    /\ state' = [t \in Tasks |-> IF state[t] \in {"RUNNING", "SUSPENDED"} THEN "STOPPED"
                                 ELSE state[t]]
    /\ open' = TRUE
    /\ worker' = [w \in Workers |-> IF worker[w].pc = "wait" THEN Idle ELSE worker[w]]
    /\ poisons' = Poison(Cardinality(Workers))
    /\ UNCHANGED <<clock, saved, sent, queue, active, gate, depth, forced, issued,
                   settled>>

\* The gather over the workers returns and the process ends.
Down ==
    /\ phase = "draining"
    /\ \A w \in Workers : worker[w].pc = "gone"
    /\ Gone
    /\ UNCHANGED <<clock, saved, issued, settled>>

-----------------------------------------------------------------------------
(* TimeDispatcher *)

Due == {t \in Tasks : sent[t] # day}

\* Mutant of Dispatch: the date is saved when the ticket is published.
DispatchUnsaved ==
    /\ phase = "up" /\ closed /\ Due # {}
    /\ sent' = [t \in Tasks |-> day]
    /\ pending' = pending \cup (Due \X {day})
    /\ UNCHANGED <<phase, clock, saved, queue, poisons, worker, open, active, tasks,
                   issued, settled>>

\* _maybe_dispatch after the close: every task that is due gets its date, in memory
\* and on disk, and a task that publishes after the delay.
Dispatch ==
    /\ phase = "up" /\ closed /\ Due # {}
    /\ sent' = [t \in Tasks |-> day]
    /\ saved' = [t \in Tasks |-> IF t \in Due THEN day ELSE saved[t]]
    /\ pending' = pending \cup (Due \X {day})
    /\ UNCHANGED <<phase, clock, queue, poisons, worker, open, active, tasks,
                   issued, settled>>

\* Writing the date of t fails: those before it are sent, t has its date in memory
\* only, the others wait for the next poll.
DispatchFails(before, t) ==
    /\ phase = "up" /\ closed
    /\ t \in Due /\ before \subseteq Due \ {t}
    /\ sent' = [u \in Tasks |-> IF u \in before \cup {t} THEN day ELSE sent[u]]
    /\ saved' = [u \in Tasks |-> IF u \in before THEN day ELSE saved[u]]
    /\ pending' = pending \cup (before \X {day})
    /\ UNCHANGED <<phase, clock, queue, poisons, worker, open, active, tasks,
                   issued, settled>>

\* MessageBroker.publish: a full queue drops the ticket.
Publish(ticket) ==
    queue' = IF Cardinality(queue) + poisons < Capacity THEN queue \cup {ticket} ELSE queue

\* _publish_after_delay
PublishAfterDelay(k) ==
    /\ phase = "up" /\ k \in pending
    /\ pending' = pending \ {k}
    /\ Publish([key |-> k, attempt |-> 0])
    /\ issued' = [issued EXCEPT ![k] = @ + 1]
    /\ UNCHANGED <<phase, clock, saved, sent, poisons, worker, open, active, tasks,
                   settled>>

-----------------------------------------------------------------------------
(* AfterMarketTaskBase *)

Entered(t) == state[t] \notin {"SUSPENDED", "STOPPED"}

\* _running_state, on the way in ...
RunEnters(t) ==
    IF Entered(t)
    THEN /\ depth' = [depth EXCEPT ![t] = @ + 1]
         /\ state' = [state EXCEPT ![t] = "RUNNING"]
    ELSE UNCHANGED <<depth, state>>

\* Mutant of RunLeaves: the state falls back when the first of two runs ends.
RunLeavesFirst(t, inside) ==
    IF inside
    THEN /\ depth' = [depth EXCEPT ![t] = @ - 1]
         /\ state' = [state EXCEPT ![t] = IF @ = "RUNNING" THEN "IDLE" ELSE @]
    ELSE UNCHANGED <<depth, state>>

\* ... and on the way out.
RunLeaves(t, inside) ==
    IF inside
    THEN /\ depth' = [depth EXCEPT ![t] = @ - 1]
         /\ state' = [state EXCEPT ![t] =
                        IF depth[t] = 1 /\ @ = "RUNNING" THEN "IDLE" ELSE @]
    ELSE UNCHANGED <<depth, state>>

\* A route runs the task at once, beside the pool.
ForceRun(t) ==
    /\ phase = "up" /\ forced[t] = "no"
    /\ RunEnters(t)
    /\ forced' = [forced EXCEPT ![t] = IF Entered(t) THEN "inside" ELSE "outside"]
    /\ UNCHANGED <<phase, clock, dates, queue, poisons, worker, open, active, gate,
                   issued, settled>>

ForceRunEnds(t) ==
    /\ phase # "down" /\ forced[t] # "no"
    /\ RunLeaves(t, forced[t] = "inside")
    /\ forced' = [forced EXCEPT ![t] = "no"]
    /\ UNCHANGED <<phase, clock, dates, queue, poisons, worker, open, active, gate,
                   issued, settled>>

-----------------------------------------------------------------------------
(* WorkerPool *)

\* Back at the top of the loop.
Again == [Idle EXCEPT !.pc = IF open THEN "idle" ELSE "wait"]

\* consume: the worker takes a ticket, and its handler enters _running_state.
Take(w, ticket) ==
    LET t == ticket.key[1]
    IN  /\ phase # "down" /\ worker[w].pc = "idle"
        /\ poisons = 0 /\ ticket \in queue
        /\ queue' = queue \ {ticket}
        /\ worker' = [worker EXCEPT ![w] =
                        [pc |-> "run", ticket |-> ticket, inside |-> Entered(t)]]
        /\ RunEnters(t)
        /\ UNCHANGED <<phase, clock, dates, poisons, open, active, gate, forced,
                       issued, settled>>

TakePoison(w) ==
    /\ phase # "down" /\ worker[w].pc = "idle" /\ poisons > 0
    /\ poisons' = poisons - 1
    /\ worker' = [worker EXCEPT ![w].pc = "gone"]
    /\ UNCHANGED <<phase, clock, dates, queue, open, active, tasks, issued, settled>>

Running(w) == worker[w].pc = "run"

\* The handler returns.
Done(w) ==
    /\ Running(w)
    /\ worker' = [worker EXCEPT ![w] = Again]
    /\ settled' = settled \cup {worker[w].ticket.key}
    /\ RunLeaves(worker[w].ticket.key[1], worker[w].inside)
    /\ UNCHANGED <<phase, clock, dates, queue, poisons, open, active, gate, forced,
                   issued>>

\* The handler raises: the worker sleeps before it publishes the ticket again, or the
\* ticket goes to the dead-letter file.
Fail(w) ==
    LET attempt == worker[w].ticket.attempt + 1
    IN  /\ Running(w)
        /\ IF attempt < MaxRetries
           THEN /\ worker' = [worker EXCEPT ![w] =
                                [pc |-> "backoff", inside |-> FALSE,
                                 ticket |-> [worker[w].ticket EXCEPT !.attempt = attempt]]]
                /\ UNCHANGED settled
           ELSE /\ worker' = [worker EXCEPT ![w] = Again]
                /\ settled' = settled \cup {worker[w].ticket.key}
        /\ RunLeaves(worker[w].ticket.key[1], worker[w].inside)
        /\ UNCHANGED <<phase, clock, dates, queue, poisons, open, active, gate, forced,
                       issued>>

\* Mutant of Retry: the worker forgets the ticket it held back.
RetryForgets(w) ==
    /\ worker[w].pc = "backoff"
    /\ worker' = [worker EXCEPT ![w] = Again]
    /\ UNCHANGED <<phase, clock, dates, queue, poisons, open, active, tasks, issued,
                   settled>>

Retry(w) ==
    /\ worker[w].pc = "backoff"
    /\ Publish(worker[w].ticket)
    /\ worker' = [worker EXCEPT ![w] = Again]
    /\ UNCHANGED <<phase, clock, dates, poisons, open, active, tasks, issued, settled>>

-----------------------------------------------------------------------------
(* ForegroundScheduler.context; suspend and resume of the tasks never wait *)

\* The first request in pauses the pool, then the tasks that run.
Enter ==
    /\ phase = "up" /\ active < MaxRequests
    /\ active' = active + 1
    /\ IF active = 0
       THEN /\ open' = FALSE
            /\ state' = [t \in Tasks |-> IF state[t] = "RUNNING" THEN "SUSPENDED" ELSE state[t]]
            /\ gate' = [t \in Tasks |-> gate[t] /\ state[t] # "RUNNING"]
               ELSE UNCHANGED <<open, state, gate>>
    /\ UNCHANGED <<phase, clock, dates, queue, poisons, worker, depth, forced,
                   issued, settled>>

\* Mutant of Leave: a task is resumed by its state only.
LeaveShut ==
    /\ phase = "up" /\ active > 0
    /\ active' = active - 1
    /\ IF active = 1
       THEN /\ open' = TRUE
            /\ worker' = [w \in Workers |-> IF worker[w].pc = "wait" THEN Idle ELSE worker[w]]
            /\ state' = [t \in Tasks |-> IF state[t] = "SUSPENDED" THEN "RUNNING" ELSE state[t]]
       ELSE UNCHANGED <<open, worker, state>>
    /\ UNCHANGED <<phase, clock, dates, queue, poisons, gate, depth, forced, issued,
                   settled>>

\* The last request out resumes them; the workers at the event are let through.
Leave ==
    /\ phase = "up" /\ active > 0
    /\ active' = active - 1
    /\ IF active = 1
       THEN /\ open' = TRUE
            /\ worker' = [w \in Workers |-> IF worker[w].pc = "wait" THEN Idle ELSE worker[w]]
            /\ state' = [t \in Tasks |-> IF state[t] = "SUSPENDED" THEN "RUNNING" ELSE state[t]]
            /\ gate' = [t \in Tasks |-> gate[t] \/ state[t] = "SUSPENDED"]
       ELSE UNCHANGED <<open, worker, state, gate>>
    /\ UNCHANGED <<phase, clock, dates, queue, poisons, depth, forced, issued, settled>>

-----------------------------------------------------------------------------

Next ==
    \/ MarketCloses \/ NextDay
    \/ Start \/ Shutdown \/ Down
    \/ \E written \in SUBSET Tasks : Crash(written)
    \/ Dispatch
    \/ \E t \in Tasks : \E before \in SUBSET Tasks : DispatchFails(before, t)
    \/ \E k \in Keys : PublishAfterDelay(k)
    \/ \E t \in Tasks : ForceRun(t) \/ ForceRunEnds(t)
    \/ \E w \in Workers : \/ \E ticket \in Tickets : Take(w, ticket)
                          \/ TakePoison(w) \/ Done(w) \/ Fail(w) \/ Retry(w)
    \/ Enter \/ Leave

\* What a worker does at the queue.
Serve(w) == TakePoison(w) \/ \E ticket \in Tickets : Take(w, ticket)

\* A handler waits at the gate of its task between two chunks; every time the gate
\* opens it gets a chunk further, however soon the gate shuts again.  The event of the
\* pool lets through whoever waits when it is set.  Requests end, and do not overlap
\* each other for ever: the work after the close starves under a load that does.
Fairness ==
    /\ WF_vars(Leave) /\ SF_vars(active = 1 /\ Leave) /\ WF_vars(Down)
    /\ \A w \in Workers :
        /\ SF_vars(Serve(w)) /\ WF_vars(Retry(w))
        /\ SF_vars(/\ Running(w)
                   /\ gate[worker[w].ticket.key[1]]
                   /\ (Done(w) \/ Fail(w)))

Spec == Init /\ [][Next]_vars /\ Fairness

-----------------------------------------------------------------------------
(* What must hold *)

\* One ticket per task and trading day, over crashes, restarts and failing writes.
OncePerDay == \A k \in Keys : issued[k] <= 1

\* Pool and tasks are paused exactly while a request is served, and no task stays
\* suspended, or shut at its gate, when nobody is there to resume it.
PausedByRequests ==
    /\ phase = "up" => (open <=> active = 0)
    /\ \A t \in Tasks : ~gate[t] => state[t] = "SUSPENDED" /\ active > 0

\* A task shown as idle has no run that counted itself in, of the pool or forced.
IdleHasNoRun ==
    \A t \in Tasks : state[t] = "IDLE" =>
        /\ forced[t] # "inside"
        /\ \A w \in Workers : ~(Running(w) /\ worker[w].inside /\ worker[w].ticket.key[1] = t)

\* A ticket in the queue or with a worker ends, by success or in the dead-letter file,
\* unless the process ends first.
InWork(k) ==
    \/ \E ticket \in queue : ticket.key = k
    \/ \E w \in Workers : worker[w].ticket.key = k /\ worker[w].pc \in {"run", "backoff"}

TicketsSettle == \A k \in Keys : InWork(k) ~> (k \in settled \/ phase # "up")

\* A shutdown ends.
ShutdownEnds == phase = "draining" ~> phase = "down"

=============================================================================
