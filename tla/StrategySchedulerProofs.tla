----------------------- MODULE StrategySchedulerProofs ------------------------
(***************************************************************************)
(* Proofs about StrategyScheduler, for any number of loop tasks, days,      *)
(* stops and shares: its life, its loops, its stops and what it remembers   *)
(* of them, whether or not orders and retries linger; and that it is flat   *)
(* at the close of the day, if they do not.                                 *)
(***************************************************************************)
EXTENDS StrategyScheduler, TLAPS

LEMMA Constants == NoLoop \notin Loops /\ "stop" \notin Loops /\ "retry" \notin Loops
BY ConstantsAssumption DEF ConstantsAssumption

-----------------------------------------------------------------------------
(* The invariant *)

\* What an actor is to trade does not matter here.
Shaped(j) ==
    j \in [pc : {"none", "top", "wait", "plan", "submit", "disable", "close"},
           side : {j.side}, qty : {j.qty}, forced : {j.forced},
           cancelled : BOOLEAN, awaits : Loops \cup {NoLoop}]

ShapeInv ==
    /\ job = [a \in Actors |-> job[a]] /\ \A a \in Actors : Shaped(job[a])
    /\ task \in Loops \cup {NoLoop}
    /\ call \in {"none", "one", "all", "save", "restore"}
    /\ left \in {"on", "off", "unknown"}

NoneAlive == \A l \in Loops : ~Alive(l)

\* Where a call to stop, or the restore, may be.
CallInv ==
    /\ call = "none" <=> At("stop", "none")
    /\ At("stop", "wait") \/ At("stop", "close") => call \in {"all", "save"}
    /\ call = "restore" => running /\ ~halted
    /\ ~up => ~running /\ call = "none" /\ task = NoLoop /\ ~halted /\ NoneAlive

\* As long as no request to start has crossed a stop: the loop in hand is the only one,
\* and a stop or a shutdown waits for it or has seen its end.
LoopInv ==
    ~crossed =>
        /\ call \in {"none", "one"} /\ running =>
              \A l \in Loops : (Alive(l) <=> l = task) /\ (Alive(l) => ~job[l].cancelled)
        /\ call \in {"none", "one"} /\ ~running => NoneAlive
        /\ call = "restore" => NoneAlive
        /\ call \in {"all", "save"} =>
              /\ ~running
              /\ \A l \in Loops : Alive(l) => At("stop", "wait") /\ l = job["stop"].awaits
        /\ At("stop", "close") => ~enabled
        /\ halted => ~running /\ ~enabled /\ NoneAlive

\* What the shutdown wrote is still there when the next process reads it.
LeftInv ==
    (~up \/ call = "save") /\ left # "unknown" => (saved = "on" <=> left = "on")

LifeInv == ShapeInv /\ CallInv /\ LoopInv /\ LeftInv

-----------------------------------------------------------------------------
(* Shapes *)

LEMMA ActorFacts == /\ "stop" \in Actors /\ "retry" \in Actors /\ Loops \subseteq Actors
                    /\ \A l \in Loops : l # "stop" /\ l # "retry" /\ l # NoLoop
BY Constants DEF Actors

LEMMA NoJobFacts == /\ Shaped(NoJob) /\ NoJob.pc = "none" /\ ~NoJob.cancelled
BY DEF Shaped, NoJob

LEMMA PcFacts ==
    ASSUME NEW pc \in {"none", "top", "wait", "plan", "submit", "disable", "close"},
           NEW j, Shaped(j)
    PROVE  /\ Shaped([NoJob EXCEPT !.pc = pc]) /\ [NoJob EXCEPT !.pc = pc].pc = pc
           /\ ~[NoJob EXCEPT !.pc = pc].cancelled
           /\ Shaped([j EXCEPT !.pc = pc]) /\ [j EXCEPT !.pc = pc].pc = pc
           /\ [j EXCEPT !.pc = pc].awaits = j.awaits
BY DEF Shaped, NoJob

LEMMA SellFacts ==
    ASSUME NEW n, NEW forced
    PROVE  /\ Shaped(Sell(n, forced))
           /\ Sell(n, forced).pc = IF n = 0 THEN "top" ELSE "submit"
           /\ ~Sell(n, forced).cancelled
<1> DEFINE a == [NoJob EXCEPT !.pc = "submit"]
           b == [a EXCEPT !.side = "SELL"]
           c == [b EXCEPT !.qty = n]
           d == [c EXCEPT !.forced = forced]
<1>1. Shaped(a) /\ a.pc = "submit" /\ ~a.cancelled
  BY NoJobFacts, PcFacts
<1> HIDE DEF a
<1>2. Shaped(b) /\ b.pc = "submit" /\ ~b.cancelled
  BY <1>1 DEF Shaped
<1> HIDE DEF b
<1>3. Shaped(c) /\ c.pc = "submit" /\ ~c.cancelled
  BY <1>2 DEF Shaped
<1> HIDE DEF c
<1>4. Shaped(d) /\ d.pc = "submit" /\ ~d.cancelled
  BY <1>3 DEF Shaped
<1>5. Sell(n, forced) = IF n = 0 THEN [NoJob EXCEPT !.pc = "top"] ELSE d
  BY DEF Sell, a, b, c, d
<1> HIDE DEF d
<1> QED BY <1>4, <1>5, PcFacts, NoJobFacts

LEMMA BuyFacts ==
    ASSUME NEW n
    PROVE  LET b == [NoJob EXCEPT !.pc = "submit", !.side = "BUY", !.qty = n]
           IN  Shaped(b) /\ b.pc = "submit" /\ ~b.cancelled
<1> DEFINE a == [NoJob EXCEPT !.pc = "submit"]
           b == [a EXCEPT !.side = "BUY"]
           c == [b EXCEPT !.qty = n]
<1>1. Shaped(a) /\ a.pc = "submit" /\ ~a.cancelled
  BY NoJobFacts, PcFacts
<1> HIDE DEF a
<1>2. Shaped(b) /\ b.pc = "submit" /\ ~b.cancelled
  BY <1>1 DEF Shaped
<1> HIDE DEF b
<1>3. Shaped(c) /\ c.pc = "submit" /\ ~c.cancelled
  BY <1>2 DEF Shaped
<1>4. c = [NoJob EXCEPT !.pc = "submit", !.side = "BUY", !.qty = n]
  BY DEF a, b, c
<1> HIDE DEF c
<1> QED BY <1>3, <1>4

\* One actor's job is replaced.
LEMMA OneJob ==
    ASSUME ShapeInv, NEW a \in Actors, NEW j, Shaped(j), job' = [job EXCEPT ![a] = j]
    PROVE  /\ job' = [b \in Actors |-> job'[b]] /\ \A b \in Actors : Shaped(job'[b])
           /\ job'[a] = j /\ \A b \in Actors \ {a} : job'[b] = job[b]
BY DEF ShapeInv

-----------------------------------------------------------------------------
(* Steps *)

\* Steps that leave the life as it is: the loops that were alive are, and only they; the
\* call that stops is where it was.
LEMMA QuietStep ==
    ASSUME LifeInv,
           job' = [a \in Actors |-> job'[a]], \A a \in Actors : Shaped(job'[a]),
           UNCHANGED <<up, running, enabled, task, call, crossed, halted, saved, left>>,
           job'["stop"] = job["stop"],
           \A l \in Loops : /\ job'[l].pc = "none" <=> job[l].pc = "none"
                            /\ job'[l].cancelled => job[l].cancelled
    PROVE  LifeInv'
<1>1. ShapeInv'
  BY DEF LifeInv, ShapeInv, Shaped
<1>2. CallInv'
  BY DEF LifeInv, CallInv, At, NoneAlive, Alive
<1>3. LoopInv'
  BY DEF LifeInv, LoopInv, At, NoneAlive, Alive
<1>4. LeftInv'
  BY DEF LifeInv, LeftInv
<1> QED BY <1>1, <1>2, <1>3, <1>4 DEF LifeInv

\* Steps that move the call that stops, with the loops as they are.
LEMMA StopMoves ==
    ASSUME LifeInv, NEW j, Shaped(j), job' = [job EXCEPT !["stop"] = j],
           UNCHANGED <<up, running, enabled, task, call, crossed, halted, saved, left>>,
           job["stop"].pc # "none", job["stop"].pc # "wait" \/ NoneAlive,
           j.pc \in {"plan", "submit", "disable"}, up
    PROVE  LifeInv'
<1>0. /\ job' = [b \in Actors |-> job'[b]] /\ \A b \in Actors : Shaped(job'[b])
      /\ job'["stop"] = j /\ \A l \in Loops : job'[l] = job[l]
  BY OneJob, ActorFacts DEF LifeInv
<1>1. ShapeInv'
  BY <1>0 DEF LifeInv, ShapeInv, Shaped
<1>2. CallInv'
  BY <1>0 DEF LifeInv, CallInv, At, NoneAlive, Alive
<1>3. LoopInv'
  BY <1>0 DEF LifeInv, LoopInv, At, NoneAlive, Alive
<1>4. LeftInv'
  BY DEF LifeInv, LeftInv
<1> QED BY <1>1, <1>2, <1>3, <1>4 DEF LifeInv

LEMMA AnswerStep ==
    ASSUME LifeInv, NEW a \in Actors, Deferred(a) \/ Taken(a) \/ Refused(a) \/ Blocked(a)
    PROVE  LifeInv'
<1>1. At(a, "submit") /\ Answered(a)
      /\ UNCHANGED <<up, running, enabled, task, call, crossed, halted, saved, left>>
  BY DEF Deferred, Taken, Refused, Blocked, Submits, life, disk, asked
<1> DEFINE pc == IF a \in Loops THEN "top" ELSE IF a = "stop" THEN "disable" ELSE "none"
           j == [NoJob EXCEPT !.pc = pc]
<1>2. Shaped(j) /\ j.pc = pc /\ ~j.cancelled
  BY PcFacts, NoJobFacts
<1>3. job' = [job EXCEPT ![a] = j]
  BY <1>1 DEF Answered
<1> HIDE DEF j
<1>4. CASE a = "stop"
  <2>1. up
    BY <1>1, <1>4 DEF LifeInv, CallInv, At
  <2> QED BY <1>1, <1>2, <1>3, <1>4, <2>1, ActorFacts, StopMoves DEF At
<1>5. CASE a # "stop"
  <2>1. /\ job' = [b \in Actors |-> job'[b]] /\ \A b \in Actors : Shaped(job'[b])
        /\ job'[a] = j /\ \A b \in Actors \ {a} : job'[b] = job[b]
    BY <1>2, <1>3, OneJob DEF LifeInv
  <2> QED BY <1>1, <1>2, <1>5, <2>1, ActorFacts, QuietStep DEF At
<1> QED BY <1>4, <1>5

LEMMA LoopWorks ==
    ASSUME LifeInv, NEW l \in Loops, ForceExit(l) \/ RunStrategy(l) PROVE LifeInv'
<1>1. PICK j : /\ Shaped(j) /\ j.pc \in {"top", "submit"} /\ ~j.cancelled
               /\ job' = [job EXCEPT ![l] = j]
  <2>1. CASE ForceExit(l)
    <3>1. PICK n : job' = [job EXCEPT ![l] = Sell(n, TRUE)]
      <4>1. PICK answered \in BOOLEAN : job' = [job EXCEPT ![l] =
               Sell(IF Tier(Progress) = 2 THEN Liquidation(answered)
                    ELSE Liquidation(answered) \div 2, TRUE)]
        BY <2>1 DEF ForceExit
      <4> QED BY <4>1
    <3> QED BY <3>1, SellFacts
  <2>2. CASE RunStrategy(l)
    <3>1. \/ job' = [job EXCEPT ![l] = Sell(ledger, FALSE)]
          \/ job' = [job EXCEPT ![l] = [NoJob EXCEPT !.pc = "submit", !.side = "BUY", !.qty = Qty]]
      BY <2>2 DEF RunStrategy
    <3> QED BY <3>1, SellFacts, BuyFacts
  <2> QED BY <2>1, <2>2
<1>2. At(l, "top") /\ UNCHANGED <<up, running, enabled, task, call, crossed, halted, saved, left>>
  BY DEF ForceExit, RunStrategy, Turns, life, disk, asked
<1>3. /\ job' = [b \in Actors |-> job'[b]] /\ \A b \in Actors : Shaped(job'[b])
      /\ job'[l] = j /\ \A b \in Actors \ {l} : job'[b] = job[b]
  BY <1>1, OneJob, ActorFacts DEF LifeInv
<1> QED BY <1>1, <1>2, <1>3, ActorFacts, QuietStep DEF At

LEMMA LoopGoes == ASSUME LifeInv, NEW l \in Loops, LoopEnds(l) PROVE LifeInv'
<1>0. /\ job' = [b \in Actors |-> job'[b]] /\ \A b \in Actors : Shaped(job'[b])
      /\ job'[l] = NoJob /\ \A b \in Actors \ {l} : job'[b] = job[b]
  BY OneJob, NoJobFacts, ActorFacts DEF LifeInv, LoopEnds
<1>1. Alive(l) /\ (~running \/ job[l].cancelled)
      /\ UNCHANGED <<up, running, enabled, task, call, crossed, halted, saved, left>>
  <2>1. UNCHANGED <<up, running, enabled, task, call, crossed, halted, saved, left>>
    BY DEF LoopEnds, life, disk, asked
  <2>2. CASE At(l, "top") /\ ~running
    <3>1. job[l].pc = "top"
      BY <2>2 DEF At
    <3>2. Alive(l)
      BY <3>1 DEF Alive
    <3> QED BY <2>1, <2>2, <3>2
  <2>3. CASE Alive(l) /\ job[l].cancelled
    BY <2>1, <2>3
  <2> QED BY <2>2, <2>3, Zenon DEF LoopEnds
<1>2. /\ job'["stop"] = job["stop"] /\ \A k \in Loops \ {l} : job'[k] = job[k]
      /\ job'[l].pc = "none"
  BY <1>0, ActorFacts, NoJobFacts
<1>3. ShapeInv'
  BY <1>0, <1>1 DEF LifeInv, ShapeInv, Shaped
<1>4. CallInv'
  BY <1>1, <1>2 DEF LifeInv, CallInv, At, NoneAlive, Alive
<1>5. LoopInv'
  BY <1>1, <1>2 DEF LifeInv, LoopInv, At, NoneAlive, Alive
<1>6. LeftInv'
  BY <1>1 DEF LifeInv, LeftInv
<1> QED BY <1>3, <1>4, <1>5, <1>6 DEF LifeInv

LEMMA Wakes == ASSUME LifeInv, RetryWakes PROVE LifeInv'
<1>1. UNCHANGED <<up, running, enabled, task, call, crossed, halted, saved, left>>
  BY DEF RetryWakes, life, disk, asked
<1>2. CASE UNCHANGED job
  BY <1>1, <1>2, QuietStep DEF LifeInv, ShapeInv
<1>3. CASE job' = [job EXCEPT !["retry"] = Sell(Again(retry), TRUE)]
  <2>1. /\ job' = [b \in Actors |-> job'[b]] /\ \A b \in Actors : Shaped(job'[b])
        /\ \A b \in Actors \ {"retry"} : job'[b] = job[b]
    BY <1>3, OneJob, SellFacts, ActorFacts DEF LifeInv
  <2> QED BY <1>1, <2>1, ActorFacts, QuietStep
<1> QED BY <1>2, <1>3 DEF RetryWakes

LEMMA Unmoved ==
    ASSUME LifeInv, UNCHANGED <<job, up, running, enabled, task, call, crossed, halted, saved, left>>
    PROVE  LifeInv'
BY QuietStep DEF LifeInv, ShapeInv

LEMMA NewLoopFacts ==
    ASSUME ShapeInv, NewLoop
    PROVE  /\ job' = [b \in Actors |-> job'[b]] /\ \A b \in Actors : Shaped(job'[b])
           /\ task' \in Loops /\ job'[task'].pc = "top" /\ ~job'[task'].cancelled
           /\ \A l \in Loops \ {task'} : job'[l] = job[l]
           /\ job'["stop"] = IF call = "restore" THEN NoJob ELSE job["stop"]
<1> DEFINE i == IF call = "restore" THEN NoJob ELSE job["stop"]
           one == [job EXCEPT !["stop"] = i]
           j == [NoJob EXCEPT !.pc = "top"]
<1>1. Shaped(i)
  BY NoJobFacts, ActorFacts DEF ShapeInv
<1>2. Shaped(j) /\ j.pc = "top" /\ ~j.cancelled
  BY NoJobFacts, PcFacts
<1>3. task' \in Loops
  BY DEF NewLoop
<1>4. job' = [one EXCEPT ![task'] = j]
  BY DEF NewLoop
<1>5. /\ one = [b \in Actors |-> one[b]] /\ one["stop"] = i
      /\ \A b \in Actors \ {"stop"} : one[b] = job[b]
  BY ActorFacts DEF ShapeInv
<1>6. \A b \in Actors : Shaped(one[b])
  <2> HIDE DEF one, i
  <2> QED BY <1>1, <1>5 DEF ShapeInv
<1> HIDE DEF one, j
<1>7. /\ job' = [b \in Actors |-> job'[b]] /\ job'[task'] = j
      /\ \A b \in Actors \ {task'} : job'[b] = one[b]
  BY <1>3, <1>4, <1>5, ActorFacts
<1> QED BY <1>2, <1>3, <1>5, <1>6, <1>7, ActorFacts

\* A request to start, that makes a loop or finds one.
LEMMA StartStep ==
    ASSUME LifeInv, up, Asked, running' = TRUE, UNCHANGED <<up, call, left>>,
           \/ NewLoop /\ ~running
           \/ UNCHANGED <<task, job>> /\ (~running => task # NoLoop /\ Alive(task))
    PROVE  LifeInv'
<1>1. call \notin {"restore", "save"} /\ halted' = FALSE
  BY DEF Asked, Serves
<1>2. ~crossed' => ~crossed /\ job["stop"].pc = "none"
  <2>1. crossed' = (crossed \/ ~At("stop", "none"))
    BY DEF Asked
  <2> QED BY <2>1, Zenon DEF At
<1>3. ShapeInv'
  <2>1. CASE NewLoop
    BY <1>1, <2>1, NewLoopFacts DEF LifeInv, ShapeInv, Shaped
  <2>2. CASE UNCHANGED <<task, job>>
    BY <2>2 DEF LifeInv, ShapeInv, Shaped
  <2> QED BY <2>1, <2>2
<1>4. job'["stop"] = job["stop"]
  BY <1>1, NewLoopFacts DEF LifeInv
<1>5. CallInv'
  BY <1>1, <1>4 DEF LifeInv, CallInv, At
<1>6. LoopInv'
  <2> SUFFICES ASSUME ~crossed' PROVE LoopInv'
    BY DEF LoopInv
  <2>1. ~crossed /\ call = "none" /\ job'["stop"].pc = "none"
    BY <1>2, <1>4 DEF LifeInv, CallInv, At
  <2>2. \A l \in Loops : (Alive(l)' <=> l = task') /\ (Alive(l)' => ~job'[l].cancelled)
    <3>1. CASE NewLoop /\ ~running
      <4>1. NoneAlive
        BY <2>1, <3>1 DEF LifeInv, LoopInv
      <4>2. /\ task' \in Loops /\ job'[task'].pc = "top" /\ ~job'[task'].cancelled
            /\ \A l \in Loops \ {task'} : job'[l] = job[l]
        BY <3>1, NewLoopFacts DEF LifeInv
      <4> QED BY <4>1, <4>2 DEF NoneAlive, Alive
    <3>2. CASE UNCHANGED <<task, job>> /\ (~running => task # NoLoop /\ Alive(task))
      <4>1. running
        BY <2>1, <3>2 DEF LifeInv, LoopInv, ShapeInv, NoneAlive
      <4> QED BY <2>1, <3>2, <4>1 DEF LifeInv, LoopInv, Alive
    <3> QED BY <3>1, <3>2
  <2> QED BY <1>1, <2>1, <2>2 DEF LoopInv, At
<1>7. LeftInv'
  BY <1>1 DEF LeftInv
<1> QED BY <1>3, <1>5, <1>6, <1>7 DEF LifeInv

\* stop cancels the loop in hand, and waits for it if there is one.
LEMMA StopLoopFacts ==
    ASSUME LifeInv, StopLoop, At("stop", "none")
    PROVE  /\ job' = [b \in Actors |-> job'[b]] /\ \A b \in Actors : Shaped(job'[b])
           /\ job'["stop"].pc = IF task = NoLoop THEN "plan" ELSE "wait"
           /\ task # NoLoop => job'["stop"].awaits = task
           /\ \A l \in Loops : job'[l].pc = job[l].pc
<1>1. CASE task = NoLoop
  <2> DEFINE j == [job["stop"] EXCEPT !.pc = "plan"]
  <2>1. Shaped(j) /\ j.pc = "plan"
    BY ActorFacts, PcFacts DEF LifeInv, ShapeInv
  <2>2. job' = [job EXCEPT !["stop"] = j]
    BY <1>1 DEF StopLoop
  <2> HIDE DEF j
  <2> QED BY <1>1, <2>1, <2>2, OneJob, ActorFacts DEF LifeInv
<1>2. CASE task # NoLoop
  <2> DEFINE w == [NoJob EXCEPT !.pc = "wait", !.awaits = task]
             v == [NoJob EXCEPT !.pc = "wait"]
             c(a) == [job[a] EXCEPT !.cancelled = @ \/ (a = task /\ Alive(a))]
  <2>1. Shaped(v) /\ v.pc = "wait"
    BY NoJobFacts, PcFacts
  <2>2. w = [v EXCEPT !.awaits = task]
    OBVIOUS
  <2>3. Shaped(w) /\ w.pc = "wait" /\ w.awaits = task
    <3> HIDE DEF v
    <3>1. Shaped(v) /\ w = [v EXCEPT !.awaits = task]
      BY <2>1, <2>2
    <3> HIDE DEF w
    <3> QED BY <2>1, <3>1 DEF LifeInv, ShapeInv, Shaped
  <2>4. ASSUME NEW a \in Actors PROVE Shaped(c(a)) /\ c(a).pc = job[a].pc
    <3>1. Shaped(job[a])
      BY DEF LifeInv, ShapeInv
    <3> DEFINE b == job[a].cancelled \/ (a = task /\ Alive(a))
    <3>2. b \in BOOLEAN
      BY Zenon
    <3>3. c(a) = [job[a] EXCEPT !.cancelled = b]
      OBVIOUS
    <3> HIDE DEF b, c
    <3> QED BY <3>1, <3>2, <3>3 DEF Shaped
  <2>5. job' = [a \in Actors |-> IF a = "stop" THEN w ELSE c(a)]
    BY <1>2 DEF StopLoop
  <2> HIDE DEF w, c
  <2>6. job' = [b \in Actors |-> job'[b]] /\ \A b \in Actors : Shaped(job'[b])
    BY <2>3, <2>4, <2>5
  <2> QED BY <1>2, <2>3, <2>4, <2>5, <2>6, ActorFacts
<1> QED BY <1>1, <1>2

\* stop, and the shutdown's, which has noted what it saved.
LEMMA StopBegins ==
    ASSUME LifeInv, up, StopLoop, At("stop", "none"), call' \in {"all", "save"},
           UNCHANGED <<up, task, enabled, crossed, halted>>,
           left' \in {"on", "off", "unknown"},
           call' = "save" /\ left' # "unknown" => (saved' = "on" <=> left' = "on")
    PROVE  LifeInv'
<1>0. /\ job' = [b \in Actors |-> job'[b]] /\ \A b \in Actors : Shaped(job'[b])
      /\ job'["stop"].pc = IF task = NoLoop THEN "plan" ELSE "wait"
      /\ task # NoLoop => job'["stop"].awaits = task
      /\ \A l \in Loops : job'[l].pc = job[l].pc
  BY StopLoopFacts
<1>1. running' = FALSE
  BY DEF StopLoop
<1>2. ShapeInv'
  BY <1>0 DEF LifeInv, ShapeInv, Shaped
<1>3. CallInv'
  BY <1>0, <1>1 DEF LifeInv, CallInv, At, NoneAlive, Alive
<1>4. LoopInv'
  <2> SUFFICES ASSUME ~crossed PROVE LoopInv'
    BY DEF LoopInv
  <2>1. call = "none"
    BY DEF LifeInv, CallInv
  <2>2. \A l \in Loops : Alive(l)' => l = task
    BY <1>0, <2>1 DEF LifeInv, LoopInv, NoneAlive, Alive
  <2>3. halted => ~enabled /\ NoneAlive'
    BY <1>0 DEF LifeInv, LoopInv, NoneAlive, Alive
  <2> QED BY <1>0, <1>1, <2>2, <2>3, ActorFacts DEF LoopInv, At
<1>5. LeftInv'
  BY DEF LeftInv
<1> QED BY <1>2, <1>3, <1>4, <1>5 DEF LifeInv

LEMMA StopStep == ASSUME LifeInv, Stop \/ Shutdown PROVE LifeInv'
<1>1. up /\ StopLoop /\ At("stop", "none") /\ UNCHANGED <<up, task, enabled, crossed, halted>>
  BY DEF Stop, Shutdown, Serves
<1>2. CASE Stop
  BY <1>1, <1>2, StopBegins DEF Stop, LifeInv, ShapeInv
<1>3. CASE Shutdown
  <2>1. /\ call' = "save" /\ saved' = Saved(enabled)
        /\ left' = IF store THEN saved' ELSE "unknown"
    BY <1>3 DEF Shutdown
  <2>2. store => saved' \in {"on", "off"}
    BY <2>1 DEF Saved
  <2> QED BY <1>1, <2>1, <2>2, StopBegins
<1> QED BY <1>2, <1>3

LEMMA StopStrategyStep == ASSUME LifeInv, StopStrategy PROVE LifeInv'
<1> DEFINE j == [job["stop"] EXCEPT !.pc = "plan"]
<1>1. Shaped(j) /\ j.pc = "plan"
  BY ActorFacts, PcFacts DEF LifeInv, ShapeInv
<1>2. /\ up /\ job["stop"].pc = "none" /\ call' = "one"
      /\ UNCHANGED <<up, running, enabled, task, crossed, halted, saved, left>>
      /\ job' = [job EXCEPT !["stop"] = j]
  BY DEF StopStrategy, Serves, At, disk
<1> HIDE DEF j
<1>3. /\ job' = [b \in Actors |-> job'[b]] /\ \A b \in Actors : Shaped(job'[b])
      /\ job'["stop"] = j /\ \A l \in Loops : job'[l] = job[l]
  BY <1>1, <1>2, OneJob, ActorFacts DEF LifeInv
<1>4. call = "none"
  BY <1>2 DEF LifeInv, CallInv, At
<1>5. ShapeInv'
  BY <1>2, <1>3 DEF LifeInv, ShapeInv, Shaped
<1>6. CallInv'
  BY <1>1, <1>2, <1>3 DEF LifeInv, CallInv, At, NoneAlive, Alive
<1>7. LoopInv'
  BY <1>1, <1>2, <1>3, <1>4 DEF LifeInv, LoopInv, At, NoneAlive, Alive
<1>8. LeftInv'
  BY <1>2 DEF LifeInv, LeftInv
<1> QED BY <1>5, <1>6, <1>7, <1>8 DEF LifeInv

LEMMA StopWaitedStep == ASSUME LifeInv, StopWaited PROVE LifeInv'
<1> DEFINE j == [NoJob EXCEPT !.pc = "plan"]
<1>1. Shaped(j) /\ j.pc = "plan"
  BY NoJobFacts, PcFacts
<1>2. /\ job["stop"].pc = "wait" /\ ~Alive(job["stop"].awaits) /\ task' = NoLoop
      /\ UNCHANGED <<up, running, enabled, call, crossed, halted, saved, left>>
      /\ job' = [job EXCEPT !["stop"] = j]
  BY DEF StopWaited, At, disk, asked
<1> HIDE DEF j
<1>3. /\ job' = [b \in Actors |-> job'[b]] /\ \A b \in Actors : Shaped(job'[b])
      /\ job'["stop"] = j /\ \A l \in Loops : job'[l] = job[l]
  BY <1>1, <1>2, OneJob, ActorFacts DEF LifeInv
<1>4. call \in {"all", "save"}
  BY <1>2 DEF LifeInv, CallInv, At
<1>5. ~crossed => NoneAlive
  BY <1>2, <1>4 DEF LifeInv, LoopInv, NoneAlive
<1>6. ShapeInv'
  BY <1>2, <1>3 DEF LifeInv, ShapeInv, Shaped
<1>7. CallInv'
  BY <1>1, <1>2, <1>3 DEF LifeInv, CallInv, At, NoneAlive, Alive
<1>8. LoopInv'
  BY <1>1, <1>2, <1>3, <1>4, <1>5 DEF LifeInv, LoopInv, At, NoneAlive, Alive
<1>9. LeftInv'
  BY <1>2 DEF LifeInv, LeftInv
<1> QED BY <1>6, <1>7, <1>8, <1>9 DEF LifeInv

LEMMA StopPlansStep == ASSUME LifeInv, StopPlans PROVE LifeInv'
<1>1. PICK n : job' = [job EXCEPT !["stop"] =
                         IF n = 0 THEN [NoJob EXCEPT !.pc = "disable"] ELSE Sell(n, TRUE)]
  <2>1. PICK answered \in BOOLEAN :
           LET n == IF enabled /\ call # "save" THEN Liquidation(answered) ELSE 0
           IN  job' = [job EXCEPT !["stop"] =
                         IF n = 0 THEN [NoJob EXCEPT !.pc = "disable"] ELSE Sell(n, TRUE)]
    BY DEF StopPlans
  <2> QED BY <2>1
<1> DEFINE j == IF n = 0 THEN [NoJob EXCEPT !.pc = "disable"] ELSE Sell(n, TRUE)
<1>2. Shaped(j) /\ j.pc \in {"disable", "submit"}
  <2>1. CASE n = 0
    BY <2>1, NoJobFacts, PcFacts
  <2>2. CASE n # 0
    BY <2>2, SellFacts
  <2> QED BY <2>1, <2>2
<1>3. /\ job["stop"].pc = "plan" /\ job' = [job EXCEPT !["stop"] = j]
      /\ UNCHANGED <<up, running, enabled, task, call, crossed, halted, saved, left>>
  BY <1>1 DEF StopPlans, At, life, disk, asked
<1> HIDE DEF j
<1>4. up
  BY <1>3 DEF LifeInv, CallInv, At
<1> QED BY <1>2, <1>3, <1>4, StopMoves

LEMMA StopDisablesStep == ASSUME LifeInv, StopDisables PROVE LifeInv'
<1> DEFINE j == IF call = "one" THEN NoJob ELSE [job["stop"] EXCEPT !.pc = "close"]
<1>1. Shaped(j) /\ j.pc = IF call = "one" THEN "none" ELSE "close"
  BY NoJobFacts, PcFacts, ActorFacts DEF LifeInv, ShapeInv
<1>2. /\ job["stop"].pc = "disable" /\ call # "restore" /\ enabled' = FALSE
      /\ call' = IF call = "one" THEN "none" ELSE call
      /\ call # "one" => UNCHANGED saved
      /\ UNCHANGED <<up, running, task, crossed, halted, left>>
      /\ job' = [job EXCEPT !["stop"] = j]
  BY DEF StopDisables, At
<1> HIDE DEF j
<1>3. /\ job' = [b \in Actors |-> job'[b]] /\ \A b \in Actors : Shaped(job'[b])
      /\ job'["stop"] = j /\ \A l \in Loops : job'[l] = job[l]
  BY <1>1, <1>2, OneJob, ActorFacts DEF LifeInv
<1>4. call \in {"one", "all", "save"} /\ up
  BY <1>2 DEF LifeInv, ShapeInv, CallInv, At
<1>5. ShapeInv'
  BY <1>2, <1>3 DEF LifeInv, ShapeInv, Shaped
<1>6. CallInv'
  BY <1>1, <1>2, <1>3, <1>4 DEF LifeInv, CallInv, At, NoneAlive, Alive
<1>7. LoopInv'
  BY <1>1, <1>2, <1>3, <1>4 DEF LifeInv, LoopInv, At, NoneAlive, Alive
<1>8. LeftInv'
  BY <1>2, <1>4 DEF LifeInv, LeftInv
<1> QED BY <1>5, <1>6, <1>7, <1>8 DEF LifeInv

LEMMA StopClosesStep == ASSUME LifeInv, StopCloses PROVE LifeInv'
<1>1. /\ job["stop"].pc = "close" /\ call = "all" /\ call' = "none"
      /\ UNCHANGED <<up, running, enabled, task, crossed, left>>
      /\ job' = [job EXCEPT !["stop"] = NoJob]
  BY DEF StopCloses, At
<1>2. halted' = (halted \/ ~running)
  BY DEF StopCloses
<1>3. /\ job' = [b \in Actors |-> job'[b]] /\ \A b \in Actors : Shaped(job'[b])
      /\ job'["stop"] = NoJob /\ \A l \in Loops : job'[l] = job[l]
  BY <1>1, OneJob, NoJobFacts, ActorFacts DEF LifeInv
<1>4. ShapeInv'
  BY <1>1, <1>3 DEF LifeInv, ShapeInv, Shaped
<1>5. up
  BY <1>1 DEF LifeInv, CallInv
<1>6. CallInv'
  BY <1>1, <1>3, <1>5, NoJobFacts DEF LifeInv, CallInv, At
<1>7. LoopInv'
  <2> SUFFICES ASSUME ~crossed PROVE LoopInv'
    BY <1>1 DEF LoopInv
  <2>1. ~running /\ ~enabled /\ NoneAlive
    BY <1>1 DEF LifeInv, LoopInv, NoneAlive, At
  <2> QED BY <1>1, <1>3, <2>1, NoJobFacts DEF LoopInv, NoneAlive, Alive, At
<1>8. LeftInv'
  BY <1>1, <1>5 DEF LeftInv
<1> QED BY <1>4, <1>6, <1>7, <1>8 DEF LifeInv

\* The process is gone.
LEMMA Gone ==
    ASSUME LifeInv, Forget, left' \in {"on", "off", "unknown"},
           left' # "unknown" => (saved' = "on" <=> left' = "on")
    PROVE  LifeInv'
<1>1. /\ up' = FALSE /\ running' = FALSE /\ enabled' = FALSE /\ task' = NoLoop
      /\ call' = "none" /\ job' = [a \in Actors |-> NoJob] /\ halted' = FALSE
  BY DEF Forget
<1>2. \A a \in Actors : job'[a] = NoJob
  BY <1>1
<1>3. ShapeInv'
  BY <1>1, <1>2, NoJobFacts DEF LifeInv, ShapeInv, Shaped
<1>4. CallInv'
  BY <1>1, <1>2, NoJobFacts, ActorFacts DEF CallInv, At, NoneAlive, Alive
<1>5. LoopInv'
  BY <1>1, <1>2, NoJobFacts, ActorFacts DEF LoopInv, At, NoneAlive, Alive
<1>6. LeftInv'
  BY <1>1 DEF LeftInv
<1> QED BY <1>3, <1>4, <1>5, <1>6 DEF LifeInv

LEMMA GoneStep == ASSUME LifeInv, ProcessEnds \/ Crash PROVE LifeInv'
<1>1. CASE ProcessEnds
  BY <1>1, Gone DEF ProcessEnds, LifeInv, ShapeInv, LeftInv
<1>2. CASE Crash
  BY <1>2, Gone DEF Crash
<1> QED BY <1>1, <1>2

\* A process starts: it runs if the saved state says so, once the restore is over.
LEMMA RestoreStep == ASSUME LifeInv, Restore PROVE LifeInv'
<1>0. /\ ~up /\ up' = TRUE /\ UNCHANGED <<task, crossed, halted, saved, left>>
      /\ ~running /\ call = "none" /\ task = NoLoop /\ ~halted /\ NoneAlive
      /\ job["stop"].pc = "none"
  BY DEF Restore, asked, LifeInv, CallInv, At
<1>1. CASE saved = "on"
  <2>1. running' = TRUE /\ call' = "restore"
    BY <1>1 DEF Restore
  <2>2. PICK n : job' = [job EXCEPT !["stop"] = IF n = 0 THEN [NoJob EXCEPT !.pc = "disable"]
                                               ELSE Sell(n, slot # Slots.Regular)]
    BY <1>1 DEF Restore
  <2> DEFINE j == IF n = 0 THEN [NoJob EXCEPT !.pc = "disable"]
                  ELSE Sell(n, slot # Slots.Regular)
  <2>3. Shaped(j) /\ j.pc \in {"disable", "submit"}
    BY NoJobFacts, PcFacts, SellFacts
  <2>4. job' = [job EXCEPT !["stop"] = j]
    BY <2>2
  <2> HIDE DEF j
  <2>5. /\ job' = [b \in Actors |-> job'[b]] /\ \A b \in Actors : Shaped(job'[b])
        /\ job'["stop"] = j /\ \A l \in Loops : job'[l] = job[l]
    BY <2>3, <2>4, OneJob, ActorFacts DEF LifeInv
  <2>6. ShapeInv'
    BY <1>0, <2>1, <2>5 DEF LifeInv, ShapeInv, Shaped
  <2>7. CallInv'
    BY <1>0, <2>1, <2>3, <2>5 DEF CallInv, At
  <2>8. LoopInv'
    BY <1>0, <2>1, <2>3, <2>5 DEF LoopInv, At, NoneAlive, Alive
  <2>9. LeftInv'
    BY <1>0, <2>1 DEF LeftInv
  <2> QED BY <2>6, <2>7, <2>8, <2>9 DEF LifeInv
<1>2. CASE saved # "on"
  <2>1. UNCHANGED <<enabled, running, call, job>>
    BY <1>2 DEF Restore
  <2>2. ShapeInv'
    BY <1>0, <2>1 DEF LifeInv, ShapeInv, Shaped
  <2>3. CallInv'
    BY <1>0, <2>1 DEF CallInv, At
  <2>4. LoopInv'
    BY <1>0, <2>1 DEF LoopInv, At, NoneAlive, Alive
  <2>5. LeftInv'
    BY <1>0, <2>1 DEF LeftInv
  <2> QED BY <2>2, <2>3, <2>4, <2>5 DEF LifeInv
<1> QED BY <1>1, <1>2

LEMMA RestoreEndsStep == ASSUME LifeInv, RestoreEnds PROVE LifeInv'
<1>1. /\ call = "restore" /\ call' = "none" /\ NewLoop
      /\ UNCHANGED <<up, running, enabled, crossed, halted, saved, left>>
  BY DEF RestoreEnds, disk, asked
<1>2. up /\ ~halted
  BY <1>1 DEF LifeInv, CallInv
<1>3. /\ job' = [b \in Actors |-> job'[b]] /\ \A b \in Actors : Shaped(job'[b])
      /\ task' \in Loops /\ job'[task'].pc = "top" /\ ~job'[task'].cancelled
      /\ \A l \in Loops \ {task'} : job'[l] = job[l]
      /\ job'["stop"].pc = "none"
  BY <1>1, NewLoopFacts, NoJobFacts DEF LifeInv
<1>4. ShapeInv'
  BY <1>1, <1>3 DEF LifeInv, ShapeInv, Shaped
<1>5. CallInv'
  BY <1>1, <1>2, <1>3 DEF CallInv, At
<1>6. LoopInv'
  <2> SUFFICES ASSUME ~crossed PROVE LoopInv'
    BY <1>1 DEF LoopInv
  <2>1. NoneAlive /\ running
    BY <1>1 DEF LifeInv, LoopInv, CallInv
  <2> QED BY <1>1, <1>2, <1>3, <2>1 DEF LoopInv, NoneAlive, Alive, At
<1>7. LeftInv'
  BY <1>1, <1>2 DEF LeftInv
<1> QED BY <1>4, <1>5, <1>6, <1>7 DEF LifeInv

LEMMA LifeStep == LifeInv /\ [Next]_vars => LifeInv'
<1> SUFFICES ASSUME LifeInv, [Next]_vars PROVE LifeInv'
  OBVIOUS
<1>1. CASE \/ NextSlot \/ NextDay
           \/ Executes \/ Reported \/ LedgerMisses \/ Dies \/ DeferredGoes
           \/ \E l \in Loops : Pass(l)
           \/ UNCHANGED vars
  <2>1. UNCHANGED <<job, up, running, enabled, task, call, crossed, halted, saved, left>>
    BY <1>1 DEF NextSlot, NextDay, Executes, Reported, LedgerMisses, Dies, DeferredGoes, Pass,
                life, disk, asked, vars
  <2> QED BY <2>1, Unmoved
<1>2. CASE \E a \in Actors : Deferred(a) \/ Taken(a) \/ Refused(a) \/ Blocked(a)
  BY <1>2, AnswerStep
<1>3. CASE \E l \in Loops : ForceExit(l) \/ RunStrategy(l) \/ LoopEnds(l)
  BY <1>3, LoopWorks, LoopGoes
<1>4. CASE RetryWakes
  BY <1>4, Wakes
<1>5. CASE Start \/ StartStrategy
  <2>1. up /\ Asked /\ running' = TRUE /\ UNCHANGED <<up, call, left>>
    BY <1>5 DEF Start, StartStrategy, Asked, Serves
  <2>2. CASE Start
    BY <2>1, <2>2, StartStep DEF Start
  <2>3. CASE StartStrategy
    <3>1. CASE ~running /\ (task = NoLoop \/ ~Alive(task))
      BY <2>1, <2>3, <3>1, StartStep DEF StartStrategy
    <3>2. CASE ~(~running /\ (task = NoLoop \/ ~Alive(task)))
      <4>1. UNCHANGED <<task, job>>
        BY <2>3, <3>2, Zenon DEF StartStrategy
      <4>2. ~running => task # NoLoop /\ Alive(task)
        BY <3>2
      <4> QED BY <2>1, <4>1, <4>2, StartStep
    <3> QED BY <3>1, <3>2
  <2> QED BY <1>5, <2>2, <2>3
<1>6. CASE StopStrategy \/ Stop \/ Shutdown
  BY <1>6, StopStrategyStep, StopStep
<1>7. CASE StopWaited \/ StopPlans \/ StopDisables \/ StopCloses
  BY <1>7, StopWaitedStep, StopPlansStep, StopDisablesStep, StopClosesStep
<1>8. CASE ProcessEnds \/ Crash
  BY <1>8, GoneStep
<1>9. CASE Restore \/ RestoreEnds
  BY <1>9, RestoreStep, RestoreEndsStep
<1> QED
  BY <1>1, <1>2, <1>3, <1>4, <1>5, <1>6, <1>7, <1>8, <1>9 DEF Next, Step

LEMMA LifeStart == Init => LifeInv
<1> SUFFICES ASSUME Init PROVE LifeInv
  OBVIOUS
<1>1. job = [a \in Actors |-> NoJob] /\ \A a \in Actors : job[a] = NoJob
  BY DEF Init
<1>2. ShapeInv
  BY <1>1, NoJobFacts DEF Init, ShapeInv, Shaped
<1>3. NoneAlive /\ At("stop", "none")
  BY <1>1, NoJobFacts, ActorFacts DEF NoneAlive, Alive, At
<1> QED BY <1>2, <1>3 DEF Init, LifeInv, CallInv, LoopInv, LeftInv, At

-----------------------------------------------------------------------------
(* The day: what is held, recorded and sold *)

Sale == order.side = "SELL"

\* What an executed sale will take from the ledger.
Due == IF Sale /\ order.done THEN order.qty ELSE 0

Wants(side, n) == side \in {"BUY", "SELL"} /\ n \in Shares /\ n > 0

\* A row has what the strategy has; orders are for something, sales for no more than there is.
BookInv ==
    /\ order # NoOrder => Wants(order.side, order.qty)
    /\ deferred # NoOrder => Wants(deferred.side, deferred.qty) /\ ~deferred.done
    /\ \A a \in Actors : At(a, "submit") => Wants(job[a].side, job[a].qty)
    /\ ledger > 0 => ledger = own + Due
    /\ order.side = "BUY" => ledger = 0 /\ own = IF order.done THEN order.qty ELSE 0
    /\ Sale /\ ~order.done => order.qty <= own

RecordInv ==
    /\ signals.net > 0 => signals.bought
    /\ kept.net > 0 => kept.bought
    /\ up /\ ~parted => signals.net = Traded

Late == slot \in {Slots.All, Slots.Cutoff}

ClockInv ==
    /\ synced <= day
    /\ ~up => synced = 0
    /\ Progress = 2 => Late

SellsOnly ==
    Late => /\ order.side # "BUY" /\ deferred.side # "BUY"
            /\ \A a \in Actors : At(a, "submit") => job[a].side = "SELL"

\* The ledger or the records tell what the strategy has.
Known == ledger > 0 \/ ~parted

\* In the time of the last tier every sale that is to come is for all there is to sell,
\* until it has been placed.
ExitInv ==
    slot = Slots.All /\ Known =>
        \/ Traded = 0
        \/ /\ order = NoOrder
           /\ \A a \in Actors : At(a, "submit") => job[a].qty = Traded
           /\ deferred # NoOrder => deferred.qty = Traded
           /\ retry > 0 => retry = Traded

\* The last tier was run and nothing stopped the strategy since.
Exits == slot = Slots.All /\ Progress = 2 /\ covered /\ ~crossed

HandInv == Exits => up /\ (running \/ (call \in {"all", "save"} /\ ~At("stop", "close")))

\* Then all is sold, or a sale is to come; and after the cutoff all was.
Coming == (\E a \in Actors : At(a, "submit")) \/ deferred # NoOrder \/ retry > 0

ComingInv == Exits /\ running /\ Known => Traded = 0 \/ Coming

FlatInv == slot = Slots.Cutoff /\ covered /\ ~crossed => ledger = 0 /\ (own > 0 => parted)

Books == FieldsOK /\ BookInv /\ RecordInv /\ ClockInv

DayInv == Books /\ SellsOnly /\ ExitInv /\ HandInv /\ ComingInv /\ FlatInv

-----------------------------------------------------------------------------
(* Quantities and jobs *)

LEMMA QtyFacts == /\ Qty \in Nat /\ Qty > 0 /\ Shares = 0..Qty /\ MaxDays \in Nat /\ MaxDays > 0
                  /\ MaxStops \in Nat /\ Nets = (-2 * Qty)..(2 * Qty)
BY ConstantsAssumption DEF ConstantsAssumption, Shares, Nets

LEMMA SlotFacts == /\ Slots.Regular = 1 /\ Slots.Half = 2 /\ Slots.All = 3 /\ Slots.Cutoff = 4
BY DEF Slots

LEMMA NoOrderFacts == /\ NoOrder \in Orders /\ NoOrder.side = "none" /\ ~NoOrder.done
                      /\ NoOrder.qty = 0 /\ 0 \in Shares
BY QtyFacts DEF NoOrder, Orders, Sides

\* What the strategy has in view of its open order.
LEMMA TradedFacts ==
    /\ order = NoOrder => Traded = own + 0
    /\ order.done => Traded = own
    /\ Sale /\ ~order.done => Traded = own - order.qty
BY NoOrderFacts DEF Traded, Sale

LEMMA LeastFacts ==
    ASSUME NEW m \in Int, NEW n \in Int
    PROVE  /\ Least(m, n) = m \/ Least(m, n) = n
           /\ Least(m, n) <= m /\ Least(m, n) <= n
BY DEF Least

LEMMA NoJobTyped == NoJob \in Jobs /\ NoJob.pc = "none"
BY NoOrderFacts DEF NoJob, Jobs, Sides

LEMMA PcTyped ==
    ASSUME NEW j \in Jobs,
           NEW pc \in {"none", "top", "wait", "plan", "submit", "disable", "close"}
    PROVE  LET k == [j EXCEPT !.pc = pc]
           IN  k \in Jobs /\ k.pc = pc /\ k.side = j.side /\ k.qty = j.qty
BY DEF Jobs

LEMMA SellTyped ==
    ASSUME NEW n \in Shares, NEW forced \in BOOLEAN
    PROVE  /\ Sell(n, forced) \in Jobs
           /\ n = 0 => Sell(n, forced).pc = "top"
           /\ n # 0 => /\ Sell(n, forced).pc = "submit" /\ Sell(n, forced).side = "SELL"
                       /\ Sell(n, forced).qty = n
<1> DEFINE a == [NoJob EXCEPT !.pc = "submit"]
           b == [a EXCEPT !.side = "SELL"]
           c == [b EXCEPT !.qty = n]
           d == [c EXCEPT !.forced = forced]
<1>1. a \in Jobs /\ a.pc = "submit"
  BY NoJobTyped, PcTyped
<1> HIDE DEF a
<1>2. b \in Jobs /\ b.pc = "submit" /\ b.side = "SELL"
  BY <1>1 DEF Jobs, Sides
<1> HIDE DEF b
<1>3. c \in Jobs /\ c.pc = "submit" /\ c.side = "SELL" /\ c.qty = n
  BY <1>2 DEF Jobs
<1> HIDE DEF c
<1>4. d \in Jobs /\ d.pc = "submit" /\ d.side = "SELL" /\ d.qty = n
  BY <1>3 DEF Jobs
<1>5. Sell(n, forced) = IF n = 0 THEN [NoJob EXCEPT !.pc = "top"] ELSE d
  BY DEF Sell, a, b, c, d
<1> HIDE DEF d
<1>6. [NoJob EXCEPT !.pc = "top"] \in Jobs /\ [NoJob EXCEPT !.pc = "top"].pc = "top"
  BY NoJobTyped, PcTyped
<1> QED BY <1>4, <1>5, <1>6

LEMMA BuyTyped ==
    ASSUME NEW n \in Shares
    PROVE  LET b == [NoJob EXCEPT !.pc = "submit", !.side = "BUY", !.qty = n]
           IN  b \in Jobs /\ b.pc = "submit" /\ b.side = "BUY" /\ b.qty = n
<1> DEFINE a == [NoJob EXCEPT !.pc = "submit"]
           b == [a EXCEPT !.side = "BUY"]
           c == [b EXCEPT !.qty = n]
<1>1. a \in Jobs /\ a.pc = "submit"
  BY NoJobTyped, PcTyped
<1> HIDE DEF a
<1>2. b \in Jobs /\ b.pc = "submit" /\ b.side = "BUY"
  BY <1>1 DEF Jobs, Sides
<1> HIDE DEF b
<1>3. c \in Jobs /\ c.pc = "submit" /\ c.side = "BUY" /\ c.qty = n
  BY <1>2 DEF Jobs
<1>4. c = [NoJob EXCEPT !.pc = "submit", !.side = "BUY", !.qty = n]
  BY DEF a, b, c
<1> HIDE DEF c
<1> QED BY <1>3, <1>4

\* One actor's job is replaced.
LEMMA OneTyped ==
    ASSUME job \in [Actors -> Jobs], NEW a \in Actors, NEW j \in Jobs,
           job' = [job EXCEPT ![a] = j]
    PROVE  /\ job' \in [Actors -> Jobs] /\ job'[a] = j
           /\ \A b \in Actors \ {a} : job'[b] = job[b]
OBVIOUS

-----------------------------------------------------------------------------
(* What is held and recorded, step by step *)

\* The orders that actors are about to submit are those of before, or for n.
Planned(side, n) ==
    \A a \in Actors : At(a, "submit")' =>
        \/ At(a, "submit") /\ job'[a].side = job[a].side /\ job'[a].qty = job[a].qty
        \/ job'[a].side = side /\ job'[a].qty = n /\ n > 0

LEMMA ComparedFacts ==
    ASSUME Compared, FieldsOK
    PROVE  /\ parted' \in BOOLEAN /\ (up' /\ ~parted' => signals'.net = Traded')
           /\ day' = day /\ parted => parted'
BY DEF Compared, FieldsOK, Traded

\* Nothing is traded.
LEMMA BookKept ==
    ASSUME BookInv, NEW side \in {"BUY", "SELL"}, NEW n \in Shares, Planned(side, n),
           UNCHANGED <<order, own, ledger>>, deferred' = deferred \/ deferred' = NoOrder
    PROVE  BookInv'
<1>1. \A a \in Actors : At(a, "submit")' => Wants(job'[a].side, job'[a].qty)
  BY DEF BookInv, Planned, Wants
<1>2. deferred' # NoOrder => Wants(deferred'.side, deferred'.qty) /\ ~deferred'.done
  BY DEF BookInv
<1> QED BY <1>1, <1>2 DEF BookInv, Due, Sale, Wants, At

\* An order is placed.
LEMMA BookPlaced ==
    ASSUME FieldsOK, BookInv, NEW side \in {"BUY", "SELL"}, NEW n \in Shares, Planned(side, n),
           ~Open, NEW o \in Orders, order' = o, Wants(o.side, o.qty), ~o.done, Covers(o),
           UNCHANGED <<own, ledger>>, deferred' = deferred \/ deferred' = NoOrder
    PROVE  BookInv'
<1>1. \A a \in Actors : At(a, "submit")' => Wants(job'[a].side, job'[a].qty)
  BY DEF BookInv, Planned, Wants
<1>2. deferred' # NoOrder => Wants(deferred'.side, deferred'.qty) /\ ~deferred'.done
  BY DEF BookInv
<1>3. order = NoOrder
  BY DEF Open
<1>4. ledger > 0 => ledger = own
  BY <1>3, NoOrderFacts, QtyFacts DEF BookInv, Due, Sale, FieldsOK
<1>5. own \in Nat /\ ledger \in Nat
  BY QtyFacts DEF FieldsOK
<1>6. Due' = 0
  BY DEF Due, Sale
<1>7. o.side = "BUY" => ledger = 0 /\ own = 0
  BY <1>4, <1>5 DEF Covers
<1>8. o.side = "SELL" => o.qty <= own
  BY DEF Covers
<1> QED BY <1>1, <1>2, <1>4, <1>5, <1>6, <1>7, <1>8 DEF BookInv, Sale

LEMMA ExecutesBooks ==
    ASSUME Books, Executes, Compared
    PROVE  Books'
<1>1. /\ order # NoOrder /\ ~order.done /\ order' = [order EXCEPT !.done = TRUE]
      /\ own' = IF order.side = "BUY" THEN own + order.qty ELSE own - order.qty
      /\ UNCHANGED <<clock, life, job, exits, retry, deferred, ledger, records, disk, asked>>
  BY DEF Executes, Open
<1>2. /\ order \in Orders /\ own \in Nat /\ own <= Qty /\ ledger \in Nat /\ Qty \in Nat
      /\ order.side \in {"BUY", "SELL"} /\ order.qty \in Nat /\ order.qty <= Qty /\ order.qty > 0
  BY <1>1, QtyFacts DEF Books, FieldsOK, BookInv, Wants
<1>3. order' \in Orders /\ order'.done /\ order'.side = order.side /\ order'.qty = order.qty
  BY <1>1, <1>2 DEF Orders
<1>4. CASE order.side = "BUY"
  <2>1. ledger = 0 /\ own = 0 /\ own' = order.qty
    BY <1>1, <1>2, <1>4 DEF Books, BookInv
  <2>2. own' \in Shares
    BY <1>2, <2>1, QtyFacts
  <2>3. BookInv'
    BY <1>1, <1>2, <1>3, <1>4, <2>1 DEF Books, BookInv, At, Wants, Sale
  <2>4. FieldsOK'
    BY <1>1, <1>3, <2>2, ComparedFacts DEF Books, FieldsOK, clock, life, exits, records, disk, asked
  <2> QED BY <1>1, <2>3, <2>4, ComparedFacts
          DEF Books, RecordInv, ClockInv, Progress, Late, clock, life, exits, records, disk, asked
<1>5. CASE order.side = "SELL"
  <2>1. order.qty <= own /\ own' = own - order.qty
    BY <1>1, <1>2, <1>5 DEF Books, BookInv, Sale
  <2>2. own' \in Shares
    BY <1>2, <2>1, QtyFacts
  <2>3. Due = 0 /\ Due' = order.qty
    BY <1>1, <1>3, <1>5 DEF Due, Sale
  <2>4. ledger > 0 => ledger = own' + Due'
    BY <1>2, <2>1, <2>3 DEF Books, BookInv
  <2>5. BookInv'
    BY <1>1, <1>2, <1>3, <1>5, <2>4 DEF Books, BookInv, At, Wants, Sale
  <2>6. FieldsOK'
    BY <1>1, <1>3, <2>2, ComparedFacts DEF Books, FieldsOK, clock, life, exits, records, disk, asked
  <2> QED BY <1>1, <2>5, <2>6, ComparedFacts
          DEF Books, RecordInv, ClockInv, Progress, Late, clock, life, exits, records, disk, asked
<1> QED BY <1>2, <1>4, <1>5

LEMMA ReportedBooks ==
    ASSUME Books, Reported, Compared
    PROVE  Books'
<1>1. /\ order # NoOrder /\ order.done /\ order' = NoOrder
      /\ ledger' = IF order.side = "SELL" THEN ledger - Least(order.qty, ledger)
                   ELSE IF ledger > 0 THEN ledger ELSE order.qty
      /\ UNCHANGED <<clock, life, job, exits, retry, deferred, own, records, disk, asked>>
  BY DEF Reported, Open
<1>2. /\ order \in Orders /\ own \in Nat /\ own <= Qty /\ ledger \in Nat /\ ledger <= Qty /\ Qty \in Nat
      /\ order.side \in {"BUY", "SELL"} /\ order.qty \in Nat /\ order.qty <= Qty /\ order.qty > 0
  BY <1>1, QtyFacts DEF Books, FieldsOK, BookInv, Wants
<1>3. ledger' \in Shares /\ (ledger' > 0 => ledger' = own)
  <2>1. CASE order.side = "BUY"
    <3>1. ledger = 0 /\ own = order.qty
      BY <1>1, <2>1 DEF Books, BookInv
    <3> QED BY <1>1, <1>2, <2>1, <3>1, QtyFacts
  <2>2. CASE order.side = "SELL"
    <3>1. ledger > 0 => ledger = own + order.qty
      BY <1>1, <2>2 DEF Books, BookInv, Due, Sale
    <3>2. ledger' = IF order.qty < ledger THEN ledger - order.qty ELSE 0
      BY <1>1, <1>2, <2>2 DEF Least
    <3> QED BY <1>2, <3>1, <3>2, QtyFacts
  <2> QED BY <1>2, <2>1, <2>2
<1>4. BookInv'
  <2>1. Due' = 0
    BY <1>1, NoOrderFacts DEF Due, Sale
  <2> QED BY <1>1, <1>2, <1>3, <2>1, NoOrderFacts DEF Books, BookInv, At, Wants, Sale
<1>5. FieldsOK'
  BY <1>1, <1>3, NoOrderFacts, ComparedFacts DEF Books, FieldsOK, clock, life, exits, records, disk, asked
<1> QED BY <1>1, <1>4, <1>5, ComparedFacts
        DEF Books, RecordInv, ClockInv, Progress, Late, clock, life, exits, records, disk, asked

\* An order goes without a trace in the ledger.
LEMMA OrderEndsBooks ==
    ASSUME Books, LedgerMisses \/ Dies, Compared
    PROVE  Books'
<1>1. /\ order # NoOrder /\ order' = NoOrder /\ (order.done => order.side = "BUY")
      /\ UNCHANGED <<clock, life, job, exits, retry, deferred, own, ledger, records, disk, asked>>
  BY NoOrderFacts DEF LedgerMisses, Dies, Open
<1>2. own \in Nat /\ ledger \in Nat /\ order.side \in {"BUY", "SELL"}
  BY <1>1, QtyFacts DEF Books, FieldsOK, BookInv, Wants
<1>3. Due = 0 /\ Due' = 0
  BY <1>1, NoOrderFacts DEF Due, Sale
<1>4. BookInv'
  BY <1>1, <1>2, <1>3, NoOrderFacts DEF Books, BookInv, At, Wants, Sale
<1>5. FieldsOK'
  BY <1>1, NoOrderFacts, ComparedFacts DEF Books, FieldsOK, clock, life, exits, records, disk, asked
<1> QED BY <1>1, <1>4, <1>5, ComparedFacts
        DEF Books, RecordInv, ClockInv, Progress, Late, clock, life, exits, records, disk, asked

LEMMA DeferredGoesBooks ==
    ASSUME Books, DeferredGoes, Compared
    PROVE  Books'
<1>1. /\ deferred # NoOrder /\ ~Open /\ deferred' = NoOrder
      /\ (Covers(deferred) /\ order' = deferred) \/ UNCHANGED order
      /\ UNCHANGED <<clock, life, job, exits, retry, own, ledger, records, disk, asked>>
  BY DEF DeferredGoes
<1>2. Wants(deferred.side, deferred.qty) /\ ~deferred.done /\ deferred \in Orders
  BY <1>1 DEF Books, FieldsOK, BookInv
<1>3. Planned("SELL", 0) /\ 0 \in Shares
  BY <1>1, NoOrderFacts DEF Planned, At
<1>4. BookInv'
  <2>1. CASE Covers(deferred) /\ order' = deferred
    BY <1>1, <1>2, <1>3, <2>1, BookPlaced DEF Books
  <2>2. CASE UNCHANGED order
    BY <1>1, <1>3, <2>2, BookKept DEF Books
  <2> QED BY <1>1, <2>1, <2>2
<1>5. FieldsOK'
  BY <1>1, <1>2, NoOrderFacts, ComparedFacts DEF Books, FieldsOK, clock, life, exits, records, disk, asked
<1> QED BY <1>1, <1>4, <1>5, ComparedFacts
        DEF Books, RecordInv, ClockInv, Progress, Late, clock, life, exits, records, disk, asked

\* An answer takes its order from those that are to be submitted.
LEMMA AnswerJobs ==
    ASSUME Books, NEW a \in Actors, Submits(a), Answered(a)
    PROVE  /\ job' \in [Actors -> Jobs] /\ ~At(a, "submit")' /\ At(a, "submit")
           /\ \A b \in Actors \ {a} : job'[b] = job[b]
           /\ Planned("SELL", 0)
           /\ Asks(a) \in Orders /\ Asks(a) # NoOrder /\ ~Asks(a).done
           /\ Asks(a).side = job[a].side /\ Asks(a).qty = job[a].qty
           /\ Wants(job[a].side, job[a].qty)
<1> DEFINE pc == IF a \in Loops THEN "top" ELSE IF a = "stop" THEN "disable" ELSE "none"
           j == [NoJob EXCEPT !.pc = pc]
<1>1. j \in Jobs /\ j.pc = pc /\ pc # "submit"
  <2>1. pc \in {"top", "disable", "none"}
    OBVIOUS
  <2> HIDE DEF pc
  <2>2. pc # "submit" /\ pc \in {"none", "top", "wait", "plan", "submit", "disable", "close"}
    BY <2>1
  <2>3. j \in Jobs /\ j.pc = pc
    BY <2>2, NoJobTyped, PcTyped
  <2> QED BY <2>2, <2>3
<1>2. job' = [job EXCEPT ![a] = j] /\ At(a, "submit")
  BY DEF Answered, Submits
<1> HIDE DEF j, pc
<1>3. job' \in [Actors -> Jobs] /\ job'[a] = j /\ \A b \in Actors \ {a} : job'[b] = job[b]
  BY <1>1, <1>2, OneTyped DEF Books, FieldsOK
<1>4. Wants(job[a].side, job[a].qty) /\ job[a] \in Jobs
  BY <1>2 DEF Books, BookInv, FieldsOK
<1>5. /\ Asks(a) \in Orders /\ ~Asks(a).done
      /\ Asks(a).side = job[a].side /\ Asks(a).qty = job[a].qty
  BY <1>4 DEF Asks, Orders, Jobs
<1>6. Asks(a) # NoOrder
  BY <1>4, <1>5, NoOrderFacts DEF Wants
<1> QED BY <1>1, <1>2, <1>3, <1>4, <1>5, <1>6 DEF Planned, At

LEMMA RecordFacts ==
    ASSUME FieldsOK, RecordInv, NEW o \in Orders, Record(o)
    PROVE  /\ signals' \in Signals /\ kept' \in Signals
           /\ signals'.net > 0 => signals'.bought
           /\ kept'.net > 0 => kept'.bought
<1> DEFINE net == IF o.side = "BUY" THEN signals.net + o.qty ELSE signals.net - o.qty
<1>1. /\ signals' = [net |-> IF net \in Nets THEN net ELSE signals.net,
                     bought |-> signals.bought \/ o.side = "BUY"]
      /\ kept' = IF store THEN signals' ELSE kept
  BY DEF Record
<1>2. signals.net \in Int /\ signals.net \in Nets /\ signals.bought \in BOOLEAN /\ o.qty \in Nat
  BY QtyFacts DEF FieldsOK, Signals, Orders
<1>3. net > 0 => signals.bought \/ o.side = "BUY"
  BY <1>2 DEF RecordInv
<1>4. signals' \in Signals /\ (signals'.net > 0 => signals'.bought)
  <2> HIDE DEF net
  <2> QED BY <1>1, <1>2, <1>3 DEF Signals, RecordInv
<1> QED BY <1>1, <1>4 DEF FieldsOK, RecordInv

LEMMA AnswerBooks ==
    ASSUME Books, NEW a \in Actors, Deferred(a) \/ Taken(a) \/ Refused(a) \/ Blocked(a), Compared
    PROVE  Books'
<1>1. /\ Submits(a) /\ Answered(a)
      /\ UNCHANGED <<clock, life, exits, own, ledger, disk, asked>>
  BY DEF Deferred, Taken, Refused, Blocked, market
<1>2. /\ job' \in [Actors -> Jobs] /\ Planned("SELL", 0) /\ 0 \in Shares
      /\ Asks(a) \in Orders /\ Asks(a) # NoOrder /\ ~Asks(a).done
      /\ Asks(a).side = job[a].side /\ Asks(a).qty = job[a].qty
      /\ Wants(job[a].side, job[a].qty)
  BY <1>1, AnswerJobs, NoOrderFacts
<1>3. /\ BookInv' /\ order' \in Orders /\ deferred' \in Orders /\ retry' \in Shares
      /\ signals' \in Signals /\ kept' \in Signals
      /\ signals'.net > 0 => signals'.bought
      /\ kept'.net > 0 => kept'.bought
  <2>1. CASE Deferred(a)
    <3>1. /\ UNCHANGED <<order, own, ledger, retry, signals, kept>>
          /\ deferred' = deferred \/ deferred' = Asks(a)
      BY <2>1 DEF Deferred, records
    <3>2. CASE deferred' = deferred
      BY <1>2, <3>1, <3>2, BookKept DEF Books, FieldsOK, RecordInv
    <3>3. CASE deferred' = Asks(a)
      <4>1. \A b \in Actors : At(b, "submit")' => Wants(job'[b].side, job'[b].qty)
        BY <1>2 DEF Books, BookInv, Planned, Wants
      <4>2. BookInv'
        BY <1>2, <3>1, <3>3, <4>1 DEF Books, BookInv, Due, Sale, At, Wants
      <4> QED BY <1>2, <3>1, <3>3, <4>2 DEF Books, FieldsOK, RecordInv
    <3> QED BY <3>1, <3>2, <3>3
  <2>2. CASE Taken(a)
    <3>1. /\ ~Open /\ Covers(Asks(a)) /\ order' = Asks(a) /\ Record(Asks(a))
          /\ UNCHANGED <<own, ledger, retry, deferred>>
      BY <2>2 DEF Taken
    <3>2. BookInv'
      BY <1>2, <3>1, BookPlaced DEF Books
    <3> QED BY <1>2, <3>1, <3>2, RecordFacts DEF Books, FieldsOK
  <2>3. CASE Refused(a)
    <3>1. UNCHANGED <<order, own, ledger, retry, deferred, signals, kept>>
      BY <2>3 DEF Refused, market, records
    <3> QED BY <1>2, <3>1, BookKept DEF Books, FieldsOK, RecordInv
  <2>4. CASE Blocked(a)
    <3>1. /\ UNCHANGED <<order, own, ledger, deferred, signals, kept>>
          /\ retry' = retry \/ retry' = job[a].qty
      BY <2>4 DEF Blocked, market, records
    <3> QED BY <1>2, <3>1, BookKept DEF Books, FieldsOK, RecordInv, Wants
  <2> QED BY <2>1, <2>2, <2>3, <2>4
<1>4. FieldsOK'
  BY <1>1, <1>2, <1>3, ComparedFacts DEF Books, FieldsOK, clock, life, exits, disk, asked
<1> QED BY <1>1, <1>3, <1>4, ComparedFacts
        DEF Books, RecordInv, ClockInv, Progress, Late, clock, life, exits, disk, asked

LEMMA LoopEndsBooks ==
    ASSUME Books, NEW l \in Loops, LoopEnds(l), Compared
    PROVE  /\ Books' /\ Planned("SELL", 0)
           /\ UNCHANGED order \/ (~Open /\ At(l, "submit") /\ Covers(Asks(l)) /\ order' = Asks(l))
<1>1. /\ job' = [job EXCEPT ![l] = NoJob]
      /\ UNCHANGED order \/ (~Open /\ At(l, "submit") /\ Covers(Asks(l)) /\ order' = Asks(l))
      /\ UNCHANGED <<clock, life, exits, retry, deferred, own, ledger, records, disk, asked>>
  BY DEF LoopEnds
<1>2. job' \in [Actors -> Jobs] /\ job'[l] = NoJob /\ \A b \in Actors \ {l} : job'[b] = job[b]
  BY <1>1, OneTyped, NoJobTyped, ActorFacts DEF Books, FieldsOK
<1>3. Planned("SELL", 0) /\ 0 \in Shares
  BY <1>2, NoJobTyped, NoOrderFacts DEF Planned, At
<1>4. BookInv' /\ order' \in Orders
  <2>1. CASE UNCHANGED order
    BY <1>1, <1>3, <2>1, BookKept DEF Books, FieldsOK
  <2>2. CASE ~Open /\ At(l, "submit") /\ Covers(Asks(l)) /\ order' = Asks(l)
    <3>1. Wants(job[l].side, job[l].qty) /\ job[l] \in Jobs
      BY <2>2, ActorFacts DEF Books, BookInv, FieldsOK
    <3>2. /\ Asks(l) \in Orders /\ ~Asks(l).done
          /\ Asks(l).side = job[l].side /\ Asks(l).qty = job[l].qty
      BY <3>1 DEF Asks, Orders, Jobs
    <3> QED BY <1>1, <1>3, <2>2, <3>1, <3>2, BookPlaced DEF Books
  <2> QED BY <1>1, <2>1, <2>2
<1>5. FieldsOK'
  BY <1>1, <1>2, <1>4, ComparedFacts DEF Books, FieldsOK, clock, life, exits, records, disk, asked
<1>6. Books'
  BY <1>1, <1>4, <1>5, ComparedFacts
     DEF Books, RecordInv, ClockInv, Progress, Late, clock, life, exits, records, disk, asked
<1> QED BY <1>1, <1>3, <1>6

\* The jobs of the actors change, but not which orders are to be submitted.
Steady ==
    /\ job' \in [Actors -> Jobs]
    /\ \A a \in Actors : /\ At(a, "submit") <=> At(a, "submit")'
                         /\ At(a, "submit") => job'[a].side = job[a].side /\ job'[a].qty = job[a].qty

LEMMA SteadyPlanned == Steady => Planned("SELL", 0)
BY DEF Steady, Planned

LEMMA SteadyOne ==
    ASSUME Books, NEW a \in Actors, ~At(a, "submit"), NEW j \in Jobs, j.pc # "submit",
           job' = [job EXCEPT ![a] = j]
    PROVE  Steady
<1>1. /\ job' \in [Actors -> Jobs] /\ job'[a] = j
      /\ \A b \in Actors \ {a} : job'[b] = job[b]
  BY OneTyped DEF Books, FieldsOK
<1> QED BY <1>1 DEF Steady, At

LEMMA SteadyNewLoop ==
    ASSUME Books, NewLoop, call = "restore" => ~At("stop", "submit")
    PROVE  Steady /\ task' \in Loops
<1> DEFINE i == IF call = "restore" THEN NoJob ELSE job["stop"]
           one == [job EXCEPT !["stop"] = i]
           j == [NoJob EXCEPT !.pc = "top"]
<1>1. i \in Jobs
  BY NoJobTyped, ActorFacts DEF Books, FieldsOK
<1>2. j \in Jobs /\ j.pc = "top"
  BY NoJobTyped, PcTyped
<1>3. task' \in Loops /\ ~Alive(task')
  BY DEF NewLoop
<1>4. job' = [one EXCEPT ![task'] = j]
  BY DEF NewLoop
<1>5. one \in [Actors -> Jobs] /\ one["stop"] = i /\ \A b \in Actors \ {"stop"} : one[b] = job[b]
  BY <1>1, ActorFacts DEF Books, FieldsOK
<1>6. i.pc = "submit" => job["stop"].pc = "submit" /\ i = job["stop"]
  BY NoJobTyped
<1>7. job["stop"].pc = "submit" => i = job["stop"]
  BY DEF At
<1> HIDE DEF one, j, i
<1>8. /\ job' \in [Actors -> Jobs] /\ job'[task'] = j /\ task' \in Actors /\ task' # "stop"
      /\ \A b \in Actors \ {task'} : job'[b] = one[b]
  BY <1>2, <1>3, <1>4, <1>5, ActorFacts
<1>9. job[task'].pc # "submit"
  BY <1>3 DEF Alive
<1> QED BY <1>2, <1>3, <1>5, <1>6, <1>7, <1>8, <1>9 DEF Steady, At

LEMMA SteadyStopLoop ==
    ASSUME Books, StopLoop, At("stop", "none")
    PROVE  /\ Steady /\ running' = FALSE
           /\ job'["stop"].pc \in {"plan", "wait"}
<1>1. CASE task = NoLoop
  <2> DEFINE j == [job["stop"] EXCEPT !.pc = "plan"]
  <2>1. j \in Jobs /\ j.pc = "plan"
    BY ActorFacts, PcTyped DEF Books, FieldsOK
  <2>2. job' = [job EXCEPT !["stop"] = j] /\ running' = FALSE
    BY <1>1 DEF StopLoop
  <2> HIDE DEF j
  <2>3. ~At("stop", "submit")
    BY DEF At
  <2>4. job'["stop"] = j
    BY <2>1, <2>2, OneTyped, ActorFacts DEF Books, FieldsOK
  <2> QED BY <2>1, <2>2, <2>3, <2>4, SteadyOne, ActorFacts
<1>2. CASE task # NoLoop
  <2> DEFINE w == [NoJob EXCEPT !.pc = "wait", !.awaits = task]
             c(a) == job[a].cancelled \/ (a = task /\ Alive(a))
             k(a) == [job[a] EXCEPT !.cancelled = c(a)]
  <2>1. w \in Jobs /\ w.pc = "wait"
    <3>1. task \in Loops \cup {NoLoop}
      BY DEF Books, FieldsOK
    <3>2. NoJob \in Jobs
      BY NoJobTyped
    <3> QED BY <3>1, <3>2 DEF Jobs
  <2>2. ASSUME NEW a \in Actors
        PROVE  /\ k(a) \in Jobs /\ k(a).pc = job[a].pc
               /\ k(a).side = job[a].side /\ k(a).qty = job[a].qty
    <3>1. job[a] \in Jobs /\ c(a) \in BOOLEAN
      BY DEF Books, FieldsOK, Jobs
    <3> HIDE DEF c
    <3> QED BY <3>1 DEF Jobs
  <2>3. job' = [a \in Actors |-> IF a = "stop" THEN w ELSE k(a)] /\ running' = FALSE
    BY <1>2 DEF StopLoop
  <2> HIDE DEF w, k
  <2>4. /\ job' \in [Actors -> Jobs] /\ job'["stop"] = w
        /\ \A a \in Actors \ {"stop"} : job'[a] = k(a)
    BY <2>1, <2>2, <2>3, ActorFacts
  <2> QED BY <2>1, <2>2, <2>3, <2>4 DEF Steady, At
<1> QED BY <1>1, <1>2

\* Steps of the scheduler's life: they trade nothing and plan no order.
LEMMA SteadyBooks ==
    ASSUME Books, Compared, Steady, FieldsOK',
           UNCHANGED <<day, slot, up, order, own, ledger, deferred, signals, kept, synced, progress>>
    PROVE  Books'
<1>1. BookInv'
  BY SteadyPlanned, NoOrderFacts, BookKept DEF Books
<1> QED BY <1>1, ComparedFacts DEF Books, RecordInv, ClockInv, Progress, Late

\* What a sale is planned for.
LEMMA SellJobs ==
    ASSUME Books, NEW a \in Actors, NEW n \in Shares, NEW forced \in BOOLEAN,
           job' = [job EXCEPT ![a] = Sell(n, forced)]
    PROVE  /\ job' \in [Actors -> Jobs] /\ \A b \in Actors \ {a} : job'[b] = job[b]
           /\ Planned("SELL", n) /\ (n # 0 => At(a, "submit")')
<1>1. /\ job' \in [Actors -> Jobs] /\ job'[a] = Sell(n, forced)
      /\ \A b \in Actors \ {a} : job'[b] = job[b]
  BY SellTyped, OneTyped DEF Books, FieldsOK
<1>2. n \in Nat
  BY QtyFacts
<1> QED BY <1>1, <1>2, SellTyped DEF Planned, At

LEMMA LiquidationTyped ==
    ASSUME Books, NEW answered \in BOOLEAN
    PROVE  Liquidation(answered) \in Shares
<1>1. own \in Nat /\ own <= Qty /\ ledger \in Shares /\ signals.net \in Int /\ Qty \in Nat
  BY QtyFacts DEF Books, FieldsOK, Signals
<1>2. signals.net > 0 => Least(signals.net, own) \in Shares
  BY <1>1, QtyFacts DEF Least
<1> QED BY <1>1, <1>2, NoOrderFacts DEF Liquidation

LEMMA ForceExitFacts ==
    ASSUME Books, NEW l \in Loops, ForceExit(l)
    PROVE  /\ \E n \in Shares : /\ job' = [job EXCEPT ![l] = Sell(n, TRUE)]
                                /\ slot = Slots.All => n = Liquidation(TRUE)
           /\ slot \in {Slots.Half, Slots.All} /\ synced' = day /\ progress' = slot - 1
           /\ running /\ UNCHANGED <<clock, life, retry, market, records, disk, asked>>
<1>1. /\ running /\ Tier(Progress) > 0 /\ synced' = day /\ progress' = Tier(Progress)
      /\ UNCHANGED <<clock, life, retry, market, records, disk, asked>>
  BY DEF ForceExit, Turns
<1>2. slot \in {Slots.Half, Slots.All} /\ Tier(Progress) = slot - 1
  BY <1>1 DEF Tier
<1>3. PICK answered \in BOOLEAN :
         /\ Tier(Progress) = 2 => answered
         /\ job' = [job EXCEPT ![l] = Sell(IF Tier(Progress) = 2 THEN Liquidation(answered)
                                           ELSE Liquidation(answered) \div 2, TRUE)]
  BY DEF ForceExit
<1> DEFINE n == IF Tier(Progress) = 2 THEN Liquidation(answered) ELSE Liquidation(answered) \div 2
<1>4. n \in Shares
  <2> DEFINE m == Liquidation(answered)
  <2>1. m \in Nat /\ m <= Qty
    BY LiquidationTyped, QtyFacts
  <2> HIDE DEF m
  <2>2. m \div 2 \in Nat /\ m \div 2 <= Qty
    BY <2>1, QtyFacts
  <2> QED BY <2>1, <2>2, QtyFacts DEF m
<1>5. slot = Slots.All => n = Liquidation(TRUE)
  BY <1>2, <1>3, SlotFacts
<1>6. job' = [job EXCEPT ![l] = Sell(n, TRUE)]
  BY <1>3
<1> HIDE DEF n
<1> QED BY <1>1, <1>2, <1>4, <1>5, <1>6

\* A scheduler runs, and stops, in a process.
LEMMA UpFacts ==
    ASSUME LifeInv
    PROVE  (running => up) /\ (call # "none" => up) /\ (~At("stop", "none") => call # "none")
BY DEF LifeInv, CallInv

LEMMA ForceExitBooks ==
    ASSUME LifeInv, Books, NEW l \in Loops, ForceExit(l), Compared
    PROVE  Books'
<1>1. PICK n \in Shares : job' = [job EXCEPT ![l] = Sell(n, TRUE)]
  BY ForceExitFacts
<1>2. /\ slot \in {Slots.Half, Slots.All} /\ synced' = day /\ progress' = slot - 1 /\ running
      /\ UNCHANGED <<clock, life, retry, market, records, disk, asked>>
  BY ForceExitFacts
<1>3. job' \in [Actors -> Jobs] /\ Planned("SELL", n)
  BY <1>1, SellJobs, ActorFacts
<1>4. BookInv'
  BY <1>2, <1>3, BookKept DEF Books, market
<1>5. FieldsOK'
  <2>1. progress' \in 0..2 /\ synced' \in 0..MaxDays
    BY <1>2, SlotFacts, QtyFacts DEF Books, FieldsOK
  <2> QED BY <1>2, <1>3, <2>1, ComparedFacts
          DEF Books, FieldsOK, clock, life, market, records, disk, asked
<1>6. ClockInv'
  <2>1. day \in Nat
    BY QtyFacts DEF Books, FieldsOK
  <2>2. Progress' = 2 => slot = Slots.All
    BY <1>2, SlotFacts DEF Progress, clock
  <2>3. up' = up /\ up
    BY <1>2, UpFacts DEF life
  <2> QED BY <1>2, <2>1, <2>2, <2>3 DEF ClockInv, Late, clock, Books
<1> QED BY <1>2, <1>4, <1>5, <1>6, ComparedFacts DEF Books, RecordInv, records, life, clock

LEMMA RunStrategyBooks ==
    ASSUME LifeInv, Books, NEW l \in Loops, RunStrategy(l), Compared
    PROVE  Books' /\ slot = Slots.Regular /\ slot' = slot /\ Progress' = Progress
<1>1. /\ running /\ slot = Slots.Regular /\ synced' = day /\ progress' = Progress
      /\ UNCHANGED <<clock, life, retry, market, records, disk, asked>>
  BY DEF RunStrategy, Turns
<1>2. PICK side \in {"BUY", "SELL"}, n \in Shares : job' \in [Actors -> Jobs] /\ Planned(side, n)
  <2>1. ledger \in Shares /\ Qty \in Shares
    BY QtyFacts DEF Books, FieldsOK
  <2>2. CASE job' = [job EXCEPT ![l] = Sell(ledger, FALSE)]
    BY <2>1, <2>2, SellJobs, ActorFacts
  <2>3. CASE job' = [job EXCEPT ![l] = [NoJob EXCEPT !.pc = "submit", !.side = "BUY", !.qty = Qty]]
    <3> DEFINE b == [NoJob EXCEPT !.pc = "submit", !.side = "BUY", !.qty = Qty]
    <3>1. b \in Jobs /\ b.side = "BUY" /\ b.qty = Qty
      BY <2>1, BuyTyped
    <3> HIDE DEF b
    <3>2. /\ job' \in [Actors -> Jobs] /\ job'[l] = b
          /\ \A a \in Actors \ {l} : job'[a] = job[a]
      BY <2>3, <3>1, OneTyped, ActorFacts DEF b, Books, FieldsOK
    <3>3. Planned("BUY", Qty)
      BY <3>1, <3>2, QtyFacts DEF Planned, At
    <3> QED BY <2>1, <3>2, <3>3
  <2> QED BY <2>2, <2>3 DEF RunStrategy
<1>3. BookInv'
  BY <1>1, <1>2, BookKept DEF Books, market
<1>4. Progress' = Progress
  BY <1>1 DEF Progress, clock
<1>5. FieldsOK'
  <2>1. progress' \in 0..2 /\ synced' \in 0..MaxDays
    BY <1>1, QtyFacts DEF Books, FieldsOK, Progress
  <2> QED BY <1>1, <1>2, <2>1, ComparedFacts
          DEF Books, FieldsOK, clock, life, market, records, disk, asked
<1>6. ClockInv'
  <2>1. day \in Nat /\ up /\ up' = up
    BY <1>1, UpFacts, QtyFacts DEF Books, FieldsOK, life
  <2> QED BY <1>1, <1>4, <2>1 DEF ClockInv, Late, clock, Books
<1> QED BY <1>1, <1>3, <1>4, <1>5, <1>6, ComparedFacts DEF Books, RecordInv, records, clock

LEMMA PassBooks ==
    ASSUME LifeInv, Books, NEW l \in Loops, Pass(l), Compared
    PROVE  Books' /\ Progress' = Progress
<1>1. /\ running /\ synced' = day /\ progress' = Progress
      /\ UNCHANGED <<clock, life, job, retry, market, records, disk, asked>>
  BY DEF Pass, Turns
<1>2. Planned("SELL", 0) /\ 0 \in Shares
  BY <1>1, NoOrderFacts DEF Planned, At
<1>3. BookInv'
  BY <1>1, <1>2, BookKept DEF Books, market
<1>4. Progress' = Progress
  BY <1>1 DEF Progress, clock
<1>5. FieldsOK'
  <2>1. progress' \in 0..2 /\ synced' \in 0..MaxDays
    BY <1>1, QtyFacts DEF Books, FieldsOK, Progress
  <2> QED BY <1>1, <2>1, ComparedFacts
          DEF Books, FieldsOK, clock, life, market, records, disk, asked
<1>6. ClockInv'
  <2>1. day \in Nat /\ up /\ up' = up
    BY <1>1, UpFacts, QtyFacts DEF Books, FieldsOK, life
  <2> QED BY <1>1, <1>4, <2>1 DEF ClockInv, Late, clock, Books
<1> QED BY <1>1, <1>3, <1>4, <1>5, <1>6, ComparedFacts DEF Books, RecordInv, records

LEMMA WakesFacts ==
    ASSUME Books, RetryWakes
    PROVE  /\ retry > 0 /\ retry' = 0 /\ ~At("retry", "submit")
           /\ \/ /\ UNCHANGED job
                 /\ \/ ~running \/ slot = Slots.Cutoff \/ (Sale /\ ~order.done) \/ own = 0
                    \/ slot # Slots.All
              \/ /\ running /\ own > 0 /\ (Sale => order.done)
                 /\ Again(retry) \in Shares /\ Again(retry) > 0
                 /\ job' = [job EXCEPT !["retry"] = Sell(Again(retry), TRUE)]
           /\ UNCHANGED <<clock, life, exits, market, records, disk, asked>>
<1>1. own \in Nat /\ own <= Qty /\ retry \in Nat /\ Qty \in Nat
  BY QtyFacts DEF Books, FieldsOK
<1>2. own > 0 /\ retry > 0 => Again(retry) \in Shares /\ Again(retry) > 0
  BY <1>1, QtyFacts DEF Again, Least
<1> QED BY <1>2 DEF RetryWakes, At, Sale

LEMMA WakesBooks ==
    ASSUME LifeInv, Books, RetryWakes, Compared
    PROVE  Books'
<1>1. retry' = 0 /\ UNCHANGED <<clock, life, exits, market, records, disk, asked>>
  BY WakesFacts
<1>2. PICK n \in Shares : job' \in [Actors -> Jobs] /\ Planned("SELL", n)
  <2>1. CASE UNCHANGED job
    BY <2>1, NoOrderFacts DEF Planned, At, Books, FieldsOK
  <2>2. CASE /\ Again(retry) \in Shares
             /\ job' = [job EXCEPT !["retry"] = Sell(Again(retry), TRUE)]
    BY <2>2, SellJobs, ActorFacts
  <2> QED BY <2>1, <2>2, WakesFacts
<1>3. BookInv'
  BY <1>1, <1>2, BookKept DEF Books, market
<1>4. FieldsOK'
  BY <1>1, <1>2, NoOrderFacts, ComparedFacts
     DEF Books, FieldsOK, clock, life, exits, market, records, disk, asked
<1> QED BY <1>1, <1>3, <1>4, ComparedFacts
        DEF Books, RecordInv, ClockInv, Progress, Late, clock, life, exits, records

\* The call that stops, or the restore, goes on without a sale or with one.
LEMMA StopSells ==
    ASSUME Books, NEW n \in Shares, NEW forced \in BOOLEAN,
           job' = [job EXCEPT !["stop"] =
                      IF n = 0 THEN [NoJob EXCEPT !.pc = "disable"] ELSE Sell(n, forced)]
    PROVE  /\ job' \in [Actors -> Jobs] /\ \A b \in Actors \ {"stop"} : job'[b] = job[b]
           /\ Planned("SELL", n) /\ ~At("stop", "close")'
<1> DEFINE j == IF n = 0 THEN [NoJob EXCEPT !.pc = "disable"] ELSE Sell(n, forced)
<1>1. /\ j \in Jobs /\ (j.pc = "submit" => n # 0 /\ j.side = "SELL" /\ j.qty = n)
      /\ j.pc # "close"
  <2>1. CASE n = 0
    BY <2>1, NoJobTyped, PcTyped
  <2>2. CASE n # 0
    BY <2>2, SellTyped
  <2> QED BY <2>1, <2>2
<1>2. job' = [job EXCEPT !["stop"] = j]
  OBVIOUS
<1> HIDE DEF j
<1>3. /\ job' \in [Actors -> Jobs] /\ job'["stop"] = j
      /\ \A b \in Actors \ {"stop"} : job'[b] = job[b]
  BY <1>1, <1>2, OneTyped, ActorFacts DEF Books, FieldsOK
<1> QED BY <1>1, <1>3, QtyFacts DEF Planned, At

LEMMA StopPlansFacts ==
    ASSUME Books, StopPlans
    PROVE  /\ At("stop", "plan")
           /\ \E n \in Shares : /\ n = 0 \/ \E answered \in BOOLEAN : n = Liquidation(answered)
                                /\ job' \in [Actors -> Jobs] /\ Planned("SELL", n)
                                /\ \A b \in Actors \ {"stop"} : job'[b] = job[b]
                                /\ ~At("stop", "close")'
           /\ UNCHANGED <<clock, life, exits, retry, market, records, disk, asked>>
<1>1. PICK answered \in BOOLEAN :
         LET n == IF enabled /\ call # "save" THEN Liquidation(answered) ELSE 0
         IN  job' = [job EXCEPT !["stop"] =
                        IF n = 0 THEN [NoJob EXCEPT !.pc = "disable"] ELSE Sell(n, TRUE)]
  BY DEF StopPlans
<1> DEFINE n == IF enabled /\ call # "save" THEN Liquidation(answered) ELSE 0
<1>2. n \in Shares /\ (n = 0 \/ n = Liquidation(answered))
  BY LiquidationTyped, NoOrderFacts
<1>3. job' = [job EXCEPT !["stop"] =
                 IF n = 0 THEN [NoJob EXCEPT !.pc = "disable"] ELSE Sell(n, TRUE)]
  BY <1>1
<1> HIDE DEF n
<1> QED BY <1>2, <1>3, StopSells DEF StopPlans

LEMMA StopPlansBooks ==
    ASSUME Books, StopPlans, Compared
    PROVE  Books'
<1>1. UNCHANGED <<clock, life, exits, retry, market, records, disk, asked>>
  BY StopPlansFacts
<1>2. PICK n \in Shares : job' \in [Actors -> Jobs] /\ Planned("SELL", n)
  BY StopPlansFacts
<1>3. BookInv'
  BY <1>1, <1>2, BookKept DEF Books, market
<1>4. FieldsOK'
  BY <1>1, <1>2, ComparedFacts DEF Books, FieldsOK, clock, life, exits, market, records, disk, asked
<1> QED BY <1>1, <1>3, <1>4, ComparedFacts
        DEF Books, RecordInv, ClockInv, Progress, Late, clock, life, exits, records

LEMMA RestoreFacts ==
    ASSUME LifeInv, Books, Restore
    PROVE  /\ ~up /\ up' = TRUE /\ call' \in {call, "restore"} /\ (saved # "on" => UNCHANGED running)
           /\ \E n \in {0, ledger} : job' \in [Actors -> Jobs] /\ Planned("SELL", n)
           /\ progress' \in 0..2 /\ enabled' \in BOOLEAN /\ running' \in BOOLEAN
           /\ store' = TRUE /\ signals' = kept
           /\ UNCHANGED <<clock, task, synced, retry, market, kept, saved, asked>>
<1>1. /\ ~up /\ up' = TRUE /\ store' = TRUE /\ signals' = kept
      /\ UNCHANGED <<clock, task, synced, retry, market, kept, saved, asked>>
  BY DEF Restore
<1>2. CASE saved = "on"
  <2>1. PICK n \in {0, ledger} :
           job' = [job EXCEPT !["stop"] =
                      IF n = 0 THEN [NoJob EXCEPT !.pc = "disable"]
                      ELSE Sell(n, slot # Slots.Regular)]
    BY <1>2 DEF Restore
  <2>2. n \in Shares /\ (slot # Slots.Regular) \in BOOLEAN
    BY NoOrderFacts DEF Books, FieldsOK
  <2>3. job' \in [Actors -> Jobs] /\ Planned("SELL", n)
    <3> DEFINE forced == slot # Slots.Regular
    <3>1. forced \in BOOLEAN
      BY <2>2
    <3>2. job' = [job EXCEPT !["stop"] =
                     IF n = 0 THEN [NoJob EXCEPT !.pc = "disable"] ELSE Sell(n, forced)]
      BY <2>1
    <3> HIDE DEF forced
    <3> QED BY <2>2, <3>1, <3>2, StopSells
  <2>4. enabled' = TRUE /\ running' = TRUE /\ call' = "restore" /\ progress' \in 0..2
    BY <1>2 DEF Restore
  <2> QED BY <1>1, <1>2, <2>3, <2>4
<1>3. CASE saved # "on"
  <2>1. UNCHANGED <<enabled, running, call, progress, job>>
    BY <1>3 DEF Restore
  <2>2. Planned("SELL", 0)
    BY <2>1 DEF Planned, At
  <2> QED BY <1>1, <2>1, <2>2 DEF Books, FieldsOK
<1> QED BY <1>2, <1>3

LEMMA RestoreBooks ==
    ASSUME LifeInv, Books, Restore, Compared
    PROVE  Books'
<1>1. /\ ~up /\ up' = TRUE /\ call' \in {call, "restore"}
      /\ progress' \in 0..2 /\ enabled' \in BOOLEAN /\ running' \in BOOLEAN
      /\ store' = TRUE /\ signals' = kept
      /\ UNCHANGED <<clock, task, synced, retry, market, kept, saved, asked>>
  BY RestoreFacts
<1>2. PICK n \in {0, ledger} : job' \in [Actors -> Jobs] /\ Planned("SELL", n)
  BY RestoreFacts
<1>3. n \in Shares
  BY NoOrderFacts DEF Books, FieldsOK
<1>4. BookInv'
  BY <1>1, <1>2, <1>3, BookKept DEF Books, market
<1>5. FieldsOK'
  BY <1>1, <1>2, ComparedFacts DEF Books, FieldsOK, clock, market, asked
<1>6. ClockInv'
  <2>1. synced = 0 /\ day # 0
    BY <1>1, QtyFacts DEF Books, ClockInv, FieldsOK
  <2>2. Progress' = 0
    BY <1>1, <2>1 DEF Progress, clock
  <2> QED BY <1>1, <2>1, <2>2, QtyFacts DEF Books, ClockInv, FieldsOK, clock
<1> QED BY <1>1, <1>4, <1>5, <1>6, ComparedFacts DEF Books, RecordInv

\* Requests, and what becomes of a stop.
LEMMA LifeBooks ==
    ASSUME LifeInv, Books, Compared,
           \/ Start \/ StartStrategy \/ StopStrategy \/ Stop \/ Shutdown
           \/ StopWaited \/ StopDisables \/ StopCloses \/ RestoreEnds
    PROVE  Books' /\ Steady /\ retry' \in {0, retry} /\ UNCHANGED <<clock, exits, market, up>>
<1>1. /\ UNCHANGED <<clock, exits, market, records, up>> /\ retry' \in {0, retry}
  BY DEF Start, StartStrategy, StopStrategy, Stop, Shutdown, StopWaited, StopDisables, StopCloses,
         RestoreEnds
<1>2. retry' \in Shares
  BY <1>1, NoOrderFacts DEF Books, FieldsOK
<1>3. ASSUME NEW pc \in {"plan", "close"}, NEW j \in {NoJob, job["stop"]}
      PROVE  [j EXCEPT !.pc = pc] \in Jobs /\ [j EXCEPT !.pc = pc].pc # "submit"
  <2>1. j \in Jobs
    BY NoJobTyped, ActorFacts DEF Books, FieldsOK
  <2>2. pc # "submit" /\ pc \in {"none", "top", "wait", "plan", "submit", "disable", "close"}
    OBVIOUS
  <2>3. [j EXCEPT !.pc = pc] \in Jobs /\ [j EXCEPT !.pc = pc].pc = pc
    BY <2>1, <2>2, PcTyped
  <2> QED BY <2>2, <2>3
<1>4. Steady /\ task' \in Loops \cup {NoLoop}
  <2>1. CASE Start
    <3>1. NewLoop /\ call # "restore"
      BY <2>1 DEF Start, Asked, Serves
    <3> QED BY <3>1, SteadyNewLoop
  <2>2. CASE StartStrategy
    <3>1. call # "restore"
      BY <2>2 DEF StartStrategy, Asked, Serves
    <3>2. CASE NewLoop
      BY <3>1, <3>2, SteadyNewLoop
    <3>3. CASE UNCHANGED <<task, job>>
      BY <3>3 DEF Steady, At, Books, FieldsOK
    <3> QED BY <2>2, <3>2, <3>3 DEF StartStrategy
  <2>3. CASE StopStrategy
    <3> DEFINE j == [job["stop"] EXCEPT !.pc = "plan"]
    <3>1. j \in Jobs /\ j.pc # "submit"
      BY <1>3
    <3>2. job' = [job EXCEPT !["stop"] = j] /\ UNCHANGED task /\ ~At("stop", "submit")
      BY <2>3 DEF StopStrategy, At
    <3> HIDE DEF j
    <3> QED BY <3>1, <3>2, SteadyOne, ActorFacts DEF Books, FieldsOK
  <2>4. CASE Stop \/ Shutdown
    BY <2>4, SteadyStopLoop DEF Stop, Shutdown, Books, FieldsOK
  <2>5. CASE StopWaited
    <3> DEFINE j == [NoJob EXCEPT !.pc = "plan"]
    <3>1. j \in Jobs /\ j.pc # "submit"
      BY <1>3
    <3>2. job' = [job EXCEPT !["stop"] = j] /\ task' = NoLoop /\ ~At("stop", "submit")
      BY <2>5 DEF StopWaited, At
    <3> HIDE DEF j
    <3> QED BY <3>1, <3>2, SteadyOne, ActorFacts
  <2>6. CASE StopDisables
    <3> DEFINE j == IF call = "one" THEN NoJob ELSE [job["stop"] EXCEPT !.pc = "close"]
    <3>1. j \in Jobs /\ j.pc # "submit"
      BY <1>3, NoJobTyped
    <3>2. job' = [job EXCEPT !["stop"] = j] /\ UNCHANGED task /\ ~At("stop", "submit")
      BY <2>6 DEF StopDisables, At
    <3> HIDE DEF j
    <3> QED BY <3>1, <3>2, SteadyOne, ActorFacts DEF Books, FieldsOK
  <2>7. CASE StopCloses
    <3>1. job' = [job EXCEPT !["stop"] = NoJob] /\ UNCHANGED task /\ ~At("stop", "submit")
      BY <2>7 DEF StopCloses, At
    <3> QED BY <3>1, SteadyOne, NoJobTyped, ActorFacts DEF Books, FieldsOK
  <2>8. CASE RestoreEnds
    <3>1. NewLoop /\ ~At("stop", "submit")
      BY <2>8 DEF RestoreEnds, At
    <3> QED BY <3>1, SteadyNewLoop
  <2> QED BY <2>1, <2>2, <2>3, <2>4, <2>5, <2>6, <2>7, <2>8
<1>5. /\ enabled' \in BOOLEAN /\ running' \in BOOLEAN /\ crossed' \in BOOLEAN /\ halted' \in BOOLEAN
      /\ covered' \in BOOLEAN /\ store' \in BOOLEAN
      /\ call' \in {"none", "one", "all", "save", "restore"}
      /\ saved' \in {"none", "on", "off"} /\ left' \in {"on", "off", "unknown"}
      /\ stops' \in 0..MaxStops
  <2>1. /\ Saved(TRUE) \in {"none", "on", "off"} /\ Saved(FALSE) \in {"none", "on", "off"}
        /\ Saved(enabled) \in {"none", "on", "off"} /\ (store => Saved(enabled) \in {"on", "off"})
    BY DEF Saved, Books, FieldsOK
  <2>2. StillCovered \in BOOLEAN
    BY DEF StillCovered, Books, FieldsOK
  <2>3. stops < MaxStops => stops + 1 \in 0..MaxStops
    BY QtyFacts DEF Books, FieldsOK
  <2>4. CASE Start \/ StartStrategy
    BY <2>1, <2>4 DEF Start, StartStrategy, Asked, Books, FieldsOK
  <2>5. CASE StopStrategy \/ Stop
    BY <2>3, <2>5 DEF StopStrategy, Stop, StopLoop, Counted, Books, FieldsOK, disk
  <2>6. CASE Shutdown
    BY <2>1, <2>3, <2>6 DEF Shutdown, StopLoop, Counted, Books, FieldsOK
  <2>7. CASE StopWaited \/ RestoreEnds
    BY <2>7 DEF StopWaited, RestoreEnds, Books, FieldsOK, disk, asked
  <2>8. CASE StopDisables
    BY <2>1, <2>2, <2>8 DEF StopDisables, Books, FieldsOK
  <2>9. CASE StopCloses
    BY <2>9 DEF StopCloses, Books, FieldsOK
  <2> QED BY <2>4, <2>5, <2>6, <2>7, <2>8, <2>9
<1>6. FieldsOK'
  BY <1>1, <1>2, <1>4, <1>5, ComparedFacts
     DEF Steady, Books, FieldsOK, clock, exits, market, records
<1> QED BY <1>1, <1>4, <1>6, SteadyBooks DEF clock, exits, market, records

\* The process is gone, with what it was about to do.
LEMMA GoneBooks ==
    ASSUME Books, ProcessEnds \/ Crash, Compared
    PROVE  /\ Books' /\ deferred' = NoOrder /\ retry' = 0 /\ UNCHANGED <<clock, order, own, ledger>>
           /\ \A a \in Actors : ~At(a, "submit")'
           /\ up' = FALSE /\ covered' = (slot # Slots.Cutoff) /\ Progress' # 2
<1>1. /\ up' = FALSE /\ running' = FALSE /\ enabled' = FALSE /\ task' = NoLoop
      /\ call' = "none" /\ job' = [a \in Actors |-> NoJob]
      /\ progress' = 0 /\ synced' = 0 /\ retry' = 0 /\ deferred' = NoOrder
      /\ signals' = NoSignals /\ store' = FALSE
      /\ covered' = (slot # Slots.Cutoff) /\ crossed' = FALSE /\ halted' = FALSE
      /\ UNCHANGED <<clock, order, own, ledger, kept, saved>>
  BY DEF ProcessEnds, Crash, Forget
<1>2. stops' \in 0..MaxStops /\ left' \in {"on", "off", "unknown"}
  <2>1. stops < MaxStops => stops + 1 \in 0..MaxStops
    BY QtyFacts DEF Books, FieldsOK
  <2> QED BY <2>1 DEF ProcessEnds, Crash, Counted, Books, FieldsOK
<1>3. job' \in [Actors -> Jobs] /\ \A a \in Actors : ~At(a, "submit")'
  BY <1>1, NoJobTyped DEF At
<1>4. BookInv'
  <2>1. Planned("SELL", 0)
    BY <1>3 DEF Planned
  <2> QED BY <1>1, <2>1, NoOrderFacts, BookKept DEF Books
<1>5. NoSignals \in Signals /\ ~(NoSignals.net > 0)
  BY QtyFacts DEF NoSignals, Signals
<1>6. FieldsOK'
  <2>1. progress' \in 0..2 /\ synced' \in 0..MaxDays
    BY <1>1, QtyFacts
  <2>2. retry' \in Shares /\ deferred' \in Orders /\ parted' \in BOOLEAN
    BY <1>1, NoOrderFacts, ComparedFacts DEF Books
  <2> QED BY <1>1, <1>2, <1>3, <1>5, <2>1, <2>2 DEF Books, FieldsOK, clock
<1>7. Progress' = 0
  BY <1>1 DEF Progress
<1>8. ClockInv'
  <2>1. day \in Nat
    BY QtyFacts DEF Books, FieldsOK
  <2> QED BY <1>1, <1>7, <2>1 DEF ClockInv, clock
<1> QED BY <1>1, <1>3, <1>4, <1>5, <1>6, <1>7, <1>8, ComparedFacts DEF Books, RecordInv

LEMMA NextSlotBooks ==
    ASSUME Books, NextSlot, Compared
    PROVE  Books' /\ Progress' = Progress
<1>1. /\ slot # Slots.Cutoff /\ slot' = slot + 1
      /\ covered' = (covered /\ (slot = Slots.All => running /\ enabled))
      /\ UNCHANGED <<day, life, job, exits, retry, market, records, disk, crossed, halted, left, stops>>
  BY DEF NextSlot
<1>2. slot \in 1..4 /\ slot' \in 1..4
  BY <1>1, SlotFacts DEF Books, FieldsOK
<1>3. Progress' = Progress
  BY <1>1 DEF Progress, exits
<1>4. BookInv'
  <2>1. Planned("SELL", 0)
    BY <1>1 DEF Planned, At
  <2> QED BY <1>1, <2>1, NoOrderFacts, BookKept DEF Books, market
<1>5. FieldsOK'
  BY <1>1, <1>2, ComparedFacts DEF Books, FieldsOK, life, exits, market, records, disk
<1>6. ClockInv'
  BY <1>1, <1>2, <1>3, SlotFacts DEF Books, ClockInv, Late, life, exits
<1> QED BY <1>1, <1>3, <1>4, <1>5, <1>6, ComparedFacts DEF Books, RecordInv, records

LEMMA NextDayBooks ==
    ASSUME Books, NextDay, Compared
    PROVE  Books' /\ slot' = Slots.Regular
<1>1. /\ day < MaxDays /\ day' = day + 1 /\ slot' = Slots.Regular
      /\ signals' = NoSignals /\ kept' = NoSignals /\ covered' = TRUE
      /\ UNCHANGED <<life, job, exits, retry, market, disk, crossed, halted, left, stops>>
  BY DEF NextDay
<1>2. NoSignals \in Signals /\ ~(NoSignals.net > 0)
  BY QtyFacts DEF NoSignals, Signals
<1>3. BookInv'
  <2>1. Planned("SELL", 0)
    BY <1>1 DEF Planned, At
  <2> QED BY <1>1, <2>1, NoOrderFacts, BookKept DEF Books, market
<1>4. day \in Nat /\ day' \in 1..MaxDays /\ synced \in Nat
  BY <1>1, QtyFacts DEF Books, FieldsOK
<1>5. FieldsOK'
  BY <1>1, <1>2, <1>4, SlotFacts, ComparedFacts DEF Books, FieldsOK, life, exits, market, disk
<1>6. Progress' = 0
  BY <1>1, <1>4 DEF Progress, exits, Books, ClockInv
<1>7. ClockInv'
  BY <1>1, <1>4, <1>6 DEF Books, ClockInv, life, exits
<1> QED BY <1>1, <1>2, <1>3, <1>5, <1>7, ComparedFacts DEF Books, RecordInv

LEMMA BooksStep == LifeInv /\ Books /\ [Next]_vars => Books'
<1> SUFFICES ASSUME LifeInv, Books, [Next]_vars PROVE Books'
  OBVIOUS
<1>1. CASE UNCHANGED vars
  <2>1. UNCHANGED <<clock, life, job, exits, retry, market, records, disk, asked, parted>>
    BY <1>1 DEF vars
  <2>2. Planned("SELL", 0)
    BY <2>1 DEF Planned, At
  <2>3. BookInv'
    BY <2>1, <2>2, NoOrderFacts, BookKept DEF Books, market
  <2>4. FieldsOK'
    BY <2>1 DEF Books, FieldsOK, clock, life, exits, market, records, disk, asked
  <2> QED BY <2>1, <2>3, <2>4
          DEF Books, RecordInv, ClockInv, Progress, Late, Traded, clock, life, exits, market, records
<1>2. CASE Next
  <2>1. Compared
    BY <1>2 DEF Next
  <2>2. CASE NextSlot \/ NextDay
    BY <2>1, <2>2, NextSlotBooks, NextDayBooks
  <2>3. CASE Executes \/ Reported \/ LedgerMisses \/ Dies \/ DeferredGoes
    BY <2>1, <2>3, ExecutesBooks, ReportedBooks, OrderEndsBooks, DeferredGoesBooks
  <2>4. CASE \E a \in Actors : Deferred(a) \/ Taken(a) \/ Refused(a) \/ Blocked(a)
    BY <2>1, <2>4, AnswerBooks
  <2>5. CASE \E l \in Loops : ForceExit(l) \/ RunStrategy(l) \/ Pass(l) \/ LoopEnds(l)
    BY <2>1, <2>5, ForceExitBooks, RunStrategyBooks, PassBooks, LoopEndsBooks
  <2>6. CASE RetryWakes
    BY <2>1, <2>6, WakesBooks
  <2>7. CASE Start \/ StartStrategy \/ StopStrategy \/ Stop \/ StopWaited \/ StopDisables
             \/ StopCloses \/ Shutdown \/ RestoreEnds
    BY <2>1, <2>7, LifeBooks
  <2>8. CASE StopPlans
    BY <2>1, <2>8, StopPlansBooks
  <2>9. CASE ProcessEnds \/ Crash
    BY <2>1, <2>9, GoneBooks
  <2>10. CASE Restore
    BY <2>1, <2>10, RestoreBooks
  <2> QED BY <1>2, <2>2, <2>3, <2>4, <2>5, <2>6, <2>7, <2>8, <2>9, <2>10 DEF Next, Step
<1> QED BY <1>1, <1>2

LEMMA BooksStart == Init => Books
<1> SUFFICES ASSUME Init PROVE Books
  OBVIOUS
<1>1. /\ job = [a \in Actors |-> NoJob] /\ order = NoOrder /\ deferred = NoOrder
      /\ own = 0 /\ ledger = 0 /\ signals = NoSignals /\ kept = NoSignals
      /\ day = 1 /\ slot = Slots.Regular /\ ~up /\ synced = 0 /\ progress = 0 /\ retry = 0
  BY DEF Init
<1>2. job \in [Actors -> Jobs] /\ \A a \in Actors : ~At(a, "submit")
  BY <1>1, NoJobTyped DEF At
<1>3. NoSignals \in Signals /\ ~(NoSignals.net > 0)
  BY QtyFacts DEF NoSignals, Signals
<1>4. FieldsOK
  <2>1. day \in 1..MaxDays /\ slot \in 1..4 /\ progress \in 0..2 /\ synced \in 0..MaxDays
    BY <1>1, QtyFacts, SlotFacts
  <2>2. stops \in 0..MaxStops
    BY QtyFacts DEF Init
  <2> QED BY <1>1, <1>2, <1>3, <2>1, <2>2, NoOrderFacts DEF Init, FieldsOK
<1>5. BookInv
  BY <1>1, <1>2, NoOrderFacts DEF BookInv, Sale
<1>6. RecordInv /\ ClockInv
  BY <1>1, <1>3 DEF RecordInv, ClockInv, Progress
<1> QED BY <1>4, <1>5, <1>6 DEF Books

-----------------------------------------------------------------------------
(* The close of the day, if nothing outlasts the tier that made it *)

\* What is known to be there to sell in the time of the last tier is there, and every sale
\* to come is for it.
LEMMA KnownFacts ==
    ASSUME Books, ExitInv, slot = Slots.All, Known, Traded # 0
    PROVE  /\ order = NoOrder /\ Traded = own /\ own > 0
           /\ ledger > 0 => ledger = own
           /\ up /\ ledger = 0 => signals.net = own /\ signals.bought
           /\ \A a \in Actors : At(a, "submit") => job[a].qty = own
           /\ deferred # NoOrder => deferred.qty = own
           /\ retry > 0 => retry = own
<1>1. /\ own \in Nat /\ ledger \in Nat /\ signals.net \in Int
  BY QtyFacts DEF Books, FieldsOK, Signals
<1>2. order = NoOrder /\ Traded = own
  BY <1>1, TradedFacts DEF ExitInv
<1>3. ledger > 0 => ledger = own
  BY <1>1, <1>2, NoOrderFacts DEF Books, BookInv, Due, Sale
<1>4. up /\ ledger = 0 => signals.net = own /\ signals.bought
  BY <1>1, <1>2 DEF Books, RecordInv, Known
<1> QED BY <1>1, <1>2, <1>3, <1>4 DEF ExitInv

\* An order that is open is for all of it.
LEMMA OpenFacts ==
    ASSUME Books, ExitInv, slot = Slots.All, Known, Open
    PROVE  Traded = 0
BY DEF ExitInv, Open

\* What was known stays known, within the day.
LEMMA KnownBefore ==
    ASSUME Books, Compared, UNCHANGED day, ledger' > 0 => ledger > 0
    PROVE  Known' => Known
BY ComparedFacts DEF Books, Known

LEMMA TradedKept == UNCHANGED <<order, own>> => Traded' = Traded
BY DEF Traded

LEMMA SellsKept ==
    ASSUME SellsOnly, UNCHANGED slot, NEW n, Planned("SELL", n),
           Late => order'.side # "BUY" /\ deferred'.side # "BUY"
    PROVE  SellsOnly'
BY DEF SellsOnly, Late, Planned, At

\* Sales are planned for what is known to be there, and retries are for what was to be sold.
LEMMA ExitKept ==
    ASSUME Books, ExitInv, Compared, UNCHANGED <<day, slot, order, own, ledger>>,
           deferred' = deferred \/ deferred' = NoOrder,
           NEW n, Planned("SELL", n),
           slot = Slots.All /\ Known /\ Traded # 0 =>
              (n = 0 \/ n = own) /\ retry' \in {0, retry, own}
    PROVE  ExitInv'
<1> SUFFICES ASSUME slot = Slots.All, Known, Traded # 0
             PROVE  /\ order' = NoOrder
                    /\ \A a \in Actors : At(a, "submit")' => job'[a].qty = Traded'
                    /\ deferred' # NoOrder => deferred'.qty = Traded'
                    /\ retry' > 0 => retry' = Traded'
  BY KnownBefore, TradedKept DEF ExitInv
<1>1. /\ order = NoOrder /\ Traded' = own /\ own > 0
      /\ \A a \in Actors : At(a, "submit") => job[a].qty = own
      /\ deferred # NoOrder => deferred.qty = own
      /\ retry > 0 => retry = own
  BY KnownFacts, TradedKept
<1>2. \A a \in Actors : At(a, "submit")' => job'[a].qty = Traded'
  BY <1>1 DEF Planned
<1> QED BY <1>1, <1>2

LEMMA FlatKept ==
    ASSUME Books, FlatInv, Compared, UNCHANGED <<day, slot>>, covered' => covered,
           crossed => crossed',
           slot = Slots.Cutoff => ledger' <= ledger /\ own' <= own /\ ledger' \in Nat /\ own' \in Nat
    PROVE  FlatInv'
<1>1. ledger \in Nat /\ own \in Nat
  BY QtyFacts DEF Books, FieldsOK
<1> QED BY <1>1, ComparedFacts DEF Books, FlatInv

\* Steps that take an order further, or end it, when all there is is in it.
LEMMA TradeDay ==
    ASSUME DayInv, Compared, Books', UNCHANGED <<day, slot, up, running, call, exits, covered, crossed>>,
           Planned("SELL", 0), At("stop", "close")' => At("stop", "close"),
           Late => order'.side # "BUY" /\ deferred'.side # "BUY" /\ ledger' <= ledger /\ own' <= own,
           slot = Slots.All /\ Known => Traded' = 0
    PROVE  DayInv'
<1>1. own \in Nat /\ ledger \in Nat /\ own' \in Nat /\ ledger' \in Nat
  BY QtyFacts DEF DayInv, Books, FieldsOK
<1>2. SellsOnly'
  BY SellsKept DEF DayInv
<1>3. slot = Slots.All /\ Known' => Traded' = 0
  BY <1>1, KnownBefore DEF DayInv, Late
<1>4. ExitInv' /\ ComingInv'
  BY <1>3 DEF ExitInv, ComingInv, Exits
<1>5. FlatInv'
  BY <1>1, FlatKept DEF DayInv, Late
<1>6. HandInv'
  BY DEF DayInv, HandInv, Exits, Progress, exits
<1> QED BY <1>2, <1>4, <1>5, <1>6 DEF DayInv

LEMMA MarketDay ==
    ASSUME LifeInv, DayInv, Executes \/ Reported \/ LedgerMisses \/ Dies \/ DeferredGoes, Compared
    PROVE  DayInv'
<1>1. /\ UNCHANGED <<clock, life, job, exits, retry, records, disk, asked>>
      /\ deferred' = deferred \/ deferred' = NoOrder
  BY DEF Executes, Reported, LedgerMisses, Dies, DeferredGoes
<1>2. Books' /\ Books
  BY ExecutesBooks, ReportedBooks, OrderEndsBooks, DeferredGoesBooks DEF DayInv
<1>3. Planned("SELL", 0)
  BY <1>1 DEF Planned, At
<1>4. /\ own \in Nat /\ ledger \in Nat /\ (order # NoOrder => order.qty \in Nat)
      /\ Late => order.side # "BUY" /\ deferred.side # "BUY"
      /\ order # NoOrder /\ order.side # "BUY" => order.side = "SELL"
  BY QtyFacts DEF DayInv, Books, FieldsOK, BookInv, Wants, SellsOnly
<1>5. Late => order'.side # "BUY" /\ deferred'.side # "BUY" /\ ledger' <= ledger /\ own' <= own
  <2> SUFFICES ASSUME Late PROVE order'.side # "BUY" /\ ledger' <= ledger /\ own' <= own
    BY <1>1, <1>4, NoOrderFacts
  <2>1. CASE Executes
    <3>1. order' = [order EXCEPT !.done = TRUE] /\ own' = own - order.qty /\ ledger' = ledger
      BY <1>4, <2>1 DEF Executes, Open
    <3>2. order'.side = order.side
      BY <1>2, <3>1 DEF Books, FieldsOK, Orders
    <3> QED BY <1>4, <2>1, <3>1, <3>2 DEF Executes, Open
  <2>2. CASE Reported
    <3>1. order' = NoOrder /\ own' = own /\ ledger' = ledger - Least(order.qty, ledger)
      BY <1>4, <2>2 DEF Reported, Open
    <3>2. Least(order.qty, ledger) \in Nat
      BY <1>4, <2>2 DEF Reported, Open, Least
    <3> QED BY <1>4, <3>1, <3>2, NoOrderFacts
  <2>3. CASE LedgerMisses \/ Dies
    <3>1. order' = NoOrder /\ UNCHANGED <<own, ledger>>
      BY <2>3 DEF LedgerMisses, Dies
    <3> QED BY <1>4, <3>1, NoOrderFacts
  <2>4. CASE DeferredGoes
    BY <1>4, <2>4 DEF DeferredGoes
  <2> QED BY <2>1, <2>2, <2>3, <2>4
<1>6. slot = Slots.All /\ Known => Traded' = 0
  <2> SUFFICES ASSUME slot = Slots.All, Known PROVE Traded' = 0
    OBVIOUS
  <2>0. Late
    BY DEF Late
  <2>1. CASE Executes
    <3>1. /\ order.side = "SELL" /\ ~order.done /\ Traded = 0
          /\ order' = [order EXCEPT !.done = TRUE] /\ own' = own - order.qty
      BY <1>2, <1>4, <2>0, <2>1, OpenFacts DEF Executes, Open, DayInv
    <3>2. order'.done
      BY <1>2, <3>1 DEF Books, FieldsOK, Orders
    <3> QED BY <3>1, <3>2 DEF Traded
  <2>2. CASE Reported
    <3>1. Traded = 0 /\ order.done /\ order' = NoOrder /\ own' = own
      BY <1>2, <2>2, OpenFacts DEF Reported, DayInv
    <3> QED BY <1>4, <3>1, NoOrderFacts DEF Traded
  <2>3. CASE LedgerMisses \/ Dies
    BY <1>4, <2>0, <2>3 DEF LedgerMisses, Dies, Firm, Open
  <2>4. CASE DeferredGoes
    <3>1. /\ deferred.side = "SELL" /\ deferred.qty \in Nat /\ deferred.qty > 0 /\ ~deferred.done
          /\ order = NoOrder /\ own' = own
          /\ (Covers(deferred) /\ order' = deferred) \/ (~Covers(deferred) /\ UNCHANGED order)
          /\ Covers(deferred) <=> deferred.qty <= own
      BY <1>2, <1>4, <2>0, <2>4, QtyFacts
         DEF DeferredGoes, Open, Firm, Covers, Books, FieldsOK, BookInv, Wants
    <3>2. Traded = own
      BY <1>4, <3>1, TradedFacts
    <3>3. Traded # 0 => deferred.qty = own
      BY <1>2, <2>4, KnownFacts DEF DeferredGoes, DayInv
    <3>4. own = 0 => UNCHANGED order
      BY <1>4, <3>1
    <3>5. own # 0 => order' = deferred /\ deferred.qty = own
      BY <1>4, <3>1, <3>2, <3>3
    <3> QED BY <1>4, <3>1, <3>2, <3>4, <3>5, NoOrderFacts DEF Traded
  <2> QED BY <2>1, <2>2, <2>3, <2>4
<1>7. At("stop", "close")' => At("stop", "close")
  BY <1>1 DEF At
<1> QED BY <1>1, <1>2, <1>3, <1>5, <1>6, <1>7, TradeDay DEF clock, life, asked, exits

\* An answer: the order is placed for all there is, deferred behind one that is, or sleeps.
LEMMA AnswerDay ==
    ASSUME LifeInv, DayInv, NEW a \in Actors, Deferred(a) \/ Taken(a) \/ Refused(a) \/ Blocked(a),
           Compared
    PROVE  DayInv'
<1>1. /\ Submits(a) /\ Answered(a) /\ Books
      /\ UNCHANGED <<clock, life, exits, own, ledger, disk, asked>>
  BY DEF DayInv, Deferred, Taken, Refused, Blocked, market
<1>2. /\ Planned("SELL", 0) /\ At(a, "submit") /\ Books'
      /\ \A b \in Actors \ {a} : job'[b] = job[b]
      /\ Asks(a) # NoOrder /\ ~Asks(a).done
      /\ Asks(a).side = job[a].side /\ Asks(a).qty = job[a].qty
      /\ job[a].side \in {"BUY", "SELL"} /\ job[a].qty \in Nat /\ job[a].qty > 0
  BY <1>1, AnswerJobs, AnswerBooks, QtyFacts DEF Wants
<1>3. /\ own \in Nat /\ ledger \in Nat /\ retry \in Nat
      /\ Late => order.side # "BUY" /\ deferred.side # "BUY" /\ job[a].side = "SELL"
  BY <1>1, <1>2, QtyFacts DEF DayInv, Books, FieldsOK, SellsOnly
<1>4. At("stop", "close")' => At("stop", "close")
  BY <1>1, PcTyped, NoJobTyped, ActorFacts DEF Answered, At, Books, FieldsOK
<1>5. CASE Deferred(a)
  <2>1. UNCHANGED order /\ (deferred' = deferred \/ deferred' = Asks(a)) /\ Open
    BY <1>5 DEF Deferred
  <2>2. Late => order'.side # "BUY" /\ deferred'.side # "BUY"
    BY <1>2, <1>3, <2>1
  <2>3. slot = Slots.All /\ Known => Traded' = 0
    BY <1>1, <2>1, OpenFacts, TradedKept DEF DayInv
  <2> QED BY <1>1, <1>2, <1>3, <1>4, <2>2, <2>3, TradeDay DEF clock, life, asked, exits
<1>6. CASE Taken(a)
  <2>1. ~Open /\ Covers(Asks(a)) /\ order' = Asks(a) /\ UNCHANGED deferred
    BY <1>6 DEF Taken
  <2>2. Late => order'.side # "BUY" /\ deferred'.side # "BUY"
    BY <1>2, <1>3, <2>1
  <2>3. slot = Slots.All /\ Known => Traded' = 0
    <3> SUFFICES ASSUME slot = Slots.All, Known PROVE Traded' = 0
      OBVIOUS
    <3>1. order = NoOrder /\ job[a].side = "SELL" /\ job[a].qty <= own
      BY <1>2, <1>3, <2>1 DEF Open, Covers, Late
    <3>2. Traded = own
      BY <1>3, <3>1, TradedFacts
    <3>3. job[a].qty = own
      BY <1>1, <1>2, <1>3, <3>1, <3>2, KnownFacts DEF DayInv
    <3> QED BY <1>1, <1>2, <1>3, <2>1, <3>1, <3>3 DEF Traded
  <2> QED BY <1>1, <1>2, <1>3, <1>4, <2>2, <2>3, TradeDay DEF clock, life, asked, exits
<1>7. CASE Refused(a)
  <2>1. UNCHANGED <<order, deferred>> /\ ~Open /\ (Firm(Asks(a)) => ~Covers(Asks(a)))
    BY <1>7 DEF Refused, market
  <2>2. Late => order'.side # "BUY" /\ deferred'.side # "BUY"
    BY <1>3, <2>1
  <2>3. slot = Slots.All /\ Known => Traded' = 0
    <3> SUFFICES ASSUME slot = Slots.All, Known, Traded # 0 PROVE FALSE
      BY <1>1, <2>1, TradedKept
    <3>1. job[a].qty = own /\ job[a].side = "SELL"
      BY <1>1, <1>2, <1>3, KnownFacts DEF DayInv, Late
    <3> QED BY <1>2, <1>3, <2>1, <3>1 DEF Firm, Covers
  <2> QED BY <1>1, <1>2, <1>3, <1>4, <2>2, <2>3, TradeDay DEF clock, life, asked, exits
<1>8. CASE Blocked(a)
  <2>1. /\ UNCHANGED <<order, deferred>> /\ slot # Slots.Cutoff
        /\ retry' = IF retry = 0 THEN job[a].qty ELSE retry
    BY <1>8 DEF Blocked, market
  <2>2. SellsOnly'
    BY <1>1, <1>2, <1>3, <2>1, SellsKept DEF DayInv, clock
  <2>3. ExitInv'
    <3>1. slot = Slots.All /\ Known /\ Traded # 0 => retry' \in {0, retry, own}
      BY <1>1, <1>2, <2>1, KnownFacts DEF DayInv
    <3> QED BY <1>1, <1>2, <2>1, <3>1, ExitKept DEF DayInv, clock
  <2>4. ComingInv'
    BY <1>2, <1>3, <2>1 DEF ComingInv, Coming
  <2>5. FlatInv' /\ HandInv'
    BY <1>1, <1>4, <2>1, SlotFacts DEF DayInv, FlatInv, HandInv, Exits, Progress, clock, life, exits, asked
  <2> QED BY <1>2, <2>2, <2>3, <2>4, <2>5 DEF DayInv
<1> QED BY <1>5, <1>6, <1>7, <1>8

\* What the liquidation finds in the time of the last tier, and what the last tier must find.
LEMMA LiquidationFacts ==
    ASSUME Books, ExitInv, slot = Slots.All, Known, Traded # 0, up, NEW answered \in BOOLEAN
    PROVE  /\ Liquidation(answered) = 0 \/ Liquidation(answered) = own
           /\ answered => Liquidation(answered) = own
<1>1. /\ order = NoOrder /\ own > 0 /\ (ledger > 0 => ledger = own)
      /\ ledger = 0 => signals.net = own /\ signals.bought
  BY KnownFacts
<1>2. own \in Nat /\ ledger \in Nat
  BY QtyFacts DEF Books, FieldsOK
<1>3. ledger = 0 /\ answered => Liquidation(answered) = own
  BY <1>1, <1>2, NoOrderFacts DEF Liquidation, Least
<1> QED BY <1>1, <1>2, <1>3 DEF Liquidation

\* Steps that plan a sale, and trade nothing.
LEMMA PlanDay ==
    ASSUME DayInv, Compared, Books', NEW n, Planned("SELL", n),
           UNCHANGED <<day, slot, order, own, ledger, deferred>>,
           covered' => covered, crossed => crossed',
           slot = Slots.All /\ Known /\ Traded # 0 =>
              /\ n = 0 \/ n = own
              /\ retry' \in {0, retry, own}
              /\ Exits' /\ running' => Coming',
           HandInv'
    PROVE  DayInv'
<1>1. own \in Nat /\ ledger \in Nat
  BY QtyFacts DEF DayInv, Books, FieldsOK
<1>2. SellsOnly'
  BY SellsKept DEF DayInv, SellsOnly
<1>3. ExitInv'
  BY ExitKept DEF DayInv
<1>4. ComingInv'
  BY KnownBefore, TradedKept DEF DayInv, ComingInv, Exits
<1>5. FlatInv'
  BY <1>1, FlatKept DEF DayInv
<1> QED BY <1>2, <1>3, <1>4, <1>5 DEF DayInv

LEMMA ForceExitDay ==
    ASSUME LifeInv, DayInv, NEW l \in Loops, ForceExit(l), Compared
    PROVE  DayInv'
<1>1. PICK n \in Shares : /\ job' = [job EXCEPT ![l] = Sell(n, TRUE)]
                          /\ slot = Slots.All => n = Liquidation(TRUE)
  BY ForceExitFacts DEF DayInv
<1>2. /\ running /\ UNCHANGED <<clock, life, retry, market, records, disk, asked>> /\ Books
  BY ForceExitFacts DEF DayInv
<1>3. Books' /\ up
  BY <1>2, ForceExitBooks, UpFacts
<1>4. Planned("SELL", n) /\ (n # 0 => At(l, "submit")')
  BY <1>1, <1>2, SellJobs, ActorFacts
<1>5. slot = Slots.All /\ Known /\ Traded # 0 => n = own /\ Coming'
  <2> SUFFICES ASSUME slot = Slots.All, Known, Traded # 0 PROVE n = own /\ Coming'
    OBVIOUS
  <2>1. n = own /\ own > 0
    BY <1>1, <1>2, <1>3, KnownFacts, LiquidationFacts DEF DayInv
  <2>2. At(l, "submit")'
    BY <1>4, <2>1
  <2> QED BY <2>1, <2>2, ActorFacts DEF Coming
<1>6. HandInv'
  BY <1>2, <1>3 DEF HandInv, life
<1> QED BY <1>2, <1>3, <1>4, <1>5, <1>6, PlanDay DEF clock, market, asked

\* Before the last tier nothing is asked of the day.
LEMMA EarlyDay ==
    ASSUME Books', slot' \notin {Slots.All, Slots.Cutoff}
    PROVE  DayInv'
BY DEF DayInv, SellsOnly, ExitInv, HandInv, ComingInv, FlatInv, Exits, Late

LEMMA PassDay ==
    ASSUME LifeInv, DayInv, NEW l \in Loops, Pass(l), Compared
    PROVE  DayInv'
<1>1. /\ UNCHANGED <<clock, life, job, retry, market, records, disk, asked>>
      /\ Books' /\ Progress' = Progress
  BY PassBooks DEF Pass, DayInv
<1>2. Planned("SELL", 0)
  BY <1>1 DEF Planned, At
<1>3. Exits' => Exits
  BY <1>1 DEF Exits, clock, asked
<1>4. HandInv'
  BY <1>1, <1>3 DEF DayInv, HandInv, life, At
<1>5. Coming => Coming'
  BY <1>1 DEF Coming, market, At
<1>6. Exits' /\ running' /\ Known /\ Traded # 0 => Coming'
  BY <1>1, <1>3, <1>5 DEF DayInv, ComingInv, life
<1> QED BY <1>1, <1>2, <1>4, <1>6, PlanDay DEF clock, market, asked

\* While nothing stops the scheduler its loop does not end.
LEMMA LoopEndsDay ==
    ASSUME LifeInv, DayInv, NEW l \in Loops, LoopEnds(l), Compared
    PROVE  DayInv'
<1>1. /\ UNCHANGED <<clock, life, exits, retry, deferred, own, ledger, records, disk, asked>>
      /\ Books
  BY DEF LoopEnds, DayInv
<1>2. /\ Books' /\ Planned("SELL", 0)
      /\ UNCHANGED order \/ (~Open /\ At(l, "submit") /\ Covers(Asks(l)) /\ order' = Asks(l))
  BY <1>1, LoopEndsBooks
<1>3. /\ own \in Nat /\ ledger \in Nat
      /\ Late => order.side # "BUY" /\ deferred.side # "BUY"
  BY QtyFacts DEF DayInv, Books, FieldsOK, SellsOnly
<1>4. UNCHANGED At("stop", "close")
  BY OneTyped, NoJobTyped, ActorFacts DEF LoopEnds, At, DayInv, Books, FieldsOK
<1>5. CASE UNCHANGED order
  <2>1. ~(running /\ ~crossed)
    <3> SUFFICES ASSUME running, ~crossed PROVE FALSE
      OBVIOUS
    <3>1. Alive(l) /\ job[l].cancelled
      BY DEF LoopEnds
    <3>2. call \in {"none", "one"} => FALSE
      BY <3>1 DEF LifeInv, LoopInv
    <3>3. call \in {"all", "save", "restore"} => FALSE
      BY <3>1 DEF LifeInv, LoopInv, NoneAlive
    <3> QED BY <3>2, <3>3 DEF LifeInv, ShapeInv
  <2>2. HandInv'
    BY <1>1, <1>4 DEF DayInv, HandInv, Exits, Progress, clock, life, asked, exits
  <2> QED BY <1>1, <1>2, <1>5, <2>1, <2>2, PlanDay DEF Exits, clock, life, asked
<1>6. CASE ~Open /\ At(l, "submit") /\ Covers(Asks(l)) /\ order' = Asks(l)
  <2>1. /\ Asks(l).side = job[l].side /\ Asks(l).qty = job[l].qty /\ ~Asks(l).done
        /\ job[l].qty \in Nat /\ job[l].qty > 0 /\ (Late => job[l].side = "SELL")
    BY <1>1, <1>6, ActorFacts, QtyFacts DEF Asks, Books, BookInv, Wants, DayInv, SellsOnly
  <2>2. Late => order'.side # "BUY" /\ deferred'.side # "BUY"
    BY <1>1, <1>3, <1>6, <2>1
  <2>3. slot = Slots.All /\ Known => Traded' = 0
    <3> SUFFICES ASSUME slot = Slots.All, Known PROVE Traded' = 0
      OBVIOUS
    <3>1. order = NoOrder /\ job[l].side = "SELL" /\ job[l].qty <= own
      BY <1>6, <2>1 DEF Open, Covers, Late
    <3>2. Traded = own
      BY <1>3, <3>1, TradedFacts
    <3>3. job[l].qty = own
      BY <1>1, <1>3, <1>6, <2>1, <3>1, <3>2, KnownFacts, ActorFacts DEF DayInv
    <3> QED BY <1>1, <1>3, <1>6, <2>1, <3>1, <3>3 DEF Traded
  <2> QED BY <1>1, <1>2, <1>3, <1>4, <2>2, <2>3, TradeDay DEF clock, life, asked, exits
<1> QED BY <1>2, <1>5, <1>6

LEMMA WakesDay ==
    ASSUME LifeInv, DayInv, RetryWakes, Compared
    PROVE  DayInv'
<1>1. /\ retry > 0 /\ retry' = 0 /\ Books /\ Books'
      /\ UNCHANGED <<clock, life, exits, market, records, disk, asked>>
  BY WakesFacts, WakesBooks DEF DayInv
<1>2. own \in Nat /\ retry \in Nat
  BY QtyFacts DEF DayInv, Books, FieldsOK
<1>3. CASE /\ UNCHANGED job
           /\ \/ ~running \/ slot = Slots.Cutoff \/ (Sale /\ ~order.done) \/ own = 0
              \/ slot # Slots.All
  <2>1. Planned("SELL", 0)
    BY <1>3 DEF Planned, At
  <2>2. slot = Slots.All /\ Known /\ Traded # 0 => ~running
    <3> SUFFICES ASSUME slot = Slots.All, Known, Traded # 0, running PROVE FALSE
      OBVIOUS
    <3>1. order = NoOrder /\ own > 0
      BY <1>1, KnownFacts DEF DayInv
    <3> QED BY <1>2, <1>3, <3>1, SlotFacts, NoOrderFacts DEF Sale
  <2>3. HandInv'
    BY <1>1, <1>3 DEF DayInv, HandInv, Exits, Progress, At, clock, life, asked, exits
  <2> QED BY <1>1, <2>1, <2>2, <2>3, PlanDay DEF clock, life, market, asked
<1>4. CASE /\ Again(retry) \in Shares /\ Again(retry) > 0
           /\ job' = [job EXCEPT !["retry"] = Sell(Again(retry), TRUE)]
  <2> DEFINE n == Again(retry)
  <2>0. n \in Shares /\ n # 0 /\ job' = [job EXCEPT !["retry"] = Sell(n, TRUE)]
    BY <1>4
  <2> HIDE DEF n
  <2>1. Planned("SELL", n) /\ At("retry", "submit")' /\ job'["stop"] = job["stop"]
    BY <1>1, <2>0, SellJobs, ActorFacts
  <2>2. slot = Slots.All /\ Known /\ Traded # 0 => n = own
    BY <1>1, <1>2, KnownFacts DEF n, DayInv, Again, Least
  <2>3. Coming'
    BY <2>1, ActorFacts DEF Coming
  <2>4. HandInv'
    BY <1>1, <2>1 DEF DayInv, HandInv, Exits, Progress, At, clock, life, asked, exits
  <2> QED BY <1>1, <2>1, <2>2, <2>3, <2>4, PlanDay DEF clock, life, market, asked
<1> QED BY <1>1, <1>3, <1>4, WakesFacts

\* Requests, and what becomes of a stop: a strategy that was sold out and is covered runs on.
LEMMA LifeDay ==
    ASSUME LifeInv, DayInv, Compared,
           \/ Start \/ StartStrategy \/ StopStrategy \/ Stop \/ Shutdown
           \/ StopWaited \/ StopDisables \/ StopCloses \/ RestoreEnds
    PROVE  DayInv'
<1>1. /\ Books' /\ Steady /\ retry' \in {0, retry} /\ UNCHANGED <<clock, exits, market, up>>
      /\ Planned("SELL", 0)
  BY LifeBooks, SteadyPlanned DEF DayInv
<1>2. /\ covered' => covered
      /\ crossed => crossed'
  <2>1. CASE Start \/ StartStrategy
    <3>1. UNCHANGED covered /\ crossed' = (crossed \/ ~At("stop", "none"))
      BY <2>1 DEF Start, StartStrategy, Asked
    <3> QED BY <3>1
  <2>2. CASE StopDisables
    <3>1. covered' = StillCovered /\ UNCHANGED crossed
      BY <2>2 DEF StopDisables
    <3> QED BY <3>1 DEF StillCovered
  <2>3. CASE StopStrategy \/ Stop \/ Shutdown \/ StopWaited \/ StopCloses \/ RestoreEnds
    <3>1. UNCHANGED <<covered, crossed>>
      BY <2>3 DEF StopStrategy, Stop, Shutdown, StopWaited, StopCloses, RestoreEnds, asked
    <3> QED BY <3>1
  <2> QED BY <2>1, <2>2, <2>3
<1>3. Exits' => Exits
  BY <1>1, <1>2, ComparedFacts DEF Exits, Progress, clock, exits
<1>4. ASSUME Exits'
      PROVE  /\ up' /\ (running' \/ (call' \in {"all", "save"} /\ ~At("stop", "close")'))
             /\ running' => running /\ retry' = retry
  <2>1. up /\ (running \/ (call \in {"all", "save"} /\ ~At("stop", "close"))) /\ up'
    BY <1>1, <1>3, <1>4 DEF DayInv, HandInv
  <2>2. call = "none" <=> At("stop", "none")
    BY DEF LifeInv, CallInv
  <2>3. CASE Start \/ StartStrategy
    <3>1. At("stop", "none") /\ running' /\ retry' = retry
      BY <1>4, <2>3 DEF Exits, Start, StartStrategy, Asked
    <3> QED BY <2>1, <2>2, <3>1
  <2>4. CASE StopStrategy
    <3>1. At("stop", "none") /\ running' = running /\ retry' = retry
      BY <2>4 DEF StopStrategy
    <3> QED BY <2>1, <2>2, <3>1
  <2>5. CASE Stop \/ Shutdown
    <3>1. StopLoop /\ At("stop", "none") /\ call' \in {"all", "save"}
      BY <2>5 DEF Stop, Shutdown
    <3>2. running' = FALSE /\ job'["stop"].pc \in {"plan", "wait"}
      BY <3>1, SteadyStopLoop DEF DayInv
    <3> QED BY <2>1, <3>1, <3>2 DEF At
  <2>6. CASE StopWaited
    <3>1. /\ job' = [job EXCEPT !["stop"] = [NoJob EXCEPT !.pc = "plan"]]
          /\ UNCHANGED <<running, call, retry>>
      BY <2>6 DEF StopWaited
    <3>2. [NoJob EXCEPT !.pc = "plan"].pc = "plan"
      BY NoJobTyped, PcTyped
    <3>3. job'["stop"].pc = "plan"
      BY <3>1, <3>2, ActorFacts DEF DayInv, Books, FieldsOK
    <3> QED BY <2>1, <3>1, <3>3 DEF At
  <2>7. CASE StopDisables
    <3>1. slot = Slots.All /\ Progress = 2 /\ ~StillCovered
      BY <1>3, <1>4 DEF Exits, StillCovered
    <3>2. covered' = StillCovered
      BY <2>7 DEF StopDisables
    <3> QED BY <1>4, <3>1, <3>2 DEF Exits
  <2>8. CASE StopCloses
    <3>1. At("stop", "close") /\ call = "all" /\ ~crossed
      BY <1>3, <1>4, <2>8 DEF StopCloses, Exits
    <3>2. ~running
      BY <3>1 DEF LifeInv, LoopInv
    <3> QED BY <2>1, <3>1, <3>2
  <2>9. CASE RestoreEnds
    <3>1. running /\ UNCHANGED <<running, retry>>
      BY <2>9 DEF RestoreEnds, LifeInv, CallInv
    <3> QED BY <2>1, <3>1
  <2> QED BY <2>3, <2>4, <2>5, <2>6, <2>7, <2>8, <2>9
<1>5. HandInv'
  BY <1>4 DEF HandInv
<1>6. Exits' /\ running' /\ Known /\ Traded # 0 => Coming'
  <2> SUFFICES ASSUME Exits', running', Known, Traded # 0 PROVE Coming'
    OBVIOUS
  <2>1. Coming /\ retry' = retry
    BY <1>3, <1>4 DEF DayInv, ComingInv
  <2> QED BY <1>1, <2>1 DEF Coming, Steady, market
<1> QED BY <1>1, <1>2, <1>5, <1>6, PlanDay DEF clock, market

LEMMA StopPlansDay ==
    ASSUME LifeInv, DayInv, StopPlans, Compared
    PROVE  DayInv'
<1>1. PICK n \in Shares : /\ n = 0 \/ \E answered \in BOOLEAN : n = Liquidation(answered)
                          /\ job' \in [Actors -> Jobs] /\ Planned("SELL", n)
                          /\ \A b \in Actors \ {"stop"} : job'[b] = job[b]
                          /\ ~At("stop", "close")'
  BY StopPlansFacts DEF DayInv
<1>2. /\ At("stop", "plan") /\ UNCHANGED <<clock, life, exits, retry, market, records, disk, asked>>
      /\ Books /\ Books'
  BY StopPlansFacts, StopPlansBooks DEF DayInv
<1>3. up
  BY <1>2, UpFacts DEF At
<1>4. Exits' => Exits
  BY <1>2 DEF Exits, Progress, clock, exits, asked
<1>5. HandInv'
  BY <1>1, <1>2, <1>4 DEF DayInv, HandInv, life
<1>6. Coming => Coming'
  BY <1>1, <1>2 DEF Coming, At, market
<1>7. slot = Slots.All /\ Known /\ Traded # 0 => n = 0 \/ n = own
  BY <1>1, <1>2, <1>3, LiquidationFacts DEF DayInv
<1>8. Exits' /\ running' /\ Known /\ Traded # 0 => Coming'
  BY <1>2, <1>4, <1>6 DEF DayInv, ComingInv, life
<1> QED BY <1>1, <1>2, <1>5, <1>7, <1>8, PlanDay DEF clock, market, asked

LEMMA GoneDay ==
    ASSUME LifeInv, DayInv, ProcessEnds \/ Crash, Compared
    PROVE  DayInv'
<1>1. /\ Books' /\ deferred' = NoOrder /\ retry' = 0 /\ UNCHANGED <<clock, order, own, ledger>>
      /\ \A a \in Actors : ~At(a, "submit")'
      /\ covered' = (slot # Slots.Cutoff) /\ Progress' # 2
  BY GoneBooks DEF DayInv
<1>2. Planned("SELL", 0)
  BY <1>1 DEF Planned
<1>3. SellsOnly'
  BY <1>1, <1>2, NoOrderFacts, SellsKept DEF DayInv, SellsOnly, clock
<1>4. ExitInv'
  BY <1>1, <1>2, ExitKept DEF DayInv, clock
<1>5. HandInv' /\ ComingInv' /\ FlatInv'
  BY <1>1 DEF HandInv, ComingInv, FlatInv, Exits, clock
<1> QED BY <1>1, <1>3, <1>4, <1>5 DEF DayInv

LEMMA RestoreDay ==
    ASSUME LifeInv, DayInv, Restore, Compared
    PROVE  DayInv'
<1>1. PICK n \in {0, ledger} : Planned("SELL", n)
  BY RestoreFacts DEF DayInv
<1>2. /\ ~up /\ UNCHANGED <<clock, task, synced, retry, market, kept, saved, asked>>
      /\ Books /\ Books'
  BY RestoreFacts, RestoreBooks DEF DayInv
<1>3. synced = 0 /\ day # 0
  BY <1>2, QtyFacts DEF Books, ClockInv, FieldsOK
<1>4. Progress' # 2
  BY <1>2, <1>3 DEF Progress, clock
<1>5. ~Exits'
  BY <1>4 DEF Exits
<1>6. HandInv'
  BY <1>5 DEF HandInv
<1>7. slot = Slots.All /\ Known /\ Traded # 0 => n = 0 \/ n = own
  <2>1. ledger \in Nat
    BY <1>2, QtyFacts DEF Books, FieldsOK
  <2> QED BY <1>1, <1>2, <2>1, KnownFacts DEF DayInv
<1> QED BY <1>1, <1>2, <1>5, <1>6, <1>7, PlanDay DEF clock, market, asked

\* Nothing of an earlier tier comes into the time of the last, nor of its time into the cutoff.
LEMMA NextSlotDay ==
    ASSUME DayInv, NextSlot, AllSettled, Compared
    PROVE  DayInv'
<1>1. /\ slot # Slots.Cutoff /\ slot' = slot + 1
      /\ AllSettled
      /\ slot = Slots.All /\ running /\ enabled => Tier(Progress) = 0
      /\ covered' = (covered /\ (slot = Slots.All => running /\ enabled))
      /\ UNCHANGED <<day, life, job, exits, retry, market, records, disk, crossed, halted, left, stops>>
  BY DEF NextSlot
<1>2. Books' /\ Progress' = Progress /\ Books
  BY NextSlotBooks DEF DayInv
<1>3. slot \in 1..4 /\ own \in Nat /\ ledger \in Nat
  BY <1>2, QtyFacts DEF Books, FieldsOK
<1>4. /\ order = NoOrder /\ deferred = NoOrder /\ \A a \in Actors : ~At(a, "submit")
      /\ order' = NoOrder /\ deferred' = NoOrder /\ \A a \in Actors : ~At(a, "submit")'
      /\ retry' = 0
  BY <1>1 DEF AllSettled, Open, At, market
<1>5. SellsOnly' /\ ExitInv'
  BY <1>4, NoOrderFacts DEF SellsOnly, ExitInv
<1>6. ~Exits'
  <2>1. Progress = 2 => slot \in {Slots.All, Slots.Cutoff}
    BY <1>2 DEF Books, ClockInv, Late
  <2> QED BY <1>1, <1>2, <1>3, <2>1, SlotFacts DEF Exits
<1>7. FlatInv'
  <2> SUFFICES ASSUME slot' = Slots.Cutoff, covered', ~crossed'
               PROVE  ledger' = 0 /\ (own' > 0 => parted')
    BY DEF FlatInv
  <2>1. slot = Slots.All /\ covered /\ running /\ enabled /\ ~crossed
    <3>1. slot = Slots.All
      <4>1. slot + 1 = 4 /\ slot \in 1..4
        BY <1>1, <1>3, SlotFacts
      <4> QED BY <4>1, SlotFacts
    <3>2. covered /\ running /\ enabled /\ ~crossed
      BY <1>1, <3>1
    <3> QED BY <3>1, <3>2
  <2>2. Progress = 2
    <3>1. Progress \in 0..2
      BY <1>2 DEF Books, FieldsOK, Progress
    <3> QED BY <1>1, <2>1, <3>1, SlotFacts DEF Tier
  <2>3. ~Coming
    BY <1>1, <1>4 DEF Coming
  <2>4. Known => Traded = 0
    BY <2>1, <2>2, <2>3 DEF DayInv, ComingInv, Exits
  <2>5. Traded = own
    BY <1>3, <1>4, TradedFacts
  <2>6. ledger > 0 => ledger = own
    BY <1>2, <1>3, <1>4, NoOrderFacts DEF Books, BookInv, Due, Sale
  <2>7. ledger = 0 /\ (own > 0 => parted)
    BY <1>3, <2>4, <2>5, <2>6 DEF Known
  <2> QED BY <1>1, <1>2, <2>7, ComparedFacts DEF Books, market
<1> QED BY <1>2, <1>5, <1>6, <1>7 DEF DayInv, HandInv, ComingInv

LEMMA DayStep ==
    ASSUME LifeInv, DayInv, [Next]_vars, NextSlot => AllSettled
    PROVE  DayInv'
<1>1. CASE UNCHANGED vars
  <2>1. UNCHANGED <<clock, life, job, exits, retry, market, records, disk, asked, parted>>
    BY <1>1 DEF vars
  <2>2. Books'
    BY BooksStep DEF DayInv
  <2>3. UNCHANGED <<Traded, Known, Progress, Late>>
    BY <2>1 DEF Traded, Known, Progress, Late, clock, market, exits
  <2>4. SellsOnly' /\ ExitInv'
    BY <2>1, <2>3 DEF DayInv, SellsOnly, ExitInv, At, clock, market
  <2>5. HandInv' /\ ComingInv' /\ FlatInv'
    BY <2>1, <2>3 DEF DayInv, HandInv, ComingInv, FlatInv, Exits, Coming, At, clock, market, life, asked
  <2> QED BY <2>2, <2>4, <2>5 DEF DayInv
<1>2. CASE Next
  <2>1. Compared
    BY <1>2 DEF Next
  <2>2. CASE NextSlot
    BY <2>1, <2>2, NextSlotDay
  <2>3. CASE NextDay
    BY <2>1, <2>3, NextDayBooks, EarlyDay, SlotFacts DEF DayInv
  <2>4. CASE Executes \/ Reported \/ LedgerMisses \/ Dies \/ DeferredGoes
    BY <2>1, <2>4, MarketDay
  <2>5. CASE \E a \in Actors : Deferred(a) \/ Taken(a) \/ Refused(a) \/ Blocked(a)
    BY <2>1, <2>5, AnswerDay
  <2>6. CASE \E l \in Loops : ForceExit(l) \/ RunStrategy(l) \/ Pass(l) \/ LoopEnds(l)
    <3>1. ASSUME NEW l \in Loops, RunStrategy(l) PROVE DayInv'
      BY <2>1, <3>1, RunStrategyBooks, EarlyDay, SlotFacts DEF DayInv
    <3> QED BY <2>1, <2>6, <3>1, ForceExitDay, PassDay, LoopEndsDay
  <2>7. CASE RetryWakes
    BY <2>1, <2>7, WakesDay
  <2>8. CASE Start \/ StartStrategy \/ StopStrategy \/ Stop \/ StopWaited \/ StopDisables
             \/ StopCloses \/ Shutdown \/ RestoreEnds
    BY <2>1, <2>8, LifeDay
  <2>9. CASE StopPlans
    BY <2>1, <2>9, StopPlansDay
  <2>10. CASE ProcessEnds \/ Crash
    BY <2>1, <2>10, GoneDay
  <2>11. CASE Restore
    BY <2>1, <2>11, RestoreDay
  <2> QED BY <1>2, <2>2, <2>3, <2>4, <2>5, <2>6, <2>7, <2>8, <2>9, <2>10, <2>11 DEF Next, Step
<1> QED BY <1>1, <1>2

\* What is settled before the last tier has run leaves nothing behind.
LEMMA SettledDay ==
    ASSUME Books', slot' = Slots.All, AllSettled', Progress' # 2
    PROVE  DayInv'
<1>1. /\ order' = NoOrder /\ deferred' = NoOrder /\ retry' = 0
      /\ \A a \in Actors : ~At(a, "submit")'
  BY DEF AllSettled, Open, At
<1>2. SellsOnly'
  BY <1>1, NoOrderFacts DEF SellsOnly
<1>3. ExitInv'
  BY <1>1 DEF ExitInv
<1>4. ~Exits'
  BY DEF Exits
<1> QED BY <1>2, <1>3, <1>4, SlotFacts DEF DayInv, HandInv, ComingInv, FlatInv

\* The day goes well as long as nothing has lingered.
DueInv == Books /\ (~lingered => DayInv)

LEMMA DueStep == LifeInv /\ DueInv /\ [Next]_vars => DueInv'
<1> SUFFICES ASSUME LifeInv, DueInv, [Next]_vars, ~lingered' PROVE DayInv'
  BY BooksStep DEF DueInv
<1>1. Books'
  BY BooksStep DEF DueInv
<1>2. CASE UNCHANGED vars
  <2>1. ~NextSlot /\ ~lingered
    BY <1>2 DEF NextSlot, vars, clock, DueInv, Books, FieldsOK
  <2> QED BY <1>1, <2>1, DayStep DEF DueInv
<1>3. CASE Next
  <2>1. Watched
    BY <1>3 DEF Next
  <2>2. slot' \in {Slots.All, Slots.Cutoff} => ~(slot' # slot /\ ~AllSettled)
    BY <2>1 DEF Watched
  <2>3. CASE slot' \notin {Slots.All, Slots.Cutoff}
    BY <1>1, <2>3, EarlyDay
  <2>4. CASE slot' \in {Slots.All, Slots.Cutoff} /\ lingered
    <3>1. AllSettled' /\ slot' = Slots.All /\ Progress' # 2
      BY <2>1, <2>4 DEF Watched
    <3> QED BY <1>1, <3>1, SettledDay
  <2>5. CASE slot' \in {Slots.All, Slots.Cutoff} /\ ~lingered
    <3>1. NextSlot => AllSettled
      <4> SUFFICES ASSUME NextSlot PROVE AllSettled
        OBVIOUS
      <4>1. slot \in 1..4 /\ slot' = slot + 1
        BY DEF NextSlot, DueInv, Books, FieldsOK
      <4>2. slot' # slot
        BY <4>1
      <4> QED BY <2>2, <2>5, <4>2
    <3> QED BY <1>1, <2>5, <3>1, DayStep DEF DueInv
  <2> QED BY <2>3, <2>4, <2>5
<1> QED BY <1>2, <1>3

LEMMA DayStart == Init => DayInv
<1> SUFFICES ASSUME Init PROVE DayInv
  OBVIOUS
<1>1. Books /\ slot = Slots.Regular
  BY BooksStart DEF Init
<1>2. slot \notin {Slots.All, Slots.Cutoff}
  BY <1>1, SlotFacts
<1> QED BY <1>1, <1>2
        DEF DayInv, SellsOnly, ExitInv, HandInv, ComingInv, FlatInv, Exits, Late

-----------------------------------------------------------------------------
(* Theorems *)

\* The invariant of the life: of the loop in hand, of the stop that waits for it and of what
\* the shutdown has left.
THEOREM Lives == Spec => []LifeInv
BY LifeStart, LifeStep, PTL DEF Spec

\* While it runs and nothing stops it, there is exactly one loop and _task is it, for any
\* number of loop tasks and of restarts.
THEOREM LoopInHand == Spec => []OneLoopInHand
<1>1. LifeInv => OneLoopInHand
  BY DEF LifeInv, CallInv, LoopInv, OneLoopInHand
<1> QED BY <1>1, Lives, PTL

\* When the route's stop has returned the scheduler is off, and no loop is left that the
\* cancellation has not reached.
THEOREM FinalStop == Spec => []StopIsFinal
<1>1. LifeInv => StopIsFinal
  BY DEF LifeInv, LoopInv, StopIsFinal, NoneAlive
<1> QED BY <1>1, Lives, PTL

\* The process after a shutdown runs what ran before it: nothing between the save of the
\* shutdown and the end of the process writes the saved state again.
THEOREM Remembered == Spec => ShutdownIsRemembered
<1>1. LifeInv /\ [Next]_vars => (~up /\ up' /\ left # "unknown" => (running' <=> left = "on"))
  <2> SUFFICES ASSUME LifeInv, [Next]_vars, ~up, up', left # "unknown"
               PROVE  running' <=> left = "on"
    OBVIOUS
  <2>1. Restore
    BY DEF Next, Step, NextSlot, NextDay, Executes, Reported, LedgerMisses, Dies, DeferredGoes,
           Deferred, Taken, Refused, Blocked, ForceExit, RunStrategy, Pass, LoopEnds,
           RetryWakes, Start, StartStrategy, StopStrategy, Stop, StopWaited, StopPlans,
           StopDisables, StopCloses, Shutdown, ProcessEnds, Crash, RestoreEnds, Forget,
           life, vars
  <2>2. (saved = "on" <=> left = "on") /\ running = FALSE
    BY DEF LifeInv, LeftInv, CallInv
  <2> QED BY <2>1, <2>2 DEF Restore
<1> QED BY <1>1, Lives, PTL DEF Spec, ShutdownIsRemembered

\* Every variable keeps its type; and what the records and the ledger have, and what is on
\* order, fits what was traded.
THEOREM SchedulerTyped == Spec => []TypeOK
<1>1. Init => LifeInv /\ Books
  BY LifeStart, BooksStart
<1>2. LifeInv /\ Books /\ [Next]_vars => (LifeInv /\ Books)'
  BY LifeStep, BooksStep
<1>3. Init => lingered \in BOOLEAN
  BY DEF Init
<1>4. lingered \in BOOLEAN /\ [Next]_vars => (lingered \in BOOLEAN)'
  BY DEF Next, Watched, vars
<1>5. Books /\ lingered \in BOOLEAN => TypeOK
  BY DEF Books, TypeOK
<1> QED BY <1>1, <1>2, <1>3, <1>4, <1>5, PTL DEF Spec

\* A strategy that runs at the cutoff is flat, whatever the breaker, the ledger, the stops and
\* the restarts of the day did, if what was under way when its last tier began had ended
\* before that tier ran, and what that made when the cutoff came: for any quantity, and any
\* number of loops, days, stops and crashes.
THEOREM FlatAtTheClose == Spec => []FlatBeforeClose
<1>1. Init => LifeInv /\ DueInv
  BY LifeStart, DayStart DEF DueInv, DayInv
<1>2. LifeInv /\ DueInv /\ [Next]_vars => (LifeInv /\ DueInv)'
  BY LifeStep, DueStep
<1>3. DueInv => FlatBeforeClose
  BY DEF DueInv, DayInv, FlatInv, FlatBeforeClose
<1> QED BY <1>1, <1>2, <1>3, PTL DEF Spec
=============================================================================
