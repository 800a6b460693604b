----------------------- MODULE ChannelAndSwitchProofs -----------------------
(***************************************************************************)
(* Proofs about the two components that keep orders from the broker: the    *)
(* order channel, for any number of orders, lanes, attempts and failures,   *)
(* and the kill switch, for any strategies, any limits and any number of    *)
(* losses, errors and failing writes.  They share nothing.                  *)
(***************************************************************************)
EXTENDS OrderChannel, KillSwitch, TLAPS

-----------------------------------------------------------------------------
(* The order channel *)

-----------------------------------------------------------------------------
(* Its inductive invariant *)

Call == [pc : PC, request : {"hash", "order"}, try : 1..(HashTries + OrderTries),
         headers : Headers, bearer : {"none", "good", "stale"}, renewed : BOOLEAN,
         backup : Headers, taken : BOOLEAN, unread : BOOLEAN]

\* The call does not hold its lane.
Off == {"idle", "waiting"}

\* The attempt has its headers.
Busy == {"lock", "issue", "posted", "expired", "reissue"}

OneLane == \A o, p \in Orders : Lane(o) = Lane(p)

\* What each call is by itself: its first attempt has its own headers, and an order that is
\* still to be sent was taken only by an answer that could not be read.
CallInv(o, c) ==
    /\ c \in Call
    /\ c.request = "order" /\ c.try = 1 /\ c.pc \in Busy => c.headers.of = o
    /\ c.taken => c.unread

\* With a single lane the shared headers are those of the call that makes its order
\* request, and so are the copies it takes of them.
OwnInv(o, c, shared) ==
    OneLane /\ c.request = "order" /\ c.pc \notin Off =>
        /\ shared.of = o
        /\ c.pc \in Busy => c.headers.of = o

\* The lane's slot keeps calls apart.
LaneInv ==
    \A o, p \in Orders : o # p /\ Lane(o) = Lane(p) =>
        call[o].pc \in Off \/ call[p].pc \in Off

OtherTypes ==
    /\ urgent \subseteq Liquidators
    /\ volatile \in Headers
    /\ token \in {"none", "good", "stale"}
    /\ issueLock \in Orders \cup {Nobody}
    /\ soon \in BOOLEAN
    /\ failures \in 0..Threshold
    /\ openUntil \in {"none", "ahead", "past"}

IInv ==
    /\ OtherTypes
    /\ call \in [Orders -> Call]
    /\ \A o \in Orders : CallInv(o, call[o]) /\ OwnInv(o, call[o], volatile)
    /\ LaneInv

-----------------------------------------------------------------------------
(* Lemmas about the operators *)

LEMMA IdleFacts == Idle \in Call /\ Default \in Headers /\ Idle.pc = "idle" /\ ~Idle.taken
BY ConstantsAssumption DEF ConstantsAssumption, Idle, Default, Headers, Call, PC

\* An attempt carries the headers it was given.
LEMMA AttemptFacts ==
    ASSUME OtherTypes, NEW c \in Call, NEW request \in {"hash", "order"},
           NEW n \in 1..(HashTries + OrderTries), NEW headers \in Headers
    PROVE  LET d == Attempt(c, request, n, headers)
           IN  /\ d \in Call
               /\ d.pc \in {"lock", "posted"}
               /\ d.request = request /\ d.try = n /\ d.headers = headers
               /\ d.backup = c.backup /\ d.taken = c.taken /\ d.unread = c.unread
BY DEF Attempt, Call, PC, OtherTypes

LEMMA OverFacts ==
    ASSUME NEW c \in Call, NEW pc \in PC
    PROVE  LET d == Over(c, pc)
           IN  /\ d \in Call /\ d.pc = pc
               /\ d.request = c.request /\ d.try = c.try
               /\ d.taken = c.taken /\ d.unread = c.unread
BY IdleFacts DEF Over, Call

LEMMA TakenFacts ==
    ASSUME NEW c \in Call
    PROVE  /\ Taken(c) \in Call
           /\ Taken(c).pc = c.pc /\ Taken(c).request = c.request /\ Taken(c).try = c.try
           /\ Taken(c).backup = c.backup /\ Taken(c).unread = c.unread
           /\ c.request = "hash" => Taken(c).taken = c.taken
BY DEF Taken, Call

\* After an answer that cannot be read, an order may be taken.
LEMMA UnreadFacts ==
    ASSUME NEW c \in Call
    PROVE  LET d == Unread(c)
           IN  /\ d \in Call
               /\ d.request = c.request /\ d.try = c.try /\ d.taken = c.taken
               /\ d.unread = (c.unread \/ c.request = "order")
BY DEF Unread, Call

LEMMA TryOne == 1 \in 1..(HashTries + OrderTries)
BY ConstantsAssumption DEF ConstantsAssumption

\* The breaker counts within its bounds.
LEMMA RecordFacts ==
    ASSUME OtherTypes, NEW o \in Orders, NEW result, Record(o, result)
    PROVE  /\ failures' \in 0..Threshold
           /\ openUntil' \in {"none", "ahead", "past"}
           /\ openUntil = "ahead" => openUntil' = "ahead"
BY ConstantsAssumption DEF ConstantsAssumption, OtherTypes, Record

\* When a request returns, its call is over or makes the order request with its own
\* headers in the shared place.
LEMMA ReturnsFacts ==
    ASSUME OtherTypes, NEW o \in Orders, NEW c \in Call, NEW result,
           c.request = "hash" /\ c.taken => c.unread,
           Returns(o, c, result)
    PROVE  /\ \E d \in Call : /\ call' = [call EXCEPT ![o] = d]
                              /\ CallInv(o, d) /\ OwnInv(o, d, volatile')
           /\ volatile' \in Headers
           /\ failures' \in 0..Threshold
           /\ openUntil' \in {"none", "ahead", "past"}
           /\ openUntil = "ahead" => openUntil' = "ahead"
<1>1. CallInv(o, Idle) /\ OwnInv(o, Idle, volatile')
  BY IdleFacts DEF CallInv, OwnInv, Busy, Off
<1>2. CASE c.request = "order"
  <2>1. volatile' = c.backup /\ call' = [call EXCEPT ![o] = Idle] /\ Record(o, result)
    BY <1>2 DEF Returns, LeaveContext
  <2>2. c.backup \in Headers
    BY DEF Call
  <2> QED BY <1>1, <2>1, <2>2, IdleFacts, RecordFacts
<1>3. CASE c.request = "hash" /\ result = "empty"
  <2>1. call' = [call EXCEPT ![o] = Idle] /\ UNCHANGED <<volatile, failures, openUntil>>
    BY <1>3 DEF Returns
  <2> QED BY <1>1, <2>1, IdleFacts DEF OtherTypes
<1>4. CASE c.request = "hash" /\ result # "empty"
  <2> DEFINE own == [of |-> o, hashed |-> (result = "ok")]
             b == [c EXCEPT !.backup = volatile]
             d == Attempt(b, "order", 1, own)
  <2>1. volatile' = own /\ call' = [call EXCEPT ![o] = d] /\ UNCHANGED <<failures, openUntil>>
    BY <1>4 DEF Returns, EnterContext
  <2>2. own \in Headers /\ own.of = o
    BY DEF Headers
  <2>3. b \in Call /\ b.taken = c.taken /\ b.unread = c.unread
    BY DEF Call, OtherTypes
  <2> HIDE DEF own, b
  <2>4. d \in Call /\ d.headers = own /\ d.taken = c.taken /\ d.unread = c.unread
    BY <2>2, <2>3, AttemptFacts, TryOne
  <2> HIDE DEF d
  <2>5. CallInv(o, d) /\ OwnInv(o, d, volatile')
    BY <1>4, <2>1, <2>2, <2>4 DEF CallInv, OwnInv
  <2> QED BY <2>1, <2>2, <2>4, <2>5 DEF OtherTypes
<1> QED BY <1>2, <1>3, <1>4 DEF Call

-----------------------------------------------------------------------------
(* The invariant is inductive *)

\* What a step of one call has to show.  The shared headers change only by a call that
\* holds its lane, and a call gets a lane that nobody holds.
LEMMA Moves ==
    ASSUME IInv, OtherTypes', UNCHANGED urgent,
           NEW o \in Orders, NEW d \in Call,
           call' = [call EXCEPT ![o] = d],
           CallInv(o, d), OwnInv(o, d, volatile'),
           volatile' = volatile \/ call[o].pc \notin Off,
           \/ call[o].pc \notin Off
           \/ d.pc \in Off
           \/ \A p \in Orders : p # o /\ Lane(p) = Lane(o) => call[p].pc \in Off
    PROVE  IInv'
<1>1. call' \in [Orders -> Call] /\ call'[o] = d
      /\ \A p \in Orders : p # o => call'[p] = call[p]
  BY DEF IInv
<1>2. \A p \in Orders : Lane(p)' = Lane(p)
  BY DEF Lane
<1>3. OneLane' = OneLane
  BY <1>2 DEF OneLane
<1>4. LaneInv'
  <2> SUFFICES ASSUME NEW p \in Orders, NEW q \in Orders, p # q, Lane(p) = Lane(q)
               PROVE  call'[p].pc \in Off \/ call'[q].pc \in Off
    BY <1>2 DEF LaneInv
  <2>1. call[p].pc \in Off \/ call[q].pc \in Off
    BY DEF IInv, LaneInv
  <2> QED BY <1>1, <2>1
<1>5. ASSUME NEW p \in Orders
      PROVE  CallInv(p, call[p])' /\ OwnInv(p, call[p], volatile)'
  <2>1. CASE p = o
    BY <1>1, <1>3, <2>1 DEF OwnInv, CallInv
  <2>2. CASE p # o
    <3>1. CallInv(p, call'[p]) /\ call'[p] = call[p]
      BY <1>1, <2>2 DEF IInv
    <3>2. ASSUME OneLane, call[p].pc \notin Off PROVE volatile' = volatile
      BY <2>2, <3>2 DEF IInv, LaneInv, OneLane
    <3>3. OwnInv(p, call[p], volatile)
      BY DEF IInv
    <3> QED BY <1>3, <3>1, <3>2, <3>3 DEF OwnInv, CallInv
  <2> QED BY <2>1, <2>2
<1> QED BY <1>1, <1>4, <1>5 DEF IInv, CallInv

LEMMA InitIInv == Init => IInv
<1> SUFFICES ASSUME Init PROVE IInv
  OBVIOUS
<1>1. OtherTypes
  <2>1. failures \in 0..Threshold
    BY ConstantsAssumption DEF ConstantsAssumption, Init
  <2>2. urgent \subseteq Liquidators /\ volatile \in Headers
    BY IdleFacts DEF Init
  <2> QED BY <2>1, <2>2 DEF Init, OtherTypes
<1>2. call \in [Orders -> Call] /\ \A o \in Orders : call[o] = Idle
  BY IdleFacts DEF Init
<1>3. ASSUME NEW o \in Orders PROVE CallInv(o, call[o]) /\ OwnInv(o, call[o], volatile)
  BY <1>2, IdleFacts DEF CallInv, OwnInv, Busy, Off
<1>4. LaneInv
  BY <1>2, IdleFacts DEF LaneInv, Off
<1> QED BY <1>1, <1>2, <1>3, <1>4 DEF IInv

\* A call that holds its lane: its record may move as long as the copy of the headers
\* stays the one it has, or is dropped.
LEMMA HoldsLane ==
    ASSUME IInv, OtherTypes', UNCHANGED <<urgent, volatile>>,
           NEW o \in Orders, NEW d \in Call,
           call' = [call EXCEPT ![o] = d],
           call[o].pc \notin Off,
           d.request = call[o].request, d.try = call[o].try,
           d.pc \in Busy => call[o].pc \in Busy /\ d.headers = call[o].headers,
           d.taken => d.unread
    PROVE  IInv'
<1>1. CallInv(o, call[o]) /\ OwnInv(o, call[o], volatile)
  BY DEF IInv
<1>2. CallInv(o, d) /\ OwnInv(o, d, volatile')
  BY <1>1 DEF CallInv, OwnInv
<1> QED BY <1>2, Moves

LEMMA ReturnsStep ==
    ASSUME IInv, NEW o \in Orders, NEW c \in Call, NEW result,
           c.request = "hash" /\ c.taken => c.unread,
           call[o].pc \notin Off,
           Returns(o, c, result),
           token' \in {"none", "good", "stale"},
           issueLock' \in Orders \cup {Nobody},
           soon' \in BOOLEAN,
           UNCHANGED urgent
    PROVE  IInv'
<1>1. OtherTypes
  BY DEF IInv
<1>2. PICK d \in Call : /\ call' = [call EXCEPT ![o] = d]
                        /\ CallInv(o, d) /\ OwnInv(o, d, volatile')
  BY <1>1, ReturnsFacts
<1>3. OtherTypes'
  BY <1>1, ReturnsFacts DEF OtherTypes
<1> QED BY <1>2, <1>3, Moves

LEMMA StepIInv == IInv /\ [Next]_vars => IInv'
<1> SUFFICES ASSUME IInv, [Next]_vars PROVE IInv'
  OBVIOUS
<1>0. OtherTypes /\ \A o \in Orders : /\ call[o] \in Call /\ CallInv(o, call[o])
                                     /\ OwnInv(o, call[o], volatile)
  BY DEF IInv
<1>1. ASSUME NEW o \in Orders, Place(o) PROVE IInv'
  <2> DEFINE d == [call[o] EXCEPT !.pc = "waiting"]
  <2>1. call' = [call EXCEPT ![o] = d] /\ call[o].pc = "idle"
    BY <1>1 DEF Place, Goes
  <2>2. d \in Call /\ d.pc = "waiting" /\ d.taken = call[o].taken /\ d.unread = call[o].unread
    BY <1>0 DEF Call, PC
  <2> HIDE DEF d
  <2>3. CallInv(o, d) /\ OwnInv(o, d, volatile')
    BY <1>0, <2>2 DEF CallInv, OwnInv, Busy, Off
  <2>4. OtherTypes' /\ UNCHANGED <<urgent, volatile>>
    BY <1>0, <1>1, ConstantsAssumption DEF Place, OtherTypes, ConstantsAssumption
  <2> QED BY <2>1, <2>2, <2>3, <2>4, Moves DEF Off
<1>2. ASSUME NEW o \in Orders, Acquire(o) PROVE IInv'
  <2> DEFINE d == Attempt(call[o], "hash", 1, volatile)
  <2>1. /\ call' = [call EXCEPT ![o] = d]
        /\ \A p \in Orders : Lane(p) = Lane(o) => call[p].pc \in Off
    BY <1>2 DEF Acquire, Off
  <2>2. d \in Call /\ d.request = "hash" /\ d.taken = call[o].taken /\ d.unread = call[o].unread
    BY <1>0, AttemptFacts, TryOne DEF OtherTypes
  <2> HIDE DEF d
  <2>3. CallInv(o, d) /\ OwnInv(o, d, volatile')
    BY <1>0, <2>2 DEF CallInv, OwnInv
  <2>4. OtherTypes' /\ UNCHANGED <<urgent, volatile>>
    BY <1>0, <1>2 DEF Acquire, OtherTypes
  <2> QED BY <2>1, <2>2, <2>3, <2>4, Moves
<1>3. ASSUME NEW o \in Orders, GetToken(o) PROVE IInv'
  <2>1. call[o].pc = "lock" /\ OtherTypes' /\ UNCHANGED <<urgent, volatile>>
    BY <1>0, <1>3 DEF GetToken, OtherTypes
  <2>2. CASE token = "none"
    <3> DEFINE d == [call[o] EXCEPT !.pc = "issue"]
    <3>1. call' = [call EXCEPT ![o] = d]
      BY <1>3, <2>2 DEF GetToken, Goes
    <3>2. d \in Call /\ d.pc = "issue" /\ d.request = call[o].request
          /\ d.try = call[o].try /\ d.headers = call[o].headers
          /\ d.taken = call[o].taken /\ d.unread = call[o].unread
      BY <1>0 DEF Call, PC
    <3> HIDE DEF d
    <3> QED BY <1>0, <2>1, <3>1, <3>2, HoldsLane DEF CallInv, Off, Busy
  <2>3. CASE token # "none"
    <3> DEFINE e == [call[o] EXCEPT !.pc = "posted"]
               d == [e EXCEPT !.bearer = token]
    <3>1. call' = [call EXCEPT ![o] = d]
      BY <1>0, <1>3, <2>3 DEF GetToken, IInv
    <3>2. d \in Call /\ d.pc = "posted" /\ d.request = call[o].request
          /\ d.try = call[o].try /\ d.headers = call[o].headers
          /\ d.taken = call[o].taken /\ d.unread = call[o].unread
      BY <1>0 DEF Call, PC, OtherTypes
    <3> HIDE DEF d, e
    <3> QED BY <1>0, <2>1, <3>1, <3>2, HoldsLane DEF CallInv, Off, Busy
  <2> QED BY <2>2, <2>3
<1>4. ASSUME NEW o \in Orders, Refresh(o) PROVE IInv'
  <2> DEFINE d == [call[o] EXCEPT !.pc = "reissue"]
  <2>1. call' = [call EXCEPT ![o] = d] /\ call[o].pc = "expired"
    BY <1>4 DEF Refresh, Goes
  <2>2. d \in Call /\ d.pc = "reissue" /\ d.request = call[o].request
        /\ d.try = call[o].try /\ d.headers = call[o].headers
        /\ d.taken = call[o].taken /\ d.unread = call[o].unread
    BY <1>0 DEF Call, PC
  <2>3. OtherTypes' /\ UNCHANGED <<urgent, volatile>>
    BY <1>0, <1>4 DEF Refresh, OtherTypes
  <2> HIDE DEF d
  <2> QED BY <1>0, <2>1, <2>2, <2>3, HoldsLane DEF CallInv, Off, Busy
<1>5. ASSUME NEW o \in Orders, Issued(o) PROVE IInv'
  <2> DEFINE e == [call[o] EXCEPT !.pc = "posted"]
             f == [e EXCEPT !.bearer = "good"]
             d == [f EXCEPT !.renewed = (call[o].pc = "reissue")]
  <2>1. call' = [call EXCEPT ![o] = d] /\ call[o].pc \in {"issue", "reissue"}
    BY <1>0, <1>5 DEF Issued, IInv
  <2>2. d \in Call /\ d.pc = "posted" /\ d.request = call[o].request
        /\ d.try = call[o].try /\ d.headers = call[o].headers
        /\ d.taken = call[o].taken /\ d.unread = call[o].unread
    BY <1>0 DEF Call, PC
  <2>3. OtherTypes' /\ UNCHANGED <<urgent, volatile>>
    BY <1>0, <1>5 DEF Issued, Unlocked, OtherTypes
  <2> HIDE DEF d, e, f
  <2> QED BY <1>0, <2>1, <2>2, <2>3, HoldsLane DEF CallInv, Off, Busy
\* The attempt is over and waits.
<1>6. ASSUME NEW o \in Orders, NEW c \in Call, NEW pc \in {"pause", "minute"},
             call' = [call EXCEPT ![o] = Over(c, pc)],
             call[o].pc \notin Off, c.request = call[o].request, c.try = call[o].try,
             c.taken => c.unread,
             OtherTypes', UNCHANGED <<urgent, volatile>>
      PROVE  IInv'
  <2>1. LET d == Over(c, pc) IN d \in Call /\ d.pc = pc /\ d.request = c.request
                                /\ d.try = c.try /\ d.taken = c.taken /\ d.unread = c.unread
    BY OverFacts DEF PC
  <2> QED BY <1>6, <2>1, HoldsLane DEF Busy
<1>7. ASSUME NEW o \in Orders, IssueRefused(o) PROVE IInv'
  <2>1. OtherTypes' /\ UNCHANGED <<urgent, volatile>> /\ call[o].pc \notin Off
        /\ call' = [call EXCEPT ![o] = Over(call[o], "minute")]
    BY <1>0, <1>7 DEF IssueRefused, Unlocked, OtherTypes, Waits, Off
  <2> QED BY <1>0, <1>6, <2>1 DEF CallInv
<1>8. ASSUME NEW o \in Orders, IssueFails(o) PROVE IInv'
  <2>1. UNCHANGED urgent /\ call[o].pc \notin Off
        /\ token' \in {"none", "good", "stale"} /\ issueLock' \in Orders \cup {Nobody}
        /\ soon' \in BOOLEAN
    BY <1>0, <1>8 DEF IssueFails, Unlocked, OtherTypes, Off
  <2>2. CASE Returns(o, call[o], "lost")
    BY <1>0, <2>1, <2>2, ReturnsStep DEF CallInv
  <2>3. CASE Waits(o, "pause") /\ UNCHANGED <<volatile, failures, openUntil>>
    <3>1. OtherTypes' /\ call' = [call EXCEPT ![o] = Over(call[o], "pause")]
      BY <1>0, <2>1, <2>3 DEF OtherTypes, Waits
    <3> QED BY <1>0, <1>6, <2>1, <2>3, <3>1 DEF CallInv
  <2> QED BY <1>8, <2>2, <2>3 DEF IssueFails
<1>9. ASSUME NEW o \in Orders, NotSent(o) PROVE IInv'
  <2>1. OtherTypes' /\ UNCHANGED <<urgent, volatile>> /\ call[o].pc \notin Off
        /\ call' = [call EXCEPT ![o] = Over(call[o], "pause")]
    BY <1>0, <1>9 DEF NotSent, OtherTypes, Waits, Off
  <2> QED BY <1>0, <1>6, <2>1 DEF CallInv
<1>10. ASSUME NEW o \in Orders, Answered(o) PROVE IInv'
  <2>1. UNCHANGED <<urgent, token, issueLock, soon>> /\ call[o].pc \notin Off
    BY <1>10 DEF Answered, Sent, Off
  <2>2. PICK c \in {call[o], Taken(call[o])}, result \in {"ok", "refused", "lost", "empty"} :
               Returns(o, c, result)
    BY <1>10 DEF Answered
  <2>3. c \in Call /\ (c.request = "hash" /\ c.taken => c.unread)
    BY <1>0, TakenFacts DEF CallInv
  <2> QED BY <1>0, <2>1, <2>2, <2>3, ReturnsStep DEF OtherTypes
<1>11. ASSUME NEW o \in Orders, Retried(o) PROVE IInv'
  <2>1. OtherTypes' /\ UNCHANGED <<urgent, volatile>> /\ call[o].pc \notin Off
    BY <1>0, <1>11 DEF Retried, Sent, OtherTypes, Off
  <2>2. CASE Waits(o, "pause")
    <3>1. call' = [call EXCEPT ![o] = Over(call[o], "pause")]
      BY <2>2 DEF Waits
    <3> QED BY <1>0, <1>6, <2>1, <3>1 DEF CallInv
  <2>3. ASSUME NEW c \in {call[o], Taken(call[o])},
               call' = [call EXCEPT ![o] = Over(Unread(c), "pause")]
        PROVE  IInv'
    <3>1. c \in Call /\ c.request = call[o].request /\ c.try = call[o].try
          /\ (c.taken => c.unread \/ c.request = "order")
      BY <1>0, TakenFacts DEF CallInv, Call, Taken
    <3> DEFINE d == Unread(c)
    <3>2. d \in Call /\ d.request = call[o].request /\ d.try = call[o].try
          /\ (d.taken => d.unread)
      BY <3>1, UnreadFacts
    <3>3. call' = [call EXCEPT ![o] = Over(d, "pause")]
      BY <2>3
    <3> HIDE DEF d
    <3> QED BY <1>6, <2>1, <3>2, <3>3
  <2> QED BY <1>11, <2>2, <2>3 DEF Retried
<1>12. ASSUME NEW o \in Orders, Expired(o) PROVE IInv'
  <2>1. OtherTypes' /\ UNCHANGED <<urgent, volatile>> /\ call[o].pc = "posted"
    BY <1>0, <1>12 DEF Expired, Sent, Waits, OtherTypes
  <2>2. CASE call[o].renewed
    <3>1. call' = [call EXCEPT ![o] = Over(call[o], "pause")]
      BY <1>12, <2>2 DEF Expired, Waits
    <3> QED BY <1>0, <1>6, <2>1, <3>1 DEF CallInv, Off
  <2>3. CASE ~call[o].renewed
    <3> DEFINE e == [call[o] EXCEPT !.pc = "expired"]
               d == [e EXCEPT !.bearer = "none"]
    <3>1. call' = [call EXCEPT ![o] = d]
      BY <1>0, <1>12, <2>3 DEF Expired, IInv
    <3>2. d \in Call /\ d.pc = "expired" /\ d.request = call[o].request
          /\ d.try = call[o].try /\ d.headers = call[o].headers
          /\ d.taken = call[o].taken /\ d.unread = call[o].unread
      BY <1>0 DEF Call, PC
    <3> HIDE DEF d, e
    <3> QED BY <1>0, <2>1, <3>1, <3>2, HoldsLane DEF CallInv, Off, Busy
  <2> QED BY <2>2, <2>3
<1>13. ASSUME NEW o \in Orders, Wake(o) PROVE IInv'
  <2>1. UNCHANGED <<urgent, token, issueLock, soon>> /\ call[o].pc \notin Off
    BY <1>13 DEF Wake, Off
  <2>2. CASE call[o].try < Tries(call[o].request)
    <3> DEFINE d == Attempt(call[o], call[o].request, call[o].try + 1, volatile)
    <3>1. call' = [call EXCEPT ![o] = d] /\ UNCHANGED <<volatile, failures, openUntil>>
      BY <1>13, <2>2 DEF Wake
    <3>2. call[o].try + 1 \in 1..(HashTries + OrderTries) /\ call[o].try + 1 # 1
      BY <1>0, <2>2, ConstantsAssumption DEF ConstantsAssumption, Call, Tries
    <3>3. d \in Call /\ d.request = call[o].request /\ d.try # 1 /\ d.headers = volatile
          /\ d.taken = call[o].taken /\ d.unread = call[o].unread
      BY <1>0, <3>2, AttemptFacts DEF Call, OtherTypes
    <3> HIDE DEF d
    <3>4. CallInv(o, d) /\ OwnInv(o, d, volatile') /\ OtherTypes'
      BY <1>0, <2>1, <3>1, <3>3 DEF CallInv, OwnInv, OtherTypes
    <3> QED BY <2>1, <3>1, <3>3, <3>4, Moves
  <2>3. CASE ~(call[o].try < Tries(call[o].request))
    <3>1. Returns(o, call[o], "lost")
      BY <1>13, <2>3 DEF Wake
    <3> QED BY <1>0, <2>1, <3>1, ReturnsStep DEF CallInv, OtherTypes
  <2> QED BY <2>2, <2>3
\* Steps of nobody's call leave requests, attempts and headers as they are, and lanes
\* as free as they were.
<1>14. ASSUME call' \in [Orders -> Call],
              \A o \in Orders :
                /\ call'[o].request = call[o].request /\ call'[o].try = call[o].try
                /\ call'[o].headers = call[o].headers /\ call'[o].taken = call[o].taken
                /\ call'[o].unread = call[o].unread
                /\ call'[o].pc \in Off <=> call[o].pc \in Off
                /\ call'[o].pc \in Busy => call[o].pc \in Busy,
              OtherTypes', UNCHANGED <<urgent, volatile>>
       PROVE  IInv'
  <2>1. \A o \in Orders : Lane(o)' = Lane(o)
    BY <1>14 DEF Lane
  <2>2. OneLane' = OneLane
    BY <2>1 DEF OneLane
  <2>3. LaneInv'
    <3> SUFFICES ASSUME NEW p \in Orders, NEW q \in Orders, p # q, Lane(p) = Lane(q)
                 PROVE  call'[p].pc \in Off \/ call'[q].pc \in Off
      BY <2>1 DEF LaneInv
    <3>1. call[p].pc \in Off \/ call[q].pc \in Off
      BY DEF IInv, LaneInv
    <3> QED BY <1>14, <3>1
  <2>4. ASSUME NEW o \in Orders PROVE CallInv(o, call[o])' /\ OwnInv(o, call[o], volatile)'
    <3>1. CallInv(o, call[o]) /\ OwnInv(o, call[o], volatile) /\ call'[o] \in Call
      BY <1>0, <1>14
    <3> QED BY <1>14, <2>2, <3>1 DEF CallInv, OwnInv
  <2> QED BY <1>14, <2>3, <2>4 DEF IInv
<1>15. CASE MinuteEnds
  <2>1. OtherTypes' /\ UNCHANGED <<urgent, volatile>>
    BY <1>0, <1>15 DEF MinuteEnds, OtherTypes
  <2>2. call' = [o \in Orders |->
           IF call[o].pc = "minute" THEN [call[o] EXCEPT !.pc = "pause"] ELSE call[o]]
    BY <1>15 DEF MinuteEnds
  <2>3. ASSUME NEW o \in Orders
        PROVE  /\ call'[o] \in Call
               /\ call'[o].request = call[o].request /\ call'[o].try = call[o].try
               /\ call'[o].headers = call[o].headers /\ call'[o].taken = call[o].taken
               /\ call'[o].unread = call[o].unread
               /\ call'[o].pc \in Off <=> call[o].pc \in Off
               /\ call'[o].pc \in Busy => call[o].pc \in Busy
    <3>1. call[o] \in Call
      BY <1>0
    <3> QED BY <2>2, <3>1 DEF Call, PC, Off, Busy
  <2> QED BY <1>14, <2>1, <2>2, <2>3
<1>16. CASE TokenDies
  <2>1. OtherTypes' /\ UNCHANGED <<urgent, volatile>>
    BY <1>0, <1>16 DEF TokenDies, OtherTypes
  <2>2. call' = [o \in Orders |->
           IF call[o].bearer = "good" THEN [call[o] EXCEPT !.bearer = "stale"] ELSE call[o]]
    BY <1>16 DEF TokenDies
  <2>3. ASSUME NEW o \in Orders
        PROVE  /\ call'[o] \in Call
               /\ call'[o].request = call[o].request /\ call'[o].try = call[o].try
               /\ call'[o].headers = call[o].headers /\ call'[o].taken = call[o].taken
               /\ call'[o].unread = call[o].unread
               /\ call'[o].pc \in Off <=> call[o].pc \in Off
               /\ call'[o].pc \in Busy => call[o].pc \in Busy
    <3>1. call[o] \in Call
      BY <1>0
    <3> QED BY <2>2, <3>1 DEF Call, PC
  <2> QED BY <1>14, <2>1, <2>2, <2>3
<1>17. CASE BlockEnds \/ UNCHANGED vars
  <2>1. OtherTypes' /\ UNCHANGED <<urgent, volatile, call>>
    BY <1>0, <1>17 DEF BlockEnds, vars, OtherTypes
  <2> QED BY <1>14, <2>1 DEF IInv
<1> QED
  BY <1>1, <1>2, <1>3, <1>4, <1>5, <1>7, <1>8, <1>9, <1>10, <1>11, <1>12, <1>13,
     <1>15, <1>16, <1>17 DEF Next, Works

LEMMA Inductive == Spec => []IInv
BY InitIInv, StepIInv, PTL DEF Spec

-----------------------------------------------------------------------------
(* Its theorems *)

\* Every variable keeps its type: attempts and failures are counted within their bounds.
THEOREM ChannelTyped == Spec => []TypeOK
<1>1. IInv => TypeOK
  BY DEF IInv, OtherTypes, TypeOK, Call
<1> QED BY <1>1, Inductive, PTL

\* The first attempt of every order carries its own headers, whatever the other lanes do.
THEOREM FirstIsOwn == Spec => []FirstCarriesItsOwn
<1>1. IInv => FirstCarriesItsOwn
  BY DEF IInv, CallInv, Busy, FirstCarriesItsOwn
<1> QED BY <1>1, Inductive, PTL

\* With a single lane every attempt of every order carries its own headers.
THEOREM LaneKeeps == Spec => []LaneKeepsHeaders
<1>1. IInv => LaneKeepsHeaders
  BY DEF IInv, OwnInv, OneLane, Busy, Off, LaneKeepsHeaders, CarriesItsOwn
<1> QED BY <1>1, Inductive, PTL

\* No order is sent after it was taken, but for an answer that could not be read: neither a
\* lost answer, nor a refusal, nor a renewed token sends it again.
THEOREM NeverTakenTwice == Spec => []TakenOnce
<1>1. IInv => TakenOnce
  BY DEF IInv, CallInv, TakenOnce
<1> QED BY <1>1, Inductive, PTL

\* No result of an order on its way closes an open breaker before its time.
THEOREM BreakerLasts == Spec => BlockLasts
<1> DEFINE Lasts == openUntil = "ahead" => openUntil' # "none"
<1>1. IInv /\ [Next]_vars => [Lasts]_vars
  <2> SUFFICES ASSUME IInv, Next, openUntil = "ahead" PROVE openUntil' # "none"
    OBVIOUS
  <2>0. OtherTypes
    BY DEF IInv
  <2>1. ASSUME NEW o \in Orders, NEW c, NEW result, Returns(o, c, result)
        PROVE  openUntil' = "ahead"
    BY <2>0, <2>1, RecordFacts DEF Returns, LeaveContext, EnterContext
  <2>2. ASSUME NEW o \in Orders, Place(o) \/ GetToken(o)
        PROVE  openUntil' = "ahead"
    BY <2>2 DEF Place, GetToken
  <2>3. ASSUME NEW o \in Orders, Works(o) PROVE openUntil' = "ahead"
    <3>1. CASE Acquire(o) \/ Refresh(o) \/ Issued(o) \/ IssueRefused(o)
      BY <3>1 DEF Acquire, Refresh, Issued, IssueRefused
    <3>2. CASE NotSent(o) \/ Retried(o) \/ Expired(o)
      BY <3>2 DEF NotSent, Retried, Expired
    <3>3. CASE IssueFails(o)
      BY <2>1, <3>3 DEF IssueFails
    <3>4. CASE Answered(o)
      BY <2>1, <3>4 DEF Answered
    <3>5. CASE Wake(o)
      BY <2>1, <3>5 DEF Wake
    <3> QED BY <2>3, <3>1, <3>2, <3>3, <3>4, <3>5 DEF Works
  <2> QED BY <2>2, <2>3 DEF Next, MinuteEnds, BlockEnds, TokenDies
<1> QED BY <1>1, Inductive, PTL DEF Spec, BlockLasts

-----------------------------------------------------------------------------
(* The kill switch *)

-----------------------------------------------------------------------------
(* Its inductive invariant *)

\* The file is the memory unless a write failed.
FileInv == stale = 0 => disk = mem

\* Only the switch that the lock's holder is about to trip may be behind its counters.
AccountInv == lock # "trip" /\ OverLimit(mem) => mem.tripped \/ excused

StrategyInv ==
    \A s \in Strategies \ lost :
        lock # s /\ OverStrategyLimit(mem.strategy[s]) => mem.strategy[s].block # "none"

SwitchInv == SwitchTypeOK /\ FileInv /\ AccountInv /\ StrategyInv

LEMMA LockNames ==
    "free" \notin Strategies /\ "trip" \notin Strategies /\ "notify" \notin Strategies
BY SwitchConstants DEF SwitchConstants

\* What a save leaves in memory and in the file.
LEMMA SaveFacts ==
    ASSUME SwitchTypeOK, NEW st \in State, Save(st)
    PROVE  /\ mem' = st
           /\ mem' \in State /\ disk' \in State /\ stale' \in Nat
           /\ FileInv'
BY DEF Save, SwitchTypeOK, FileInv

\* The states that differ in counters and switch of the account.
LEMMA AccountFacts ==
    ASSUME SwitchTypeOK
    PROVE  /\ \A gain, counts \in BOOLEAN :
                 /\ Result(gain, counts) \in State
                 /\ Result(gain, counts).tripped = mem.tripped
                 /\ Result(gain, counts).errors = mem.errors
                 /\ Result(gain, counts).strategy = mem.strategy
           /\ \A e \in Nat :
                 /\ [mem EXCEPT !.errors = e] \in State
                 /\ [mem EXCEPT !.errors = e].tripped = mem.tripped
                 /\ [mem EXCEPT !.errors = e].losses = mem.losses
                 /\ [mem EXCEPT !.errors = e].loss = mem.loss
                 /\ [mem EXCEPT !.errors = e].errors = e
                 /\ [mem EXCEPT !.errors = e].strategy = mem.strategy
           /\ \A t \in BOOLEAN :
                 /\ [mem EXCEPT !.tripped = t] \in State
                 /\ [mem EXCEPT !.tripped = t].tripped = t
                 /\ [mem EXCEPT !.tripped = t].strategy = mem.strategy
<1>1. mem \in State
  BY DEF SwitchTypeOK
<1>2. /\ mem = [tripped |-> mem.tripped, losses |-> mem.losses, errors |-> mem.errors,
                loss |-> mem.loss, strategy |-> mem.strategy]
      /\ mem.tripped \in BOOLEAN /\ mem.losses \in Nat /\ mem.errors \in Nat /\ mem.loss \in Nat
      /\ mem.strategy \in [Strategies -> Strategy]
  BY <1>1 DEF State
<1>3. ASSUME NEW gain \in BOOLEAN, NEW counts \in BOOLEAN
      PROVE  /\ Result(gain, counts) \in State
             /\ Result(gain, counts).tripped = mem.tripped
             /\ Result(gain, counts).errors = mem.errors
             /\ Result(gain, counts).strategy = mem.strategy
  BY <1>2 DEF Result, State
<1>4. ASSUME NEW e \in Nat
      PROVE  /\ [mem EXCEPT !.errors = e] \in State
             /\ [mem EXCEPT !.errors = e].tripped = mem.tripped
             /\ [mem EXCEPT !.errors = e].losses = mem.losses
             /\ [mem EXCEPT !.errors = e].loss = mem.loss
             /\ [mem EXCEPT !.errors = e].errors = e
             /\ [mem EXCEPT !.errors = e].strategy = mem.strategy
  BY <1>1 DEF State
<1>5. ASSUME NEW t \in BOOLEAN
      PROVE  /\ [mem EXCEPT !.tripped = t] \in State
             /\ [mem EXCEPT !.tripped = t].tripped = t
             /\ [mem EXCEPT !.tripped = t].strategy = mem.strategy
  BY <1>1 DEF State
<1> QED BY <1>3, <1>4, <1>5

\* A change of one strategy leaves the account and the other strategies.
LEMMA WithFacts ==
    ASSUME SwitchTypeOK, NEW s \in Strategies, NEW x \in Strategy
    PROVE  /\ With(s, x) \in State
           /\ With(s, x).tripped = mem.tripped
           /\ OverLimit(With(s, x)) <=> OverLimit(mem)
           /\ With(s, x).strategy[s] = x
           /\ \A z \in Strategies \ {s} : With(s, x).strategy[z] = mem.strategy[z]
<1>1. mem \in State /\ mem.strategy \in [Strategies -> Strategy]
  BY DEF SwitchTypeOK, State
<1> DEFINE f == [mem.strategy EXCEPT ![s] = x]
<1>2. /\ f \in [Strategies -> Strategy] /\ f[s] = x
      /\ \A z \in Strategies \ {s} : f[z] = mem.strategy[z]
  BY <1>1
<1>3. With(s, x) = [mem EXCEPT !.strategy = f]
  BY DEF With
<1> HIDE DEF f
<1>4. /\ With(s, x) \in State /\ With(s, x).strategy = f
      /\ With(s, x).tripped = mem.tripped /\ With(s, x).losses = mem.losses
      /\ With(s, x).errors = mem.errors /\ With(s, x).loss = mem.loss
  BY <1>1, <1>2, <1>3 DEF State
<1> QED BY <1>2, <1>4 DEF OverLimit, TooManyLosses, TooManyErrors, TooMuchLost

\* What the counters and the block of a strategy may become.
LEMMA StrategyFacts ==
    ASSUME SwitchTypeOK, NEW s \in Strategies
    PROVE  /\ mem.strategy[s] \in Strategy
           /\ \A gain \in BOOLEAN :
                 /\ StrategyResult(mem.strategy[s], gain) \in Strategy
                 /\ StrategyResult(mem.strategy[s], gain).block = mem.strategy[s].block
           /\ \A b \in {"none", "buy", "all"} :
                 /\ [mem.strategy[s] EXCEPT !.block = b] \in Strategy
                 /\ [mem.strategy[s] EXCEPT !.block = b].block = b
           /\ Unblocked \in Strategy /\ ~OverStrategyLimit(Unblocked)
<1>1. mem.strategy[s] \in Strategy
  BY DEF SwitchTypeOK, State
<1>2. Unblocked \in Strategy /\ ~OverStrategyLimit(Unblocked)
  BY SwitchConstants DEF SwitchConstants, Unblocked, Strategy, OverStrategyLimit
<1> QED BY <1>1, <1>2 DEF Strategy, StrategyResult

\* Nothing is counted and nothing blocked in a fresh state.
LEMMA FreshFacts ==
    /\ Fresh \in State /\ ~OverLimit(Fresh)
    /\ \A s \in Strategies : ~OverStrategyLimit(Fresh.strategy[s])
<1>1. Unblocked \in Strategy /\ ~OverStrategyLimit(Unblocked)
  BY SwitchConstants DEF SwitchConstants, Unblocked, Strategy, OverStrategyLimit
<1>2. Fresh \in State /\ ~OverLimit(Fresh) /\ \A s \in Strategies : Fresh.strategy[s] = Unblocked
  BY <1>1, SwitchConstants
     DEF SwitchConstants, State, Fresh, OverLimit, TooManyLosses, TooManyErrors, TooMuchLost
<1> QED BY <1>1, <1>2

LEMMA InitSwitchInv == SwitchInit => SwitchInv
<1> SUFFICES ASSUME SwitchInit PROVE SwitchInv
  OBVIOUS
<1>1. mem = Fresh /\ disk = Fresh
  BY DEF SwitchInit
<1>2. SwitchTypeOK
  BY <1>1, FreshFacts DEF SwitchInit, SwitchTypeOK
<1> QED BY <1>1, <1>2, FreshFacts DEF SwitchInv, FileInv, AccountInv, StrategyInv

\* A save that leaves the strategies' switches alone leaves them at their limits.
LEMMA SameStrategies ==
    ASSUME StrategyInv, mem'.strategy = mem.strategy, UNCHANGED lost,
           lock' \notin Strategies, lock \notin Strategies
    PROVE  StrategyInv'
BY DEF StrategyInv, OverStrategyLimit

\* A change of strategy s, which is then within its limits, blocked, about to be tripped or lost
\* before, leaves the rest at its limits.
LEMMA OneStrategy ==
    ASSUME SwitchInv, NEW s \in Strategies, NEW x \in Strategy, Save(With(s, x)),
           lock \in {"free", s}, lock' \in {"free", "notify", s}, UNCHANGED excused,
           lost' \in {lost, lost \ {s}},
           lock' # s /\ OverStrategyLimit(x) => x.block # "none"
    PROVE  /\ mem' \in State /\ disk' \in State /\ stale' \in Nat
           /\ FileInv' /\ AccountInv' /\ StrategyInv'
<1>1. SwitchTypeOK /\ lock # "trip" /\ lock' # "trip"
  BY LockNames DEF SwitchInv
<1>2. /\ With(s, x) \in State
      /\ With(s, x).tripped = mem.tripped
      /\ OverLimit(With(s, x)) <=> OverLimit(mem)
      /\ With(s, x).strategy[s] = x
      /\ \A z \in Strategies \ {s} : With(s, x).strategy[z] = mem.strategy[z]
  BY <1>1, WithFacts
<1>3. /\ mem' = With(s, x)
      /\ mem' \in State /\ disk' \in State /\ stale' \in Nat /\ FileInv'
  BY <1>1, <1>2, SaveFacts
<1>4. OverLimit(mem)' <=> OverLimit(mem)
  BY <1>2, <1>3 DEF OverLimit, TooManyLosses, TooManyErrors, TooMuchLost
<1>5. AccountInv'
  BY <1>1, <1>2, <1>3, <1>4 DEF AccountInv, SwitchInv
<1>6. ASSUME NEW z \in Strategies \ lost', lock' # z, OverStrategyLimit(mem'.strategy[z])
      PROVE  mem'.strategy[z].block # "none"
  <2>1. CASE z = s
    BY <1>2, <1>3, <1>6, <2>1
  <2>2. CASE z # s
    <3>1. z \in Strategies \ lost /\ lock # z /\ mem'.strategy[z] = mem.strategy[z]
      BY <1>2, <1>3, <2>2, LockNames
    <3> QED BY <1>6, <3>1 DEF StrategyInv, SwitchInv
  <2> QED BY <2>1, <2>2
<1>7. StrategyInv'
  BY <1>6 DEF StrategyInv, OverStrategyLimit
<1> QED BY <1>3, <1>5, <1>7

LEMMA StepSwitchInv == SwitchInv /\ [SwitchNext]_switchVars => SwitchInv'
<1> SUFFICES ASSUME SwitchInv, [SwitchNext]_switchVars PROVE SwitchInv'
  OBVIOUS
<1>0. SwitchTypeOK /\ FileInv /\ AccountInv /\ StrategyInv
  BY DEF SwitchInv
<1>1. ASSUME NEW s \in Strategies \cup {NoStrategy}, NEW gain \in BOOLEAN, NEW counts \in BOOLEAN,
             NEW pct \in BOOLEAN, RecordTradeResult(s, gain, counts, pct)
      PROVE  SwitchInv'
  <2> DEFINE st == Result(gain, counts)
  <2>0. st \in State /\ st.tripped = mem.tripped /\ st.errors = mem.errors
        /\ st.strategy = mem.strategy
    BY <1>0, AccountFacts
  <2> HIDE DEF st
  <2>1. /\ Save(st) /\ UNCHANGED <<report, excused, lost>>
        /\ lock = "free" /\ lock' \in {"free", "trip"}
        /\ lock' = "free" => ~TooManyLosses(st) /\ ~TooMuchLost(st)
        /\ due' = due \cup ({<<s, gain>>} \cap (Strategies \X BOOLEAN))
    BY <1>1, Zenon DEF RecordTradeResult, st
  <2>2. mem' = st /\ mem' \in State /\ disk' \in State /\ stale' \in Nat /\ FileInv'
    BY <1>0, <2>0, <2>1, SaveFacts
  <2>3. SwitchTypeOK'
    BY <1>0, <2>1, <2>2 DEF SwitchTypeOK
  <2>4. AccountInv'
    BY <1>0, <2>0, <2>1, <2>2 DEF AccountInv, OverLimit, TooManyLosses, TooManyErrors, TooMuchLost
  <2>5. StrategyInv'
    BY <1>0, <2>0, <2>1, <2>2, LockNames, SameStrategies
  <2> QED BY <2>2, <2>3, <2>4, <2>5 DEF SwitchInv
<1>2. ASSUME RecordApiFailure PROVE SwitchInv'
  <2> DEFINE st == [mem EXCEPT !.errors = mem.errors + 1]
  <2>0. mem.errors + 1 \in Nat
    BY <1>0 DEF SwitchTypeOK, State
  <2>1. st \in State /\ st.tripped = mem.tripped /\ st.losses = mem.losses
        /\ st.loss = mem.loss /\ st.errors = mem.errors + 1 /\ st.strategy = mem.strategy
    BY <1>0, <2>0, AccountFacts
  <2>2. lock = "free" /\ Save(st) /\ UNCHANGED <<due, report, excused, lost>>
        /\ lock' = IF mem.errors + 1 >= MaxErrors THEN "trip" ELSE "free"
    BY <1>2 DEF RecordApiFailure
  <2> HIDE DEF st
  <2>3. mem' = st /\ mem' \in State /\ disk' \in State /\ stale' \in Nat /\ FileInv'
    BY <1>0, <2>1, <2>2, SaveFacts
  <2>4. SwitchTypeOK'
    BY <1>0, <2>2, <2>3 DEF SwitchTypeOK
  <2>5. AccountInv'
    BY <1>0, <2>1, <2>2, <2>3 DEF AccountInv, OverLimit, TooManyLosses, TooManyErrors, TooMuchLost
  <2>6. StrategyInv'
    BY <1>0, <2>1, <2>2, <2>3, LockNames, SameStrategies
  <2> QED BY <2>3, <2>4, <2>5, <2>6 DEF SwitchInv
<1>3. ASSUME RecordApiSuccess PROVE SwitchInv'
  <2> DEFINE st == [mem EXCEPT !.errors = 0]
  <2>1. st \in State /\ st.tripped = mem.tripped /\ st.losses = mem.losses
        /\ st.loss = mem.loss /\ st.errors = 0 /\ st.strategy = mem.strategy
    BY <1>0, AccountFacts
  <2>2. lock = "free" /\ Save(st) /\ UNCHANGED <<lock, due, report, excused, lost>>
    BY <1>3 DEF RecordApiSuccess
  <2> HIDE DEF st
  <2>3. mem' = st /\ mem' \in State /\ disk' \in State /\ stale' \in Nat /\ FileInv'
    BY <1>0, <2>1, <2>2, SaveFacts
  <2>4. SwitchTypeOK'
    BY <1>0, <2>2, <2>3 DEF SwitchTypeOK
  <2>5. AccountInv'
    BY <1>0, <2>1, <2>2, <2>3, SwitchConstants
       DEF AccountInv, OverLimit, TooManyLosses, TooManyErrors, TooMuchLost, SwitchConstants
  <2>6. StrategyInv'
    BY <1>0, <2>1, <2>2, <2>3, LockNames, SameStrategies
  <2> QED BY <2>3, <2>4, <2>5, <2>6 DEF SwitchInv
<1>4. ASSUME AskTrip PROVE SwitchInv'
  <2>1. lock = "free" /\ lock' = "trip"
        /\ UNCHANGED <<mem, disk, due, report, stale, excused, lost>>
    BY <1>4 DEF AskTrip
  <2>2. StrategyInv'
    BY <1>0, <2>1, LockNames, SameStrategies
  <2> QED BY <1>0, <2>1, <2>2 DEF SwitchInv, SwitchTypeOK, FileInv, AccountInv
<1>5. ASSUME Trip PROVE SwitchInv'
  <2> DEFINE st == [mem EXCEPT !.tripped = TRUE]
  <2>1. st \in State /\ st.tripped = TRUE /\ st.strategy = mem.strategy
    BY <1>0, AccountFacts
  <2>2. lock = "trip" /\ lock' = "notify" /\ excused' = FALSE /\ UNCHANGED <<due, report, lost>>
        /\ \/ mem.tripped /\ UNCHANGED <<mem, disk, stale>>
           \/ Save(st)
    BY <1>5 DEF Trip
  <2> HIDE DEF st
  <2>3. mem' \in State /\ disk' \in State /\ stale' \in Nat /\ FileInv' /\ mem'.tripped
        /\ mem'.strategy = mem.strategy
    BY <1>0, <2>1, <2>2, SaveFacts DEF SwitchTypeOK, FileInv
  <2>4. SwitchTypeOK'
    BY <1>0, <2>2, <2>3 DEF SwitchTypeOK
  <2>5. StrategyInv'
    BY <1>0, <2>2, <2>3, LockNames, SameStrategies
  <2> QED BY <2>3, <2>4, <2>5 DEF AccountInv, SwitchInv
<1>6. ASSUME Notified PROVE SwitchInv'
  <2>1. lock = "notify" /\ lock' = "free"
        /\ UNCHANGED <<mem, disk, due, report, stale, excused, lost>>
    BY <1>6 DEF Notified
  <2>2. StrategyInv'
    BY <1>0, <2>1, LockNames, SameStrategies
  <2>3. AccountInv'
    BY <1>0, <2>1 DEF AccountInv, OverLimit, TooManyLosses, TooManyErrors, TooMuchLost
  <2> QED BY <1>0, <2>1, <2>2, <2>3 DEF SwitchInv, SwitchTypeOK, FileInv
<1>7. ASSUME ManualReset PROVE SwitchInv'
  <2> DEFINE st == [mem EXCEPT !.tripped = FALSE]
  <2>1. st \in State /\ st.strategy = mem.strategy
    BY <1>0, AccountFacts
  <2>2. lock = "free" /\ Save(st) /\ excused' = TRUE /\ UNCHANGED <<lock, due, report, lost>>
    BY <1>7 DEF ManualReset
  <2> HIDE DEF st
  <2>3. mem' = st /\ mem' \in State /\ disk' \in State /\ stale' \in Nat /\ FileInv'
    BY <1>0, <2>1, <2>2, SaveFacts
  <2>4. StrategyInv'
    BY <1>0, <2>1, <2>2, <2>3, LockNames, SameStrategies
  <2> QED BY <1>0, <2>2, <2>3, <2>4 DEF SwitchInv, SwitchTypeOK, AccountInv
<1>8. ASSUME NEW s \in Strategies, NEW gain \in BOOLEAN, RecordStrategyResult(s, gain)
      PROVE  SwitchInv'
  <2> DEFINE x == StrategyResult(mem.strategy[s], gain)
  <2>1. x \in Strategy
    BY <1>0, StrategyFacts
  <2>2. /\ lock = "free" /\ Save(With(s, x)) /\ UNCHANGED <<report, excused, lost>>
        /\ due' = due \ {<<s, gain>>}
        /\ lock' = IF x.block = "none" /\ OverStrategyLimit(x) THEN s ELSE "free"
    BY <1>8 DEF RecordStrategyResult
  <2> HIDE DEF x
  <2>3. /\ mem' \in State /\ disk' \in State /\ stale' \in Nat
        /\ FileInv' /\ AccountInv' /\ StrategyInv'
    BY <2>1, <2>2, OneStrategy, LockNames
  <2> QED BY <1>0, <2>2, <2>3 DEF SwitchTypeOK, SwitchInv
<1>9. ASSUME NEW s \in Strategies, TripStrategy(s) PROVE SwitchInv'
  <2> DEFINE x == [mem.strategy[s] EXCEPT !.block = "all"]
  <2>1. x \in Strategy /\ x.block # "none"
    BY <1>0, StrategyFacts
  <2>2. /\ lock = s /\ lock' = "notify" /\ Save(With(s, x)) /\ lost' = lost \ {s}
        /\ UNCHANGED <<due, report, excused>>
    BY <1>9 DEF TripStrategy
  <2> HIDE DEF x
  <2>3. /\ mem' \in State /\ disk' \in State /\ stale' \in Nat
        /\ FileInv' /\ AccountInv' /\ StrategyInv'
    BY <2>1, <2>2, OneStrategy
  <2> QED BY <1>0, <2>2, <2>3 DEF SwitchTypeOK, SwitchInv
<1>10. ASSUME NEW s \in Strategies, ReportDecline(s) PROVE SwitchInv'
  <2>1. report' = s /\ UNCHANGED <<mem, disk, lock, due, stale, excused, lost>>
    BY <1>10 DEF ReportDecline
  <2> QED BY <1>0, <2>1
      DEF SwitchInv, SwitchTypeOK, FileInv, AccountInv, StrategyInv, OverLimit, TooManyLosses,
          TooManyErrors, TooMuchLost, OverStrategyLimit
<1>11. ASSUME NEW s \in Strategies, ReportBlocks(s) PROVE SwitchInv'
  <2> DEFINE x == [mem.strategy[s] EXCEPT !.block = "buy"]
  <2>1. x \in Strategy /\ x.block # "none"
    BY <1>0, StrategyFacts
  <2>2. /\ lock = "free" /\ Save(With(s, x)) /\ lost' = lost \ {s} /\ report' = NoStrategy
        /\ UNCHANGED <<lock, due, excused>>
    BY <1>11 DEF ReportBlocks
  <2> HIDE DEF x
  <2>3. /\ mem' \in State /\ disk' \in State /\ stale' \in Nat
        /\ FileInv' /\ AccountInv' /\ StrategyInv'
    BY <2>1, <2>2, OneStrategy
  <2> QED BY <1>0, <2>2, <2>3 DEF SwitchTypeOK, SwitchInv
<1>12. ASSUME NEW s \in Strategies, ResetStrategy(s) PROVE SwitchInv'
  <2>1. Unblocked \in Strategy /\ ~OverStrategyLimit(Unblocked)
    BY <1>0, StrategyFacts
  <2>2. /\ lock = "free" /\ Save(With(s, Unblocked)) /\ lost' = lost \ {s}
        /\ UNCHANGED <<lock, due, report, excused>>
    BY <1>12 DEF ResetStrategy
  <2>3. /\ mem' \in State /\ disk' \in State /\ stale' \in Nat
        /\ FileInv' /\ AccountInv' /\ StrategyInv'
    BY <2>1, <2>2, OneStrategy
  <2> QED BY <1>0, <2>2, <2>3 DEF SwitchTypeOK, SwitchInv
<1>13. ASSUME Restart PROVE SwitchInv'
  <2>1. /\ mem' = disk /\ disk' = disk /\ lock' = "free" /\ due' = {} /\ report' = NoStrategy
        /\ stale' = 0
        /\ excused' = (excused \/ stale # 0 \/ lock = "trip")
        /\ lost' = IF stale # 0 THEN Strategies ELSE lost \cup ({lock} \cap Strategies)
    BY <1>13 DEF Restart
  <2>2. SwitchTypeOK'
    <3>1. mem' \in State /\ disk' \in State /\ lock' = "free" /\ stale' \in Nat
          /\ due' \subseteq Strategies \X BOOLEAN /\ report' \in Strategies \cup {NoStrategy}
      BY <1>0, <2>1 DEF SwitchTypeOK
    <3>2. excused' \in BOOLEAN
      BY <2>1
    <3>3. lost' \subseteq Strategies
      BY <1>0, <2>1 DEF SwitchTypeOK
    <3> QED BY <3>1, <3>2, <3>3 DEF SwitchTypeOK
  <2>3. FileInv'
    BY <2>1 DEF FileInv
  <2>4. ASSUME stale = 0 PROVE AccountInv' /\ StrategyInv'
    <3>1. mem' = mem /\ lost' = lost \cup ({lock} \cap Strategies)
          /\ excused' = (excused \/ lock = "trip")
      BY <1>0, <2>1, <2>4 DEF FileInv
    <3>2. AccountInv'
      BY <1>0, <3>1 DEF AccountInv, OverLimit, TooManyLosses, TooManyErrors, TooMuchLost
    <3>3. ASSUME NEW z \in Strategies \ lost', OverStrategyLimit(mem.strategy[z])
          PROVE  mem.strategy[z].block # "none"
      <4>1. z \in Strategies \ lost /\ lock # z
        BY <3>1, <3>3
      <4> QED BY <1>0, <3>3, <4>1 DEF StrategyInv
    <3>4. StrategyInv'
      BY <3>1, <3>3 DEF StrategyInv, OverStrategyLimit
    <3> QED BY <3>2, <3>4
  <2>5. ASSUME stale # 0 PROVE AccountInv' /\ StrategyInv'
    BY <2>1, <2>5 DEF AccountInv, StrategyInv
  <2> QED BY <2>2, <2>3, <2>4, <2>5 DEF SwitchInv
<1>14. CASE RestartUnread
  <2>1. /\ mem' = Fresh /\ disk' = disk /\ lock' = "free" /\ due' = {}
        /\ report' = NoStrategy /\ stale' = 1 /\ excused' = FALSE /\ lost' = {}
    BY <1>14 DEF RestartUnread
  <2>2. Fresh \in State /\ ~OverLimit(Fresh)
        /\ \A s \in Strategies : ~OverStrategyLimit(Fresh.strategy[s])
    BY FreshFacts
  <2>3. SwitchTypeOK'
    BY <1>0, <2>1, <2>2 DEF SwitchTypeOK
  <2>4. FileInv'
    BY <2>1 DEF FileInv
  <2>5. AccountInv' /\ StrategyInv'
    BY <2>1, <2>2
       DEF AccountInv, StrategyInv, OverLimit, TooManyLosses, TooManyErrors, TooMuchLost,
           OverStrategyLimit
  <2> QED BY <2>3, <2>4, <2>5 DEF SwitchInv
<1>15. CASE UNCHANGED switchVars
  BY <1>0, <1>15
     DEF switchVars, SwitchInv, SwitchTypeOK, FileInv, AccountInv, StrategyInv, OverLimit,
         TooManyLosses, TooManyErrors, TooMuchLost, OverStrategyLimit
<1> QED
  BY <1>1, <1>2, <1>3, <1>4, <1>5, <1>6, <1>7, <1>8, <1>9, <1>10, <1>11, <1>12, <1>13, <1>14,
     <1>15
     DEF SwitchNext

LEMMA SwitchInductive == SwitchSpec => []SwitchInv
BY InitSwitchInv, StepSwitchInv, PTL DEF SwitchSpec
-----------------------------------------------------------------------------
(* Its theorems *)

\* Every variable keeps its type: no counter goes below zero.
THEOREM SwitchTyped == SwitchSpec => []SwitchTypeOK
<1>1. SwitchInv => SwitchTypeOK
  BY DEF SwitchInv
<1> QED BY <1>1, SwitchInductive, PTL

\* A counter at its limit means a tripped switch, of the account and of each strategy, unless
\* an operator released the account's or a crash lost the trip, and nothing tripped it since.
THEOREM LimitTrips == SwitchSpec => []OverLimitIsTripped
<1>1. SwitchInv => OverLimitIsTripped
  <2> SUFFICES ASSUME SwitchInv, lock = "free"
               PROVE  /\ OverLimit(mem) => mem.tripped \/ excused
                      /\ \A s \in Strategies \ lost :
                            OverStrategyLimit(mem.strategy[s]) => mem.strategy[s].block # "none"
    BY DEF OverLimitIsTripped
  <2> QED BY LockNames DEF SwitchInv, AccountInv, StrategyInv
<1> QED BY <1>1, SwitchInductive, PTL

\* Only the operator releases a tripped switch, as long as writes succeed and the file can
\* be read.
THEOREM OperatorReleases == SwitchSpec => OnlyOperatorReleases
<1> DEFINE AccountKept == mem.tripped /\ ~mem'.tripped => ManualReset \/ stale # 0 \/ RestartUnread
           StrategyKept(s) == mem.strategy[s].block # "none" /\ mem'.strategy[s].block = "none"
                                  => ResetStrategy(s) \/ stale # 0 \/ RestartUnread
           Kept == AccountKept /\ \A s \in Strategies : StrategyKept(s)
<1>1. ASSUME SwitchInv, SwitchNext PROVE Kept
  <2>0. SwitchTypeOK /\ FileInv
    BY <1>1 DEF SwitchInv
  \* A step that leaves the switch of the account, or the strategies, as they were.
  <2>1. ASSUME mem'.tripped = mem.tripped, mem'.strategy = mem.strategy PROVE Kept
    BY <2>1
  <2>2. ASSUME NEW s \in Strategies \cup {NoStrategy}, NEW gain \in BOOLEAN,
               NEW counts \in BOOLEAN, NEW pct \in BOOLEAN,
               RecordTradeResult(s, gain, counts, pct)
        PROVE  Kept
    <3>1. mem' = Result(gain, counts)
      BY <2>2 DEF RecordTradeResult, Save
    <3> QED BY <2>0, <2>1, <3>1, AccountFacts
  <2>3. CASE RecordApiFailure
    <3>1. mem' = [mem EXCEPT !.errors = mem.errors + 1] /\ mem.errors + 1 \in Nat
      BY <2>0, <2>3 DEF RecordApiFailure, Save, SwitchTypeOK, State
    <3>2. mem'.tripped = mem.tripped /\ mem'.strategy = mem.strategy
      BY <2>0, <3>1, AccountFacts
    <3> QED BY <2>1, <3>2
  <2>4. CASE RecordApiSuccess
    <3>1. mem' = [mem EXCEPT !.errors = 0]
      BY <2>4 DEF RecordApiSuccess, Save
    <3>2. mem'.tripped = mem.tripped /\ mem'.strategy = mem.strategy
      BY <2>0, <3>1, AccountFacts
    <3> QED BY <2>1, <3>2
  <2>5. CASE AskTrip \/ Notified
    BY <2>1, <2>5 DEF AskTrip, Notified
  <2>6. CASE Trip
    <3>1. mem' = mem \/ mem' = [mem EXCEPT !.tripped = TRUE]
      BY <2>6 DEF Trip, Save
    <3>2. mem'.strategy = mem.strategy /\ (mem'.tripped = mem.tripped \/ mem'.tripped = TRUE)
      BY <2>0, <3>1, AccountFacts
    <3> QED BY <3>2
  <2>7. CASE ManualReset
    <3>1. mem' = [mem EXCEPT !.tripped = FALSE]
      BY <2>7 DEF ManualReset, Save
    <3>2. mem'.strategy = mem.strategy
      BY <2>0, <3>1, AccountFacts
    <3> QED BY <2>7, <3>2
  \* A step that changes one strategy, and blocks it if it was blocked.
  <2>8. ASSUME NEW s \in Strategies, NEW x \in Strategy, mem' = With(s, x),
               mem.strategy[s].block # "none" /\ x.block = "none" => ResetStrategy(s)
        PROVE  Kept
    <3>1. mem'.tripped = mem.tripped
      BY <2>0, <2>8, WithFacts
    <3>2. ASSUME NEW z \in Strategies PROVE StrategyKept(z)
      <4>1. CASE z = s
        <5>1. mem'.strategy[z] = x
          BY <2>0, <2>8, <4>1, WithFacts
        <5> QED BY <2>8, <4>1, <5>1
      <4>2. CASE z # s
        <5>1. mem'.strategy[z] = mem.strategy[z]
          BY <2>0, <2>8, <4>2, WithFacts
        <5> QED BY <5>1
      <4> QED BY <4>1, <4>2
    <3> QED BY <3>1, <3>2
  <2>9. ASSUME NEW s \in Strategies, NEW gain \in BOOLEAN, RecordStrategyResult(s, gain)
        PROVE  Kept
    <3> DEFINE x == StrategyResult(mem.strategy[s], gain)
    <3>1. x \in Strategy /\ x.block = mem.strategy[s].block
      BY <2>0, StrategyFacts
    <3>2. mem' = With(s, x)
      BY <2>9 DEF RecordStrategyResult, Save
    <3> HIDE DEF x
    <3>3. mem.strategy[s].block # "none" /\ x.block = "none" => ResetStrategy(s)
      BY <3>1
    <3> HIDE DEF Kept
    <3> QED BY <2>8, <3>1, <3>2, <3>3
  <2>10. ASSUME NEW s \in Strategies, NEW b \in {"buy", "all"},
                mem' = With(s, [mem.strategy[s] EXCEPT !.block = b])
         PROVE  Kept
    <3> DEFINE x == [mem.strategy[s] EXCEPT !.block = b]
    <3>1. x \in Strategy /\ x.block # "none"
      BY <2>0, StrategyFacts
    <3>2. mem' = With(s, x)
      BY <2>10
    <3> HIDE DEF x, Kept
    <3> QED BY <2>8, <3>1, <3>2
  <2>11. ASSUME NEW s \in Strategies, TripStrategy(s) \/ ReportBlocks(s) PROVE Kept
    <3>1. \E b \in {"buy", "all"} : mem' = With(s, [mem.strategy[s] EXCEPT !.block = b])
      BY <2>11 DEF TripStrategy, ReportBlocks, Save
    <3> HIDE DEF Kept
    <3> QED BY <2>10, <3>1
  <2>12. ASSUME NEW s \in Strategies, ReportDecline(s) PROVE Kept
    BY <2>1, <2>12 DEF ReportDecline
  <2>13. ASSUME NEW s \in Strategies, ResetStrategy(s) PROVE Kept
    <3>1. mem' = With(s, Unblocked) /\ Unblocked \in Strategy
      BY <2>0, <2>13, StrategyFacts DEF ResetStrategy, Save
    <3> HIDE DEF Kept
    <3> QED BY <2>8, <2>13, <3>1
  <2>14. CASE Restart
    <3>1. stale # 0 \/ mem' = mem
      BY <2>0, <2>14 DEF Restart, FileInv
    <3> QED BY <2>1, <3>1
  <2>15. CASE RestartUnread
    BY <2>15
  <2> HIDE DEF Kept
  <2> QED
    BY <1>1, <2>2, <2>3, <2>4, <2>5, <2>6, <2>7, <2>9, <2>11, <2>12, <2>13, <2>14, <2>15
    DEF SwitchNext
<1>2. SwitchInv /\ [SwitchNext]_switchVars => [Kept]_switchVars
  BY <1>1
<1> QED BY <1>2, SwitchInductive, PTL DEF SwitchSpec, OnlyOperatorReleases
=============================================================================
