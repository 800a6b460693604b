--------------------------- MODULE OrderChannel ---------------------------
(***************************************************************************)
(* The way of an order from BrokerAPIWrapper to the broker: the circuit    *)
(* breaker, the lanes of the budget limiter, the hashkey request, the      *)
(* headers that the trading API shares between its requests, the attempts  *)
(* of call_api, and the access token that they all need.                   *)
(*                                                                         *)
(* An element of Orders is a caller that places one order after another of *)
(* one kind; its number of calls is not bounded.  Headers stand for the    *)
(* caller whose context put them there (its tr_id, hashkey and gt_uid).    *)
(* The waits for a rate slot only delay and are part of Acquire; the token *)
(* file holds what the memory holds and is left out.                       *)
(***************************************************************************)
EXTENDS Naturals, FiniteSets

CONSTANTS
  Orders,        \* the callers
  Cancels,       \* those that cancel an order: not behind the breaker
  Liquidators,   \* those that may run in an emergency scope
  Nobody,        \* no caller: the default headers, a free lock
  Threshold,     \* failures in a row that open the breaker (5 in the code)
  HashTries,     \* retry_count of the hashkey request (3 in the code)
  OrderTries     \* retry_count of the order request (10, for a cancel 3)

ASSUME ConstantsAssumption ==
  /\ Cancels \subseteq Orders /\ Liquidators \subseteq Orders
  /\ Nobody \notin Orders
  /\ Threshold \in Nat \ {0} /\ HashTries \in Nat \ {0} /\ OrderTries \in Nat \ {0}

VARIABLES
  urgent,     \* the callers in an emergency scope: chosen once
  call,       \* what each caller's call is at
  volatile,   \* the headers of the trading API: whose they are
  token,      \* "none", "good", or "stale": refused by the broker, unnoticed
  issueLock,  \* who is in the locked part of get_access_token
  soon,       \* a token was issued less than a minute ago
  failures,   \* _cb_consecutive_failures, counted up to Threshold
  openUntil   \* _cb_open_until: "none", "ahead" or "past"

vars == <<urgent, call, volatile, token, issueLock, soon, failures, openUntil>>

(* The headers of whose context, and whether their hashkey is one.         *)
Headers == [of : Orders \cup {Nobody}, hashed : BOOLEAN]

Default == [of |-> Nobody, hashed |-> TRUE]

(* pc      where the call is: "waiting" for its lane, "lock" for the token *)
(*         lock, "issue" and "reissue" for a new token, "posted", "expired"*)
(*         (the token was refused), "pause" and "minute" before a retry    *)
(* request which request of the call is being made; try its attempt        *)
(* headers the headers the attempt carries; bearer the token it carries    *)
(* renewed the attempt is the repeat after a new token                     *)
(* backup  the headers that the context of the call will put back          *)
(* taken   the broker has taken the order of this call                     *)
(* unread  an answer to the order could not be read: kept for TakenOnce    *)
Idle == [pc |-> "idle", request |-> "hash", try |-> 1, headers |-> Default,
         bearer |-> "none", renewed |-> FALSE, backup |-> Default,
         taken |-> FALSE, unread |-> FALSE]

PC == {"idle", "waiting", "lock", "issue", "posted", "expired", "reissue", "pause", "minute"}

(* Every variable has its type; no more failures are counted than open the *)
(* breaker (_cb_consecutive_failures against _cb_threshold).               *)
TypeOK ==
  /\ urgent \subseteq Liquidators
  /\ call \in [Orders ->
       [pc : PC, request : {"hash", "order"}, try : 1..(HashTries + OrderTries),
        headers : Headers, bearer : {"none", "good", "stale"}, renewed : BOOLEAN,
        backup : Headers, taken : BOOLEAN, unread : BOOLEAN]]
  /\ volatile \in Headers
  /\ token \in {"none", "good", "stale"}
  /\ issueLock \in Orders \cup {Nobody}
  /\ soon \in BOOLEAN
  /\ failures \in 0..Threshold
  /\ openUntil \in {"none", "ahead", "past"}

Init ==
  /\ urgent \in {{}, Liquidators}
  /\ call = [o \in Orders |-> Idle]
  /\ volatile = Default
  /\ token \in {"none", "good", "stale"}
  /\ issueLock = Nobody
  /\ soon = FALSE
  /\ failures = 0
  /\ openUntil = "none"

(* Mutant of Lane: an emergency has no lane of its own.                    *)
LaneOfKind(o) == <<o \in Cancels, FALSE>>

Lane(o) == <<o \in Cancels, o \in urgent>>

Tries(request) == IF request = "hash" THEN HashTries ELSE OrderTries

(* One attempt of call_api begins: the headers are forked before the token *)
(* is asked for, which is at once if there is one.                         *)
Attempt(c, request, n, headers) ==
  [c EXCEPT !.pc = IF token = "none" THEN "lock" ELSE "posted",
            !.request = request, !.try = n, !.headers = headers,
            !.bearer = token, !.renewed = FALSE]

(* Mutant of Record: a success closes an open breaker.                     *)
RecordCloses(o, result) ==
  IF o \in Cancels \/ result = "refused"
  THEN UNCHANGED <<failures, openUntil>>
  ELSE LET count == IF failures < Threshold THEN failures + 1 ELSE failures
       IN  IF result = "ok"
           THEN failures' = 0 /\ openUntil' = "none"
           ELSE /\ failures' = count
                /\ openUntil' = IF count >= Threshold THEN "ahead" ELSE openUntil

(* _cb_record_success, _cb_record_failure; neither for a business refusal  *)
Record(o, result) ==
  IF o \in Cancels \/ result = "refused"
  THEN UNCHANGED <<failures, openUntil>>
  ELSE LET count == IF failures < Threshold THEN failures + 1 ELSE failures
       IN  IF result = "ok"
           THEN failures' = 0 /\ UNCHANGED openUntil
           ELSE /\ failures' = count
                /\ openUntil' = IF count >= Threshold THEN "ahead" ELSE openUntil

(* The hashkey is there, or what is taken for it: the context of the order *)
(* sets the headers, and its first attempt begins at once.                 *)
EnterContext(o, c, hashed) ==
  LET own == [of |-> o, hashed |-> hashed]
  IN  /\ volatile' = own
      /\ call' = [call EXCEPT ![o] = Attempt([c EXCEPT !.backup = volatile], "order", 1, own)]
      /\ UNCHANGED <<failures, openUntil>>

(* The call is over: the context restores, the lane is free, and the       *)
(* breaker counts.                                                         *)
LeaveContext(o, c, result) ==
  /\ volatile' = c.backup
  /\ call' = [call EXCEPT ![o] = Idle]
  /\ Record(o, result)

(* call_api returns.  An answer without a HASH ends the call; any other    *)
(* failure of the hashkey request is taken for the hashkey.                *)
Returns(o, c, result) ==
  CASE c.request = "order" -> LeaveContext(o, c, result)
    [] c.request = "hash" /\ result = "empty" ->
         /\ call' = [call EXCEPT ![o] = Idle]
         /\ UNCHANGED <<volatile, failures, openUntil>>
    [] OTHER -> EnterContext(o, c, result = "ok")

Goes(o, pc) == call' = [call EXCEPT ![o].pc = pc]

(* The attempt is over, and its headers and its token with it.             *)
Over(c, pc) ==
  [c EXCEPT !.pc = pc, !.headers = Default, !.bearer = "none", !.renewed = FALSE]

Waits(o, pc) == call' = [call EXCEPT ![o] = Over(@, pc)]

(***************************************************************************)
(* The breaker and the lane.                                               *)
(***************************************************************************)

(* place_stock_order, cancel_stock_order: an open breaker refuses an order *)
(* and changes nothing; one whose time is over is closed here.             *)
Place(o) ==
  /\ call[o].pc = "idle"
  /\ o \in Cancels \/ openUntil # "ahead"
  /\ IF o \notin Cancels /\ openUntil = "past"
     THEN openUntil' = "none" /\ failures' = 0
     ELSE UNCHANGED <<openUntil, failures>>
  /\ Goes(o, "waiting")
  /\ UNCHANGED <<urgent, volatile, token, issueLock, soon>>

(* Mutant of Acquire: no semaphore.                                        *)
AcquireFreely(o) ==
  /\ call[o].pc = "waiting"
  /\ call' = [call EXCEPT ![o] = Attempt(@, "hash", 1, volatile)]
  /\ UNCHANGED <<urgent, volatile, token, issueLock, soon, failures, openUntil>>

(* ApiBudgetLimiter.acquire: one slot a lane for orders                    *)
Acquire(o) ==
  /\ call[o].pc = "waiting"
  /\ \A p \in Orders : Lane(p) = Lane(o) => call[p].pc \in {"idle", "waiting"}
  /\ call' = [call EXCEPT ![o] = Attempt(@, "hash", 1, volatile)]
  /\ UNCHANGED <<urgent, volatile, token, issueLock, soon, failures, openUntil>>

(***************************************************************************)
(* The token.                                                              *)
(***************************************************************************)

(* Mutant of GetToken: the headers are read after the wait for the token.  *)
GetTokenThenFork(o) ==
  /\ call[o].pc = "lock" /\ issueLock = Nobody
  /\ IF token = "none"
     THEN issueLock' = o /\ Goes(o, "issue")
     ELSE /\ UNCHANGED issueLock
          /\ call' = [call EXCEPT ![o].pc = "posted", ![o].bearer = token,
                                  ![o].headers = volatile]
  /\ UNCHANGED <<urgent, volatile, token, soon, failures, openUntil>>

(* get_access_token behind its lock: the token may be there by now         *)
GetToken(o) ==
  /\ call[o].pc = "lock" /\ issueLock = Nobody
  /\ IF token = "none"
     THEN issueLock' = o /\ Goes(o, "issue")
     ELSE /\ UNCHANGED issueLock
          /\ call' = [call EXCEPT ![o].pc = "posted", ![o].bearer = token]
  /\ UNCHANGED <<urgent, volatile, token, soon, failures, openUntil>>

(* refresh_token: throws away whatever token there is, and takes no lock   *)
Refresh(o) ==
  /\ call[o].pc = "expired"
  /\ token' = "none"
  /\ Goes(o, "reissue")
  /\ UNCHANGED <<urgent, volatile, issueLock, soon, failures, openUntil>>

Unlocked(o) == issueLock' = IF issueLock = o THEN Nobody ELSE issueLock

(* _issue_new_token: the broker issues a token once a minute               *)
Issued(o) ==
  /\ call[o].pc \in {"issue", "reissue"} /\ ~soon
  /\ token' = "good" /\ soon' = TRUE
  /\ Unlocked(o)
  /\ call' = [call EXCEPT ![o].pc = "posted", ![o].bearer = "good",
                          ![o].renewed = (call[o].pc = "reissue")]
  /\ UNCHANGED <<urgent, volatile, failures, openUntil>>

(* TokenRateLimitError: call_api waits longer than the minute              *)
IssueRefused(o) ==
  /\ call[o].pc \in {"issue", "reissue"} /\ soon
  /\ Waits(o, "minute")
  /\ Unlocked(o)
  /\ UNCHANGED <<urgent, volatile, token, soon, failures, openUntil>>

(* The request for a token is lost and ends call_api, or is an HTTP error, *)
(* which is retried.                                                       *)
IssueFails(o) ==
  /\ call[o].pc \in {"issue", "reissue"}
  /\ \/ Returns(o, call[o], "lost")
     \/ Waits(o, "pause") /\ UNCHANGED <<volatile, failures, openUntil>>
  /\ Unlocked(o)
  /\ UNCHANGED <<urgent, token, soon>>

(***************************************************************************)
(* The answers of the broker.                                              *)
(***************************************************************************)

(* A hashkey that is no string fails before anything is sent; an exception *)
(* is retried like a call beyond the rate limit.                           *)
NotSent(o) ==
  /\ call[o].pc = "posted" /\ ~call[o].headers.hashed
  /\ Waits(o, "pause")
  /\ UNCHANGED <<urgent, volatile, token, issueLock, soon, failures, openUntil>>

Sent(o) == call[o].pc = "posted" /\ call[o].headers.hashed

(* The call as it is if the broker took its order                          *)
Taken(c) ==
  [c EXCEPT !.taken = @ \/ (c.request = "order" /\ c.bearer = "good")]

(* Mutant of Answered: a lost answer is retried like any other failure.    *)
AnsweredOrAgain(o) ==
  /\ Sent(o)
  /\ \/ call[o].bearer = "good" /\ Returns(o, Taken(call[o]), "ok")
     \/ call[o].bearer = "good" /\ Returns(o, call[o], "refused")
     \/ /\ \E c \in {call[o], Taken(call[o])} :
             call' = [call EXCEPT ![o] = Over(c, "pause")]
        /\ UNCHANGED <<volatile, failures, openUntil>>
     \/ call[o].request = "hash" /\ call[o].bearer = "good" /\ Returns(o, call[o], "empty")
  /\ UNCHANGED <<urgent, token, issueLock, soon>>

(* An answer that ends call_api: success, a refusal, a lost answer or an   *)
(* HTTP error; the broker may have taken an order whose answer is lost.    *)
Answered(o) ==
  /\ Sent(o)
  /\ \/ call[o].bearer = "good" /\ Returns(o, Taken(call[o]), "ok")
     \/ call[o].bearer = "good" /\ Returns(o, call[o], "refused")
     \/ \E c \in {call[o], Taken(call[o])} : Returns(o, c, "lost")
     \/ call[o].request = "hash" /\ call[o].bearer = "good" /\ Returns(o, call[o], "empty")
  /\ UNCHANGED <<urgent, token, issueLock, soon>>

(* The call as it is after an answer that is not JSON, of the broker or of *)
(* a gateway, whatever its HTTP status                                     *)
Unread(c) == [c EXCEPT !.unread = @ \/ c.request = "order"]

(* Answers that call_api retries: one beyond the rate limit; and one that  *)
(* is no JSON, which it parses to look for EGW00123 before it looks at the *)
(* status, unless it has just repeated the request with a new token.       *)
Retried(o) ==
  /\ Sent(o)
  /\ \/ Waits(o, "pause")
     \/ /\ ~call[o].renewed
        /\ \E c \in {call[o], Taken(call[o])} :
             call' = [call EXCEPT ![o] = Over(Unread(c), "pause")]
  /\ UNCHANGED <<urgent, volatile, token, issueLock, soon, failures, openUntil>>

(* The broker refuses the token (EGW00123): once it is renewed and the     *)
(* request repeated; after that it is thrown away and the attempt is over. *)
Expired(o) ==
  /\ Sent(o) /\ call[o].bearer = "stale"
  /\ IF call[o].renewed
     THEN token' = "none" /\ Waits(o, "pause")
     ELSE /\ UNCHANGED token
          /\ call' = [call EXCEPT ![o].pc = "expired", ![o].bearer = "none"]
  /\ UNCHANGED <<urgent, volatile, issueLock, soon, failures, openUntil>>

(* The wait is over: the next attempt forks the headers as they are now.   *)
Wake(o) ==
  LET c == call[o] IN
  /\ c.pc = "pause"
  /\ IF c.try < Tries(c.request)
     THEN /\ call' = [call EXCEPT ![o] = Attempt(c, c.request, c.try + 1, volatile)]
          /\ UNCHANGED <<volatile, failures, openUntil>>
     ELSE Returns(o, c, "lost")
  /\ UNCHANGED <<urgent, token, issueLock, soon>>

(***************************************************************************)
(* Time and the broker.                                                    *)
(***************************************************************************)

(* A minute after the last token; who waited for it is past it too.        *)
MinuteEnds ==
  /\ soon /\ soon' = FALSE
  /\ call' = [o \in Orders |->
                IF call[o].pc = "minute" THEN [call[o] EXCEPT !.pc = "pause"] ELSE call[o]]
  /\ UNCHANGED <<urgent, volatile, token, issueLock, failures, openUntil>>

BlockEnds ==
  /\ openUntil = "ahead" /\ openUntil' = "past"
  /\ UNCHANGED <<urgent, call, volatile, token, issueLock, soon, failures>>

(* The broker stops taking the token; requests on their way carry it.      *)
TokenDies ==
  /\ token = "good" /\ token' = "stale"
  /\ call' = [o \in Orders |->
                IF call[o].bearer = "good" THEN [call[o] EXCEPT !.bearer = "stale"] ELSE call[o]]
  /\ UNCHANGED <<urgent, volatile, issueLock, soon, failures, openUntil>>

Works(o) ==
  \/ Acquire(o) \/ Refresh(o) \/ Issued(o) \/ IssueRefused(o) \/ IssueFails(o)
  \/ NotSent(o) \/ Answered(o) \/ Retried(o) \/ Expired(o) \/ Wake(o)

Next ==
  \/ \E o \in Orders : Place(o) \/ GetToken(o) \/ Works(o)
  \/ MinuteEnds \/ BlockEnds \/ TokenDies

(* An emergency's requests are answered (httpx has timeouts), a request    *)
(* for a token is, whoever makes it, the lock is handed on in turn, and    *)
(* time passes.  Nothing is assumed of the other orders: they may hang.    *)
Fairness ==
  /\ \A o \in Liquidators :
       WF_vars(o \in urgent /\ Works(o)) /\ SF_vars(o \in urgent /\ GetToken(o))
  /\ \A o \in Orders :
       WF_vars(issueLock = o /\ (Issued(o) \/ IssueRefused(o) \/ IssueFails(o)))
  /\ WF_vars(MinuteEnds)

Spec == Init /\ [][Next]_vars /\ Fairness

(***************************************************************************)
(* Properties.                                                             *)
(***************************************************************************)

(* The first attempt of an order carries its own tr_id and hashkey, though *)
(* another lane changes the shared headers while it waits for a token      *)
(* (_execute_request forks them before its first await).                   *)
FirstCarriesItsOwn ==
  \A o \in Orders : LET c == call[o] IN
    (c.request = "order" /\ c.try = 1 /\ c.pc = "posted") => c.headers.of = o

(* An order that the broker may have taken is not sent again because its  *)
(* answer was lost, refused or an HTTP error: only after an answer that    *)
(* could not be read (call_api, _execute_request, _handle_response).       *)
TakenOnce ==
  \A o \in Orders : LET c == call[o] IN
    (c.request = "order" /\ c.pc = "posted" /\ c.taken) => c.unread

(* An order that was on its way when the breaker opened does not close it  *)
(* by its success (_cb_record_success against _cb_open_until).             *)
BlockLasts == [][openUntil = "ahead" => openUntil' # "none"]_vars

(* An emergency's call comes to its end though every other order hangs     *)
(* with its lane, its headers and its part of the breaker in hand.         *)
EmergencyEnds ==
  \A o \in Liquidators : (o \in urgent /\ call[o].pc # "idle") ~> (call[o].pc = "idle")

(* Every attempt carries the headers of its own order: "요청 단위 임시 헤더   *)
(* 설정 컨텍스트" (KoreaInvestHeaderProvider.temp).                            *)
CarriesItsOwn ==
  \A o \in Orders : LET c == call[o] IN
    (c.request = "order" /\ c.pc = "posted") => c.headers.of = o

(* It does as long as all orders share a lane: the lane's only slot is     *)
(* what keeps the contexts of two orders apart (acquire around temp).      *)
LaneKeepsHeaders == (\A o, p \in Orders : Lane(o) = Lane(p)) => CarriesItsOwn
=============================================================================
