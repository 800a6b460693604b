--------------------------- MODULE Subscriptions ---------------------------
(***************************************************************************)
(* The realtime price subscriptions: the policy that decides which codes   *)
(* get one of the broker's slots (SubscriptionPolicy), the WebSocket       *)
(* client with its ledger and its acknowledgements, its own reconnection,  *)
(* and the watchdog that restores and repairs.                             *)
(*                                                                         *)
(* Callers run the policy's coroutines one call after another; Watchdog is *)
(* the task's own coroutine.  No lock orders them: a rebalance computes    *)
(* its plan at once and carries it out over many awaits.  The broker keeps *)
(* the registrations of one connection only.                               *)
(***************************************************************************)
EXTENDS Integers, Sequences, FiniteSets

CONSTANTS
  Codes,        \* stock codes: numbers, their order breaks ties of rank
  MaxSlots,     \* bound of the slots
  Callers,      \* the coroutines that change the policy's references
  Watchdog,     \* the watchdog task
  MaxChanges,   \* bound: changes of the references
  MaxFaults,    \* bound: lines lost, late answers, failed connections
  MaxRefresh,   \* bound: refreshes of a code without ticks (3 in the code)
  Modes         \* which of "calm", "rough", "busy" are looked at

ASSUME ConstantsAssumption ==
  /\ Codes \subseteq Nat /\ IsFiniteSet(Codes)
  /\ MaxSlots \in Nat \ {0} /\ Watchdog \notin Callers
  /\ "nobody" \notin Callers \cup {Watchdog}
  /\ {MaxChanges, MaxFaults, MaxRefresh} \subseteq Nat /\ Modes \subseteq {"calm", "rough", "busy"}

VARIABLES
  mode,        \* chosen once: "calm" and "rough" let nobody start while
               \* another is at work, "busy" does.  In "calm" moreover no
               \* code is unsubscribed and at once subscribed again (no
               \* refresh, no favorite dropped and kept), the client gives
               \* no connection up, a live one is not forced, the
               \* watchdog's succeeds, the session is not in use elsewhere,
               \* and what comes before the first restore is rebalanced
  slots,       \* MAX_WS_SLOTS less what other registrations take: chosen once
  refs,        \* _refs: the kinds of requests for each code
  active,      \* _active_codes_price: what the policy takes for subscribed
  noted,       \* StreamingStockRepo's desired codes
  listed,      \* StreamingStockRepo's active codes
  requested,   \* PriceStreamService's _subscription_requested_ts: codes with an age
  late,        \* codes added or dropped since the last rebalance (history)
  job,         \* what each coroutine is doing
  alive,       \* is_receive_alive: the receive task runs
  line,        \* there is a connection
  ledger,      \* _subscribed_items
  pending,     \* _pending_requests: kind of the request, and who waits
  resend,      \* what _resubscribe_all still has to send
  wire,        \* frames on their way to the broker
  replies,     \* answers on their way back
  registered,  \* what the broker has registered on this connection
  asked,       \* codes asked for on this connection (history)
  changes, faults, refreshes

policy == <<refs, active, noted, listed, late>>
client == <<alive, line, ledger, pending, requested, resend>>
broker == <<wire, replies, registered>>
given == <<mode, slots>>
vars == <<given, policy, job, client, broker, asked, changes, faults, refreshes>>

Procs == Callers \cup {Watchdog}
Nobody == "nobody"
Lists == {"watch", "favorite"}     \* of MEDIUM priority, by sync_subscriptions
Kinds == {"hold"} \cup Lists       \* a holding: HIGH, by add_subscription

None == [kind |-> "none", by |-> Nobody]
Requests == [kind : {"none", "sub", "unsub"}, by : Procs \cup {Nobody}]

(* pc   "run" carries out a plan, "ask" once the connection is there,      *)
(*      "ack" waits for an answer; "restore", "reset", "cut" and "link" of *)
(*      a restore; "again" and "await" of a refresh                        *)
(* drop, take  what is left of the plan; held  the holdings, which come    *)
(*      first; ack  the future it waits on; code  the code it waits for    *)
Idle == [pc |-> "idle", drop |-> {}, take |-> {}, held |-> {}, code |-> 0, ack |-> "open"]

PC == {"idle", "run", "ask", "ack", "restore", "reset", "cut", "link",
       "replan", "again", "await"}

TypeOK ==
  /\ mode \in Modes /\ slots \in 1..MaxSlots
  /\ refs \in [Codes -> SUBSET Kinds]
  /\ {active, noted, listed, requested, late, ledger, resend, registered, asked} \subseteq SUBSET Codes
  /\ job \in [Procs -> [pc : PC, drop : SUBSET Codes, take : SUBSET Codes,
                        held : SUBSET Codes, code : Codes \cup {0},
                        ack : {"open", "yes", "no"}]]
  /\ {alive, line} \subseteq BOOLEAN
  /\ pending \in [Codes -> Requests]
  /\ wire \in Seq([kind : {"sub", "unsub"}, code : Codes])
  /\ replies \in Seq([said : {"ok", "already", "no", "used"}, code : Codes])
  /\ changes \in 0..MaxChanges /\ faults \in 0..MaxFaults
  /\ refreshes \in [Codes -> 0..MaxRefresh]

(* start() creates the task that restores; callers may be earlier.         *)
Init ==
  /\ mode \in Modes /\ slots \in 1..MaxSlots
  /\ refs = [c \in Codes |-> {}] /\ active = {} /\ noted = {} /\ listed = {}
  /\ requested = {} /\ late = {}
  /\ job = [p \in Procs |-> [Idle EXCEPT !.pc = IF p = Watchdog THEN "restore" ELSE "idle"]]
  /\ alive = FALSE /\ line = FALSE /\ ledger = {}
  /\ pending = [c \in Codes |-> None] /\ resend = {}
  /\ wire = <<>> /\ replies = <<>> /\ registered = {} /\ asked = {}
  /\ changes = 0 /\ faults = 0 /\ refreshes = [c \in Codes |-> 0]

----------------------------------------------------------------------------
(* The policy.                                                             *)

Wanted(r) == {c \in Codes : r[c] # {}}
Held(r) == {c \in Codes : "hold" \in r[c]}

(* Rank first, then the code.                                              *)
Before(h, c, d) == \/ c \in h /\ d \notin h
                   \/ (c \in h <=> d \in h) /\ c < d

Better(r, c) == {d \in Wanted(r) : Before(Held(r), d, c)}

(* The first of the ranking, as many as there are slots.                   *)
Desired(r) == {c \in Wanted(r) : Cardinality(Better(r, c)) < slots}

(* Nothing is under way.                                                   *)
Still == /\ \A p \in Procs : job[p].pc \in {"idle", "restore"}
         /\ wire = <<>> /\ replies = <<>> /\ resend = {}

Quiet == Still /\ alive /\ line

Alone == mode = "busy" \/ Still

May(p) == job[p].pc = "idle" /\ Alone

(* A change without a rebalance.                                           *)
MaySkip(p) == May(p) /\ (mode # "calm" \/ job[Watchdog].pc # "restore")

(* What is left of a job: the coroutine returns when nothing is.           *)
Rest(j) == IF j.drop = {} /\ j.take = {} THEN Idle ELSE j

(* Mutant of Plan: the codes come in their own order, without their rank.  *)
PlanByCode(p, r) ==
  LET best == {c \in Wanted(r) : Cardinality({d \in Wanted(r) : d < c}) < slots}
  IN /\ job' = [job EXCEPT ![p] = Rest([Idle EXCEPT
                  !.pc   = "run",
                  !.drop = (active \cup ledger) \ best,
                  !.take = best \ active])]
     /\ late' = {}

(* The plan of _rebalance, from the books of this moment.                  *)
Plan(p, r) ==
  /\ job' = [job EXCEPT ![p] = Rest([Idle EXCEPT
               !.pc   = "run",
               !.drop = (active \cup ledger) \ Desired(r),
               !.take = Desired(r) \ active,
               !.held = Held(r)])]
  /\ late' = {}

(* add_subscription: a holding.                                            *)
AddSubscription(p, c) ==
  /\ May(p) /\ changes < MaxChanges /\ "hold" \notin refs[c]
  /\ refs' = [refs EXCEPT ![c] = @ \cup {"hold"}]
  /\ changes' = changes + 1
  /\ Plan(p, refs')
  /\ UNCHANGED <<given, active, noted, listed, client, broker, asked, faults, refreshes>>

(* remove_subscription of one holding, remove_category of all.             *)
RemoveSubscription(p, S) ==
  /\ May(p) /\ changes < MaxChanges
  /\ S # {} /\ \A c \in S : "hold" \in refs[c]
  /\ refs' = [c \in Codes |-> IF c \in S THEN refs[c] \ {"hold"} ELSE refs[c]]
  /\ noted' = noted \ {c \in S : refs'[c] = {}}
  /\ changes' = changes + 1
  /\ Plan(p, refs')
  /\ UNCHANGED <<given, active, listed, client, broker, asked, faults, refreshes>>

(* sync_subscriptions: a list is replaced.                                 *)
SyncSubscriptions(p, k, S) ==
  LET old == {c \in Codes : k \in refs[c]} IN
  /\ May(p) /\ changes < MaxChanges /\ S # old
  /\ refs' = [c \in Codes |-> (refs[c] \ {k}) \cup (IF c \in S THEN {k} ELSE {})]
  /\ noted' = (noted \ {c \in old \ S : refs'[c] = {}}) \cup (S \ old)
  /\ changes' = changes + 1
  /\ Plan(p, refs')
  /\ UNCHANGED <<given, active, listed, client, broker, asked, faults, refreshes>>

(* _initialize_price_subscriptions of the start: the holdings and the lists*)
(* are entered without a rebalance.                                        *)
Register(p, k, S) ==
  /\ MaySkip(p) /\ changes < MaxChanges
  /\ S # {} /\ \A c \in Codes : k \notin refs[c]
  /\ refs' = [c \in Codes |-> IF c \in S THEN refs[c] \cup {k} ELSE refs[c]]
  /\ noted' = IF k \in Lists THEN noted \cup S ELSE noted
  /\ late' = late \cup S /\ changes' = changes + 1
  /\ UNCHANGED <<given, active, listed, job, client, broker, asked, faults, refreshes>>

----------------------------------------------------------------------------
(* The client's requests.  Without a connection send_realtime_request      *)
(* answers False; an unsubscription leaves the ledger when it is sent.     *)

Send(kind, c, by) ==
  /\ wire' = Append(wire, [kind |-> kind, code |-> c])
  /\ pending' = [pending EXCEPT ![c] = [kind |-> kind, by |-> by]]
  /\ ledger' = IF kind = "unsub" THEN ledger \ {c} ELSE ledger
  /\ asked' = IF kind = "sub" THEN asked \cup {c} ELSE asked

NotSent == UNCHANGED <<wire, pending, ledger, asked>>

(* unsubscribe_unified_price: the time of the request goes when it is sent.*)
SendUnsub(c) ==
  IF line THEN Send("unsub", c, Nobody) /\ requested' = requested \ {c}
  ELSE NotSent /\ UNCHANGED requested

(* _do_unsubscribe: the policy forgets the code whether it was sent or not.*)
Unsubscribe(p) ==
  \E c \in job[p].drop :
    LET left == [job[p] EXCEPT !.drop = @ \ {c}] IN
    /\ job[p].pc = "run" /\ \A d \in job[p].drop : c <= d
    /\ SendUnsub(c)
    /\ active' = active \ {c} /\ listed' = listed \ {c}
    /\ job' = [job EXCEPT ![p] = Rest(left)]
    /\ UNCHANGED <<given, refs, noted, late, alive, line, resend, replies, registered, changes, faults, refreshes>>

(* drop_unhealthy_price_subscription: a code was looked up and its price   *)
(* was old.  Only a favorite stays wanted, and only then is rebalanced.    *)
DropUnhealthy(p, c) ==
  LET kept == refs[c] \cap {"favorite"} IN
  /\ MaySkip(p) /\ changes < MaxChanges /\ (refs[c] # {} \/ c \in active)
  /\ mode # "calm" \/ kept = {}
  /\ refs' = [refs EXCEPT ![c] = kept]
  /\ noted' = IF kept = {} THEN noted \ {c} ELSE noted
  /\ IF c \in active THEN SendUnsub(c) ELSE NotSent /\ UNCHANGED requested
  /\ active' = active \ {c} /\ listed' = listed \ {c}
  /\ late' = late \cup {c} /\ changes' = changes + 1
  /\ job' = IF kept = {} THEN job ELSE [job EXCEPT ![p].pc = "replan"]
  /\ UNCHANGED <<given, alive, line, resend, replies, registered, faults, refreshes>>

(* Who has an answer goes on before a connection or a pause is over.       *)
Woken == \A p \in Procs : job[p].ack = "open"

(* connect_websocket: a receive task that lives is enough, connected or    *)
(* not; otherwise a new connection, which has no registrations.            *)
Connects ==
  \/ alive /\ UNCHANGED <<alive, line, asked>>
  \/ ~alive /\ Woken /\ alive' = TRUE /\ line' = TRUE /\ asked' = {}

(* _ensure_websocket_connected_for_subscribe: no connection, no plan.      *)
Link(p) ==
  /\ job[p].pc = "run" /\ job[p].drop = {}
  /\ \/ Connects /\ job' = [job EXCEPT ![p].pc = "ask"] /\ UNCHANGED faults
     \/ /\ ~alive /\ faults < MaxFaults /\ faults' = faults + 1
        /\ job' = [job EXCEPT ![p] = Idle] /\ UNCHANGED <<alive, line, asked>>
  /\ UNCHANGED <<given, policy, ledger, pending, requested, resend, broker, changes, refreshes>>

(* _do_subscribe, as far as the wait for the answer: the best first.       *)
Subscribe(p) ==
  \E c \in job[p].take :
    LET left == [job[p] EXCEPT !.take = @ \ {c}] IN
    /\ job[p].pc = "ask"
    /\ \A d \in job[p].take \ {c} : Before(job[p].held, c, d)
    /\ IF line
       THEN /\ Send("sub", c, p)
            /\ job' = [job EXCEPT ![p] = [left EXCEPT !.pc = "ack", !.code = c, !.ack = "open"]]
       ELSE NotSent /\ job' = [job EXCEPT ![p] = Rest(left)]
    /\ requested' = requested \cup {c}
    /\ UNCHANGED <<given, policy, alive, line, resend, replies, registered, changes, faults, refreshes>>

Over(p) ==
  LET left == [job[p] EXCEPT !.pc = "ask", !.code = 0, !.ack = "open"]
  IN [job EXCEPT ![p] = Rest(left)]

(* The answer is yes: only now is the code active.                         *)
Confirmed(p) ==
  /\ job[p].pc = "ack" /\ job[p].ack = "yes"
  /\ active' = active \cup {job[p].code} /\ listed' = listed \cup {job[p].code}
  /\ job' = Over(p)
  /\ UNCHANGED <<given, refs, noted, late, client, broker, asked, changes, faults, refreshes>>

(* An answer to the wait of p cannot come any more.                        *)
Lost(p) == pending[job[p].code].by # p \/ job[p].code \notin asked

(* Mutant of Unconfirmed: the repository lists it without an answer.       *)
UnconfirmedIsListed(p) ==
  /\ job[p].pc \in {"ack", "await"}
  /\ \/ job[p].ack = "no" /\ UNCHANGED faults
     \/ job[p].ack = "open" /\ Lost(p) /\ UNCHANGED faults
     \/ job[p].ack = "open" /\ ~Lost(p) /\ faults < MaxFaults /\ faults' = faults + 1
  /\ job' = IF job[p].pc = "ack" THEN Over(p) ELSE [job EXCEPT ![p] = Idle]
  /\ listed' = listed \cup {job[p].code}
  /\ UNCHANGED <<given, refs, active, noted, late, client, broker, asked, changes, refreshes>>

(* No, or no answer in two seconds.                                        *)
Unconfirmed(p) ==
  /\ job[p].pc \in {"ack", "await"}
  /\ \/ job[p].ack = "no" /\ UNCHANGED faults
     \/ job[p].ack = "open" /\ Lost(p) /\ UNCHANGED faults
     \/ job[p].ack = "open" /\ ~Lost(p) /\ faults < MaxFaults /\ faults' = faults + 1
  /\ job' = IF job[p].pc = "ack" THEN Over(p) ELSE [job EXCEPT ![p] = Idle]
  /\ UNCHANGED <<given, policy, client, broker, asked, changes, refreshes>>

----------------------------------------------------------------------------
(* The receive task.                                                       *)

Verdict(said) == IF said \in {"no", "used"} THEN "no" ELSE "yes"

(* Mutant of Receive: a refusal leaves the ledger alone.                   *)
ReceiveKeeps ==
  LET c == Head(replies).code
      said == Head(replies).said
      was == pending[c]
  IN
  /\ alive /\ line /\ resend = {} /\ replies # <<>>
  /\ replies' = Tail(replies)
  /\ pending' = [pending EXCEPT ![c] = None]
  /\ ledger' = IF said = "already" \/ (said = "ok" /\ was.kind = "sub") THEN ledger \cup {c}
               ELSE ledger
  /\ job' = IF /\ was.kind = "sub" /\ was.by \in Procs
               /\ job[was.by].pc \in {"ack", "await"} /\ job[was.by].code = c
               /\ job[was.by].ack = "open"
            THEN [job EXCEPT ![was.by].ack = Verdict(said)] ELSE job
  /\ UNCHANGED <<given, policy, alive, line, requested, resend, wire, registered, asked, changes, faults, refreshes>>

(* A control message.  The request is found by the code alone: whatever    *)
(* was sent last for it is taken for what is answered.  An unknown answer  *)
(* of success says nothing (the broker's header has no tr_type).           *)
Receive ==
  LET c == Head(replies).code
      said == Head(replies).said
      was == pending[c]
  IN
  /\ alive /\ line /\ resend = {} /\ replies # <<>>
  /\ replies' = Tail(replies)
  /\ pending' = [pending EXCEPT ![c] = None]
  /\ ledger' = IF said = "already" \/ (said = "ok" /\ was.kind = "sub") THEN ledger \cup {c}
               ELSE IF said = "no" /\ was.kind = "sub" THEN ledger \ {c} ELSE ledger
  /\ job' = IF /\ was.kind = "sub" /\ was.by \in Procs
               /\ job[was.by].pc \in {"ack", "await"} /\ job[was.by].code = c
               /\ job[was.by].ack = "open"
            THEN [job EXCEPT ![was.by].ack = Verdict(said)] ELSE job
  /\ UNCHANGED <<given, policy, alive, line, requested, resend, wire, registered, asked, changes, faults, refreshes>>

Broken == wire' = <<>> /\ replies' = <<>> /\ registered' = {} /\ line' = FALSE /\ resend' = {}

(* The connection breaks, or has been silent for a minute; before the      *)
(* restore of the start only when busy.                                    *)
Drop ==
  /\ line /\ (mode = "busy" \/ job[Watchdog].pc # "restore")
  /\ faults < MaxFaults /\ faults' = faults + 1
  /\ Broken
  /\ UNCHANGED <<given, policy, job, alive, ledger, pending, requested, asked, changes, refreshes>>

(* Mutant of Reconnect: the ledger starts anew and nothing is asked for.   *)
ReconnectOnly ==
  /\ alive /\ ~line /\ Woken
  /\ line' = TRUE /\ asked' = {} /\ ledger' = {}
  /\ UNCHANGED <<given, policy, job, alive, pending, requested, resend, broker, changes, faults, refreshes>>

(* The receive task connects again and asks for all that is in the ledger; *)
(* it reads no answers meanwhile.                                          *)
Reconnect ==
  /\ alive /\ ~line /\ Woken
  /\ line' = TRUE /\ resend' = ledger /\ asked' = {}
  /\ UNCHANGED <<given, policy, job, alive, ledger, pending, requested, broker, changes, faults, refreshes>>

Resubscribe(c) ==
  /\ c \in resend /\ resend' = resend \ {c}
  /\ Send("sub", c, Nobody)
  /\ UNCHANGED <<given, policy, job, alive, line, requested, replies, registered, changes, faults, refreshes>>

(* Thirty attempts failed, or the market closed: the receive task ends.    *)
GivesUp ==
  /\ mode # "calm" /\ alive /\ ~line /\ Woken
  /\ alive' = FALSE
  /\ UNCHANGED <<given, policy, job, line, ledger, pending, requested, resend, broker, asked, changes, faults, refreshes>>

----------------------------------------------------------------------------
(* The broker.                                                             *)

Answer ==
  LET f == Head(wire)
      known == f.code \in registered
      taken == f.kind = "sub" /\ ~known /\ Cardinality(registered) < slots
  IN
  /\ wire # <<>> /\ wire' = Tail(wire)
  /\ registered' = IF taken THEN registered \cup {f.code}
                   ELSE IF f.kind = "unsub" THEN registered \ {f.code} ELSE registered
  /\ replies' = Append(replies, [code |-> f.code,
                   said |-> IF f.kind = "sub" /\ known THEN "already"
                            ELSE IF taken \/ known THEN "ok" ELSE "no"])
  /\ UNCHANGED <<given, policy, job, client, asked, changes, faults, refreshes>>

(* ALREADY IN USE: the broker takes no request from this session.          *)
AnswerInUse ==
  /\ mode # "calm" /\ wire # <<>> /\ wire' = Tail(wire)
  /\ faults < MaxFaults /\ faults' = faults + 1
  /\ replies' = Append(replies, [code |-> Head(wire).code, said |-> "used"])
  /\ UNCHANGED <<given, policy, job, client, registered, asked, changes, refreshes>>

----------------------------------------------------------------------------
(* The watchdog.                                                           *)

Goes(pc) == job' = [job EXCEPT ![Watchdog] = [Idle EXCEPT !.pc = pc]]

(* _restore_all_subscriptions of the start: the books are cleared ...      *)
Restore ==
  /\ job[Watchdog].pc = "restore" /\ Alone
  /\ active' = {} /\ listed' = {} /\ Goes("cut")
  /\ UNCHANGED <<given, refs, noted, late, client, broker, asked, changes, faults, refreshes>>

(* ... and what was connected so far is disconnected.                      *)
Cut ==
  /\ job[Watchdog].pc = "cut" /\ Woken
  /\ Broken /\ alive' = FALSE /\ Goes("link")
  /\ UNCHANGED <<given, policy, ledger, pending, requested, asked, changes, faults, refreshes>>

(* force_reconnect, while any code is noted: the receive task is dead, or  *)
(* no data has come for long.                                              *)
ForceReconnect ==
  /\ May(Watchdog) /\ noted # {} /\ Wanted(refs) # {}
  /\ \/ ~alive /\ UNCHANGED faults
     \/ alive /\ mode # "calm" /\ faults < MaxFaults /\ faults' = faults + 1
  /\ Broken /\ Goes("reset") /\ alive' = FALSE
  /\ UNCHANGED <<given, policy, ledger, pending, requested, asked, changes, refreshes>>

(* It clears the repository's book and not the policy's.                   *)
Reset ==
  /\ job[Watchdog].pc = "reset"
  /\ listed' = {} /\ Goes("link")
  /\ UNCHANGED <<given, refs, active, noted, late, client, broker, asked, changes, faults, refreshes>>

(* A connection if there is anything to subscribe, then a rebalance,       *)
(* connected or not.                                                       *)
Relink ==
  /\ job[Watchdog].pc = "link"
  /\ \/ Wanted(refs) # {} /\ Connects /\ Goes("replan") /\ UNCHANGED faults
     \/ /\ Wanted(refs) # {} /\ mode # "calm" /\ ~alive
        /\ faults < MaxFaults /\ faults' = faults + 1
        /\ Goes("replan") /\ UNCHANGED <<alive, line, asked>>
     \/ Wanted(refs) = {} /\ Goes("idle") /\ UNCHANGED <<alive, line, asked, faults>>
  /\ UNCHANGED <<given, policy, ledger, pending, requested, resend, broker, changes, refreshes>>

(* _rebalance, of a restore or of a favorite that was dropped.             *)
Replan(p) ==
  /\ job[p].pc = "replan"
  /\ Plan(p, refs)
  /\ UNCHANGED <<given, refs, active, noted, listed, client, broker, asked, changes, faults, refreshes>>

(* A minute's look: a code noted as wanted is not listed as active, and was*)
(* asked for a while ago.  One that never was has no age.                  *)
Repair ==
  /\ May(Watchdog) /\ (noted \ listed) \cap requested # {}
  /\ Plan(Watchdog, refs)
  /\ UNCHANGED <<given, refs, active, noted, listed, client, broker, asked, changes, faults, refreshes>>

(* A code that has had no tick is unsubscribed and subscribed again.       *)
Refresh(c) ==
  /\ May(Watchdog) /\ mode # "calm" /\ alive /\ c \in listed /\ refreshes[c] < MaxRefresh
  /\ SendUnsub(c)
  /\ refreshes' = [refreshes EXCEPT ![c] = @ + 1]
  /\ job' = [job EXCEPT ![Watchdog] = [Idle EXCEPT !.pc = "again", !.code = c]]
  /\ UNCHANGED <<given, policy, alive, line, resend, replies, registered, changes, faults>>

Again ==
  /\ job[Watchdog].pc = "again"
  /\ IF line
     THEN Send("sub", job[Watchdog].code, Watchdog) /\ job' = [job EXCEPT ![Watchdog].pc = "await"]
     ELSE NotSent /\ Goes("idle")
  /\ requested' = requested \cup {job[Watchdog].code}
  /\ UNCHANGED <<given, policy, alive, line, resend, replies, registered, changes, faults, refreshes>>

Refreshed ==
  /\ job[Watchdog].pc = "await" /\ job[Watchdog].ack = "yes" /\ Goes("idle")
  /\ UNCHANGED <<given, policy, client, broker, asked, changes, faults, refreshes>>

----------------------------------------------------------------------------
Next ==
  \/ \E p \in Callers, c \in Codes : AddSubscription(p, c)
  \/ \E p \in Callers, S \in SUBSET Codes : RemoveSubscription(p, S)
  \/ \E p \in Callers, k \in Lists, S \in SUBSET Codes : SyncSubscriptions(p, k, S)
  \/ \E p \in Callers, k \in Kinds, S \in SUBSET Codes : Register(p, k, S)
  \/ \E p \in Callers, c \in Codes : DropUnhealthy(p, c)
  \/ \E p \in Procs : Unsubscribe(p)
  \/ \E p \in Procs : Link(p)
  \/ \E p \in Procs : Subscribe(p)
  \/ \E p \in Procs : Confirmed(p)
  \/ \E p \in Procs : Unconfirmed(p)
  \/ Receive \/ Drop \/ Reconnect \/ GivesUp \/ Answer \/ AnswerInUse
  \/ \E c \in Codes : Resubscribe(c)
  \/ Restore \/ Cut \/ ForceReconnect \/ Reset \/ Relink \/ Repair
  \/ \E p \in Procs : Replan(p)
  \/ \E c \in Codes : Refresh(c)
  \/ Again \/ Refreshed

(* Where nobody starts while another is at work, the books are right after *)
(* everything a line can do:                                               *)
(* the client's ledger says nothing the broker has not registered,         *)
LedgerIsReal == mode = "calm" /\ Quiet => ledger \subseteq registered

(* with slots for all so is what the policy takes for active,              *)
ActiveIsReal ==
  mode = "calm" /\ slots >= Cardinality(Codes) /\ Quiet => active \subseteq registered

(* and without a fault nothing is registered that is not wanted, and after *)
(* a rebalance exactly the best codes are.                                 *)
BestAreRegistered ==
  mode # "busy" /\ faults = 0 /\ Quiet =>
     registered \subseteq Wanted(refs) /\ (late = {} => registered = Desired(refs))

(* With slots for all, a watched code is registered in the end, whatever   *)
(* was lost or answered late on the way, unless it came without a rebalance*)
(* and none came since.                                                    *)
WatchedAreServed ==
  mode = "calm" /\ slots = Cardinality(Codes) => <>[](noted \ late \subseteq registered)

(* clear_active_state, "the broker's connection was reset": after a        *)
(* reconnection all the policy takes for active was asked for again.       *)
AskedAgain == Quiet => active \subseteq asked

Fairness ==
  /\ \A p \in Procs :
        WF_vars(Unsubscribe(p) \/ Link(p) \/ Subscribe(p) \/ Confirmed(p) \/ Unconfirmed(p) \/ Replan(p))
  /\ WF_vars(Receive) /\ WF_vars(Answer)
  /\ WF_vars(Reconnect) /\ WF_vars(\E c \in Codes : Resubscribe(c))
  /\ WF_vars(Restore \/ Cut \/ Reset \/ Relink \/ Again \/ Refreshed)
  /\ WF_vars(~alive /\ ForceReconnect) /\ WF_vars(Repair)

Spec == Init /\ [][Next]_vars /\ Fairness
=============================================================================
