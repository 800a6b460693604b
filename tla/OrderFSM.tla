------------------------------ MODULE OrderFSM ------------------------------
(***************************************************************************)
(* The life cycle of an order as common/types.py defines it: the states of *)
(* OrderState, the transition table of OrderContext.can_transition_to, and *)
(* the grouping of order keys by symbol of OrderStateMachine.  Every module *)
(* about orders builds on these operators.                                 *)
(***************************************************************************)
Sides == {"BUY", "SELL"}

OrderState == {"PENDING_SUBMIT", "SUBMITTED", "PARTIAL_FILLED",
               "FILLED", "CANCELED", "REJECTED"}

Terminal == {"FILLED", "CANCELED", "REJECTED"}

\* The key of _order_states that no order was ever registered under.
Absent == "ABSENT"

Allowed == [st \in OrderState |->
    CASE st = "PENDING_SUBMIT" -> {"SUBMITTED", "CANCELED", "REJECTED"}
      [] st = "SUBMITTED"      -> {"PARTIAL_FILLED", "FILLED", "CANCELED", "REJECTED"}
      [] st = "PARTIAL_FILLED" -> {"FILLED", "CANCELED"}
      [] OTHER                 -> {}]

CanTransition(from, to) == to = from \/ to \in Allowed[from]

\* What one uninterrupted run of the event loop may do to an order: at most two
\* transitions (a paper order is submitted and filled without an await between).
MayReach(from, to) ==
    \E mid \in OrderState : CanTransition(from, mid) /\ CanTransition(mid, to)

IsLive(st) == st \in OrderState \ Terminal
=============================================================================
