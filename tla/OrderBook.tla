----------------------------- MODULE OrderBook ------------------------------
(***************************************************************************)
(* What order submission promises the rest of the program: the book holds, *)
(* per symbol, at most one order that is still alive, on either side; an   *)
(* order is admitted only when its symbol has none, moves only along the   *)
(* life cycle, and leaves it never.  OrderSubmission implements it.        *)
(***************************************************************************)
EXTENDS OrderFSM

CONSTANT Symbols

VARIABLE book

Keys == Symbols \X Sides

BookTypeOK == book \in [Keys -> OrderState \cup {Absent}]

Init == book = [k \in Keys |-> Absent]

SymbolFree(s) == \A d \in Sides : ~IsLive(book[<<s, d>>])

Admit(k) ==
    /\ SymbolFree(k[1])
    /\ book' = [book EXCEPT ![k] = "PENDING_SUBMIT"]

Advance(k, st) ==
    /\ IsLive(book[k])
    /\ MayReach(book[k], st)
    /\ book' = [book EXCEPT ![k] = st]

Next == \E k \in Keys : Admit(k) \/ \E st \in OrderState : Advance(k, st)

Spec == Init /\ [][Next]_book
=============================================================================
