------------------------- MODULE QuotationContract -------------------------
(***************************************************************************)
(* What creating quotations from a solution promises, seen from the        *)
(* committed database alone.                                               *)
(*                                                                         *)
(* A request either issues its quotation, together with everything it adds *)
(* to the solution and under a number no other live quotation has, or      *)
(* leaves no trace.  Afterwards a quotation can only be withdrawn, and the *)
(* products a request added can only be removed again.                     *)
(***************************************************************************)
EXTENDS Naturals

CONSTANTS Request, Product, None

VARIABLES
    issued,     \* requests that were answered 201
    number,     \* the number of each live quotation
    merged      \* the products a request added that are still in the solution

Init ==
    /\ issued = {}
    /\ number = [r \in Request |-> None]
    /\ merged = [r \in Request |-> {}]

Issue(r) ==
    /\ r \notin issued
    /\ issued' = issued \cup {r}
    /\ number'[r] \in Nat \ {number[q] : q \in Request}
    /\ number' = [number EXCEPT ![r] = number'[r]]
    /\ merged'[r] \subseteq Product
    /\ merged' = [merged EXCEPT ![r] = merged'[r]]

Withdraw(r) ==
    /\ number' = [number EXCEPT ![r] = None]
    /\ UNCHANGED <<issued, merged>>

Remove ==
    /\ \A r \in Request : merged'[r] \subseteq merged[r]
    /\ DOMAIN merged' = Request
    /\ UNCHANGED <<issued, number>>

Next == \/ \E r \in Request : Issue(r) \/ Withdraw(r)
        \/ Remove

Spec == Init /\ [][Next]_<<issued, number, merged>>
=============================================================================
