------------------------------ MODULE MCTotals ------------------------------
(* Stored totals: those of a solution and of a quotation.  Each behaviour  *)
(* is about one of them: `part' names it, the other rests.                 *)
EXTENDS SolutionTotals, QuotationEdit

(* What the proofs about QuotationEdit assume of the constants.            *)
ASSUME EditAssumed == EditAssumption

VARIABLE part

TotalsInit ==
    /\ part \in {"solution", "quotation"}
    /\ Init /\ EditInit
    /\ part # "quotation" =>
         may /\ lines = CHOOSE l \in [1 .. 2 -> Line] :
                          l[1].sku # l[2].sku /\ l[1].cost # l[2].cost
                          /\ \A i \in 1 .. 2 : l[i].amount = Min(Worth) /\ l[i].pos = 0

OnlySolution == part = "solution" /\ Next /\ UNCHANGED <<part, editVars>>
OnlyQuotation == part = "quotation" /\ EditNext /\ UNCHANGED <<part, vars>>

totalsVars == <<part, vars, editVars>>
TotalsNext == OnlySolution \/ OnlyQuotation
TotalsSpec == TotalsInit /\ [][TotalsNext]_totalsVars

(* Both keep the types of their state.                                     *)
TypesOK == TypeOK /\ EditTypeOK
=============================================================================
