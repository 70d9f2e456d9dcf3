--------------------------- MODULE SolutionTotals ---------------------------
(***************************************************************************)
(* The stored totals of a solution: routers/solutions.py, whose item       *)
(* handlers commit the item first and the recalculated totals in a second  *)
(* transaction, next to the two writers of solution_items that do not      *)
(* recalculate them: saving the BOM snapshot (routers/bom_templates.py)    *)
(* and creating a quotation with extra items (quotation_service.py).       *)
(*                                                                         *)
(* Handlers run in threads with sessions of their own, so their statements *)
(* interleave; what a session has not committed nobody sees.  An item is   *)
(* its amount (quantity * unit_price * discount); total stands for         *)
(* total_price, total_cost being written by the same statement.            *)
(***************************************************************************)
EXTENDS Integers, FiniteSetsExt

CONSTANTS
    Request,    \* item operations, one each
    Amount,     \* the amounts an item may have
    MaxItem,    \* bound: nothing is added past this row id
    None

ASSUME TotalsAssumption ==
    /\ Amount \subseteq Nat
    /\ MaxItem \in Nat
    /\ None \notin Nat

VARIABLES
    alive,      \* the solution exists
    items,      \* solution_items: row id to amount
    total,      \* solutions.total_price
    req,        \* the requests: their progress and local variables
    sums        \* history: what the items added up to so far

vars == <<alive, items, total, req, sums>>

Kinds  == {"add", "update", "delete"}
Active == {"checked", "changed", "refreshed", "summed"}

ItemSum(f) == MapThenSumSet(LAMBDA i : f[i], DOMAIN f)

TypeOK ==
    /\ alive \in BOOLEAN
    /\ DOMAIN items \subseteq 1 .. MaxItem
    /\ \A i \in DOMAIN items : items[i] \in Amount
    /\ total \in Nat
    /\ DOMAIN req = Request
    /\ \A r \in Request :
        /\ req[r].at \in Active \cup {"idle", "done", "failed"}
        /\ req[r].kind \in Kinds \cup {None}
        /\ req[r].item \in 1 .. MaxItem \cup {None}
        /\ req[r].amount \in Amount \cup {None}
        /\ req[r].base \in Nat
        /\ req[r].sum \in Nat
        /\ req[r].alone \in BOOLEAN
    /\ sums \subseteq Nat

-----------------------------------------------------------------------------

Idle == [at |-> "idle", kind |-> None, item |-> None, amount |-> None,
         base |-> 0, sum |-> 0, alone |-> FALSE]

Init ==
    /\ alive = TRUE
    /\ items = [i \in {} |-> 0]
    /\ total = 0
    /\ req = [r \in Request |-> Idle]
    /\ sums = {0}

Running == {r \in Request : req[r].at \in Active}

(* Whatever else happens while a request runs, it no longer runs alone.    *)
Disturbed == [r \in Request |-> [req[r] EXCEPT !.alone = FALSE]]

(* Mutation: row ids are counted from 0.                                   *)
CountedId == Cardinality(DOMAIN items)

NextId == IF DOMAIN items = {} THEN 1 ELSE Max(DOMAIN items) + 1

With(i, a) == [j \in DOMAIN items \cup {i} |-> IF j = i THEN a ELSE items[j]]

Without(i) == [j \in DOMAIN items \ {i} |-> items[j]]

(* items' is set: note what it adds up to.                                 *)
Note == sums' = sums \cup {ItemSum(items')}

-----------------------------------------------------------------------------
(* POST, PUT and DELETE of /solutions/{id}/items                           *)

(* The checks at the top of the handlers.                                  *)
Check(r, kind, i, a) ==
    /\ req[r].at = "idle"
    /\ alive                                            \* else 404
    /\ kind # "add" => i \in DOMAIN items               \* else 404
    /\ req' = [Disturbed EXCEPT ![r] =
                 [Idle EXCEPT !.at = "checked", !.kind = kind, !.item = i,
                              !.amount = a, !.alone = (Running = {})]]
    /\ UNCHANGED <<alive, items, total, sums>>

CheckAny(r) ==
    \/ \E a \in Amount : Check(r, "add", None, a)
    \/ \E i \in DOMAIN items : \/ \E a \in Amount : Check(r, "update", i, a)
                               \/ Check(r, "delete", i, None)

Finish(r, how) ==
    req' = [req EXCEPT ![r] = [Idle EXCEPT !.at = how, !.alone = req[r].alone]]

Fail(r) == Finish(r, "failed") /\ UNCHANGED <<alive, items, total, sums>>

(* What the first commit does, and whether it fails: the solution or the   *)
(* updated row is gone.  Deleting a row that is gone only warns.           *)
Refused(r) ==
    \/ req[r].kind = "add" /\ ~alive
    \/ req[r].kind = "update" /\ req[r].item \notin DOMAIN items

ItemsAfter(r) ==
    CASE req[r].kind = "add"    -> With(NextId, req[r].amount)
      [] req[r].kind = "update" -> With(req[r].item, req[r].amount)
      [] req[r].kind = "delete" -> Without(req[r].item)

(* Mutation: the handler ends with the first commit.                       *)
ChangeOnly(r) ==
    /\ req[r].at = "checked" /\ ~Refused(r)
    /\ req[r].kind = "add" => NextId <= MaxItem
    /\ items' = ItemsAfter(r) /\ Note
    /\ Finish(r, "done")
    /\ UNCHANGED <<alive, total>>

(* The first commit.                                                       *)
Change(r) ==
    /\ req[r].at = "checked"
    /\ req[r].kind = "add" => NextId <= MaxItem
    /\ IF Refused(r) THEN Fail(r)
       ELSE /\ items' = ItemsAfter(r) /\ Note
            /\ req' = [req EXCEPT ![r] = [@ EXCEPT !.at = "changed"]]
            /\ UNCHANGED <<alive, total>>

(* The commit expired the solution: _recalc_totals reloads it first.       *)
Refresh(r) ==
    /\ req[r].at = "changed"
    /\ IF ~alive THEN Fail(r)
       ELSE /\ req' = [req EXCEPT ![r] = [@ EXCEPT !.at = "refreshed", !.base = total]]
            /\ UNCHANGED <<alive, items, total, sums>>

(* Mutation: the total is adjusted by the amount instead of recomputed.    *)
AddUpDelta(r) ==
    /\ req[r].at = "refreshed"
    /\ req' = [req EXCEPT ![r] = [@ EXCEPT !.at = "summed",
                    !.sum = req[r].base + (IF req[r].kind = "add" THEN req[r].amount ELSE 0)]]
    /\ UNCHANGED <<alive, items, total, sums>>

(* One SELECT of the items.                                                *)
AddUp(r) ==
    /\ req[r].at = "refreshed"
    /\ req' = [req EXCEPT ![r] = [@ EXCEPT !.at = "summed", !.sum = ItemSum(items)]]
    /\ UNCHANGED <<alive, items, total, sums>>

(* The second commit writes a literal value; no UPDATE is sent when the    *)
(* sum equals (as Decimal and float compare) what Refresh had read.        *)
Store(r) ==
    /\ req[r].at = "summed"
    /\ \/ /\ req[r].sum = req[r].base
          /\ Finish(r, "done")
          /\ UNCHANGED <<alive, items, total, sums>>
       \/ /\ alive
          /\ total' = req[r].sum
          /\ Finish(r, "done")
          /\ UNCHANGED <<alive, items, sums>>
       \/ /\ ~alive                         \* the UPDATE matches no row
          /\ Fail(r)

-----------------------------------------------------------------------------
(* Writers that leave the totals alone, and failures                       *)

(* _sync_snapshot_to_items: items take the amounts of the saved BOM.       *)
SyncSnapshot ==
    /\ alive
    /\ items' \in [DOMAIN items -> Amount] /\ Note
    /\ req' = Disturbed
    /\ UNCHANGED <<alive, total>>

(* create_quotation_from_solution adds the extra products to the solution.*)
MergeExtra(a) ==
    /\ alive /\ NextId <= MaxItem
    /\ items' = With(NextId, a) /\ Note
    /\ req' = Disturbed
    /\ UNCHANGED <<alive, total>>

DeleteSolution ==
    /\ alive
    /\ alive' = FALSE
    /\ items' = [i \in {} |-> 0]
    /\ total' = 0
    /\ req' = Disturbed
    /\ UNCHANGED sums

(* The process dies: a request between its commits never stores a total.   *)
Restart ==
    /\ req' = [r \in Request |->
                 IF r \in Running THEN [Idle EXCEPT !.at = "failed"] ELSE req[r]]
    /\ UNCHANGED <<alive, items, total, sums>>

Next ==
    \/ \E r \in Request :
        CheckAny(r) \/ Change(r) \/ Refresh(r) \/ AddUp(r) \/ Store(r)
    \/ SyncSnapshot
    \/ \E a \in Amount : MergeExtra(a)
    \/ DeleteSolution
    \/ Restart

Spec == Init /\ [][Next]_vars

-----------------------------------------------------------------------------
(* Properties                                                              *)

(* An item operation that ran alone leaves the total exact, however stale  *)
(* earlier races, crashes, BOM saves or merges had left it: totals are     *)
(* recomputed from what is committed, the operation's own change included. *)
LoneOperationSettlesTotal ==
    [][\A r \in Request :
          r \in Running /\ req[r].alone /\ req'[r].at = "done" => total' = ItemSum(items')]_vars

(* Even under races the stored total is a number the items did add up to   *)
(* at some moment, never a mixture of two requests' arithmetic.            *)
TotalWasTrueOnce == total \in sums

(* What the export relies on (test_api.py, the subtotal test): the amount  *)
(* in words comes from the stored total and must not contradict the sum of *)
(* the lines.  Here: when no item operation is running.                    *)
TotalMatchesLines == Running = {} => total = ItemSum(items)
=============================================================================
