----------------------------- MODULE Quotation -----------------------------
(***************************************************************************)
(* Creating quotations from a solution: POST /quotations of                *)
(* routers/quotations.py with services/quotation_service.py under it, next *)
(* to the operations that change what it reads.                            *)
(*                                                                         *)
(* Handlers run in threads, each with a session of its own on one SQLite   *)
(* database.  A SELECT outside a transaction reads what is committed at    *)
(* that moment; the first INSERT of a session takes the single write lock, *)
(* which it keeps until commit or rollback.  A step of this module is one  *)
(* statement, or the statements of one session between which the lock      *)
(* keeps everybody else from changing anything.                            *)
(*                                                                         *)
(* Kept: one solution and its items (a product and a row id each), the     *)
(* quotations that requests create (a request creates one at most), the    *)
(* numbers of one day.  Left out: quantities, prices and texts, and edits  *)
(* of a quotation's own lines.                                             *)
(***************************************************************************)
EXTENDS Naturals, FiniteSets, Functions

CONSTANTS
    Product,
    Request,    \* POST /quotations requests
    MaxRow,     \* bound: POST /solutions/{id}/items stops at this row id
    None

Statuses == {201, 404, 409, 500}
Reasons  == {"number", "reference", "busy"}
Stages   == {"idle", "posted", "resolved", "merged", "numbered", "answered", "lost"}

Line     == [link : Nat \cup {None}, product : Product]
Quote    == [number : Nat \ {0}, attached : BOOLEAN, lines : SUBSET Line]
Progress == [at : Stages, solution : BOOLEAN, extra : SUBSET Product, items : SUBSET Line,
             added : SUBSET Product, number : Nat,
             status : Statuses \cup {None}, why : Reasons \cup {None}]

ASSUME QuotationAssumption ==
    /\ IsFiniteSet(Product)
    /\ MaxRow \in Nat
    /\ None \notin Product /\ None \notin Request /\ None \notin Nat
    /\ None \notin Statuses /\ None \notin Reasons /\ None \notin Quote

VARIABLES
    catalog,    \* products that exist
    alive,      \* the solution exists
    rows,       \* its solution_items by row id
    book,       \* the quotation each request created, while it exists
    req,        \* the requests: their progress and local variables
    lock        \* the request that holds the write lock between two steps

vars == <<catalog, alive, rows, book, req, lock>>

TypeOK ==
    /\ catalog \subseteq Product
    /\ alive \in BOOLEAN
    /\ DOMAIN rows \subseteq Nat
    /\ rows \in [DOMAIN rows -> [product : Product, by : Request \cup {None}]]
    /\ book \in [Request -> Quote \cup {None}]
    /\ req \in [Request -> Progress]
    /\ lock \in Request \cup {None}

-----------------------------------------------------------------------------

Idle ==
    [at |-> "idle", solution |-> FALSE, extra |-> {}, items |-> {}, added |-> {},
     number |-> 0, status |-> None, why |-> None]

Init ==
    /\ catalog = Product
    /\ alive = TRUE
    /\ rows = [i \in {} |-> None]
    /\ book = [r \in Request |-> None]
    /\ req = [r \in Request |-> Idle]
    /\ lock = None

(* SQLite hands out the largest row id in use plus one.                    *)
TopRow == IF DOMAIN rows = {} THEN 0
          ELSE CHOOSE i \in DOMAIN rows : \A j \in DOMAIN rows : j <= i

Live == {q \in Request : book[q] # None}

Numbers == {book[q].number : q \in Live}

TopNumber == IF Numbers = {} THEN 0
             ELSE CHOOSE n \in Numbers : \A m \in Numbers : m <= n

(* Mutation: the largest number itself.                                    *)
LastNumber == TopNumber

(* _next_quote_number, within one day.                                     *)
NextNumber == TopNumber + 1

-----------------------------------------------------------------------------
(* POST /quotations                                                        *)

Step(r, stage) == req' = [req EXCEPT ![r] = [@ EXCEPT !.at = stage]]

(* The request is over; closing its session ends a transaction it still    *)
(* has, which releases the write lock.                                     *)
Release(r) == lock' = IF lock = r THEN None ELSE lock

(* Of an answered request only what it added is remembered.                *)
Answered(r, status, why) ==
    req' = [req EXCEPT ![r] = [Idle EXCEPT !.at = "answered", !.added = req[r].added,
                                           !.status = status, !.why = why]]

(* Mutation: the session of a failed request is never closed.              *)
LeakSession(r, status, why) ==
    /\ Answered(r, status, why)
    /\ UNCHANGED <<catalog, alive, rows, book, lock>>

(* An answer that leaves the database as it was.                           *)
Refuse(r, status, why) ==
    /\ Answered(r, status, why)
    /\ Release(r)
    /\ UNCHANGED <<catalog, alive, rows, book>>

(* solution_id is optional; extra_items is whatever the client sends,      *)
(* usually the new_items of an earlier preview.                            *)
Post(r, withSolution, extra) ==
    /\ req[r].at = "idle"
    /\ IF withSolution /\ ~alive
       THEN Refuse(r, 404, None)
       ELSE /\ req' = [req EXCEPT ![r] = [@ EXCEPT !.at = "posted",
                                                   !.solution = withSolution,
                                                   !.extra = extra]]
            /\ UNCHANGED <<catalog, alive, rows, book, lock>>

(* resolve_items: the solution's rows, then the extra products that exist  *)
(* and are not among them.  Nothing is locked.                             *)
Resolve(r) ==
    LET seen == {rows[i].product : i \in DOMAIN rows}
        new  == IF req[r].solution THEN (req[r].extra \cap catalog) \ seen ELSE {}
        old  == IF req[r].solution
                THEN {[link |-> i, product |-> rows[i].product] : i \in DOMAIN rows}
                ELSE {}
    IN /\ req[r].at = "posted"
       /\ req' = [req EXCEPT ![r] = [@ EXCEPT
                     !.at = "resolved",
                     !.extra = {},
                     !.added = new,
                     !.items = old \cup {[link |-> None, product |-> p] : p \in new}]]
       /\ UNCHANGED <<catalog, alive, rows, book, lock>>

(* The solution's rows once a request's products are among them, each on a *)
(* row id of its own (in the order of extra_items, which is not kept).     *)
FreshRows(r) == TopRow + 1 .. TopRow + Cardinality(req[r].added)

NewRows(r) ==
    {[i \in DOMAIN rows \cup FreshRows(r) |->
        IF i \in FreshRows(r) THEN [product |-> p[i], by |-> r] ELSE rows[i]] :
     p \in Bijection(FreshRows(r), req[r].added)}

MergeReady(r) == req[r].at = "resolved" /\ req[r].added # {}

(* Mutation: the merged items are committed before the quotation exists.   *)
MergeCommitted(r) ==
    /\ MergeReady(r) /\ lock = None
    /\ alive /\ req[r].added \subseteq catalog
    /\ rows' \in NewRows(r)
    /\ Step(r, "merged")
    /\ lock' = r
    /\ UNCHANGED <<catalog, alive, book>>

(* Mutation: without the flush; the session sends the rows at the commit.  *)
MergeUnflushed(r) ==
    /\ MergeReady(r)
    /\ Step(r, "merged")
    /\ UNCHANGED <<catalog, alive, rows, book, lock>>

(* db.add of the missing SolutionItems and flush: the write lock is taken  *)
(* here.  They become visible to others with the commit in Insert.         *)
Merge(r) ==
    /\ MergeReady(r) /\ lock = None
    /\ IF alive /\ req[r].added \subseteq catalog
       THEN /\ Step(r, "merged")
            /\ lock' = r
            /\ UNCHANGED <<catalog, alive, rows, book>>
       ELSE Refuse(r, 500, "reference")

NumberReady(r) == \/ req[r].at = "resolved" /\ req[r].added = {}
                  \/ req[r].at = "merged"

TakeNumber(r) ==
    /\ NumberReady(r)
    /\ req' = [req EXCEPT ![r] = [@ EXCEPT !.at = "numbered", !.number = NextNumber]]
    /\ UNCHANGED <<catalog, alive, rows, book, lock>>

(* Mutation: foreign keys are not enforced.                                *)
NeverDangles(r) == FALSE

(* A foreign key of the new rows points nowhere: the solution, an item or  *)
(* a product it read is gone.                                              *)
Dangles(r) ==
    \/ req[r].solution /\ ~alive
    \/ \E l \in req[r].items : l.link # None /\ l.link \notin DOMAIN rows
    \/ \E l \in req[r].items : l.product \notin catalog

Collides(r) == req[r].number \in Numbers

(* The quotation, its lines and the commit.  except IntegrityError names   *)
(* something the module never imports, so a collision is a NameError.      *)
Insert(r) ==
    /\ req[r].at = "numbered" /\ lock \in {None, r}
    /\ \/ /\ Collides(r)
          /\ Refuse(r, 500, "number")
       \/ /\ ~Collides(r) /\ Dangles(r)
          /\ Refuse(r, 500, "reference")
       \/ /\ ~Collides(r) /\ ~Dangles(r)
          /\ rows' \in NewRows(r)
          /\ book' = [book EXCEPT ![r] = [number   |-> req[r].number,
                                          attached |-> req[r].solution,
                                          lines    |-> req[r].items]]
          /\ Answered(r, 201, None)
          /\ Release(r)
          /\ UNCHANGED <<catalog, alive>>

(* sqlite3's busy timeout runs out: "database is locked".                  *)
Busy(r) ==
    /\ lock \notin {None, r}
    /\ MergeReady(r) \/ req[r].at = "numbered"
    /\ Refuse(r, 500, "busy")

-----------------------------------------------------------------------------
(* The rest of the system; each commits in one piece while nobody holds    *)
(* the write lock.                                                         *)

AddItem(p) ==
    /\ lock = None /\ alive /\ p \in catalog /\ TopRow < MaxRow
    /\ rows' = [i \in DOMAIN rows \cup {TopRow + 1} |->
                    IF i \in DOMAIN rows THEN rows[i] ELSE [product |-> p, by |-> None]]
    /\ UNCHANGED <<catalog, alive, book, req, lock>>

(* quotation_items.solution_item_id is ON DELETE SET NULL.                 *)
Unlinked(q, gone, attached) ==
    [q EXCEPT !.attached = @ /\ attached,
              !.lines = {[l EXCEPT !.link = IF @ \in gone THEN None ELSE @] : l \in @}]

WithoutRows(gone, attached) ==
    book' = [q \in Request |->
                IF book[q] = None THEN None ELSE Unlinked(book[q], gone, attached)]

DeleteItem(i) ==
    /\ lock = None /\ i \in DOMAIN rows
    /\ rows' = [j \in DOMAIN rows \ {i} |-> rows[j]]
    /\ WithoutRows({i}, TRUE)
    /\ UNCHANGED <<catalog, alive, req, lock>>

(* The items go with the solution, its quotations stay (SET NULL).         *)
DeleteSolution ==
    /\ lock = None /\ alive
    /\ alive' = FALSE
    /\ rows' = [i \in {} |-> None]
    /\ WithoutRows(DOMAIN rows, FALSE)
    /\ UNCHANGED <<catalog, req, lock>>

DeleteQuotation(q) ==
    /\ lock = None /\ book[q] # None
    /\ book' = [book EXCEPT ![q] = None]
    /\ UNCHANGED <<catalog, alive, rows, req, lock>>

Used(p) ==
    \/ \E i \in DOMAIN rows : rows[i].product = p
    \/ \E q \in Live : \E l \in book[q].lines : l.product = p

DeleteProduct(p) ==
    /\ lock = None /\ p \in catalog
    /\ ~Used(p)                         \* else 409
    /\ catalog' = catalog \ {p}
    /\ UNCHANGED <<alive, rows, book, req, lock>>

(* Every open request dies with the process; SQLite rolls back.            *)
Restart ==
    /\ req' = [r \in Request |->
                 IF req[r].at \in {"idle", "answered"} THEN req[r]
                 ELSE [Idle EXCEPT !.at = "lost"]]
    /\ lock' = None
    /\ UNCHANGED <<catalog, alive, rows, book>>

Serve(r) == Resolve(r) \/ Merge(r) \/ TakeNumber(r) \/ Insert(r) \/ Busy(r)

Next ==
    \/ \E r \in Request : Serve(r)
    \/ \E r \in Request, s \in BOOLEAN, extra \in SUBSET Product : Post(r, s, extra)
    \/ \E p \in Product : AddItem(p) \/ DeleteProduct(p)
    \/ \E i \in DOMAIN rows : DeleteItem(i)
    \/ \E q \in Request : DeleteQuotation(q)
    \/ DeleteSolution
    \/ Restart

Spec == Init /\ [][Next]_vars

(* A request's thread is scheduled; a wait for the lock is bounded by the  *)
(* busy timeout.                                                           *)
FairSpec == Spec /\ \A r \in Request : WF_vars(Serve(r))

-----------------------------------------------------------------------------
(* Properties                                                              *)

(* Foreign keys hold across every race of a creation with deletions: the   *)
(* items and lines in the database point to products, items and a solution *)
(* that exist.                                                             *)
NoDanglingReference ==
    /\ \A i \in DOMAIN rows : rows[i].product \in catalog
    /\ DOMAIN rows # {} => alive
    /\ \A q \in Live :
        /\ book[q].attached => alive
        /\ \A l \in book[q].lines :
            l.product \in catalog /\ l.link \in DOMAIN rows \cup {None}

(* A creation that adds products to the solution takes the write lock      *)
(* before it reads the numbers, so it never fails on a number that was     *)
(* taken meanwhile; only creations that add nothing can.                   *)
MergerNeverCollides ==
    \A r \in Request : req[r].why = "number" => req[r].added = {}

(* The abstract promise: all or nothing, under a number of its own.        *)
Issued == {r \in Request : req[r].status = 201}
Number == [r \in Request |-> IF book[r] = None THEN None ELSE book[r].number]
Merged == [r \in Request |-> {rows[i].product : i \in {j \in DOMAIN rows : rows[j].by = r}}]

Contract == INSTANCE QuotationContract
                WITH issued <- Issued, number <- Number, merged <- Merged

(* Rows merged into the solution, the quotation and its number appear      *)
(* together or not at all, whatever fails or races in between; a number    *)
(* belongs to one live quotation.                                          *)
KeepsContract == Contract!Spec

(* No failure leaves the write lock behind: who holds it lets it go.       *)
LockIsReleased == \A r \in Request : lock = r ~> lock # r

(* create_quotation's comment on its except branch: a concurrent creation  *)
(* that took the same number is answered 409 rather than 500.              *)
CollisionIsAnswered409 ==
    \A r \in Request : req[r].why = "number" => req[r].status = 409

(* resolve_items' docstring: a product that is already in the solution is  *)
(* not added again.  Here: at the commit that adds it.                     *)
MergedOnce ==
    [][\A r \in Request : \A p \in Merged'[r] \ Merged[r] :
            ~\E i \in DOMAIN rows : rows[i].product = p]_vars
=============================================================================
