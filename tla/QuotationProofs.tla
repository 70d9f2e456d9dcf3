--------------------------- MODULE QuotationProofs ---------------------------
(***************************************************************************)
(* Creating quotations leaves no dangling reference and keeps its          *)
(* contract, for any number of products and requests.                      *)
(*                                                                         *)
(* Two facts carry the proof.  A request that adds products holds the      *)
(* write lock from its flush on (HoldsLock), so a number it read is still  *)
(* free when it inserts; and what it will insert is exactly what it added  *)
(* and read (Prepared), which the foreign keys check at that moment.       *)
(***************************************************************************)
EXTENDS Quotation, Extremes, FiniteSetTheorems, TLAPS

Bounds == Bounded(DOMAIN rows) /\ Bounded(Numbers)

UnderWay == {"idle", "posted", "resolved", "merged", "numbered", "lost"}

(* An unanswered request has no quotation, only a created one has.         *)
Answers ==
    \A r \in Request :
        /\ req[r].at \in UnderWay => req[r].status = None /\ req[r].why = None
        /\ book[r] # None => req[r].status = 201

Prepared ==
    \A r \in Request :
        req[r].at \in {"resolved", "merged", "numbered"} =>
            /\ req[r].added # {} => req[r].solution
            /\ \A p \in req[r].added : \E l \in req[r].items : l.product = p

HoldsLock ==
    \A r \in Request :
        /\ req[r].at \in {"merged", "numbered"} /\ req[r].added # {} => lock = r
        /\ req[r].at = "numbered" =>
            req[r].number # 0 /\ (lock = r => req[r].number \notin Numbers)

IInv == /\ TypeOK /\ Bounds /\ Answers /\ Prepared /\ HoldsLock
        /\ NoDanglingReference /\ MergerNeverCollides

-----------------------------------------------------------------------------
(* The largest row id and the largest number                               *)

(* SQLite's next row id and the next number are above all that are in use. *)
LEMMA Tops ==
    ASSUME TypeOK, Bounds
    PROVE  /\ TopRow \in Nat /\ \A i \in DOMAIN rows : i <= TopRow
           /\ TopNumber \in Nat /\ \A n \in Numbers : n <= TopNumber
  <1>1. DOMAIN rows \subseteq Nat /\ Numbers \subseteq Nat
    BY DEF TypeOK, Numbers, Live, Quote
  <1>2. TopRow \in Nat /\ \A i \in DOMAIN rows : i <= TopRow
    <2>1. CASE DOMAIN rows = {}
      BY <2>1 DEF TopRow
    <2>2. CASE DOMAIN rows # {}
      <3>1. \E i \in DOMAIN rows : \A j \in DOMAIN rows : j <= i
        BY <1>1, <2>2, Largest DEF Bounds
      <3> QED
        BY <1>1, <2>2, <3>1 DEF TopRow
    <2> QED
      BY <2>1, <2>2
  <1>3. TopNumber \in Nat /\ \A n \in Numbers : n <= TopNumber
    <2>1. CASE Numbers = {}
      BY <2>1 DEF TopNumber
    <2>2. CASE Numbers # {}
      <3>1. \E n \in Numbers : \A m \in Numbers : m <= n
        BY <1>1, <2>2, Largest DEF Bounds
      <3> QED
        BY <1>1, <2>2, <3>1 DEF TopNumber
    <2> QED
      BY <2>1, <2>2
  <1> QED
    BY <1>2, <1>3

(* What Merge adds gets new row ids, one each; nothing else changes.       *)
LEMMA NewRowsExtend ==
    ASSUME TypeOK, Bounds, NEW r \in Request, NEW new \in NewRows(r)
    PROVE  /\ DOMAIN new = DOMAIN rows \cup FreshRows(r)
           /\ FreshRows(r) \subseteq Nat /\ FreshRows(r) \cap DOMAIN rows = {}
           /\ req[r].added = {} => FreshRows(r) = {}
           /\ \A i \in DOMAIN rows : new[i] = rows[i]
           /\ \A i \in FreshRows(r) : new[i].product \in req[r].added /\ new[i].by = r
           /\ new \in [DOMAIN new -> [product : Product, by : Request \cup {None}]]
           /\ Bounded(DOMAIN new)
  <1>1. /\ req[r].added \subseteq Product /\ IsFiniteSet(req[r].added)
    BY QuotationAssumption, FS_Subset DEF TypeOK, Progress
  <1>2. Cardinality(req[r].added) \in Nat
    BY <1>1, FS_CardinalityType
  <1>3. /\ FreshRows(r) \subseteq Nat
        /\ \A i \in FreshRows(r) : i > TopRow /\ i <= TopRow + Cardinality(req[r].added)
    BY <1>2, Tops DEF FreshRows
  <1>4. FreshRows(r) \cap DOMAIN rows = {}
    BY <1>3, Tops DEF TypeOK
  <1>5. req[r].added = {} => FreshRows(r) = {}
    BY Tops, FS_EmptySet DEF FreshRows
  <1>6. PICK p \in Bijection(FreshRows(r), req[r].added) :
           new = [i \in DOMAIN rows \cup FreshRows(r) |->
                     IF i \in FreshRows(r) THEN [product |-> p[i], by |-> r] ELSE rows[i]]
    BY DEF NewRows
  <1>7. \A i \in FreshRows(r) : p[i] \in req[r].added
    BY DEF Bijection, Injection
  <1>8. /\ DOMAIN new = DOMAIN rows \cup FreshRows(r)
        /\ \A i \in DOMAIN rows : new[i] = rows[i]
        /\ \A i \in FreshRows(r) : new[i] = [product |-> p[i], by |-> r]
    BY <1>4, <1>6
  <1>9. new \in [DOMAIN new -> [product : Product, by : Request \cup {None}]]
    <2>1. \A i \in DOMAIN new : new[i] \in [product : Product, by : Request \cup {None}]
      BY <1>1, <1>7, <1>8 DEF TypeOK
    <2>2. new = [i \in DOMAIN new |-> new[i]]
      BY <1>6
    <2> QED
      BY <2>1, <2>2
  <1>10. Bounded(DOMAIN new)
    <2>1. TopRow + Cardinality(req[r].added) \in Nat
      BY <1>2, Tops
    <2>2. \A i \in DOMAIN new : i <= TopRow + Cardinality(req[r].added)
      BY <1>2, <1>3, <1>8, Tops DEF TypeOK
    <2> QED
      BY <2>1, <2>2 DEF Bounded
  <1> QED
    BY <1>3, <1>4, <1>5, <1>7, <1>8, <1>9, <1>10

-----------------------------------------------------------------------------
(* Steps of a request that leave the database alone                        *)

(* Before anything is created nothing refers to anything.                  *)
LEMMA InitIInv == Init => IInv
  <1> SUFFICES ASSUME Init PROVE IInv
    OBVIOUS
  <1> USE DEF Init, Idle
  <1>1. TypeOK
    BY DEF TypeOK, Progress, Stages
  <1>2. DOMAIN rows = {} /\ Live = {} /\ Numbers = {}
    BY DEF Live, Numbers
  <1>3. Bounds
    BY <1>2 DEF Bounds, Bounded
  <1>4. Answers /\ Prepared /\ HoldsLock
    BY DEF Answers, Prepared, HoldsLock
  <1>5. NoDanglingReference /\ MergerNeverCollides
    BY <1>2, QuotationAssumption DEF NoDanglingReference, MergerNeverCollides, Reasons
  <1> QED
    BY <1>1, <1>3, <1>4, <1>5 DEF IInv

(* The invariant says of a request only what is true of each by itself, so *)
(* a step of one of them has to be looked at for that one.                 *)
LEMMA LocalStep ==
    ASSUME IInv, NEW r \in Request, NEW s \in Progress,
           UNCHANGED <<catalog, alive, rows, book>>, req' = [req EXCEPT ![r] = s],
           lock' \in Request \cup {None}, \A q \in Request \ {r} : lock = q <=> lock' = q,
           book[r] # None => s.status = 201,
           s.at \in UnderWay => s.status = None /\ s.why = None,
           s.at \in {"resolved", "merged", "numbered"} =>
               /\ s.added # {} => s.solution
               /\ \A p \in s.added : \E l \in s.items : l.product = p,
           s.at \in {"merged", "numbered"} /\ s.added # {} => lock' = r,
           s.at = "numbered" => s.number # 0 /\ (lock' = r => s.number \notin Numbers),
           s.why = "number" => s.added = {}
    PROVE  IInv'
  <1>1. req'[r] = s /\ \A q \in Request \ {r} : req'[q] = req[q]
    BY DEF IInv, TypeOK
  <1>2. Numbers' = Numbers /\ Live' = Live
    BY DEF Numbers, Live
  <1>3. TypeOK'
    BY DEF IInv, TypeOK
  <1>4. Bounds' /\ NoDanglingReference'
    BY <1>2 DEF IInv, Bounds, NoDanglingReference
  <1>5. Answers'
    BY <1>1 DEF IInv, Answers
  <1>6. Prepared' /\ MergerNeverCollides'
    BY <1>1 DEF IInv, Prepared, MergerNeverCollides
  <1>7. HoldsLock'
    BY <1>1, <1>2 DEF IInv, HoldsLock
  <1> QED
    BY <1>3, <1>4, <1>5, <1>6, <1>7 DEF IInv

(* A refusal ends a request that has created nothing.                      *)
LEMMA RefuseStep ==
    ASSUME IInv, NEW r \in Request, req[r].at \in UnderWay,
           NEW status \in Statuses \ {201}, NEW why \in Reasons \cup {None},
           why = "number" => req[r].added = {}, Refuse(r, status, why)
    PROVE  IInv'
  <1> DEFINE s == [Idle EXCEPT !.at = "answered", !.added = req[r].added,
                               !.status = status, !.why = why]
  <1>1. /\ s \in Progress /\ s.at = "answered" /\ s.added = req[r].added
        /\ s.status = status /\ s.why = why
    BY DEF IInv, TypeOK, Progress, Idle, Stages
  <1>2. book[r] = None
    BY QuotationAssumption DEF IInv, Answers, Statuses
  <1>3. /\ req' = [req EXCEPT ![r] = s] /\ UNCHANGED <<catalog, alive, rows, book>>
        /\ lock' = IF lock = r THEN None ELSE lock
    BY DEF Refuse, Answered, Release
  <1>4. /\ lock' \in Request \cup {None}
        /\ \A q \in Request \ {r} : lock = q <=> lock' = q
    BY <1>3, QuotationAssumption DEF IInv, TypeOK
  <1> HIDE DEF s
  <1>5. /\ s.at \notin UnderWay
        /\ s.at \notin {"resolved", "merged", "numbered"} /\ s.at \notin {"merged", "numbered"}
        /\ s.at # "numbered"
    BY <1>1 DEF UnderWay
  <1>6. s.why = "number" => s.added = {}
    BY <1>1
  <1>7. s \in Progress
    BY <1>1
  <1> QED
    BY <1>2, <1>3, <1>4, <1>5, <1>6, <1>7, LocalStep

(* A request is posted, with a solution that exists or is answered 404.    *)
LEMMA PostStep ==
    ASSUME IInv, NEW r \in Request, NEW sol \in BOOLEAN, NEW extra \in SUBSET Product,
           Post(r, sol, extra)
    PROVE  IInv'
  <1> DEFINE s == [req[r] EXCEPT !.at = "posted", !.solution = sol, !.extra = extra]
  <1>1. req[r].at = "idle" /\ req[r] \in Progress
    BY DEF Post, IInv, TypeOK
  <1>2. CASE Refuse(r, 404, None)
    BY <1>1, <1>2, QuotationAssumption, RefuseStep DEF UnderWay, Statuses, Reasons
  <1>3. CASE ~Refuse(r, 404, None)
    <2>1. req' = [req EXCEPT ![r] = s] /\ UNCHANGED <<catalog, alive, rows, book, lock>>
      BY <1>3 DEF Post
    <2>2. s \in Progress /\ s.at = "posted" /\ s.status = None /\ s.why = None
      BY <1>1 DEF Progress, Stages, IInv, Answers, UnderWay
    <2>3. book[r] = None
      BY <1>1, QuotationAssumption DEF IInv, Answers, UnderWay, Statuses
    <2>4. lock \in Request \cup {None}
      BY DEF IInv, TypeOK
    <2> HIDE DEF s
    <2> QED
      BY <2>1, <2>2, <2>3, <2>4, QuotationAssumption, LocalStep DEF Reasons
  <1> QED
    BY <1>2, <1>3

(* What is resolved holds each product that the merge will add.            *)
LEMMA ResolveStep == ASSUME IInv, NEW r \in Request, Resolve(r) PROVE IInv'
  <1> DEFINE seen == {rows[i].product : i \in DOMAIN rows}
             new  == IF req[r].solution THEN (req[r].extra \cap catalog) \ seen ELSE {}
             old  == IF req[r].solution
                     THEN {[link |-> i, product |-> rows[i].product] : i \in DOMAIN rows}
                     ELSE {}
             its  == old \cup {[link |-> None, product |-> p] : p \in new}
             s    == [req[r] EXCEPT !.at = "resolved", !.extra = {}, !.added = new,
                                    !.items = its]
  <1>1. req[r].at = "posted" /\ req[r] \in Progress
    BY DEF Resolve, IInv, TypeOK
  <1>2. req' = [req EXCEPT ![r] = s] /\ UNCHANGED <<catalog, alive, rows, book, lock>>
    BY DEF Resolve
  <1>3. new \subseteq Product /\ (new # {} => req[r].solution)
    BY <1>1 DEF Progress
  <1>4. its \subseteq Line
    BY <1>3 DEF Line, IInv, TypeOK
  <1>5. \A p \in new : \E l \in its : l.product = p
    <2> TAKE p \in new
    <2>1. [link |-> None, product |-> p] \in its
      OBVIOUS
    <2> QED
      BY <2>1
  <1> HIDE DEF new, its
  <1>6. /\ s \in Progress /\ s.at = "resolved" /\ s.status = None /\ s.why = None
        /\ s.added = new /\ s.items = its /\ s.solution = req[r].solution
    BY <1>1, <1>3, <1>4 DEF Progress, Stages, IInv, Answers, UnderWay
  <1>7. book[r] = None
    BY <1>1, QuotationAssumption DEF IInv, Answers, UnderWay, Statuses
  <1>8. lock \in Request \cup {None}
    BY DEF IInv, TypeOK
  <1> HIDE DEF s
  <1> QED
    BY <1>2, <1>3, <1>5, <1>6, <1>7, <1>8, QuotationAssumption, LocalStep DEF Reasons

(* A request that flushes new rows holds the lock from then on.            *)
LEMMA MergeStep == ASSUME IInv, NEW r \in Request, Merge(r) PROVE IInv'
  <1> DEFINE s == [req[r] EXCEPT !.at = "merged"]
  <1>1. req[r].at = "resolved" /\ req[r] \in Progress /\ lock = None
    BY DEF Merge, MergeReady, IInv, TypeOK
  <1>2. CASE Refuse(r, 500, "reference")
    BY <1>1, <1>2, RefuseStep DEF UnderWay, Statuses, Reasons
  <1>3. CASE ~Refuse(r, 500, "reference")
    <2>1. /\ req' = [req EXCEPT ![r] = s] /\ UNCHANGED <<catalog, alive, rows, book>>
          /\ lock' = r
      BY <1>3 DEF Merge, Step
    <2>2. /\ s \in Progress /\ s.at = "merged" /\ s.status = None /\ s.why = None
          /\ s.added = req[r].added /\ s.items = req[r].items
          /\ s.solution = req[r].solution
      BY <1>1 DEF Progress, Stages, IInv, Answers, UnderWay
    <2>3. book[r] = None
      BY <1>1, QuotationAssumption DEF IInv, Answers, UnderWay, Statuses
    <2>4. \A q \in Request \ {r} : lock = q <=> lock' = q
      BY <1>1, <2>1, QuotationAssumption
    <2>5. /\ s.added # {} => s.solution
          /\ \A p \in s.added : \E l \in s.items : l.product = p
      BY <1>1, <2>2 DEF IInv, Prepared
    <2> HIDE DEF s
    <2> QED
      BY <2>1, <2>2, <2>3, <2>4, <2>5, QuotationAssumption, LocalStep DEF Reasons
  <1> QED
    BY <1>2, <1>3

(* The number that is read is nobody's; who holds the lock keeps it so.    *)
LEMMA NumberStep == ASSUME IInv, NEW r \in Request, TakeNumber(r) PROVE IInv'
  <1> DEFINE s == [req[r] EXCEPT !.at = "numbered", !.number = NextNumber]
  <1>1. req[r].at \in {"resolved", "merged"} /\ req[r] \in Progress
    BY DEF TakeNumber, NumberReady, IInv, TypeOK
  <1>2. req' = [req EXCEPT ![r] = s] /\ UNCHANGED <<catalog, alive, rows, book, lock>>
    BY DEF TakeNumber
  <1>3. NextNumber \in Nat /\ NextNumber # 0 /\ NextNumber \notin Numbers
    <2>1. Numbers \subseteq Nat
      BY DEF IInv, TypeOK, Numbers, Live, Quote
    <2> QED
      BY <2>1, Tops DEF IInv, NextNumber
  <1>4. /\ s \in Progress /\ s.at = "numbered" /\ s.status = None /\ s.why = None
        /\ s.added = req[r].added /\ s.items = req[r].items
        /\ s.solution = req[r].solution /\ s.number = NextNumber
    BY <1>1, <1>3 DEF Progress, Stages, IInv, Answers, UnderWay
  <1>5. book[r] = None
    BY <1>1, QuotationAssumption DEF IInv, Answers, UnderWay, Statuses
  <1>6. /\ s.added # {} => s.solution
        /\ \A p \in s.added : \E l \in s.items : l.product = p
    BY <1>1, <1>4 DEF IInv, Prepared
  <1>7. s.added # {} => lock = r
    BY <1>1, <1>4 DEF IInv, HoldsLock, TakeNumber, NumberReady
  <1>8. lock \in Request \cup {None}
    BY DEF IInv, TypeOK
  <1> HIDE DEF s
  <1> QED
    BY <1>2, <1>3, <1>4, <1>5, <1>6, <1>7, <1>8, QuotationAssumption, LocalStep DEF Reasons

(* Giving up on the lock.                                                  *)
LEMMA BusyStep == ASSUME IInv, NEW r \in Request, Busy(r) PROVE IInv'
  BY RefuseStep DEF Busy, MergeReady, UnderWay, Statuses, Reasons

-----------------------------------------------------------------------------
(* Steps that change the database                                          *)

(* The quotation, its lines and the merged rows appear at once, all of     *)
(* them pointing to something that exists.                                 *)
LEMMA InsertStep == ASSUME IInv, NEW r \in Request, Insert(r) PROVE IInv'
  <1> DEFINE s == [Idle EXCEPT !.at = "answered", !.added = req[r].added,
                               !.status = 201, !.why = None]
             b == [number |-> req[r].number, attached |-> req[r].solution,
                   lines |-> req[r].items]
  <1>1. /\ req[r].at = "numbered" /\ req[r] \in Progress /\ lock \in {None, r}
        /\ req[r].number # 0
    BY DEF Insert, IInv, TypeOK, HoldsLock
  <1>2. CASE Collides(r) /\ Refuse(r, 500, "number")
    <2>1. req[r].added = {}
      BY <1>1, <1>2 DEF Collides, IInv, HoldsLock
    <2> QED
      BY <1>1, <1>2, <2>1, RefuseStep DEF UnderWay, Statuses, Reasons
  <1>3. CASE Refuse(r, 500, "reference")
    BY <1>1, <1>3, RefuseStep DEF UnderWay, Statuses, Reasons
  <1>4. CASE ~Collides(r) /\ ~Dangles(r) /\ ~Refuse(r, 500, "reference")
    <2>1. /\ rows' \in NewRows(r) /\ book' = [book EXCEPT ![r] = b]
          /\ req' = [req EXCEPT ![r] = s] /\ UNCHANGED <<catalog, alive>>
          /\ lock' = IF lock = r THEN None ELSE lock
      BY <1>4 DEF Insert, Answered, Release
    <2>2. /\ s \in Progress /\ s.at = "answered" /\ s.status = 201 /\ s.why = None
          /\ b \in Quote /\ b.number = req[r].number /\ b.attached = req[r].solution
          /\ b.lines = req[r].items
      BY <1>1 DEF Progress, Stages, Idle, Statuses, Quote
    <2> HIDE DEF s, b
    <2>3. /\ req'[r] = s /\ \A q \in Request \ {r} : req'[q] = req[q]
          /\ book'[r] = b /\ \A q \in Request \ {r} : book'[q] = book[q]
      BY <2>1 DEF IInv, TypeOK
    <2>4. lock' = None
      BY <1>1, <2>1
    <2>5. /\ DOMAIN rows' = DOMAIN rows \cup FreshRows(r)
          /\ FreshRows(r) \subseteq Nat /\ (req[r].added = {} => FreshRows(r) = {})
          /\ \A i \in DOMAIN rows : rows'[i] = rows[i]
          /\ \A i \in FreshRows(r) : rows'[i].product \in req[r].added
          /\ rows' \in [DOMAIN rows' -> [product : Product, by : Request \cup {None}]]
          /\ Bounded(DOMAIN rows')
      BY <2>1, NewRowsExtend DEF IInv
    <2>6. TypeOK'
      BY <2>1, <2>2, <2>4, <2>5 DEF IInv, TypeOK
    <2>7. Numbers' \subseteq Numbers \cup {req[r].number}
      BY <2>2, <2>3 DEF Numbers, Live
    <2>8. Bounds'
      <3>1. PICK k \in Nat : \A n \in Numbers : n <= k
        BY DEF IInv, Bounds, Bounded
      <3>2. req[r].number \in Nat /\ Numbers \subseteq Nat
        BY <1>1 DEF Progress, IInv, TypeOK, Numbers, Live, Quote
      <3>3. k + req[r].number \in Nat /\ \A n \in Numbers' : n <= k + req[r].number
        BY <2>7, <3>1, <3>2
      <3> QED
        BY <2>5, <3>3 DEF Bounds, Bounded
    <2>9. Answers'
      BY <2>2, <2>3 DEF IInv, Answers, UnderWay
    <2>10. Prepared'
      BY <2>2, <2>3 DEF IInv, Prepared
    <2>11. HoldsLock'
      <3>1. \A q \in Request \ {r} : lock # q
        BY <1>1, QuotationAssumption
      <3> QED
        BY <2>2, <2>3, <2>4, <3>1, QuotationAssumption DEF IInv, HoldsLock
    <2>12. NoDanglingReference'
      <3>1. /\ req[r].solution => alive
            /\ \A l \in req[r].items : /\ l.product \in catalog
                                       /\ l.link \in DOMAIN rows \cup {None}
        BY <1>4 DEF Dangles
      <3>2. req[r].added \subseteq catalog /\ (req[r].added # {} => req[r].solution)
        BY <1>1, <3>1 DEF IInv, Prepared
      <3>3. \A i \in DOMAIN rows' : rows'[i].product \in catalog
        BY <2>5, <3>2 DEF IInv, NoDanglingReference
      <3>4. DOMAIN rows' # {} => alive
        BY <2>5, <3>1, <3>2 DEF IInv, NoDanglingReference
      <3>5. ASSUME NEW q \in Request, book'[q] # None
            PROVE  /\ book'[q].attached => alive
                   /\ \A l \in book'[q].lines : /\ l.product \in catalog
                                                /\ l.link \in DOMAIN rows' \cup {None}
        <4>1. CASE q = r
          BY <2>2, <2>3, <2>5, <3>1, <4>1
        <4>2. CASE q # r
          BY <2>3, <2>5, <3>5, <4>2 DEF IInv, NoDanglingReference, Live
        <4> QED
          BY <4>1, <4>2
      <3> QED
        BY <2>1, <3>3, <3>4, <3>5 DEF NoDanglingReference, Live
    <2>13. MergerNeverCollides'
      BY <2>2, <2>3, QuotationAssumption DEF IInv, MergerNeverCollides, Reasons
    <2> QED
      BY <2>6, <2>8, <2>9, <2>10, <2>11, <2>12, <2>13 DEF IInv
  <1> QED
    BY <1>2, <1>3, <1>4 DEF Insert

(* Other operations touch no request and none holds the lock meanwhile.    *)
LEMMA OtherStep ==
    ASSUME IInv, lock = None, UNCHANGED <<req, lock>>, TypeOK', Bounds', NoDanglingReference',
           \A r \in Request : book'[r] # None => book[r] # None
    PROVE  IInv'
  BY QuotationAssumption DEF IInv, Answers, Prepared, HoldsLock, MergerNeverCollides

(* Removing a reference changes nothing else of a quotation.               *)
LEMMA Unlinks ==
    ASSUME NEW q \in Quote, NEW gone, NEW att \in BOOLEAN
    PROVE  LET u == Unlinked(q, gone, att)
           IN  /\ u \in Quote /\ u.number = q.number /\ u.attached = (q.attached /\ att)
               /\ \A l \in u.lines : \E k \in q.lines :
                     /\ l.product = k.product
                     /\ l.link = IF k.link \in gone THEN None ELSE k.link
  <1> DEFINE cut(l) == [l EXCEPT !.link = IF @ \in gone THEN None ELSE @]
             ls == {cut(l) : l \in q.lines}
  <1>1. \A l \in q.lines : /\ cut(l) \in Line /\ cut(l).product = l.product
                           /\ cut(l).link = IF l.link \in gone THEN None ELSE l.link
    BY DEF Quote, Line
  <1>2. Unlinked(q, gone, att) = [q EXCEPT !.attached = @ /\ att, !.lines = ls]
    BY DEF Unlinked
  <1>3. \A l \in ls : \E k \in q.lines : l = cut(k)
    OBVIOUS
  <1>4. ls \subseteq Line
    BY <1>1
  <1> HIDE DEF ls
  <1>5. /\ Unlinked(q, gone, att) \in Quote /\ Unlinked(q, gone, att).number = q.number
        /\ Unlinked(q, gone, att).lines = ls
    BY <1>2, <1>4 DEF Quote
  <1>6. Unlinked(q, gone, att).attached = (q.attached /\ att)
    BY <1>2 DEF Quote
  <1>7. \A l \in ls : \E k \in q.lines :
           /\ l.product = k.product
           /\ l.link = IF k.link \in gone THEN None ELSE k.link
    <2> TAKE l \in ls
    <2>1. PICK k \in q.lines : l = cut(k)
      BY <1>3
    <2> QED
      BY <1>1, <2>1
  <1> QED
    BY <1>5, <1>6, <1>7

(* An item is added by hand.                                               *)
LEMMA AddItemStep == ASSUME IInv, NEW p \in Product, AddItem(p) PROVE IInv'
  <1>1. /\ lock = None /\ alive /\ p \in catalog
        /\ rows' = [i \in DOMAIN rows \cup {TopRow + 1} |->
                      IF i \in DOMAIN rows THEN rows[i] ELSE [product |-> p, by |-> None]]
        /\ UNCHANGED <<catalog, alive, book, req, lock>>
    BY DEF AddItem
  <1>2. TopRow + 1 \in Nat /\ \A i \in DOMAIN rows : i <= TopRow + 1
    BY Tops DEF IInv, TypeOK
  <1>3. /\ DOMAIN rows' = DOMAIN rows \cup {TopRow + 1}
        /\ \A i \in DOMAIN rows : rows'[i] = rows[i]
        /\ \A i \in DOMAIN rows' \ DOMAIN rows : rows'[i] = [product |-> p, by |-> None]
    BY <1>1
  <1>4. TypeOK'
    <2>1. \A i \in DOMAIN rows' : rows'[i] \in [product : Product, by : Request \cup {None}]
      BY <1>3 DEF IInv, TypeOK
    <2>2. rows' = [i \in DOMAIN rows' |-> rows'[i]]
      BY <1>1
    <2>3. rows' \in [DOMAIN rows' -> [product : Product, by : Request \cup {None}]]
      BY <2>1, <2>2
    <2> QED
      BY <1>1, <1>2, <1>3, <2>3 DEF IInv, TypeOK
  <1>5. Bounds'
    <2>1. Numbers' = Numbers
      BY <1>1 DEF Numbers, Live
    <2>2. Bounded(DOMAIN rows')
      BY <1>2, <1>3 DEF Bounded
    <2> QED
      BY <2>1, <2>2 DEF IInv, Bounds
  <1>6. NoDanglingReference'
    BY <1>1, <1>3 DEF IInv, NoDanglingReference, Live
  <1> QED
    BY <1>1, <1>4, <1>5, <1>6, OtherStep

(* Rows go: the lines that point to them are cut loose in the same commit. *)
LEMMA RowsGoStep ==
    ASSUME IInv, lock = None, NEW gone, NEW kept \in BOOLEAN,
           rows' = [j \in DOMAIN rows \ gone |-> rows[j]], WithoutRows(gone, kept),
           alive' = (alive /\ kept), kept \/ DOMAIN rows \subseteq gone,
           UNCHANGED <<catalog, req, lock>>
    PROVE  IInv'
  <1>1. \A q \in Request :
           /\ book[q] = None => book'[q] = None
           /\ book[q] # None => /\ book[q] \in Quote /\ book'[q] \in Quote
                                 /\ book'[q] = Unlinked(book[q], gone, kept)
    BY Unlinks DEF WithoutRows, IInv, TypeOK
  <1>2. TypeOK'
    <2>1. book' \in [Request -> Quote \cup {None}]
      BY <1>1 DEF WithoutRows
    <2>2. rows' \in [DOMAIN rows' -> [product : Product, by : Request \cup {None}]]
      BY DEF IInv, TypeOK
    <2> QED
      BY <2>1, <2>2 DEF IInv, TypeOK
  <1>3. \A q \in Request : book'[q] # None <=> book[q] # None
    BY <1>1, QuotationAssumption
  <1>4. Bounds'
    <2>1. \A q \in Request : book[q] # None => book'[q].number = book[q].number
      BY <1>1, Unlinks
    <2>2. Numbers' \subseteq Numbers
      BY <1>3, <2>1 DEF Numbers, Live
    <2> QED
      BY <2>2 DEF IInv, Bounds, Bounded
  <1>5. NoDanglingReference'
    <2>1. \A i \in DOMAIN rows' : rows'[i].product \in catalog'
      BY DEF IInv, NoDanglingReference
    <2>2. DOMAIN rows' # {} => alive'
      BY DEF IInv, NoDanglingReference
    <2>3. ASSUME NEW q \in Request, book'[q] # None
          PROVE  /\ book'[q].attached => alive'
                 /\ \A l \in book'[q].lines : /\ l.product \in catalog'
                                              /\ l.link \in DOMAIN rows' \cup {None}
      <3>1. /\ book[q] # None /\ book[q] \in Quote
            /\ book'[q] = Unlinked(book[q], gone, kept)
        BY <1>1, <1>3, <2>3
      <3>2. /\ book[q].attached => alive
            /\ \A l \in book[q].lines : /\ l.product \in catalog
                                        /\ l.link \in DOMAIN rows \cup {None}
        BY <3>1 DEF IInv, NoDanglingReference, Live
      <3>3. book'[q].attached => alive'
        BY <3>1, <3>2, Unlinks
      <3>4. ASSUME NEW l \in book'[q].lines
            PROVE  l.product \in catalog' /\ l.link \in DOMAIN rows' \cup {None}
        <4>1. PICK k \in book[q].lines :
                 /\ l.product = k.product
                 /\ l.link = IF k.link \in gone THEN None ELSE k.link
          BY <3>1, <3>4, Unlinks
        <4> QED
          BY <3>2, <4>1
      <3> QED
        BY <3>3, <3>4
    <2> QED
      BY <2>1, <2>2, <2>3 DEF NoDanglingReference, Live
  <1> QED
    BY <1>2, <1>3, <1>4, <1>5, OtherStep

(* An item is deleted, or the solution with all its items.                 *)
LEMMA DeleteRowsStep ==
    ASSUME IInv, DeleteSolution \/ \E i \in DOMAIN rows : DeleteItem(i)
    PROVE  IInv'
  <1>1. CASE DeleteSolution
    <2>1. rows' = [j \in DOMAIN rows \ DOMAIN rows |-> rows[j]]
      BY <1>1 DEF DeleteSolution
    <2>2. alive' = (alive /\ FALSE)
      BY <1>1 DEF DeleteSolution
    <2> QED
      BY <1>1, <2>1, <2>2, RowsGoStep DEF DeleteSolution
  <1>2. CASE \E i \in DOMAIN rows : DeleteItem(i)
    <2>1. PICK i \in DOMAIN rows : DeleteItem(i)
      BY <1>2
    <2>2. alive' = (alive /\ TRUE)
      BY <2>1 DEF DeleteItem, IInv, TypeOK
    <2> QED
      BY <2>1, <2>2, RowsGoStep DEF DeleteItem
  <1> QED
    BY <1>1, <1>2

(* A quotation is deleted, or a product that nothing refers to.            *)
LEMMA DeleteStep ==
    ASSUME IInv, (\E q \in Request : DeleteQuotation(q)) \/ \E p \in Product : DeleteProduct(p)
    PROVE  IInv'
  <1>1. ASSUME NEW q \in Request, DeleteQuotation(q) PROVE IInv'
    <2>1. /\ lock = None /\ book' = [book EXCEPT ![q] = None]
          /\ UNCHANGED <<catalog, alive, rows, req, lock>>
      BY <1>1 DEF DeleteQuotation
    <2>2. TypeOK' /\ \A r \in Request : book'[r] = IF r = q THEN None ELSE book[r]
      BY <2>1 DEF IInv, TypeOK
    <2>3. Numbers' \subseteq Numbers
      BY <2>2 DEF Numbers, Live
    <2>4. Bounds'
      BY <2>1, <2>3 DEF IInv, Bounds, Bounded
    <2>5. NoDanglingReference'
      BY <2>1, <2>2 DEF IInv, NoDanglingReference, Live
    <2> QED
      BY <2>1, <2>2, <2>4, <2>5, OtherStep
  <1>2. ASSUME NEW p \in Product, DeleteProduct(p) PROVE IInv'
    <2>1. /\ lock = None /\ catalog' = catalog \ {p} /\ ~Used(p)
          /\ UNCHANGED <<alive, rows, book, req, lock>>
      BY <1>2 DEF DeleteProduct
    <2>2. TypeOK' /\ Numbers' = Numbers
      BY <2>1 DEF IInv, TypeOK, Numbers, Live
    <2>3. Bounds'
      BY <2>1, <2>2 DEF IInv, Bounds
    <2>4. NoDanglingReference'
      BY <2>1 DEF IInv, NoDanglingReference, Used, Live
    <2> QED
      BY <2>1, <2>2, <2>3, <2>4, OtherStep
  <1> QED
    BY <1>1, <1>2

(* A restart forgets the requests; the database is what was committed.     *)
LEMMA RestartStep == ASSUME IInv, Restart PROVE IInv'
  <1>1. /\ UNCHANGED <<catalog, alive, rows, book>> /\ lock' = None
        /\ req' = [r \in Request |-> IF req[r].at \in {"idle", "answered"} THEN req[r]
                                     ELSE [Idle EXCEPT !.at = "lost"]]
    BY DEF Restart
  <1>2. \A r \in Request : \/ req'[r] = req[r] /\ req[r].at \in {"idle", "answered"}
                           \/ /\ req'[r] = [Idle EXCEPT !.at = "lost"]
                              /\ req[r].at \in UnderWay
    BY <1>1 DEF IInv, TypeOK, Progress, Stages, UnderWay
  <1>3. /\ [Idle EXCEPT !.at = "lost"] \in Progress
        /\ [Idle EXCEPT !.at = "lost"].at = "lost"
        /\ [Idle EXCEPT !.at = "lost"].status = None
        /\ [Idle EXCEPT !.at = "lost"].why = None
        /\ [Idle EXCEPT !.at = "lost"].added = {}
    BY DEF Idle, Progress, Stages
  <1>4. TypeOK'
    <2>1. \A r \in Request : req'[r] \in Progress
      BY <1>2, <1>3 DEF IInv, TypeOK
    <2> QED
      BY <1>1, <2>1 DEF IInv, TypeOK
  <1>5. Numbers' = Numbers
    BY <1>1 DEF Numbers, Live
  <1>6. Bounds' /\ NoDanglingReference'
    BY <1>1, <1>5 DEF IInv, Bounds, NoDanglingReference, Live
  <1>7. Answers'
    BY <1>1, <1>2, <1>3, QuotationAssumption DEF IInv, Answers, UnderWay, Statuses
  <1>8. Prepared' /\ HoldsLock' /\ MergerNeverCollides'
    BY <1>2, <1>3 DEF IInv, Prepared, HoldsLock, MergerNeverCollides
  <1> QED
    BY <1>4, <1>6, <1>7, <1>8 DEF IInv

-----------------------------------------------------------------------------
(* Theorems                                                                *)

(* The invariant is inductive.                                             *)
LEMMA NextIInv == ASSUME IInv, [Next]_vars PROVE IInv'
  <1>1. ASSUME NEW r \in Request, Serve(r) PROVE IInv'
    BY <1>1, ResolveStep, MergeStep, NumberStep, InsertStep, BusyStep DEF Serve
  <1>2. ASSUME NEW r \in Request, NEW s \in BOOLEAN, NEW extra \in SUBSET Product,
               Post(r, s, extra)
        PROVE  IInv'
    BY <1>2, PostStep
  <1>3. ASSUME NEW p \in Product, AddItem(p) \/ DeleteProduct(p) PROVE IInv'
    BY <1>3, AddItemStep, DeleteStep
  <1>4. CASE DeleteSolution \/ \E i \in DOMAIN rows : DeleteItem(i)
    BY <1>4, DeleteRowsStep
  <1>5. CASE \E q \in Request : DeleteQuotation(q)
    BY <1>5, DeleteStep
  <1>6. CASE UNCHANGED vars
    BY <1>6 DEF vars, IInv, TypeOK, Bounds, Bounded, Numbers, Live, Answers, Prepared,
                HoldsLock, NoDanglingReference, MergerNeverCollides
  <1> QED
    BY <1>1, <1>2, <1>3, <1>4, <1>5, <1>6, RestartStep DEF Next

(* The invariant holds in every state.                                     *)
LEMMA Invariance == Spec => []IInv
  <1>1. Init => IInv
    BY InitIInv
  <1>2. IInv /\ [Next]_vars => IInv'
    BY NextIInv
  <1> QED
    BY <1>1, <1>2, PTL DEF Spec

(* Row ids and numbers stay natural numbers, whatever is created, deleted  *)
(* or restarted.                                                           *)
THEOREM TypeCorrect == Spec => []TypeOK
  <1>1. IInv => TypeOK
    BY DEF IInv
  <1> QED
    BY <1>1, Invariance, PTL

(* No creation that races a deletion leaves an item or a line that points  *)
(* to a product, an item or a solution that is gone.                       *)
THEOREM ReferencesHold == Spec => []NoDanglingReference
  <1>1. IInv => NoDanglingReference
    BY DEF IInv
  <1> QED
    BY <1>1, Invariance, PTL

(* A creation that adds to the solution never fails on a taken number.     *)
THEOREM MergersDoNotCollide == Spec => []MergerNeverCollides
  <1>1. IInv => MergerNeverCollides
    BY DEF IInv
  <1> QED
    BY <1>1, Invariance, PTL

-----------------------------------------------------------------------------
(* The contract                                                            *)

View == <<Issued, Number, Merged>>

(* What the contract speaks of depends on these alone.                     *)
LEMMA SameView ==
    ASSUME UNCHANGED <<rows, book>>,
           \A r \in Request : req'[r].status = 201 <=> req[r].status = 201
    PROVE  UNCHANGED View
  BY DEF View, Issued, Number, Merged

(* A request under way has not been answered 201.                          *)
LEMMA NotYet ==
    ASSUME IInv, NEW r \in Request, req[r].at \in UnderWay
    PROVE  req[r].status # 201 /\ book[r] = None
  BY QuotationAssumption DEF IInv, Answers, Statuses

(* Nor is one that is refused.                                             *)
LEMMA RefuseView ==
    ASSUME IInv, NEW r \in Request, req[r].at \in UnderWay,
           NEW status \in Statuses \ {201}, NEW why, Refuse(r, status, why)
    PROVE  UNCHANGED View
  <1>1. UNCHANGED <<rows, book>> /\ \A q \in Request \ {r} : req'[q] = req[q]
    BY DEF Refuse, Answered, IInv, TypeOK
  <1>2. req'[r].status = status
    BY DEF Refuse, Answered, IInv, TypeOK, Idle
  <1> QED
    BY <1>1, <1>2, NotYet, SameView

(* Before its insert a request changes nothing the contract sees.          *)
LEMMA BeforeView ==
    ASSUME IInv, NEW r \in Request,
           \/ Resolve(r) \/ Merge(r) \/ TakeNumber(r) \/ Busy(r)
           \/ \E s \in BOOLEAN, extra \in SUBSET Product : Post(r, s, extra)
    PROVE  UNCHANGED View
  <1>1. req[r].at \in UnderWay
    BY DEF Resolve, Merge, MergeReady, TakeNumber, NumberReady, Busy, Post, UnderWay
  <1>2. CASE \E status \in Statuses \ {201}, why \in Reasons \cup {None} : Refuse(r, status, why)
    BY <1>1, <1>2, RefuseView
  <1>3. CASE ~\E status \in Statuses \ {201}, why \in Reasons \cup {None} : Refuse(r, status, why)
    <2>1. ~Refuse(r, 404, None) /\ ~Refuse(r, 500, "reference") /\ ~Refuse(r, 500, "busy")
      BY <1>3 DEF Statuses, Reasons
    <2>2. /\ UNCHANGED <<rows, book>> /\ \A q \in Request \ {r} : req'[q] = req[q]
          /\ req'[r].status = req[r].status
      <3>1. CASE Resolve(r)
        BY <3>1 DEF Resolve, IInv, TypeOK, Progress
      <3>2. CASE Merge(r)
        BY <2>1, <3>2 DEF Merge, Step, IInv, TypeOK, Progress
      <3>3. CASE TakeNumber(r)
        BY <3>3 DEF TakeNumber, IInv, TypeOK, Progress
      <3>4. CASE \E s \in BOOLEAN, extra \in SUBSET Product : Post(r, s, extra)
        BY <2>1, <3>4 DEF Post, IInv, TypeOK, Progress
      <3> QED
        BY <2>1, <3>1, <3>2, <3>3, <3>4 DEF Busy
    <2> QED
      BY <2>2, SameView
  <1> QED
    BY <1>2, <1>3

(* An insert that succeeds issues the quotation, with a free number and    *)
(* the products it merged.                                                 *)
LEMMA InsertContract ==
    ASSUME IInv, NEW r \in Request, Insert(r)
    PROVE  Contract!Issue(r) \/ UNCHANGED View
  <1>1. req[r].at \in UnderWay /\ req[r] \in Progress /\ req[r].status # 201 /\ book[r] = None
    BY NotYet DEF Insert, UnderWay, IInv, TypeOK
  <1>2. CASE Refuse(r, 500, "number") \/ Refuse(r, 500, "reference")
    BY <1>1, <1>2, RefuseView DEF Statuses
  <1>3. CASE ~Refuse(r, 500, "number") /\ ~Refuse(r, 500, "reference")
    <2>1. /\ rows' \in NewRows(r) /\ ~Collides(r)
          /\ book' = [book EXCEPT ![r] = [number |-> req[r].number,
                                          attached |-> req[r].solution,
                                          lines |-> req[r].items]]
          /\ Answered(r, 201, None)
      BY <1>3 DEF Insert
    <2>2. req'[r].status = 201 /\ \A q \in Request \ {r} : req'[q] = req[q]
      BY <2>1 DEF Answered, Idle, IInv, TypeOK
    <2>3. /\ book'[r].number = req[r].number /\ book'[r] # None
          /\ \A q \in Request \ {r} : book'[q] = book[q]
      <3>1. book'[r] \in Quote
        BY <1>1, <2>1 DEF IInv, TypeOK, Progress, Quote, Insert, HoldsLock
      <3> QED
        BY <2>1, <3>1, QuotationAssumption DEF IInv, TypeOK
    <2>4. r \notin Issued /\ Issued' = Issued \cup {r}
      BY <1>1, <2>2 DEF Issued
    <2>5. /\ Number'[r] = req[r].number /\ \A q \in Request \ {r} : Number'[q] = Number[q]
          /\ DOMAIN Number = Request /\ DOMAIN Number' = Request
      BY <2>3 DEF Number
    <2>6. Number'[r] \in Nat \ {Number[q] : q \in Request}
      BY <1>1, <2>1, <2>5, QuotationAssumption DEF Number, Collides, Numbers, Live, Progress
    <2>7. Number' = [Number EXCEPT ![r] = Number'[r]]
      BY <2>5 DEF Number
    <2>8. /\ DOMAIN rows' = DOMAIN rows \cup FreshRows(r)
          /\ \A i \in DOMAIN rows : rows'[i] = rows[i]
          /\ \A i \in FreshRows(r) : rows'[i].by = r
      BY <2>1, NewRowsExtend DEF IInv
    <2>9. Merged'[r] \subseteq Product
      <3>1. rows' \in [DOMAIN rows' -> [product : Product, by : Request \cup {None}]]
        BY <2>1, NewRowsExtend DEF IInv
      <3>2. \A i \in DOMAIN rows' : rows'[i].product \in Product
        BY <3>1
      <3> QED
        BY <3>2 DEF Merged
    <2>10. \A q \in Request \ {r} : Merged'[q] = Merged[q]
      <3> TAKE q \in Request \ {r}
      <3>1. {j \in DOMAIN rows' : rows'[j].by = q} = {j \in DOMAIN rows : rows[j].by = q}
        BY <2>8
      <3> QED
        BY <2>8, <3>1 DEF Merged
    <2>11. Merged' = [Merged EXCEPT ![r] = Merged'[r]]
      BY <2>10 DEF Merged
    <2> QED
      BY <2>4, <2>6, <2>7, <2>9, <2>11 DEF Contract!Issue
  <1> QED
    BY <1>2, <1>3

(* Every other operation withdraws a quotation, removes items or is not    *)
(* seen at all.                                                            *)
LEMMA OtherContract ==
    ASSUME IInv,
           \/ \E p \in Product : AddItem(p) \/ DeleteProduct(p)
           \/ \E i \in DOMAIN rows : DeleteItem(i)
           \/ \E q \in Request : DeleteQuotation(q)
           \/ DeleteSolution \/ Restart \/ UNCHANGED vars
    PROVE  Contract!Remove \/ (\E q \in Request : Contract!Withdraw(q)) \/ UNCHANGED View
  <1>1. ASSUME NEW p \in Product, AddItem(p) PROVE UNCHANGED View
    <2>1. /\ UNCHANGED <<book, req>> /\ DOMAIN rows' = DOMAIN rows \cup {TopRow + 1}
          /\ \A i \in DOMAIN rows : rows'[i] = rows[i]
          /\ \A i \in DOMAIN rows' \ DOMAIN rows : rows'[i].by = None
      BY <1>1 DEF AddItem
    <2>2. \A q \in Request : Merged'[q] = Merged[q]
      <3> TAKE q \in Request
      <3>1. {j \in DOMAIN rows' : rows'[j].by = q} = {j \in DOMAIN rows : rows[j].by = q}
        BY <2>1, QuotationAssumption
      <3> QED
        BY <2>1, <3>1 DEF Merged
    <2>3. Merged' = Merged
      BY <2>2 DEF Merged
    <2> QED
      BY <2>1, <2>3 DEF View, Issued, Number
  <1>2. ASSUME DeleteSolution \/ \E i \in DOMAIN rows : DeleteItem(i) PROVE Contract!Remove
    <2>1. /\ UNCHANGED req /\ DOMAIN rows' \subseteq DOMAIN rows
          /\ \A i \in DOMAIN rows' : rows'[i] = rows[i]
          /\ \E gone, kept : kept \in BOOLEAN /\ WithoutRows(gone, kept)
      BY <1>2 DEF DeleteSolution, DeleteItem
    <2>2. PICK gone, kept : kept \in BOOLEAN /\ WithoutRows(gone, kept)
      BY <2>1
    <2>3. \A q \in Request : Number'[q] = Number[q]
      <3> TAKE q \in Request
      <3>1. CASE book[q] = None
        BY <2>2, <3>1 DEF WithoutRows, Number
      <3>2. CASE book[q] # None
        <4>1. book[q] \in Quote /\ book'[q] = Unlinked(book[q], gone, kept)
          BY <2>2, <3>2 DEF WithoutRows, IInv, TypeOK
        <4>2. book'[q] \in Quote /\ book'[q].number = book[q].number
          BY <2>2, <4>1, Unlinks
        <4> QED
          BY <3>2, <4>2, QuotationAssumption DEF Number
      <3> QED
        BY <3>1, <3>2
    <2>4. Number' = Number
      BY <2>3 DEF Number
    <2>5. \A q \in Request : Merged'[q] \subseteq Merged[q]
      BY <2>1 DEF Merged
    <2>6. DOMAIN Merged' = Request
      BY DEF Merged
    <2> QED
      BY <2>1, <2>4, <2>5, <2>6 DEF Contract!Remove, Issued
  <1>3. ASSUME NEW q \in Request, DeleteQuotation(q) PROVE Contract!Withdraw(q)
    <2>1. UNCHANGED <<rows, req>> /\ book' = [book EXCEPT ![q] = None]
      BY <1>3 DEF DeleteQuotation
    <2>2. \A r \in Request : Number'[r] = IF r = q THEN None ELSE Number[r]
      BY <2>1 DEF Number, IInv, TypeOK
    <2>3. Number' = [Number EXCEPT ![q] = None]
      BY <2>2 DEF Number
    <2> QED
      BY <2>1, <2>3 DEF Contract!Withdraw, Issued, Merged
  <1>4. CASE (\E p \in Product : DeleteProduct(p)) \/ UNCHANGED vars
    BY <1>4, SameView DEF DeleteProduct, vars
  <1>5. CASE Restart
    <2>1. \A r \in Request : req'[r].status = 201 <=> req[r].status = 201
      <3> TAKE r \in Request
      <3>1. CASE req[r].at \in {"idle", "answered"}
        BY <1>5, <3>1 DEF Restart
      <3>2. CASE req[r].at \notin {"idle", "answered"}
        <4>1. req[r].at \in UnderWay
          BY <3>2 DEF IInv, TypeOK, Progress, Stages, UnderWay
        <4>2. req'[r].status = None
          BY <1>5, <3>2 DEF Restart, Idle
        <4> QED
          BY <4>1, <4>2, NotYet, QuotationAssumption DEF Statuses
      <3> QED
        BY <3>1, <3>2
    <2> QED
      BY <1>5, <2>1, SameView DEF Restart
  <1> QED
    BY <1>1, <1>2, <1>3, <1>4, <1>5

(* The implementation of the contract: rows, quotation and number of a     *)
(* creation appear together under a number of its own, or not at all.      *)
THEOREM ContractKept == Spec => KeepsContract
  <1>1. Init => Contract!Init
    <2> SUFFICES ASSUME Init PROVE Contract!Init
      OBVIOUS
    <2>1. Issued = {}
      BY QuotationAssumption DEF Init, Issued, Idle, Statuses
    <2>2. Number = [r \in Request |-> None] /\ Merged = [r \in Request |-> {}]
      BY DEF Init, Number, Merged
    <2> QED
      BY <2>1, <2>2 DEF Contract!Init
  <1>2. IInv /\ [Next]_vars => [Contract!Next]_View
    <2> SUFFICES ASSUME IInv, [Next]_vars PROVE [Contract!Next]_View
      OBVIOUS
    <2>1. ASSUME NEW r \in Request,
                 Serve(r) \/ \E s \in BOOLEAN, extra \in SUBSET Product : Post(r, s, extra)
          PROVE  [Contract!Next]_View
      BY <2>1, BeforeView, InsertContract DEF Serve, Contract!Next
    <2>2. CASE \/ \E p \in Product : AddItem(p) \/ DeleteProduct(p)
               \/ \E i \in DOMAIN rows : DeleteItem(i)
               \/ \E q \in Request : DeleteQuotation(q)
               \/ DeleteSolution \/ Restart \/ UNCHANGED vars
      BY <2>2, OtherContract DEF Contract!Next
    <2> QED
      BY <2>1, <2>2 DEF Next
  <1> QED
    BY <1>1, <1>2, Invariance, PTL DEF Spec, KeepsContract, Contract!Spec, View
==============================================================================
