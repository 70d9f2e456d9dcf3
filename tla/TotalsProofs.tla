---------------------------- MODULE TotalsProofs ----------------------------
(***************************************************************************)
(* The stored totals of a solution and of a quotation, for any number of   *)
(* requests, amounts and rows.                                             *)
(*                                                                         *)
(* A total is a fold over the rows, so the folds come first: that there is *)
(* a function that adds up all parts of a set, and that it has natural     *)
(* numbers as values, is shown by looking at a smallest part it might fail *)
(* for.                                                                    *)
(*                                                                         *)
(* Solutions: every number a request carries or stores is one of sums      *)
(* (Shape); and while a request is alone nobody else is running, so what   *)
(* it read is still true (AloneIsRight).                                   *)
(*                                                                         *)
(* Quotations: the same (AloneSeesAll), for the lines too, which a save of *)
(* the BOM page matches with the ones it read.  Where each of them is      *)
(* shown is the number of lines before it, a bijection (OrderedIsAll).     *)
(*                                                                         *)
(* MCTotals is extended for the sake of the last theorem, which carries    *)
(* the types over to the behaviours that TLC checks.                       *)
(***************************************************************************)
EXTENDS MCTotals, Extremes, FiniteSetTheorems, TLAPS

-----------------------------------------------------------------------------
(* Sums                                                                    *)

(* Sums are folds over a set of rows: iter[some] is the sum of some rows.  *)
Pick(some) == CHOOSE x \in some : TRUE
Added(w, iter, some) == IF some = {} THEN 0 ELSE w[Pick(some)] + iter[some \ {Pick(some)}]

(* iter adds up the parts that have at most n rows.                        *)
Parts(rows, n) == {some \in SUBSET rows : Cardinality(some) <= n}
Adds(w, rows, n, iter) ==
    /\ iter \in [Parts(rows, n) -> Nat]
    /\ \A some \in Parts(rows, n) : iter[some] = Added(w, iter, some)

(* A part without one of its rows is smaller by one.                       *)
LEMMA OneLess ==
    ASSUME NEW rows, IsFiniteSet(rows), NEW n \in Nat, NEW some \in Parts(rows, n), some # {}
    PROVE  /\ n # 0 /\ Pick(some) \in some
           /\ some \ {Pick(some)} \in Parts(rows, n - 1)
           /\ Cardinality(some \ {Pick(some)}) = Cardinality(some) - 1
  <1>1. Pick(some) \in some
    BY DEF Pick
  <1>2. IsFiniteSet(some) /\ Cardinality(some) \in Nat /\ Cardinality(some) <= n
    BY FS_Subset, FS_CardinalityType DEF Parts
  <1>3. Cardinality(some \ {Pick(some)}) = Cardinality(some) - 1
    BY <1>1, <1>2, FS_RemoveElement
  <1>4. Cardinality(some) # 0
    BY <1>1, <1>2, FS_EmptySet
  <1> QED
    BY <1>1, <1>2, <1>3, <1>4 DEF Parts

(* Parts can be added up, however large they are: a smallest size at which *)
(* they could not would follow one at which they can.                      *)
LEMMA SumsExist ==
    ASSUME NEW rows, IsFiniteSet(rows), NEW w \in [rows -> Nat], NEW n \in Nat
    PROVE  \E iter : Adds(w, rows, n, iter)
  <1> DEFINE Bad == {k \in Nat : ~\E iter : Adds(w, rows, k, iter)}
  <1> SUFFICES ASSUME Bad # {} PROVE FALSE
    OBVIOUS
  <1>1. PICK k \in Bad : \A m \in Bad : k <= m
    BY Smallest
  <1>2. k # 0
    <2>1. ASSUME k = 0 PROVE Adds(w, rows, k, [some \in Parts(rows, 0) |-> 0])
      <3>1. \A some \in Parts(rows, 0) : some = {}
        BY OneLess
      <3> QED
        BY <2>1, <3>1 DEF Adds, Added
    <2> QED
      BY <2>1
  <1>3. PICK iter : Adds(w, rows, k - 1, iter)
    BY <1>1, <1>2
  <1> DEFINE more == [some \in Parts(rows, k) |-> Added(w, iter, some)]
  <1>4. \A some \in Parts(rows, k - 1) : iter[some] = Added(w, iter, some) /\ iter[some] \in Nat
    BY <1>3 DEF Adds
  <1>5. ASSUME NEW some \in Parts(rows, k)
        PROVE  Added(w, iter, some) = Added(w, more, some) /\ Added(w, iter, some) \in Nat
    <2>1. CASE some = {}
      BY <2>1 DEF Added
    <2>2. CASE some # {}
      <3> DEFINE rest == some \ {Pick(some)}
      <3>1. Pick(some) \in rows /\ rest \in Parts(rows, k - 1) /\ rest \in Parts(rows, k)
        BY <1>2, <2>2, OneLess, FS_Subset, FS_CardinalityType DEF Parts
      <3>2. more[rest] = iter[rest] /\ iter[rest] \in Nat
        BY <1>4, <3>1
      <3>3. w[Pick(some)] \in Nat
        BY <3>1
      <3> HIDE DEF more
      <3> QED
        BY <2>2, <3>2, <3>3 DEF Added
    <2> QED
      BY <2>1, <2>2
  <1>6. Adds(w, rows, k, more)
    BY <1>5 DEF Adds
  <1> QED
    BY <1>1, <1>6

(* Whatever adds up all parts finds natural numbers.                       *)
LEMMA SumsAreNatural ==
    ASSUME NEW rows, IsFiniteSet(rows), NEW w \in [rows -> Nat], NEW iter,
           \A some \in SUBSET rows : iter[some] = Added(w, iter, some)
    PROVE  iter[rows] \in Nat
  <1> DEFINE Bad == {k \in Nat : \E some \in Parts(rows, k) : iter[some] \notin Nat}
  <1>1. Cardinality(rows) \in Nat /\ rows \in Parts(rows, Cardinality(rows))
    BY FS_CardinalityType DEF Parts
  <1> SUFFICES ASSUME Bad # {} PROVE FALSE
    BY <1>1
  <1>2. PICK k \in Bad : \A m \in Bad : k <= m
    BY Smallest
  <1>3. PICK some \in Parts(rows, k) : iter[some] \notin Nat
    BY <1>2
  <1>4. iter[some] = Added(w, iter, some)
    BY <1>3 DEF Parts
  <1>5. some # {}
    BY <1>3, <1>4 DEF Added
  <1>6. k # 0 /\ Pick(some) \in rows /\ some \ {Pick(some)} \in Parts(rows, k - 1)
    BY <1>5, OneLess DEF Parts
  <1>7. iter[some \ {Pick(some)}] \in Nat
    BY <1>2, <1>6
  <1> QED
    BY <1>3, <1>4, <1>5, <1>6, <1>7 DEF Added

(* A fold is such a function, if there is one.                             *)
Sums(w, rows, iter) == [some \in SUBSET rows |-> Added(w, iter, some)]

(* So it finds a natural number.                                           *)
LEMMA FoldIsNatural ==
    ASSUME NEW rows, IsFiniteSet(rows), NEW w \in [rows -> Nat], NEW iter,
           \A g : g = Sums(w, rows, g) => iter = Sums(w, rows, iter)
    PROVE  iter[rows] \in Nat
  <1>1. Cardinality(rows) \in Nat /\ Parts(rows, Cardinality(rows)) = SUBSET rows
    BY FS_CardinalityType, FS_Subset DEF Parts
  <1>2. PICK g : Adds(w, rows, Cardinality(rows), g)
    BY <1>1, SumsExist
  <1>3. g = Sums(w, rows, g)
    BY <1>1, <1>2 DEF Adds, Sums
  <1>4. \A some \in SUBSET rows : iter[some] = Added(w, iter, some)
    BY <1>3 DEF Sums
  <1> QED
    BY <1>4, SumsAreNatural

-----------------------------------------------------------------------------
(* The total of a solution                                                 *)

Shape ==
    /\ alive \in BOOLEAN
    /\ DOMAIN items \subseteq 1 .. MaxItem
    /\ \A i \in DOMAIN items : items[i] \in Amount
    /\ req \in [Request ->
                  [at : Active \cup {"idle", "done", "failed"}, kind : Kinds \cup {None},
                   item : 1 .. MaxItem \cup {None}, amount : Amount \cup {None},
                   base : sums, sum : sums, alone : BOOLEAN]]

SumsAreNoted == 0 \in sums /\ total \in sums /\ ItemSum(items) \in sums

AloneIsRight ==
    \A r \in Request :
        r \in Running /\ req[r].alone =>
            /\ Running = {r} /\ alive
            /\ req[r].at \in {"refreshed", "summed"} => req[r].base = total
            /\ req[r].at = "summed" => req[r].sum = ItemSum(items)

(* Who adds or updates an item has an amount for it.                       *)
AmountIsGiven ==
    \A r \in Running : req[r].kind \in Kinds
                     /\ (req[r].kind # "delete" => req[r].amount \in Amount)

IInv == Shape /\ SumsAreNoted /\ AloneIsRight /\ AmountIsGiven

-----------------------------------------------------------------------------
(* The items of a solution add up to a natural number, none to 0.          *)
LEMMA ItemSumIsNatural ==
    ASSUME NEW f, IsFiniteSet(DOMAIN f), \A i \in DOMAIN f : f[i] \in Nat
    PROVE  ItemSum(f) \in Nat /\ (DOMAIN f = {} => ItemSum(f) = 0)
  <1> DEFINE rows == DOMAIN f
             w == [i \in rows |-> f[i]]
             Body(g) == [some \in SUBSET rows |->
                           IF some = {} THEN 0
                           ELSE f[CHOOSE x \in some : TRUE] + g[some \ {CHOOSE x \in some : TRUE}]]
             iter == CHOOSE g : g = Body(g)
  <1>1. ItemSum(f) = iter[rows]
    BY DEF ItemSum, MapThenSumSet, MapThenFoldSet
  <1>2. \A g : Body(g) = Sums(w, rows, g)
    BY DEF Sums, Added, Pick
  <1>3. w \in [rows -> Nat] /\ IsFiniteSet(rows)
    OBVIOUS
  <1>4. rows = {} => Sums(w, rows, [some \in SUBSET rows |-> 0]) = [some \in SUBSET rows |-> 0]
    BY DEF Sums, Added
  <1> HIDE DEF w, Body
  <1>5. \A g : g = Sums(w, rows, g) => iter = Sums(w, rows, iter)
    BY <1>2
  <1> HIDE DEF iter
  <1>6. rows = {} => iter[rows] = 0
    BY <1>4, <1>5 DEF Sums, Added
  <1>7. iter[rows] \in Nat
    BY <1>3, <1>5, FoldIsNatural
  <1> QED
    BY <1>1, <1>6, <1>7

(* The row id that is handed out next is positive.                         *)
LEMMA NextIdIsPositive == ASSUME Shape PROVE NextId \in Nat \ {0}
  <1>1. CASE DOMAIN items = {}
    BY <1>1 DEF NextId
  <1>2. CASE DOMAIN items # {}
    <2>1. DOMAIN items \subseteq Nat /\ Bounded(DOMAIN items)
      BY TotalsAssumption DEF Shape, Bounded
    <2>2. PICK n \in DOMAIN items : \A m \in DOMAIN items : m <= n
      BY <1>2, <2>1, Largest
    <2>3. \A m \in DOMAIN items : n >= m
      BY <2>1, <2>2
    <2>4. Max(DOMAIN items) \in DOMAIN items
      BY <2>3 DEF Max
    <2> QED
      BY <1>2, <2>1, <2>4 DEF NextId
  <1> QED
    BY <1>1, <1>2

(* Nothing is stored and nothing runs at first.                            *)
LEMMA InitIInv == Init => IInv
  <1> SUFFICES ASSUME Init PROVE IInv
    OBVIOUS
  <1>1. ItemSum(items) = 0
    BY ItemSumIsNatural, FS_EmptySet DEF Init
  <1>2. Running = {}
    BY DEF Init, Idle, Running, Active
  <1>3. Shape /\ SumsAreNoted
    BY <1>1 DEF Init, Idle, Shape, SumsAreNoted
  <1> QED
    BY <1>2, <1>3 DEF IInv, AloneIsRight, AmountIsGiven

-----------------------------------------------------------------------------
(* Steps                                                                   *)

Fields == [at : Active \cup {"idle", "done", "failed"}, kind : Kinds \cup {None},
           item : 1 .. MaxItem \cup {None}, amount : Amount \cup {None},
           base : sums, sum : sums, alone : BOOLEAN]

(* Once somebody else acts, nobody counts as alone any more.               *)
LEMMA DisturbedStep ==
    ASSUME IInv, req' = Disturbed, sums \subseteq sums'
    PROVE  /\ \A r \in Request : req'[r] \in Fields' /\ ~req'[r].alone
           /\ req' \in [Request -> Fields'] /\ AloneIsRight' /\ AmountIsGiven'
  <1>1. \A r \in Request :
           /\ req'[r] \in Fields' /\ ~req'[r].alone
           /\ req'[r].at = req[r].at /\ req'[r].kind = req[r].kind
           /\ req'[r].amount = req[r].amount
    BY DEF Disturbed, IInv, Shape, Fields
  <1>2. req' \in [Request -> Fields']
    BY <1>1 DEF Disturbed
  <1> QED
    BY <1>1, <1>2 DEF AloneIsRight, AmountIsGiven, IInv, Running

(* A request begins; it is alone if nobody runs.                           *)
LEMMA CheckStep == ASSUME IInv, NEW r \in Request, CheckAny(r) PROVE IInv'
  <1>1. PICK kind \in Kinds, i \in 1 .. MaxItem \cup {None}, a \in Amount \cup {None} :
           Check(r, kind, i, a) /\ (kind # "delete" => a \in Amount)
    BY DEF CheckAny, Kinds, IInv, Shape
  <1> DEFINE c == [Idle EXCEPT !.at = "checked", !.kind = kind, !.item = i,
                               !.amount = a, !.alone = (Running = {})]
  <1>2. /\ alive /\ UNCHANGED <<alive, items, total, sums>>
        /\ req' = [Disturbed EXCEPT ![r] = c]
    BY <1>1 DEF Check
  <1>3. /\ c \in Fields /\ c.at = "checked" /\ (c.alone <=> Running = {})
        /\ c.kind = kind /\ c.amount = a
    BY DEF Fields, Idle, Active, IInv, SumsAreNoted
  <1> HIDE DEF c
  <1>4. /\ req'[r] = c
        /\ \A q \in Request \ {r} : /\ req'[q] \in Fields /\ ~req'[q].alone
                                    /\ req'[q].at = req[q].at
                                    /\ req'[q].kind = req[q].kind
                                    /\ req'[q].amount = req[q].amount
    BY <1>2 DEF Disturbed, IInv, Shape, Fields
  <1>5. req' \in [Request -> Fields]
    BY <1>2, <1>3, <1>4 DEF Disturbed
  <1>6. Shape' /\ SumsAreNoted'
    BY <1>2, <1>5 DEF IInv, Shape, SumsAreNoted, Fields
  <1>7. AloneIsRight'
    <2>1. Running = {} => Running' = {r}
      BY <1>3, <1>4 DEF Running, Active
    <2> QED
      BY <1>2, <1>3, <1>4, <2>1 DEF AloneIsRight
  <1>8. AmountIsGiven'
    BY <1>1, <1>3, <1>4 DEF IInv, AmountIsGiven, Running
  <1> QED
    BY <1>6, <1>7, <1>8 DEF IInv

(* A step of a running request: whoever else runs is not alone, so only    *)
(* what it leaves for itself has to be right.                              *)
LEMMA RunnerStep ==
    ASSUME IInv, NEW r \in Running, NEW c \in Fields', req' = [req EXCEPT ![r] = c],
           UNCHANGED alive, sums \subseteq sums',
           DOMAIN items' \subseteq 1 .. MaxItem, \A i \in DOMAIN items' : items'[i] \in Amount,
           SumsAreNoted', c.alone = req[r].alone,
           c.at \in Active => c.kind = req[r].kind /\ c.amount = req[r].amount,
           c.at \in {"refreshed", "summed"} /\ c.alone => c.base = total',
           c.at = "summed" /\ c.alone => c.sum = ItemSum(items)'
    PROVE  IInv'
  <1>1. r \in Request /\ req[r] \in Fields
    BY DEF Running, IInv, Shape, Fields
  <1>2. req'[r] = c /\ \A q \in Request \ {r} : req'[q] = req[q]
    BY <1>1 DEF IInv, Shape
  <1>3. \A q \in Request : req'[q] \in Fields'
    BY <1>2 DEF IInv, Shape, Fields
  <1>4. Shape'
    BY <1>3 DEF IInv, Shape, Fields
  <1>5. AloneIsRight'
    <2> SUFFICES ASSUME NEW q \in Request, q \in Running', req'[q].alone
                 PROVE  /\ Running' = {q} /\ alive'
                        /\ req'[q].at \in {"refreshed", "summed"} => req'[q].base = total'
                        /\ req'[q].at = "summed" => req'[q].sum = ItemSum(items)'
      BY DEF AloneIsRight
    <2>1. q = r
      BY <1>1, <1>2 DEF IInv, AloneIsRight, Running
    <2>2. Running = {r} /\ alive
      BY <1>1, <1>2, <2>1 DEF IInv, AloneIsRight
    <2>3. Running' = {r}
      BY <1>2, <2>1, <2>2 DEF Running
    <2> QED
      BY <1>2, <2>1, <2>2, <2>3
  <1>6. AmountIsGiven'
    BY <1>2 DEF IInv, AmountIsGiven, Running
  <1> QED
    BY <1>4, <1>5, <1>6 DEF IInv

(* A request ends, in whichever way.                                       *)
LEMMA FinishStep ==
    ASSUME IInv, NEW r \in Running, NEW how \in {"done", "failed"}, Finish(r, how),
           UNCHANGED <<alive, items, sums>>, total' \in sums
    PROVE  IInv'
  <1> DEFINE c == [Idle EXCEPT !.at = how, !.alone = req[r].alone]
  <1>1. r \in Request /\ req[r] \in Fields
    BY DEF Running, IInv, Shape, Fields
  <1>2. req' = [req EXCEPT ![r] = c]
    BY DEF Finish
  <1>3. c \in Fields' /\ c.alone = req[r].alone /\ c.at \notin Active
    BY <1>1 DEF Fields, Idle, Active, IInv, SumsAreNoted
  <1>4. SumsAreNoted'
    BY DEF IInv, SumsAreNoted
  <1> HIDE DEF c
  <1> QED
    BY <1>2, <1>3, <1>4, RunnerStep DEF IInv, Shape, Active

(* A request that fails has changed nothing more.                          *)
LEMMA FailStep ==
    ASSUME IInv, NEW r \in Running, Fail(r)
    PROVE  IInv'
  BY FinishStep DEF Fail, IInv, SumsAreNoted

-----------------------------------------------------------------------------
(* The steps of a running request                                          *)

(* Items keep their types when one gets an amount.                         *)
LEMMA WithKeeps ==
    ASSUME Shape, NEW i \in 1 .. MaxItem, NEW a \in Amount
    PROVE  /\ DOMAIN With(i, a) \subseteq 1 .. MaxItem
           /\ \A j \in DOMAIN With(i, a) : With(i, a)[j] \in Amount
  BY DEF With, Shape

(* The first commit: an item appears, changes or goes.                     *)
LEMMA ChangeStep == ASSUME IInv, NEW r \in Request, Change(r) PROVE IInv'
  <1> DEFINE c == [req[r] EXCEPT !.at = "changed"]
  <1>1. r \in Running /\ req[r] \in Fields
    BY DEF Change, Running, Active, IInv, Shape, Fields
  <1>2. CASE Refused(r)
    BY <1>1, <1>2, FailStep DEF Change
  <1>3. CASE ~Refused(r)
    <2>1. /\ items' = ItemsAfter(r) /\ sums' = sums \cup {ItemSum(items')}
          /\ req' = [req EXCEPT ![r] = c] /\ UNCHANGED <<alive, total>>
      BY <1>3 DEF Change, Note
    <2>2. c \in Fields' /\ c.at = "changed" /\ c.alone = req[r].alone
          /\ c.kind = req[r].kind /\ c.amount = req[r].amount
      BY <1>1, <2>1 DEF Fields, Active
    <2>3. SumsAreNoted'
      BY <2>1 DEF IInv, SumsAreNoted
    <2>4. /\ req[r].kind \in Kinds /\ (req[r].kind # "delete" => req[r].amount \in Amount)
          /\ req[r].kind = "add" => NextId \in 1 .. MaxItem
          /\ req[r].kind = "update" => req[r].item \in DOMAIN items
      BY <1>1, <1>3, TotalsAssumption, NextIdIsPositive
         DEF IInv, AmountIsGiven, Change, Refused
    <2>5. /\ DOMAIN items' \subseteq 1 .. MaxItem
          /\ \A i \in DOMAIN items' : items'[i] \in Amount
      <3>1. CASE req[r].kind = "add"
        <4>1. items' = With(NextId, req[r].amount)
          BY <2>1, <3>1 DEF ItemsAfter
        <4> QED
          BY <2>4, <3>1, <4>1, WithKeeps DEF IInv
      <3>2. CASE req[r].kind = "update"
        <4>1. items' = With(req[r].item, req[r].amount)
          BY <2>1, <3>2 DEF ItemsAfter
        <4>2. req[r].item \in 1 .. MaxItem
          BY <2>4, <3>2 DEF IInv, Shape
        <4> QED
          BY <2>4, <3>2, <4>1, <4>2, WithKeeps DEF IInv
      <3>3. CASE req[r].kind = "delete"
        BY <2>1, <3>3 DEF ItemsAfter, Without, IInv, Shape
      <3> QED
        BY <2>4, <3>1, <3>2, <3>3 DEF Kinds
    <2> HIDE DEF c
    <2> QED
      BY <1>1, <2>1, <2>2, <2>3, <2>5, RunnerStep
  <1> QED
    BY <1>2, <1>3

(* The stored total is read.                                               *)
LEMMA RefreshStep == ASSUME IInv, NEW r \in Request, Refresh(r) PROVE IInv'
  <1> DEFINE c == [req[r] EXCEPT !.at = "refreshed", !.base = total]
  <1>1. r \in Running /\ req[r] \in Fields
    BY DEF Refresh, Running, Active, IInv, Shape, Fields
  <1>2. CASE ~alive
    BY <1>1, <1>2, FailStep DEF Refresh
  <1>3. CASE alive
    <2>1. req' = [req EXCEPT ![r] = c] /\ UNCHANGED <<alive, items, total, sums>>
      BY <1>3 DEF Refresh
    <2>2. /\ c \in Fields' /\ c.at = "refreshed" /\ c.alone = req[r].alone
          /\ c.base = total /\ c.kind = req[r].kind /\ c.amount = req[r].amount
      BY <1>1, <2>1 DEF Fields, Active, IInv, SumsAreNoted
    <2>3. SumsAreNoted'
      BY <2>1 DEF IInv, SumsAreNoted
    <2> HIDE DEF c
    <2> QED
      BY <1>1, <2>1, <2>2, <2>3, RunnerStep DEF IInv, Shape
  <1> QED
    BY <1>2, <1>3

(* The items are added up.                                                 *)
LEMMA AddUpStep == ASSUME IInv, NEW r \in Request, AddUp(r) PROVE IInv'
  <1> DEFINE c == [req[r] EXCEPT !.at = "summed", !.sum = ItemSum(items)]
  <1>1. r \in Running /\ req[r] \in Fields /\ req[r].at = "refreshed"
    BY DEF AddUp, Running, Active, IInv, Shape, Fields
  <1>2. req' = [req EXCEPT ![r] = c] /\ UNCHANGED <<alive, items, total, sums>>
    BY DEF AddUp
  <1>3. /\ c \in Fields' /\ c.at = "summed" /\ c.alone = req[r].alone
        /\ c.base = req[r].base /\ c.sum = ItemSum(items)
        /\ c.kind = req[r].kind /\ c.amount = req[r].amount
    BY <1>1, <1>2 DEF Fields, Active, IInv, SumsAreNoted
  <1>4. SumsAreNoted' /\ ItemSum(items)' = ItemSum(items)
    BY <1>2 DEF IInv, SumsAreNoted
  <1>5. req[r].alone => req[r].base = total
    BY <1>1 DEF IInv, AloneIsRight
  <1> HIDE DEF c
  <1> QED
    BY <1>1, <1>2, <1>3, <1>4, <1>5, RunnerStep DEF IInv, Shape

(* The second commit.                                                      *)
LEMMA StoreStep == ASSUME IInv, NEW r \in Request, Store(r) PROVE IInv'
  <1>1. r \in Running /\ req[r].sum \in sums /\ total \in sums
    BY DEF Store, Running, Active, IInv, Shape, SumsAreNoted
  <1>2. CASE Fail(r)
    BY <1>1, <1>2, FailStep
  <1>3. CASE ~Fail(r)
    <2>1. Finish(r, "done") /\ UNCHANGED <<alive, items, sums>> /\ total' \in sums
      BY <1>1, <1>3 DEF Store
    <2> QED
      BY <1>1, <2>1, FinishStep
  <1> QED
    BY <1>2, <1>3

-----------------------------------------------------------------------------
(* The steps of everybody else                                             *)

(* A BOM save and a merge change items, a deletion takes all of them.      *)
LEMMA WriterStep ==
    ASSUME IInv, SyncSnapshot \/ (\E a \in Amount : MergeExtra(a)) \/ DeleteSolution
    PROVE  IInv'
  <1>1. req' = Disturbed /\ sums \subseteq sums'
    BY DEF SyncSnapshot, MergeExtra, DeleteSolution, Note
  <1>2. /\ alive' \in BOOLEAN /\ DOMAIN items' \subseteq 1 .. MaxItem
        /\ \A i \in DOMAIN items' : items'[i] \in Amount
    <2>1. CASE SyncSnapshot
      BY <2>1 DEF SyncSnapshot, IInv, Shape
    <2>2. ASSUME NEW a \in Amount, MergeExtra(a) PROVE <1>2!:
      <3>1. NextId \in 1 .. MaxItem
        BY <2>2, TotalsAssumption, NextIdIsPositive DEF MergeExtra, IInv
      <3> QED
        BY <2>2, <3>1 DEF MergeExtra, With, IInv, Shape
    <2>3. CASE DeleteSolution
      BY <2>3 DEF DeleteSolution
    <2> QED
      BY <2>1, <2>2, <2>3
  <1>3. SumsAreNoted'
    <2>1. CASE SyncSnapshot \/ \E a \in Amount : MergeExtra(a)
      BY <2>1 DEF SyncSnapshot, MergeExtra, Note, IInv, SumsAreNoted
    <2>2. CASE DeleteSolution
      <3>1. ItemSum(items)' = 0
        BY <2>2, ItemSumIsNatural, FS_EmptySet DEF DeleteSolution
      <3> QED
        BY <2>2, <3>1 DEF DeleteSolution, IInv, SumsAreNoted
    <2> QED
      BY <2>1, <2>2
  <1>4. Shape'
    BY <1>1, <1>2, DisturbedStep DEF Shape, Fields
  <1> QED
    BY <1>1, <1>3, <1>4, DisturbedStep DEF IInv

(* After a restart nobody runs.                                            *)
LEMMA RestartStep == ASSUME IInv, Restart PROVE IInv'
  <1>1. /\ UNCHANGED <<alive, items, total, sums>>
        /\ req' = [r \in Request |-> IF r \in Running THEN [Idle EXCEPT !.at = "failed"]
                                     ELSE req[r]]
    BY DEF Restart
  <1>2. /\ [Idle EXCEPT !.at = "failed"] \in Fields
        /\ [Idle EXCEPT !.at = "failed"].at \notin Active
    BY DEF Idle, Fields, Active, IInv, SumsAreNoted
  <1>3. \A r \in Request : req'[r] \in Fields /\ req'[r].at \notin Active
    BY <1>1, <1>2 DEF IInv, Shape, Fields, Running
  <1>4. Shape' /\ SumsAreNoted'
    BY <1>1, <1>3 DEF IInv, Shape, SumsAreNoted, Fields
  <1>5. Running' = {}
    BY <1>3 DEF Running
  <1> QED
    BY <1>4, <1>5 DEF IInv, AloneIsRight, AmountIsGiven

(* The invariant is inductive.                                             *)
LEMMA NextIInv == ASSUME IInv, [Next]_vars PROVE IInv'
  <1>1. ASSUME NEW r \in Request,
               CheckAny(r) \/ Change(r) \/ Refresh(r) \/ AddUp(r) \/ Store(r)
        PROVE  IInv'
    BY <1>1, CheckStep, ChangeStep, RefreshStep, AddUpStep, StoreStep
  <1>2. CASE UNCHANGED vars
    BY <1>2 DEF vars, IInv, Shape, SumsAreNoted, AloneIsRight, AmountIsGiven, Running
  <1> QED
    BY <1>1, <1>2, WriterStep, RestartStep DEF Next

(* The invariant holds in every state.                                     *)
LEMMA Invariance == Spec => []IInv
  <1>1. Init => IInv
    BY InitIInv
  <1>2. IInv /\ [Next]_vars => IInv'
    BY NextIInv
  <1> QED
    BY <1>1, <1>2, PTL DEF Spec

-----------------------------------------------------------------------------
(* Theorems                                                                *)

(* What the items add up to is noted, and it is a natural number.          *)
LEMMA SumsStayNatural ==
    ASSUME IInv, IInv', sums \subseteq Nat, [Next]_vars PROVE sums' \subseteq Nat
  <1>1. ItemSum(items)' \in Nat
    <2>1. 1 \in Int /\ MaxItem \in Int
      BY TotalsAssumption
    <2>2. IsFiniteSet(1 .. MaxItem)
      BY <2>1, FS_Interval, Zenon
    <2>3. IsFiniteSet(DOMAIN items') /\ \A i \in DOMAIN items' : items'[i] \in Nat
      BY <2>2, FS_Subset, TotalsAssumption DEF IInv, Shape
    <2> QED
      BY <2>3, ItemSumIsNatural
  <1>2. sums' = sums \/ sums' = sums \cup {ItemSum(items)'}
    BY DEF Next, CheckAny, Check, Change, Fail, Note, Refresh, AddUp, Store, SyncSnapshot,
           MergeExtra, DeleteSolution, Restart, vars
  <1> QED
    BY <1>1, <1>2

(* The solution, its items and every request keep their types: whatever    *)
(* is read, added up and stored as a total is a natural number.            *)
THEOREM TotalTypesAlways == Spec => []TypeOK
  <1>1. Init => sums \subseteq Nat
    BY DEF Init
  <1>2. IInv /\ IInv' /\ sums \subseteq Nat /\ [Next]_vars => (sums \subseteq Nat)'
    BY SumsStayNatural
  <1>3. IInv /\ sums \subseteq Nat => TypeOK
    BY DEF IInv, Shape, SumsAreNoted, TypeOK
  <1> QED
    BY <1>1, <1>2, <1>3, Invariance, PTL DEF Spec

(* However item operations race, the stored total is one the items once    *)
(* had.                                                                    *)
THEOREM TotalCorrect == Spec => []TotalWasTrueOnce
  <1>1. IInv => TotalWasTrueOnce
    BY DEF IInv, SumsAreNoted, TotalWasTrueOnce
  <1> QED
    BY <1>1, Invariance, PTL

(* Only Store ends a request as done, and then the total is right if the   *)
(* request was alone.                                                      *)
LEMMA SettledStep ==
    ASSUME IInv, [Next]_vars, NEW r \in Running, req[r].alone, req'[r].at = "done"
    PROVE  total' = ItemSum(items')
  <1>1. r \in Request /\ req[r] \in Fields /\ req[r].at \in Active
    BY DEF Running, IInv, Shape, Fields
  <1>2. CASE Store(r)
    <2>1. /\ req[r].at = "summed" /\ req[r].base = total /\ req[r].sum = ItemSum(items)
          /\ req[r] \in Fields
      BY <1>1, <1>2 DEF Store, IInv, AloneIsRight
    <2>2. Fail(r) => req'[r].at = "failed"
      BY <1>1 DEF Fail, Finish, Idle, IInv, Shape
    <2>3. items' = items /\ total' = req[r].sum
      BY <1>2, <2>1, <2>2 DEF Store
    <2> QED
      BY <2>1, <2>3
  <1>3. CASE ~Store(r)
    <2>1. req'[r].at # "done"
      <3>1. ASSUME NEW q \in Request,
                   CheckAny(q) \/ Change(q) \/ Refresh(q) \/ AddUp(q) \/ (Store(q) /\ q # r)
            PROVE  req'[r].at # "done"
        <4>1. CASE CheckAny(q)
          <5>1. req[q].at = "idle" /\ \E c : req' = [Disturbed EXCEPT ![q] = c]
            BY <4>1 DEF CheckAny, Check
          <5>2. q # r
            BY <1>1, <5>1 DEF Active
          <5> QED
            BY <1>1, <5>1, <5>2 DEF Disturbed, Fields, Active
        <4>2. CASE Change(q) \/ Refresh(q) \/ AddUp(q)
          <5>1. CASE q # r
            BY <1>1, <4>2, <5>1
               DEF Change, Refresh, AddUp, Fail, Finish, Active, IInv, Shape
          <5>2. CASE q = r /\ Fail(r)
            BY <1>1, <5>2 DEF Fail, Finish, Idle, IInv, Shape
          <5>3. CASE q = r /\ ~Fail(r)
            <6>1. req'[r].at \in {"changed", "refreshed", "summed"}
              <7>1. CASE Change(r)
                BY <1>1, <5>3, <7>1 DEF Change, IInv, Shape, Fields
              <7>2. CASE Refresh(r)
                BY <1>1, <5>3, <7>2 DEF Refresh, IInv, Shape, Fields
              <7>3. CASE AddUp(r)
                BY <1>1, <7>3 DEF AddUp, IInv, Shape, Fields
              <7> QED
                BY <4>2, <5>3, <7>1, <7>2, <7>3
            <6> QED
              BY <6>1
          <5> QED
            BY <5>1, <5>2, <5>3
        <4>3. CASE Store(q) /\ q # r
          BY <1>1, <4>3 DEF Store, Fail, Finish, Active, IInv, Shape
        <4> QED
          BY <3>1, <4>1, <4>2, <4>3
      <3>2. CASE req' = Disturbed
        BY <1>1, <3>2 DEF Disturbed, Fields, Active
      <3>3. CASE Restart
        BY <1>1, <3>3 DEF Restart, Idle
      <3>4. CASE UNCHANGED vars
        BY <1>1, <3>4 DEF vars, Active
      <3> QED
        BY <1>3, <3>1, <3>2, <3>3, <3>4 DEF Next, SyncSnapshot, MergeExtra, DeleteSolution
    <2> QED
      BY <2>1
  <1> QED
    BY <1>2, <1>3

(* An item operation that nothing disturbs leaves the exact total.         *)
THEOREM LoneOperationCorrect == Spec => LoneOperationSettlesTotal
  <1>1. IInv /\ [Next]_vars =>
          [\A r \in Request :
              r \in Running /\ req[r].alone /\ req'[r].at = "done" => total' = ItemSum(items')]_vars
    BY SettledStep
  <1> QED
    BY <1>1, Invariance, PTL DEF Spec, LoneOperationSettlesTotal
-----------------------------------------------------------------------------
(* The total of a quotation                                                *)

(* The lines of a quotation add up to a natural number.                    *)
LEMMA LineSumIsNatural ==
    ASSUME NEW f, IsFiniteSet(DOMAIN f), \A i \in DOMAIN f : f[i].amount \in Nat
    PROVE  LineSum(f) \in Nat
  <1> DEFINE rows == DOMAIN f
             w == [i \in rows |-> f[i].amount]
             Body(g) == [some \in SUBSET rows |->
                           IF some = {} THEN 0
                           ELSE f[CHOOSE x \in some : TRUE].amount
                                  + g[some \ {CHOOSE x \in some : TRUE}]]
             iter == CHOOSE g : g = Body(g)
  <1>1. LineSum(f) = iter[rows]
    BY DEF LineSum, MapThenSumSet, MapThenFoldSet
  <1>2. \A g : Body(g) = Sums(w, rows, g)
    BY DEF Sums, Added, Pick
  <1>3. w \in [rows -> Nat] /\ IsFiniteSet(rows)
    OBVIOUS
  <1> HIDE DEF w, Body, rows
  <1>4. \A g : g = Sums(w, rows, g) => iter = Sums(w, rows, iter)
    BY <1>2
  <1> HIDE DEF iter
  <1> QED
    BY <1>1, <1>3, <1>4, FoldIsNatural

-----------------------------------------------------------------------------
(* The display order                                                       *)

LinesTyped == DOMAIN lines \subseteq 1 .. MaxLine /\ lines \in [DOMAIN lines -> Line]

Earlier(i) == {j \in DOMAIN lines : Before(j, i)}

(* There are at most MaxLine lines.                                        *)
LEMMA LinesAreFew ==
    ASSUME EditAssumption, LinesTyped
    PROVE  IsFiniteSet(DOMAIN lines) /\ Cardinality(DOMAIN lines) \in 0 .. MaxLine
  <1>1. MaxLine \in Nat /\ 1 \in Int /\ MaxLine \in Int
    BY DEF EditAssumption
  <1>2. IsFiniteSet(1 .. MaxLine) /\ (1 > MaxLine \/ Cardinality(1 .. MaxLine) = MaxLine - 1 + 1)
    BY <1>1, FS_Interval
  <1>3. IsFiniteSet(DOMAIN lines) /\ Cardinality(DOMAIN lines) <= Cardinality(1 .. MaxLine)
        /\ Cardinality(DOMAIN lines) \in Nat
    BY <1>2, FS_Subset, FS_CardinalityType DEF LinesTyped
  <1> QED
    BY <1>1, <1>2, <1>3 DEF EditAssumption

(* Of two lines one is shown first, and more lines come before the other.  *)
LEMMA PlacesDiffer ==
    ASSUME EditAssumption, LinesTyped, NEW i \in DOMAIN lines
    PROVE  /\ Place(i) \in 1 .. Cardinality(DOMAIN lines)
           /\ \A j \in DOMAIN lines : Before(i, j) => Place(i) < Place(j)
           /\ \A j \in DOMAIN lines \ {i} : Before(i, j) \/ Before(j, i)
  <1>1. \A j \in DOMAIN lines : j \in Nat /\ lines[j].pos \in Nat
    BY DEF LinesTyped, Line, EditAssumption
  <1>2. ASSUME NEW j \in DOMAIN lines
        PROVE  /\ IsFiniteSet(Earlier(j)) /\ Cardinality(Earlier(j)) \in Nat
               /\ Place(j) = Cardinality(Earlier(j)) + 1
    BY LinesAreFew, FS_Subset, FS_CardinalityType DEF Earlier, Place
  <1>3. i \notin Earlier(i) /\ Earlier(i) \cup {i} \subseteq DOMAIN lines
    BY <1>1 DEF Earlier, Before
  <1>4. /\ IsFiniteSet(Earlier(i) \cup {i})
        /\ Cardinality(Earlier(i) \cup {i}) = Cardinality(Earlier(i)) + 1
    BY <1>2, <1>3, FS_AddElement
  <1>5. Cardinality(Earlier(i) \cup {i}) <= Cardinality(DOMAIN lines)
    BY <1>3, LinesAreFew, FS_Subset
  <1>6. ASSUME NEW j \in DOMAIN lines, Before(i, j)
        PROVE  Place(i) < Place(j)
    <2>1. Earlier(i) \cup {i} \subseteq Earlier(j)
      BY <1>1, <1>6 DEF Earlier, Before
    <2>2. Cardinality(Earlier(i) \cup {i}) <= Cardinality(Earlier(j))
      BY <1>2, <2>1, FS_Subset
    <2> QED
      BY <1>2, <1>4, <2>2
  <1>7. \A j \in DOMAIN lines \ {i} : Before(i, j) \/ Before(j, i)
    BY <1>1 DEF Before
  <1>8. Place(i) \in 1 .. Cardinality(DOMAIN lines)
    BY <1>2, <1>4, <1>5, LinesAreFew
  <1> QED
    BY <1>6, <1>7, <1>8

(* Every line is shown, in its place, and nothing else is.                 *)
LEMMA OrderedIsAll ==
    ASSUME EditAssumption, LinesTyped
    PROVE  /\ Ordered \in Lines
           /\ \A i \in DOMAIN lines : Place(i) \in DOMAIN Ordered /\ Ordered[Place(i)] = lines[i]
           /\ \A k \in DOMAIN Ordered : \E i \in DOMAIN lines : Place(i) = k
  <1> DEFINE n == Cardinality(DOMAIN lines)
             places == [i \in DOMAIN lines |-> Place(i)]
  <1>1. n \in Nat /\ n <= MaxLine /\ IsFiniteSet(DOMAIN lines)
    BY LinesAreFew DEF EditAssumption
  <1> HIDE DEF n
  <1>2. \A i \in DOMAIN lines : Place(i) \in 1 .. n /\ Place(i) \in Nat
    BY <1>1, PlacesDiffer DEF n
  <1>3. \A i, j \in DOMAIN lines : Place(i) = Place(j) => i = j
    <2> SUFFICES ASSUME NEW i \in DOMAIN lines, NEW j \in DOMAIN lines, i # j
                 PROVE  Place(i) # Place(j)
      OBVIOUS
    <2>1. Place(i) < Place(j) \/ Place(j) < Place(i)
      BY PlacesDiffer
    <2> QED
      BY <1>2, <2>1
  <1>4. places \in Injection(DOMAIN lines, 1 .. n)
    BY <1>2, <1>3 DEF Injection, IsInjective
  <1>5. IsFiniteSet(1 .. n) /\ Cardinality(1 .. n) = n
    <2>1. 1 \in Int /\ n \in Int
      BY <1>1
    <2>2. IsFiniteSet(1 .. n)
          /\ Cardinality(1 .. n) = IF 1 > n THEN 0 ELSE n - 1 + 1
      BY <2>1, FS_Interval, Zenon
    <2> QED
      BY <1>1, <2>2
  <1>6. places \in Surjection(DOMAIN lines, 1 .. n)
    BY <1>4, <1>5, FS_Injection DEF n
  <1>7. \A k \in 1 .. n : \E i \in DOMAIN lines : Place(i) = k
    BY <1>6 DEF Surjection
  <1>8. Ordered = [k \in 1 .. n |-> lines[CHOOSE i \in DOMAIN lines : Place(i) = k]]
    BY DEF Ordered, n
  <1>9. \A k \in 1 .. n : lines[CHOOSE i \in DOMAIN lines : Place(i) = k] \in Line
    BY <1>7 DEF LinesTyped
  <1>10. Ordered \in Lines
    BY <1>1, <1>8, <1>9 DEF Lines
  <1>11. \A i \in DOMAIN lines : Ordered[Place(i)] = lines[i]
    BY <1>2, <1>3, <1>8
  <1> QED
    BY <1>2, <1>7, <1>8, <1>10, <1>11

(* What the user makes of the page is a page.                              *)
LEMMA EditsAreSheets ==
    ASSUME EditAssumption, NEW p \in Sheet PROVE Edits(p) \subseteq Sheet
  <1> DEFINE new == [sku : Sku, amount : Worth, cost : IF may THEN Cost ELSE {Absent}]
  <1>1. p \in Seq(Row) /\ Len(p) \in Nat /\ Len(p) <= MaxLine /\ \A k \in 1 .. Len(p) : p[k] \in Row
    BY DEF Sheet
  <1>2. Reverse(p) \in Sheet
    BY <1>1 DEF Reverse, Sheet
  <1>3. ASSUME NEW k \in DOMAIN p PROVE RemoveAt(p, k) \in Sheet
    <2>1. k \in 1 .. Len(p)
      BY <1>1
    <2>2. SubSeq(p, 1, k - 1) \in Seq(Row) /\ Len(SubSeq(p, 1, k - 1)) = k - 1
      BY <1>1, <2>1
    <2>3. SubSeq(p, k + 1, Len(p)) \in Seq(Row) /\ Len(SubSeq(p, k + 1, Len(p))) = Len(p) - k
      BY <1>1, <2>1
    <2> QED
      BY <1>1, <2>1, <2>2, <2>3 DEF RemoveAt, Sheet, EditAssumption
  <1>4. ASSUME NEW r \in new, Len(p) < MaxLine PROVE <<r>> \o p \in Sheet
    <2>1. r \in Row
      BY DEF Row
    <2> QED
      BY <1>1, <1>4, <2>1 DEF Sheet, EditAssumption
  <1>5. ASSUME NEW k \in DOMAIN p, NEW r \in new PROVE [p EXCEPT ![k] = r] \in Sheet
    <2>1. r \in Row
      BY DEF Row
    <2> QED
      BY <1>1, <2>1 DEF Sheet
  <1>6. {p, Reverse(p)} \cup {RemoveAt(p, k) : k \in DOMAIN p} \subseteq Sheet
    BY <1>2, <1>3
  <1>7. {<<n>> \o p : n \in IF Len(p) < MaxLine THEN new ELSE {}} \subseteq Sheet
    BY <1>4
  <1>8. UNION {{[p EXCEPT ![k] = n] : n \in {m \in new : m.sku = p[k].sku}} : k \in DOMAIN p}
        \subseteq Sheet
    BY <1>5
  <1> QED
    BY <1>6, <1>7, <1>8 DEF Edits

-----------------------------------------------------------------------------
(* The invariant                                                           *)

(* What an edit has read is still so.                                      *)
Present(c) ==
    /\ exists
    /\ c.at \in {"reloaded", "summed", "matched"} => c.base = totalAmount
    /\ c.at = "summed" => c.sum = LineSum(lines)
    /\ c.at = "matched" => c.old = Ordered

(* What it will write fits.                                                *)
Sound(c) ==
    /\ c.at = "checked" /\ c.kind \in {"add", "update"} => c.rows \in Lines /\ Len(c.rows) = 1
    /\ c.at = "matched" => c.rows \in Sheet

AloneSeesAll == \A r \in Editing : edit[r].alone => Editing = {r} /\ Present(edit[r])

EditIInv == EditTypeOK /\ (\A r \in Editor : Sound(edit[r])) /\ AloneSeesAll

(* A step of an edit under way: whoever else is under way is not alone.    *)
LEMMA MoveOn ==
    ASSUME EditIInv, NEW r \in Editing, NEW c \in Draft', Step(r, c), EditRowsTyped', may' = may,
           Sound(c)', c.alone => edit[r].alone, c.alone /\ c.at \in Underway => Present(c)'
    PROVE  EditIInv'
  <1>1. r \in Editor /\ edit \in [Editor -> Draft]
    BY DEF EditIInv, EditTypeOK, Editing
  <1>2. /\ DOMAIN edit' = Editor /\ edit'[r] = c
        /\ \A q \in Editor \ {r} : edit'[q] = edit[q]
    BY <1>1 DEF Step
  <1>3. Draft' = Draft /\ \A q \in Editor : Sound(edit[q])' <=> Sound(edit'[q])
    BY DEF Draft, Sheet, Row, Lines, Sound
  <1>4. edit' \in [Editor -> Draft']
    <2>1. edit' = [q \in Editor |-> IF q = r THEN c ELSE edit[q]]
      BY <1>1, <1>2 DEF Step
    <2> QED
      BY <1>1, <1>3, <2>1
  <1>5. \A q \in Editor : Sound(edit[q])'
    <2>1. Sound(edit[r])'
      BY <1>2 DEF Sound
    <2>2. \A q \in Editor \ {r} : Sound(edit[q])'
      BY <1>2 DEF EditIInv, Sound, Sheet, Row, Lines
    <2> QED
      BY <2>1, <2>2
  <1>6. AloneSeesAll'
    <2> SUFFICES ASSUME NEW q \in Editing', edit'[q].alone
                 PROVE  Editing' = {q} /\ Present(edit[q])'
      BY DEF AloneSeesAll
    <2>1. q = r
      <3>1. ASSUME q # r PROVE FALSE
        <4>1. q \in Editing /\ edit[q].alone
          BY <1>2, <3>1 DEF Editing
        <4> QED
          BY <3>1, <4>1 DEF EditIInv, AloneSeesAll
      <3> QED
        BY <3>1
    <2>2. Editing = {r}
      BY <1>2, <2>1 DEF EditIInv, AloneSeesAll
    <2>3. Editing' = {r}
      BY <1>2, <2>1, <2>2 DEF Editing
    <2>4. Present(edit[q])'
      BY <1>2, <2>1 DEF Editing, Present
    <2> QED
      BY <2>1, <2>3, <2>4
  <1> QED
    BY <1>4, <1>5, <1>6 DEF EditIInv, EditTypeOK

(* The fields of a draft, for proofs that need not look into them.         *)
DraftAt == Underway \cup {"idle", "done", "failed"}
DraftKind == {"add", "update", "delete", "bom", Absent}
DraftId == 1 .. MaxLine \cup {Absent}
DraftRows == Sheet \cup Lines

(* A draft is a record of those fields.                                    *)
LEMMA DraftIs ==
    Draft = [at : DraftAt, kind : DraftKind, id : DraftId, base : Nat, sum : Nat,
             old : Lines, rows : DraftRows, alone : BOOLEAN]
  BY DEF Draft, DraftAt, DraftKind, DraftId, DraftRows

(* Whether an edit is alone says nothing of the rest of it.                *)
LEMMA AloneApart ==
    ASSUME NEW e \in Draft, NEW b \in BOOLEAN, NEW f, f = [e EXCEPT !.alone = b]
    PROVE  /\ f \in Draft /\ (f.alone <=> b) /\ f.at = e.at /\ f.kind = e.kind
           /\ f.rows = e.rows /\ f.base = e.base /\ f.sum = e.sum /\ f.old = e.old
  BY DraftIs

(* An edit that is disturbed is otherwise what it was.                     *)
LEMMA OthersWait ==
    ASSUME EditIInv, may' = may, NEW q \in Editor, edit'[q] = [edit[q] EXCEPT !.alone = FALSE]
    PROVE  edit'[q] \in Draft' /\ ~edit'[q].alone /\ Sound(edit[q])' /\ edit'[q].at = edit[q].at
  <1>1. edit[q] \in Draft /\ Draft' = Draft
    BY DEF EditIInv, EditTypeOK, Draft, Sheet, Row, Lines
  <1>2. /\ edit'[q] \in Draft /\ ~edit'[q].alone /\ edit'[q].at = edit[q].at
        /\ edit'[q].kind = edit[q].kind /\ edit'[q].rows = edit[q].rows
    BY <1>1, AloneApart
  <1> QED
    BY <1>1, <1>2 DEF EditIInv, Sound, Sheet, Row, Lines

(* An edit that begins, or writes over the heads of the others, disturbs   *)
(* them.                                                                   *)
LEMMA TakeTurn ==
    ASSUME EditIInv, NEW r \in Editor, NEW c \in Draft', Become(r, c), EditRowsTyped', may' = may,
           Sound(c)', c.alone /\ c.at \in Underway => Editing \subseteq {r} /\ Present(c)'
    PROVE  EditIInv'
  <1>1. /\ DOMAIN edit' = Editor /\ edit'[r] = c
        /\ \A q \in Editor \ {r} : edit'[q] = [edit[q] EXCEPT !.alone = FALSE]
    BY DEF Become
  <1>2. \A q \in Editor \ {r} : /\ edit'[q] \in Draft' /\ ~edit'[q].alone /\ Sound(edit[q])'
                                /\ edit'[q].at = edit[q].at
    BY <1>1, OthersWait
  <1>3. \A q \in Editor : edit'[q] \in Draft' /\ Sound(edit[q])'
    BY <1>1, <1>2 DEF Sound
  <1>4. edit' \in [Editor -> Draft']
    BY <1>3 DEF Become
  <1>5. AloneSeesAll'
    <2> SUFFICES ASSUME NEW q \in Editing', edit'[q].alone
                 PROVE  Editing' = {q} /\ Present(edit[q])'
      BY DEF AloneSeesAll
    <2>1. q = r /\ c.alone /\ c.at \in Underway
      BY <1>1, <1>2 DEF Editing
    <2>2. Editing' = {r}
      BY <1>1, <1>2, <2>1 DEF Editing
    <2>3. Present(edit[r])'
      BY <1>1, <2>1 DEF Present
    <2> QED
      BY <2>1, <2>2, <2>3
  <1> QED
    BY <1>3, <1>4, <1>5 DEF EditIInv, EditTypeOK

(* A quotation that goes disturbs everybody.                               *)
LEMMA DeletionStep == ASSUME EditAssumption, EditIInv, DeleteQuotation PROVE EditIInv'
  <1>1. /\ may' = may /\ page' = page /\ exists' = FALSE /\ totalAmount' = 0
        /\ lines' = [i \in {} |-> Absent]
        /\ \A q \in Editor : edit'[q] = [edit[q] EXCEPT !.alone = FALSE]
    BY DEF DeleteQuotation
  <1>2. EditRowsTyped'
    BY <1>1 DEF EditIInv, EditTypeOK, EditRowsTyped, LinesTyped, Sheet, Row
  <1>3. \A q \in Editor : edit'[q] \in Draft' /\ ~edit'[q].alone /\ Sound(edit[q])'
    BY <1>1, OthersWait
  <1>4. edit' \in [Editor -> Draft']
    BY <1>3 DEF DeleteQuotation
  <1> QED
    BY <1>2, <1>3, <1>4 DEF EditIInv, EditTypeOK, AloneSeesAll, Editing

(* An edit at rest is a draft.                                             *)
LEMMA EndedIsDraft ==
    ASSUME EditAssumption, NEW how \in {"idle", "done", "failed"}
    PROVE  /\ [IdleEdit EXCEPT !.at = how] \in Draft /\ [IdleEdit EXCEPT !.at = how].at = how
           /\ ~[IdleEdit EXCEPT !.at = how].alone
           /\ Sound([IdleEdit EXCEPT !.at = how])
  <1>1. <<>> \in Lines
    BY DEF Lines, EditAssumption
  <1> QED
    BY <1>1 DEF IdleEdit, Draft, Sound

(* After a restart nobody is under way.                                    *)
LEMMA EditRestartStep == ASSUME EditAssumption, EditIInv, EditRestart PROVE EditIInv'
  <1>1. /\ UNCHANGED <<exists, lines, totalAmount, may, page>>
        /\ edit' = [r \in Editor |-> IF r \in Editing THEN Ended("failed") ELSE edit[r]]
    BY DEF EditRestart
  <1>2. Draft' = Draft /\ EditRowsTyped'
    BY <1>1 DEF EditIInv, EditTypeOK, Draft, EditRowsTyped, LinesTyped, Sheet, Row, Lines
  <1> DEFINE gone == Ended("failed")
  <1>3. gone \in Draft /\ gone.at = "failed" /\ ~gone.alone /\ Sound(gone)
    BY EndedIsDraft DEF Ended
  <1> HIDE DEF gone
  <1>4. \A r \in Editor : edit'[r] = gone \/ (edit'[r] = edit[r] /\ edit[r].at \notin Underway)
    BY <1>1 DEF gone, Editing
  <1>5. \A r \in Editor : edit'[r] \in Draft /\ edit'[r].at \notin Underway /\ Sound(edit'[r])
    BY <1>3, <1>4 DEF EditIInv, EditTypeOK, Underway
  <1>6. \A r \in Editor : Sound(edit[r])'
    BY <1>1, <1>5 DEF Sound, Sheet, Row, Lines
  <1>7. edit' \in [Editor -> Draft']
    BY <1>1, <1>2, <1>5
  <1> QED
    BY <1>2, <1>5, <1>6, <1>7 DEF EditIInv, EditTypeOK, AloneSeesAll, Editing

-----------------------------------------------------------------------------
(* The steps                                                               *)

(* An edit that begins has seen what is there.                             *)
LEMMA BeginStep ==
    ASSUME EditIInv, NEW r \in Editor, NEW to \in Draft, Begin(r, to), Sound(to), Present(to),
           UNCHANGED <<exists, lines, totalAmount, may, page>>
    PROVE  EditIInv'
  <1>1. Draft' = Draft /\ EditRowsTyped'
    BY DEF EditIInv, EditTypeOK, Draft, EditRowsTyped, Sheet, Row, Lines
  <1>2. PICK b \in BOOLEAN : b <=> Editing = {}
    OBVIOUS
  <1>3. b = (Editing = {})
    BY <1>2
  <1>4. PICK c : c = [to EXCEPT !.alone = b]
    OBVIOUS
  <1>5. /\ c \in Draft /\ (c.alone <=> b) /\ c.at = to.at /\ c.kind = to.kind
        /\ c.rows = to.rows /\ c.base = to.base /\ c.sum = to.sum /\ c.old = to.old
    BY <1>4, AloneApart
  <1>6. Become(r, c)
    BY <1>3, <1>4 DEF Begin
  <1>7. Sound(c)'
    BY <1>5 DEF Sound, Sheet, Row, Lines
  <1>8. Present(c)'
    <2>1. Ordered' = Ordered
      BY DEF Ordered, Place, Before
    <2> QED
      BY <1>5, <2>1 DEF Present
  <1> QED
    BY <1>1, <1>2, <1>5, <1>6, <1>7, <1>8, TakeTurn

(* A request to add a line begins.                                         *)
LEMMA AddItemStep ==
    ASSUME EditAssumption, EditIInv, NEW r \in Editor, NEW s \in Sku, NEW a \in Worth,
           AddItem(r, s, a)
    PROVE  EditIInv'
  <1> DEFINE line == [sku |-> s, cost |-> ListCost, amount |-> a, pos |-> 0]
             to == [IdleEdit EXCEPT !.at = "checked", !.kind = "add", !.rows = <<line>>]
  <1>1. line \in Line
    BY DEF Line, ListCost, EditAssumption
  <1> HIDE DEF line
  <1>2. <<line>> \in Lines /\ Len(<<line>>) = 1 /\ <<>> \in Lines
    BY <1>1 DEF Lines, EditAssumption
  <1>3. /\ to \in Draft /\ to.at = "checked" /\ to.rows = <<line>>
    BY <1>2 DEF IdleEdit, Draft, Underway
  <1>4. Begin(r, to) /\ exists /\ UNCHANGED <<exists, lines, totalAmount, may, page>>
    BY DEF AddItem, line
  <1> HIDE DEF to
  <1>5. Sound(to) /\ Present(to)
    BY <1>2, <1>3, <1>4 DEF Sound, Present
  <1> QED
    BY <1>3, <1>4, <1>5, BeginStep

(* A request to change a line begins.                                      *)
LEMMA UpdateItemStep ==
    ASSUME EditAssumption, EditIInv, NEW r \in Editor, NEW i \in DOMAIN lines, NEW a \in Worth,
           UpdateItem(r, i, a)
    PROVE  EditIInv'
  <1> DEFINE line == [lines[i] EXCEPT !.amount = a]
             to == [IdleEdit EXCEPT !.at = "checked", !.kind = "update", !.id = i,
                                    !.rows = <<line>>, !.old = <<lines[i]>>]
  <1>1. lines[i] \in Line /\ i \in 1 .. MaxLine
    BY DEF EditIInv, EditTypeOK, EditRowsTyped
  <1>2. line \in Line
    BY <1>1 DEF Line
  <1> HIDE DEF line
  <1>3. <<line>> \in Lines /\ Len(<<line>>) = 1 /\ <<lines[i]>> \in Lines
    BY <1>1, <1>2 DEF Lines, EditAssumption
  <1>4. /\ to \in Draft /\ to.at = "checked" /\ to.rows = <<line>>
    BY <1>1, <1>3 DEF IdleEdit, Draft, Underway
  <1>5. Begin(r, to) /\ exists /\ UNCHANGED <<exists, lines, totalAmount, may, page>>
    BY DEF UpdateItem, line
  <1> HIDE DEF to
  <1>6. Sound(to) /\ Present(to)
    BY <1>3, <1>4, <1>5 DEF Sound, Present
  <1> QED
    BY <1>4, <1>5, <1>6, BeginStep

(* A request to delete a line begins.                                      *)
LEMMA DeleteItemStep ==
    ASSUME EditAssumption, EditIInv, NEW r \in Editor, NEW i \in DOMAIN lines, DeleteItem(r, i)
    PROVE  EditIInv'
  <1> DEFINE to == [IdleEdit EXCEPT !.at = "checked", !.kind = "delete", !.id = i]
  <1>1. i \in 1 .. MaxLine /\ <<>> \in Lines
    BY DEF EditIInv, EditTypeOK, EditRowsTyped, Lines, EditAssumption
  <1>2. to \in Draft /\ to.at = "checked" /\ to.kind = "delete"
    BY <1>1 DEF IdleEdit, Draft, Underway
  <1>3. Begin(r, to) /\ exists /\ UNCHANGED <<exists, lines, totalAmount, may, page>>
    BY DEF DeleteItem
  <1> HIDE DEF to
  <1>4. Sound(to) /\ Present(to)
    BY <1>2, <1>3 DEF Sound, Present
  <1> QED
    BY <1>2, <1>3, <1>4, BeginStep

(* Rows that nobody changes keep their types.                              *)
LEMMA RowsStay ==
    ASSUME EditIInv, UNCHANGED <<exists, lines, totalAmount, may, page>>
    PROVE  EditRowsTyped' /\ Ordered' = Ordered
  BY DEF EditIInv, EditTypeOK, EditRowsTyped, Sheet, Row, Ordered, Place, Before

(* A failure ends an edit.                                                 *)
LEMMA GiveUpStep ==
    ASSUME EditAssumption, EditIInv, NEW r \in Editing, GiveUp(r), UNCHANGED <<may, page>>
    PROVE  EditIInv'
  <1> DEFINE c == Ended("failed")
  <1>1. c \in Draft /\ c.at = "failed" /\ ~c.alone
    BY EndedIsDraft DEF Ended
  <1>2. Step(r, c) /\ UNCHANGED <<exists, lines, totalAmount, may, page>>
    BY DEF GiveUp
  <1> HIDE DEF c
  <1>3. Draft' = Draft /\ EditRowsTyped' /\ Sound(c)'
    BY <1>1, <1>2, RowsStay DEF Draft, Sheet, Row, Lines, Sound
  <1> QED
    BY <1>1, <1>2, <1>3, MoveOn

(* Lines that change and keep their types, while nothing else changes.     *)
LEMMA LinesTypedBy ==
    ASSUME EditAssumption, EditIInv, UNCHANGED <<exists, totalAmount, may, page>>,
           DOMAIN lines' \subseteq 1 .. MaxLine, lines' \in [DOMAIN lines' -> Line]
    PROVE  EditRowsTyped'
  BY DEF EditIInv, EditTypeOK, EditRowsTyped, Sheet, Row, Line

(* The first commit changes one line.                                      *)
LEMMA ChangeLineStep ==
    ASSUME EditAssumption, EditIInv, NEW r \in Editing, ChangeLine(r) PROVE EditIInv'
  <1>1. r \in Editor /\ edit[r] \in Draft /\ edit[r].at = "checked" /\ UNCHANGED <<may, page>>
        /\ (edit[r].alone => exists)
    BY DEF EditIInv, EditTypeOK, Editing, ChangeLine, AloneSeesAll, Present
  <1>2. PICK c : c = [edit[r] EXCEPT !.at = "changed", !.rows = <<>>, !.old = <<>>]
    OBVIOUS
  <1>3. c \in Draft /\ c.at = "changed" /\ (c.alone <=> edit[r].alone)
    <2>1. <<>> \in Lines /\ <<>> \in DraftRows /\ "changed" \in DraftAt
      BY DEF Lines, DraftRows, DraftAt, Underway, EditAssumption
    <2> QED
      BY <1>1, <1>2, <2>1, DraftIs
  <1>4. Draft' = Draft /\ Sound(c)'
    BY <1>1, <1>3 DEF Draft, Sheet, Row, Lines, Sound
  <1>5. ASSUME Step(r, c), UNCHANGED exists, EditRowsTyped' PROVE EditIInv'
    <2>1. c.alone => Present(c)'
      BY <1>1, <1>3, <1>5 DEF Present
    <2> QED
      BY <1>1, <1>3, <1>4, <1>5, <2>1, MoveOn
  <1>6. edit[r].kind \in {"add", "update"} => edit[r].rows[1] \in Line
    BY <1>1 DEF EditIInv, Sound, Lines
  <1>7. DOMAIN lines \subseteq 1 .. MaxLine /\ lines \in [DOMAIN lines -> Line] /\ MaxLine \in Nat
    BY DEF EditIInv, EditTypeOK, EditRowsTyped, EditAssumption
  <1>8. CASE /\ edit[r].kind = "add" /\ exists /\ NextLine <= MaxLine
             /\ lines' = WithLine(NextLine, edit[r].rows[1])
             /\ Step(r, c) /\ UNCHANGED <<exists, totalAmount>>
    <2>1. NextLine \in 1 .. MaxLine
      <3>1. Max(DOMAIN lines \cup {0}) \in 0 .. MaxLine
        BY <1>7, NextOf
      <3> QED
        BY <1>7, <1>8, <3>1 DEF NextLine
    <2>2. DOMAIN lines' \subseteq 1 .. MaxLine /\ lines' \in [DOMAIN lines' -> Line]
      BY <1>6, <1>7, <1>8, <2>1 DEF WithLine
    <2> QED
      BY <1>1, <1>5, <1>8, <2>2, LinesTypedBy
  <1>9. CASE /\ edit[r].kind = "update" /\ edit[r].id \in DOMAIN lines
             /\ lines' = [lines EXCEPT ![edit[r].id].amount = edit[r].rows[1].amount]
             /\ Step(r, c) /\ UNCHANGED <<exists, totalAmount>>
    <2>1. edit[r].rows[1].amount \in Worth /\ lines[edit[r].id] \in Line
      BY <1>6, <1>7, <1>9 DEF Line
    <2>2. [lines[edit[r].id] EXCEPT !.amount = edit[r].rows[1].amount] \in Line
      BY <2>1 DEF Line
    <2>3. DOMAIN lines' \subseteq 1 .. MaxLine /\ lines' \in [DOMAIN lines' -> Line]
      BY <1>7, <1>9, <2>2
    <2> QED
      BY <1>1, <1>5, <1>9, <2>3, LinesTypedBy
  <1>10. CASE Step(r, c) /\ UNCHANGED <<exists, lines, totalAmount>>
    BY <1>1, <1>5, <1>10, RowsStay
  <1>11. CASE /\ lines' = WithoutLine(edit[r].id)
              /\ Step(r, c) /\ UNCHANGED <<exists, totalAmount>>
    <2>1. DOMAIN lines' \subseteq 1 .. MaxLine /\ lines' \in [DOMAIN lines' -> Line]
      BY <1>7, <1>11 DEF WithoutLine
    <2> QED
      BY <1>1, <1>5, <1>11, <2>1, LinesTypedBy
  <1>12. CASE GiveUp(r)
    BY <1>1, <1>12, GiveUpStep
  <1> QED
    BY <1>2, <1>8, <1>9, <1>10, <1>11, <1>12 DEF ChangeLine

(* Then the quotation is read again,                                       *)
LEMMA ReloadStep ==
    ASSUME EditAssumption, EditIInv, NEW r \in Editing, Reload(r) PROVE EditIInv'
  <1>1. r \in Editor /\ edit[r] \in Draft /\ UNCHANGED <<may, page>> /\ totalAmount \in Nat
    BY DEF EditIInv, EditTypeOK, EditRowsTyped, Editing, Reload
  <1>2. CASE GiveUp(r)
    BY <1>1, <1>2, GiveUpStep
  <1>3. CASE ~GiveUp(r)
    <2>1. PICK c : c = [edit[r] EXCEPT !.at = "reloaded", !.base = totalAmount]
      OBVIOUS
    <2>2. exists /\ Step(r, c) /\ UNCHANGED <<exists, lines, totalAmount, may, page>>
      BY <1>3, <2>1 DEF Reload
    <2>3. c \in Draft /\ c.at = "reloaded" /\ c.base = totalAmount /\ (c.alone <=> edit[r].alone)
      <3>1. "reloaded" \in DraftAt
        BY DEF DraftAt, Underway
      <3> QED
        BY <1>1, <2>1, <3>1, DraftIs
    <2>4. Draft' = Draft /\ EditRowsTyped' /\ Sound(c)' /\ Present(c)'
      BY <2>2, <2>3, RowsStay DEF Draft, Sheet, Row, Lines, Sound, Present
    <2> QED
      BY <2>2, <2>3, <2>4, MoveOn
  <1> QED
    BY <1>2, <1>3

(* its lines are added up,                                                 *)
LEMMA AddLinesStep ==
    ASSUME EditAssumption, EditIInv, NEW r \in Editing, AddLines(r) PROVE EditIInv'
  <1>1. r \in Editor /\ edit[r] \in Draft /\ edit[r].at = "reloaded"
    BY DEF EditIInv, EditTypeOK, Editing, AddLines
  <1>2. LineSum(lines) \in Nat
    <2>1. IsFiniteSet(DOMAIN lines)
      BY LinesAreFew DEF LinesTyped, EditIInv, EditTypeOK, EditRowsTyped
    <2>2. \A i \in DOMAIN lines : lines[i].amount \in Nat
      BY DEF EditIInv, EditTypeOK, EditRowsTyped, Line, EditAssumption
    <2> QED
      BY <2>1, <2>2, LineSumIsNatural
  <1>3. PICK c : c = [edit[r] EXCEPT !.at = "summed", !.sum = LineSum(lines), !.id = Absent]
    OBVIOUS
  <1>4. Step(r, c) /\ UNCHANGED <<exists, lines, totalAmount, may, page>>
    BY <1>3 DEF AddLines
  <1>5. /\ c \in Draft /\ c.at = "summed" /\ c.base = edit[r].base /\ c.sum = LineSum(lines)
        /\ (c.alone <=> edit[r].alone)
    <2>1. "summed" \in DraftAt /\ Absent \in DraftId
      BY DEF DraftAt, Underway, DraftId
    <2> HIDE DEF LineSum
    <2> QED
      BY <1>1, <1>2, <1>3, <2>1, DraftIs
  <1>6. edit[r].alone => exists /\ edit[r].base = totalAmount
    BY <1>1 DEF EditIInv, AloneSeesAll, Present
  <1>7. Draft' = Draft /\ EditRowsTyped' /\ Sound(c)'
    BY <1>4, <1>5, RowsStay DEF Draft, Sheet, Row, Lines, Sound
  <1>8. c.alone => Present(c)'
    BY <1>4, <1>5, <1>6 DEF Present
  <1> QED
    BY <1>4, <1>5, <1>7, <1>8, MoveOn

(* and the second commit stores the total.                                 *)
LEMMA StoreTotalStep ==
    ASSUME EditAssumption, EditIInv, NEW r \in Editing, StoreTotal(r) PROVE EditIInv'
  <1>1. r \in Editor /\ edit[r] \in Draft /\ UNCHANGED <<may, page>>
    BY DEF EditIInv, EditTypeOK, EditRowsTyped, Editing, StoreTotal
  <1>2. CASE GiveUp(r)
    BY <1>1, <1>2, GiveUpStep
  <1>3. CASE /\ totalAmount' = IF edit[r].sum = edit[r].base THEN totalAmount ELSE edit[r].sum
             /\ Step(r, Ended("done")) /\ UNCHANGED <<exists, lines>>
    <2> DEFINE c == Ended("done")
    <2>1. c \in Draft /\ c.at = "done" /\ ~c.alone
      BY EndedIsDraft DEF Ended
    <2>2. Step(r, c)
      BY <1>3
    <2> HIDE DEF c
    <2>3. edit[r].sum \in Nat
      BY <1>1 DEF Draft
    <2>4. Draft' = Draft /\ Sound(c)'
      BY <1>1, <2>1 DEF Draft, Sheet, Row, Lines, Sound
    <2>5. EditRowsTyped'
      BY <1>1, <1>3, <2>3 DEF EditIInv, EditTypeOK, EditRowsTyped, Sheet, Row
    <2> QED
      BY <1>1, <2>1, <2>2, <2>4, <2>5, MoveOn
  <1> QED
    BY <1>2, <1>3 DEF StoreTotal

(* The page shows the lines in order, with the costs or without.           *)
LEMMA OpenBomStep == ASSUME EditAssumption, EditIInv, OpenBom PROVE EditIInv'
  <1>1. Ordered \in Lines
    BY OrderedIsAll DEF LinesTyped, EditIInv, EditTypeOK, EditRowsTyped
  <1>2. \A k \in DOMAIN Ordered :
           [sku |-> Ordered[k].sku, amount |-> Ordered[k].amount,
            cost |-> IF may THEN Ordered[k].cost ELSE Absent] \in Row
    <2>1. \A k \in DOMAIN Ordered : Ordered[k] \in Line
      BY <1>1 DEF Lines
    <2> HIDE DEF Ordered
    <2>2. \A k \in DOMAIN Ordered :
             Ordered[k].sku \in Sku /\ Ordered[k].amount \in Worth /\ Ordered[k].cost \in Cost
      BY <2>1 DEF Line
    <2> QED
      BY <2>2 DEF Row
  <1>3. page' \in Sheet
    BY <1>1, <1>2 DEF OpenBom, Sheet, Lines
  <1>4. UNCHANGED <<exists, lines, totalAmount, may, edit>> /\ Ordered' = Ordered
    BY DEF OpenBom, Ordered, Place, Before
  <1>5. EditTypeOK'
    BY <1>3, <1>4 DEF EditIInv, EditTypeOK, EditRowsTyped, Draft, Sheet, Row, Lines
  <1>6. \A r \in Editor : Sound(edit[r])'
    BY <1>4 DEF EditIInv, Sound, Sheet, Row, Lines
  <1>7. AloneSeesAll'
    BY <1>4 DEF EditIInv, AloneSeesAll, Editing, Present
  <1> QED
    BY <1>5, <1>6, <1>7 DEF EditIInv

(* A save begins with the lines there are and the page as it was edited.   *)
LEMMA SaveBomStep ==
    ASSUME EditAssumption, EditIInv, NEW r \in Editor, SaveBom(r) PROVE EditIInv'
  <1>1. page \in Sheet /\ Ordered \in Lines /\ totalAmount \in Nat
    BY OrderedIsAll DEF LinesTyped, EditIInv, EditTypeOK, EditRowsTyped, SaveBom
  <1>2. PICK rows \in Edits(page) :
           Begin(r, [IdleEdit EXCEPT !.at = "matched", !.kind = "bom", !.old = Ordered,
                                     !.rows = rows, !.base = totalAmount])
    BY DEF SaveBom
  <1>3. rows \in Sheet
    BY <1>1, EditsAreSheets
  <1>4. PICK to : to = [IdleEdit EXCEPT !.at = "matched", !.kind = "bom", !.old = Ordered,
                                        !.rows = rows, !.base = totalAmount]
    OBVIOUS
  <1>5. /\ to \in Draft /\ to.at = "matched" /\ to.old = Ordered /\ to.rows = rows
        /\ to.base = totalAmount
    <2> HIDE DEF Ordered
    <2> QED
      BY <1>1, <1>3, <1>4 DEF IdleEdit, Draft, Underway
  <1>6. exists /\ UNCHANGED <<exists, lines, totalAmount, may, page>>
    BY DEF SaveBom
  <1>7. Sound(to) /\ Present(to)
    BY <1>3, <1>5, <1>6 DEF Sound, Present
  <1> QED
    BY <1>2, <1>4, <1>5, <1>6, <1>7, BeginStep

(* The rows that a save inserts.                                           *)
Inserted(rows, old) ==
    [k \in DOMAIN rows |->
       [sku |-> rows[k].sku, amount |-> rows[k].amount, pos |-> k,
        cost |-> IF may THEN rows[k].cost ELSE Match(old, rows, k)]]

(* A matched cost is a cost.                                               *)
LEMMA MatchIsCost ==
    ASSUME EditAssumption, NEW old \in Lines, NEW rows, NEW k PROVE Match(old, rows, k) \in Cost
  <1> DEFINE same == {i \in DOMAIN old : old[i].sku = rows[k].sku}
  <1>1. \A i \in DOMAIN old : old[i].cost \in Cost /\ i \in Nat
    <2>1. \A i \in DOMAIN old : old[i] \in Line /\ i \in Nat
      BY DEF Lines
    <2> QED
      BY <2>1 DEF Line
  <1>2. same # {} => Min(same) \in same
    <2>1. same \in SUBSET Nat
      BY <1>1
    <2> QED
      BY <2>1, LeastOf
  <1>3. ListCost \in Cost
    BY DEF ListCost, EditAssumption
  <1> QED
    BY <1>1, <1>2, <1>3 DEF Match

(* They are lines.                                                         *)
LEMMA InsertedIsTyped ==
    ASSUME EditAssumption, NEW rows \in Sheet, NEW old \in Lines
    PROVE  /\ DOMAIN Inserted(rows, old) \subseteq 1 .. MaxLine
           /\ Inserted(rows, old) \in [DOMAIN Inserted(rows, old) -> Line]
  <1>1. /\ DOMAIN rows = 1 .. Len(rows) /\ Len(rows) \in Nat /\ Len(rows) <= MaxLine
        /\ \A k \in DOMAIN rows : rows[k] \in Row
    BY DEF Sheet
  <1>2. ASSUME NEW k \in DOMAIN rows
        PROVE  [sku |-> rows[k].sku, amount |-> rows[k].amount, pos |-> k,
                cost |-> IF may THEN rows[k].cost ELSE Match(old, rows, k)] \in Line
    <2>1. rows[k].sku \in Sku /\ rows[k].amount \in Worth /\ (may => rows[k].cost \in Cost)
      BY <1>1 DEF Row
    <2>2. k \in 0 .. MaxLine
      BY <1>1 DEF EditAssumption
    <2>3. Match(old, rows, k) \in Cost
      BY MatchIsCost
    <2> QED
      BY <2>1, <2>2, <2>3 DEF Line
  <1>3. DOMAIN Inserted(rows, old) \subseteq 1 .. MaxLine
    BY <1>1 DEF Inserted, EditAssumption
  <1> QED
    BY <1>2, <1>3 DEF Inserted

(* Lines that are typed add up to a natural number.                        *)
LEMMA LinesAddUp ==
    ASSUME EditAssumption, NEW f, DOMAIN f \subseteq 1 .. MaxLine, f \in [DOMAIN f -> Line]
    PROVE  LineSum(f) \in Nat
  <1>1. 1 \in Int /\ MaxLine \in Int
    BY DEF EditAssumption
  <1>2. IsFiniteSet(1 .. MaxLine)
    BY <1>1, FS_Interval, Zenon
  <1>3. IsFiniteSet(DOMAIN f)
    BY <1>2, FS_Subset
  <1>4. \A i \in DOMAIN f : f[i].amount \in Nat
    BY DEF Line, EditAssumption
  <1> QED
    BY <1>3, <1>4, LineSumIsNatural

(* A save replaces all lines, over the heads of whoever else is under way. *)
LEMMA StoreBomStep ==
    ASSUME EditAssumption, EditIInv, NEW r \in Editing, StoreBom(r) PROVE EditIInv'
  <1>1. r \in Editor /\ edit[r] \in Draft /\ UNCHANGED <<may, page>> /\ edit[r].at = "matched"
    BY DEF EditIInv, EditTypeOK, EditRowsTyped, Editing, StoreBom
  <1> DEFINE new == Inserted(edit[r].rows, edit[r].old)
  <1>2. CASE GiveUp(r)
    BY <1>1, <1>2, GiveUpStep
  <1>3. CASE /\ lines' = new
             /\ totalAmount' = IF LineSum(new) = edit[r].base THEN totalAmount ELSE LineSum(new)
             /\ Become(r, Ended("done")) /\ UNCHANGED exists
    <2> DEFINE c == Ended("done")
    <2>1. c \in Draft /\ c.at = "done" /\ ~c.alone
      BY EndedIsDraft DEF Ended
    <2>2. Become(r, c)
      BY <1>3
    <2> HIDE DEF c
    <2>3. edit[r].rows \in Sheet /\ edit[r].old \in Lines
      BY <1>1 DEF EditIInv, Sound, Draft
    <2>4. DOMAIN new \subseteq 1 .. MaxLine /\ new \in [DOMAIN new -> Line]
      BY <2>3, InsertedIsTyped
    <2>5. LineSum(new) \in Nat
      BY <2>4, LinesAddUp
    <2> HIDE DEF new, LineSum
    <2>6. Draft' = Draft /\ Sound(c)'
      BY <1>1, <2>1 DEF Draft, Sheet, Row, Lines, Sound
    <2>7. EditRowsTyped'
      BY <1>1, <1>3, <2>4, <2>5 DEF EditIInv, EditTypeOK, EditRowsTyped, Sheet, Row
    <2> QED
      BY <1>1, <2>1, <2>2, <2>6, <2>7, TakeTurn, Zenon DEF Underway
  <1> QED
    BY <1>2, <1>3 DEF StoreBom, Inserted

-----------------------------------------------------------------------------
(* The invariant                                                           *)

(* Two lines of one amount and a total that is right: nobody edits yet.    *)
LEMMA EditIInvInit == ASSUME EditAssumption, EditInit PROVE EditIInv
  <1>1. Min(Worth) \in Worth /\ Worth \in SUBSET Nat
    BY LeastOf DEF EditAssumption
  <1>2. DOMAIN lines = 1 .. 2 /\ lines \in [1 .. 2 -> Line]
    BY <1>1 DEF EditInit, Line, EditAssumption
  <1>3. DOMAIN lines \subseteq 1 .. MaxLine /\ lines \in [DOMAIN lines -> Line]
    BY <1>2 DEF EditAssumption
  <1>4. totalAmount \in Nat
    BY <1>3, LinesAddUp DEF EditInit
  <1>5. EditRowsTyped
    BY <1>3, <1>4 DEF EditInit, EditRowsTyped
  <1>6. IdleEdit \in Draft /\ IdleEdit.at = "idle" /\ Sound(IdleEdit)
    <2>1. <<>> \in Lines
      BY DEF Lines, EditAssumption
    <2> QED
      BY <2>1 DEF IdleEdit, Draft, Sound
  <1>7. \A r \in Editor : edit[r] \in Draft /\ edit[r].at = "idle" /\ Sound(edit[r])
    BY <1>6 DEF EditInit
  <1>8. edit \in [Editor -> Draft]
    BY <1>7 DEF EditInit
  <1> QED
    BY <1>5, <1>7, <1>8 DEF EditIInv, EditTypeOK, AloneSeesAll, Editing, Underway

(* The step of an edit that is under way.                                  *)
LEMMA EditingStep ==
    ASSUME NEW r \in Editor,
           ChangeLine(r) \/ Reload(r) \/ AddLines(r) \/ StoreTotal(r) \/ StoreBom(r)
    PROVE  r \in Editing
  BY DEF Editing, Underway, ChangeLine, Reload, AddLines, StoreTotal, StoreBom

(* Every step keeps the invariant.                                         *)
LEMMA EditIInvNext == ASSUME EditAssumption, EditIInv, [EditNext]_editVars PROVE EditIInv'
  <1>1. CASE UNCHANGED editVars
    <2>1. /\ UNCHANGED <<exists, lines, totalAmount, may, page>> /\ edit' = edit
          /\ Ordered' = Ordered /\ EditRowsTyped'
      BY <1>1, RowsStay DEF editVars
    <2>2. EditTypeOK'
      BY <2>1 DEF EditIInv, EditTypeOK, Draft, Sheet, Row, Lines
    <2>3. \A r \in Editor : Sound(edit[r])'
      BY <2>1 DEF EditIInv, Sound, Sheet, Row, Lines
    <2>4. AloneSeesAll'
      BY <2>1 DEF EditIInv, AloneSeesAll, Editing, Present
    <2> QED
      BY <2>2, <2>3, <2>4 DEF EditIInv
  <1>2. ASSUME NEW r \in Editor, NEW s \in Sku, NEW a \in Worth, AddItem(r, s, a) PROVE EditIInv'
    BY <1>2, AddItemStep
  <1>3. ASSUME NEW r \in Editor, NEW i \in DOMAIN lines, DeleteItem(r, i) PROVE EditIInv'
    BY <1>3, DeleteItemStep
  <1>4. ASSUME NEW r \in Editor, NEW i \in DOMAIN lines, NEW a \in Worth, UpdateItem(r, i, a)
        PROVE  EditIInv'
    BY <1>4, UpdateItemStep
  <1>5. ASSUME NEW r \in Editor, ChangeLine(r) PROVE EditIInv'
    BY <1>5, EditingStep, ChangeLineStep
  <1>6. ASSUME NEW r \in Editor, Reload(r) PROVE EditIInv'
    BY <1>6, EditingStep, ReloadStep
  <1>7. ASSUME NEW r \in Editor, AddLines(r) PROVE EditIInv'
    BY <1>7, EditingStep, AddLinesStep
  <1>8. ASSUME NEW r \in Editor, StoreTotal(r) PROVE EditIInv'
    BY <1>8, EditingStep, StoreTotalStep
  <1>9. ASSUME NEW r \in Editor, SaveBom(r) PROVE EditIInv'
    BY <1>9, SaveBomStep
  <1>10. ASSUME NEW r \in Editor, StoreBom(r) PROVE EditIInv'
    BY <1>10, EditingStep, StoreBomStep
  <1> QED
    BY <1>1, <1>2, <1>3, <1>4, <1>5, <1>6, <1>7, <1>8, <1>9, <1>10,
       OpenBomStep, DeletionStep, EditRestartStep DEF EditNext

(* So it always holds.                                                     *)
LEMMA EditInvariance == ASSUME EditAssumption PROVE EditSpec => []EditIInv
  <1>1. EditInit => EditIInv
    BY EditIInvInit
  <1>2. EditIInv /\ [EditNext]_editVars => EditIInv'
    BY EditIInvNext
  <1> QED
    BY <1>1, <1>2, PTL DEF EditSpec

(* The quotation, its lines, the BOM page and every edit keep their types; *)
(* in particular no sum and no total is anything but a natural number, and *)
(* a page of a user who may not see costs has none.                        *)
THEOREM EditTypesAlways == ASSUME EditAssumption PROVE EditSpec => []EditTypeOK
  <1>1. EditIInv => EditTypeOK
    BY DEF EditIInv
  <1> QED
    BY <1>1, EditInvariance, PTL

(* While an edit is alone nobody else's step gets further, or changes the  *)
(* lines, but the deletion of the quotation.                               *)
LEMMA LoneMoves ==
    ASSUME EditIInv, [EditNext]_editVars, NEW r \in Editing, edit[r].alone
    PROVE  \/ ChangeLine(r) \/ Reload(r) \/ AddLines(r) \/ StoreTotal(r) \/ StoreBom(r)
           \/ edit'[r].at \in {edit[r].at, "failed"} /\ (lines' = lines \/ DOMAIN lines' = {})
  <1>1. /\ r \in Editor /\ Editing = {r} /\ edit[r] \in Draft /\ edit \in [Editor -> Draft]
        /\ edit[r].at # "idle"
    BY DEF EditIInv, EditTypeOK, AloneSeesAll, Editing, Underway
  <1>2. ASSUME NEW q \in Editor, edit[q].at = "idle", NEW c, Begin(q, c), lines' = lines
        PROVE  edit'[r].at \in {edit[r].at, "failed"} /\ lines' = lines
    <2>1. q # r
      BY <1>1, <1>2
    <2>2. edit'[r] = [edit[r] EXCEPT !.alone = FALSE]
      BY <1>1, <1>2, <2>1 DEF Begin, Become
    <2> QED
      BY <1>1, <1>2, <2>2, AloneApart
  <1>3. CASE UNCHANGED editVars
    BY <1>3 DEF editVars
  <1>4. CASE \E q \in Editor :
                \/ \E s \in Sku, a \in Worth : AddItem(q, s, a)
                \/ \E i \in DOMAIN lines : DeleteItem(q, i) \/ \E a \in Worth : UpdateItem(q, i, a)
    BY <1>2, <1>4 DEF AddItem, DeleteItem, UpdateItem
  <1>5. CASE \E q \in Editor : SaveBom(q)
    BY <1>2, <1>5 DEF SaveBom
  <1>6. ASSUME NEW q \in Editor,
               ChangeLine(q) \/ Reload(q) \/ AddLines(q) \/ StoreTotal(q) \/ StoreBom(q)
        PROVE  q = r
    BY <1>1, <1>6, EditingStep
  <1>7. CASE OpenBom
    BY <1>7 DEF OpenBom
  <1>8. CASE DeleteQuotation
    <2>1. edit'[r] = [edit[r] EXCEPT !.alone = FALSE] /\ DOMAIN lines' = {}
      BY <1>1, <1>8 DEF DeleteQuotation
    <2> QED
      BY <1>1, <2>1, AloneApart
  <1>9. CASE EditRestart
    BY <1>1, <1>9 DEF EditRestart, Ended, IdleEdit
  <1> QED
    BY <1>3, <1>4, <1>5, <1>6, <1>7, <1>8, <1>9 DEF EditNext

(* What an edit stores while it is alone is what the lines add up to.      *)
LEMMA SettledEdit ==
    ASSUME EditIInv, [EditNext]_editVars PROVE TotalIsSettled
  <1> SUFFICES ASSUME NEW r \in Editing, edit[r].alone, edit'[r].at = "done"
               PROVE  totalAmount' = LineSum(lines')
    BY DEF TotalIsSettled
  <1>1. /\ r \in Editor /\ Present(edit[r]) /\ edit[r].at # "done"
        /\ edit[r] \in Draft /\ edit \in [Editor -> Draft]
    BY DEF EditIInv, EditTypeOK, AloneSeesAll, Editing, Underway
  <1>2. ASSUME NEW c, Step(r, c) PROVE c.at = "done"
    BY <1>1, <1>2 DEF Step
  <1>3. ~GiveUp(r)
    BY <1>2 DEF GiveUp, Ended, IdleEdit
  <1>4. ~ChangeLine(r)
    <2> SUFFICES ASSUME ChangeLine(r) PROVE FALSE
      OBVIOUS
    <2>1. Step(r, [edit[r] EXCEPT !.at = "changed", !.rows = <<>>, !.old = <<>>])
      BY <1>3 DEF ChangeLine
    <2>2. [edit[r] EXCEPT !.at = "changed", !.rows = <<>>, !.old = <<>>].at = "changed"
      BY <1>1, DraftIs
    <2> QED
      BY <1>2, <2>1, <2>2
  <1>5. ~Reload(r)
    <2> SUFFICES ASSUME Reload(r) PROVE FALSE
      OBVIOUS
    <2>1. Step(r, [edit[r] EXCEPT !.at = "reloaded", !.base = totalAmount])
      BY <1>3 DEF Reload
    <2>2. [edit[r] EXCEPT !.at = "reloaded", !.base = totalAmount].at = "reloaded"
      BY <1>1, DraftIs
    <2> QED
      BY <1>2, <2>1, <2>2
  <1>6. ~AddLines(r)
    <2> SUFFICES ASSUME AddLines(r) PROVE FALSE
      OBVIOUS
    <2>1. PICK sum : Step(r, [edit[r] EXCEPT !.at = "summed", !.sum = sum, !.id = Absent])
      BY DEF AddLines
    <2>2. [edit[r] EXCEPT !.at = "summed", !.sum = sum, !.id = Absent].at = "summed"
      BY <1>1, DraftIs
    <2> QED
      BY <1>2, <2>1, <2>2
  <1>7. CASE StoreTotal(r)
    <2>1. edit[r].base = totalAmount /\ edit[r].sum = LineSum(lines)
      BY <1>1, <1>7 DEF Present, StoreTotal
    <2>2. lines' = lines
          /\ totalAmount' = IF edit[r].sum = edit[r].base THEN totalAmount ELSE edit[r].sum
      BY <1>3, <1>7 DEF StoreTotal
    <2> QED
      BY <2>1, <2>2
  <1>8. CASE StoreBom(r)
    <2>1. edit[r].base = totalAmount
      BY <1>1, <1>8 DEF Present, StoreBom
    <2>2. PICK new : /\ lines' = new
                     /\ totalAmount' = IF LineSum(new) = edit[r].base THEN totalAmount
                                                                       ELSE LineSum(new)
      BY <1>3, <1>8 DEF StoreBom
    <2> QED
      BY <2>1, <2>2
  <1> QED
    BY <1>1, <1>4, <1>5, <1>6, <1>7, <1>8, LoneMoves

(* However many requests edit the quotation, add, change and delete lines  *)
(* or save the BOM page, fail and are cut off by restarts: one that ended  *)
(* well and alone has left the total equal to the sum of the lines.        *)
THEOREM LoneEditSettlesTotalAlways ==
    ASSUME EditAssumption PROVE EditSpec => LoneEditSettlesTotal
  <1>1. EditIInv /\ [EditNext]_editVars => TotalIsSettled
    BY SettledEdit
  <1> QED
    BY <1>1, EditInvariance, PTL DEF EditSpec, LoneEditSettlesTotal

(* A SKU of one line has one match, wherever the line is shown.            *)
LEMMA OneMatch ==
    ASSUME EditAssumption, EditIInv, NEW i \in DOMAIN lines, NEW rows, NEW k,
           rows[k].sku = lines[i].sku, \A j \in DOMAIN lines \ {i} : lines[j].sku # lines[i].sku
    PROVE  Match(Ordered, rows, k) = lines[i].cost
  <1> DEFINE same == {p \in DOMAIN Ordered : Ordered[p].sku = rows[k].sku}
  <1>1. /\ \A j \in DOMAIN lines : Place(j) \in DOMAIN Ordered /\ Ordered[Place(j)] = lines[j]
        /\ \A p \in DOMAIN Ordered : \E j \in DOMAIN lines : Place(j) = p
        /\ Ordered \in Lines
    BY OrderedIsAll DEF LinesTyped, EditIInv, EditTypeOK, EditRowsTyped
  <1> HIDE DEF Ordered
  <1>2. Place(i) \in same
    BY <1>1
  <1>3. \A p \in same : p = Place(i)
    BY <1>1
  <1>4. same \in SUBSET Nat
    BY <1>1 DEF Lines
  <1>5. Min(same) \in same
    BY <1>2, <1>4, LeastOf
  <1>6. Min(same) = Place(i)
    BY <1>3, <1>5
  <1>7. Match(Ordered, rows, k) = Ordered[Min(same)].cost
    BY <1>2 DEF Match
  <1> QED
    BY <1>1, <1>6, <1>7

(* A save of hidden costs gives each such SKU its own.                     *)
LEMMA CostsAreKept ==
    ASSUME EditAssumption, EditIInv, [EditNext]_editVars PROVE HiddenCostsAreKept
  <1> SUFFICES ASSUME NEW r \in Editor, edit[r].at = "matched", edit[r].alone, ~may, lines' # lines,
                      NEW i \in DOMAIN lines, NEW j \in DOMAIN lines',
                      lines[i].sku = lines'[j].sku,
                      \A k \in DOMAIN lines \ {i} : lines[k].sku # lines[i].sku
               PROVE  lines'[j].cost = lines[i].cost
    BY DEF HiddenCostsAreKept
  <1>1. r \in Editing
    BY DEF Editing, Underway
  <1>2. edit[r].old = Ordered
    BY <1>1 DEF EditIInv, AloneSeesAll, Present
  <1>3. StoreBom(r)
    BY <1>1, LoneMoves DEF ChangeLine, Reload, AddLines, StoreTotal
  <1>4. lines' = Inserted(edit[r].rows, Ordered)
    BY <1>2, <1>3 DEF StoreBom, GiveUp, Inserted
  <1> HIDE DEF Ordered
  <1>5. /\ j \in DOMAIN edit[r].rows /\ lines'[j].sku = edit[r].rows[j].sku
        /\ lines'[j].cost = Match(Ordered, edit[r].rows, j)
    BY <1>4 DEF Inserted
  <1> QED
    BY <1>5, OneMatch

(* Whatever rows a user who may not see costs sends back, moved, retyped,  *)
(* deleted or put on top of each other, and however old the page is: a     *)
(* SKU of one line before and after keeps the cost of that line.           *)
THEOREM HiddenBomKeepsCostsAlways ==
    ASSUME EditAssumption PROVE EditSpec => HiddenBomKeepsCosts
  <1>1. EditIInv /\ [EditNext]_editVars => HiddenCostsAreKept
    BY CostsAreKept
  <1> QED
    BY <1>1, EditInvariance, PTL DEF EditSpec, HiddenBomKeepsCosts

-----------------------------------------------------------------------------
(* Both                                                                    *)

(* What TLC checks, one total at a time, are behaviours of each.           *)
LEMMA PartsAreBehaviours == TotalsSpec => Spec /\ EditSpec
  <1>1. TotalsInit => Init /\ EditInit
    BY DEF TotalsInit
  <1>2. [TotalsNext]_totalsVars => [Next]_vars /\ [EditNext]_editVars
    BY DEF TotalsNext, OnlySolution, OnlyQuotation, totalsVars
  <1> QED
    BY <1>1, <1>2, PTL DEF TotalsSpec, Spec, EditSpec

(* So the types of both hold there as well.                                *)
THEOREM TypesAlways == TotalsSpec => []TypesOK
  <1>1. TypeOK /\ EditTypeOK => TypesOK
    BY DEF TypesOK
  <1>2. EditSpec => []EditTypeOK
    BY EditAssumed, EditTypesAlways
  <1> QED
    BY <1>1, <1>2, PartsAreBehaviours, TotalTypesAlways, PTL
=============================================================================
