-------------------------- MODULE CatalogBomProofs --------------------------
(***************************************************************************)
(* Categories and products, and the BOM of a solution, for any number of   *)
(* requests, rows and pages.                                               *)
(*                                                                         *)
(* In both a request looks first and writes later.  What it saw is true    *)
(* until somebody else commits, which is what `quiet' records: Knowing and *)
(* Aware say what that is, and the properties of the undisturbed requests  *)
(* follow from it.                                                         *)
(*                                                                         *)
(* The tree needs no history: what a traversal does not reach, in a        *)
(* forest, would hang from what it does not reach (TreeIsWhole).           *)
(***************************************************************************)
EXTENDS Catalog, Bom, Extremes, FiniteSetTheorems, SequenceTheorems, TLAPS

-----------------------------------------------------------------------------
(* A set of rows has a last one.                                           *)
LEMMA LastRow == ASSUME BomAssumption, NEW S \in SUBSET Row, S # {} PROVE Max(S) \in S
  <1>1. S \in SUBSET (0 .. MaxRow) /\ MaxRow \in Nat
    BY DEF Row, BomAssumption
  <1> QED
    BY <1>1, GreatestOf

-----------------------------------------------------------------------------
(* The requests of the catalog                                             *)

(* What the first half of a request found out holds until another commits. *)
Knows(h) ==
    /\ task[h].op = "reparent" => ~WouldCycle(task[h].id, task[h].arg)
    /\ task[h].op = "delete" =>
          /\ task[h].id \in Category
          /\ task[h].got \in Category \/ \A p \in DOMAIN product : product[p].cat # task[h].id
    /\ task[h].op = "import" => task[h].got.rows = Fresh(task[h].arg)

Knowing == \A h \in Worker : task[h].quiet => Knows(h)

(* The steps of the requests: a first half, the second half, or a request  *)
(* that commits in one step.                                               *)
First(h) ==
    \/ \E c \in Category :
        \/ LookForFallback(h, c) \/ CheckSpec(h, c)
        \/ \E p \in Category : CheckParent(h, c, p)
        \/ \E n \in Name, m \in makers \cup {Null} : CheckProduct(h, n, c, m)
    \/ \E p \in DOMAIN product : \E x \in Changes : CheckUpdate(h, p, x)
    \/ \E m \in makers : CheckUnused(h, m)
    \/ \E sheet \in Sheets : ReadSheet(h, sheet)

AtOnce(h) ==
    \/ \E p \in Category \cup {Null} : CreateCategory(h, p)
    \/ \E c \in Category : SetActive(h, c) \/ DeleteSpec(h, c)
    \/ \E p \in DOMAIN product : DropProduct(h, p)
    \/ \E m \in Maker : CreateMaker(h, m)

Second(h) ==
    \/ Reparent(h) \/ DeleteCategory(h) \/ CreateSpec(h)
    \/ CreateProduct(h) \/ UpdateProduct(h) \/ DeleteMaker(h) \/ Import(h)

Rows == <<parent, active, product, makers, specs>>

(* A request that was disturbed carries what it did.                       *)
LEMMA StillCarries ==
    ASSUME NEW t, Carries(t)
    PROVE  /\ Carries([t EXCEPT !.quiet = FALSE])
           /\ [t EXCEPT !.quiet = FALSE].op = t.op /\ ~[t EXCEPT !.quiet = FALSE].quiet
  <1> DEFINE u == [t EXCEPT !.quiet = FALSE]
             shape == [op : Op, id : {t.id}, arg : {t.arg}, got : {t.got}, quiet : BOOLEAN]
  <1>1. t \in shape
    BY DEF Carries
  <1>2. /\ u \in shape
        /\ u.op = t.op /\ u.id = t.id /\ u.arg = t.arg /\ u.got = t.got /\ u.quiet = FALSE
    BY <1>1
  <1> HIDE DEF u
  <1>3. Carries(u)
    BY <1>2 DEF Carries
  <1> QED
    BY <1>2, <1>3 DEF u

(* An idle request carries nothing.                                        *)
LEMMA IdleCarries == Carries(IdleTask)
  BY DEF Carries, IdleTask, Op

(* A commit ends a request and disturbs the others.                        *)
LEMMA Committed ==
    ASSUME CatalogTypeOK, NEW h \in Worker, Commit(h)
    PROVE  /\ DOMAIN task' = Worker /\ task'[h] = IdleTask
           /\ \A g \in Worker : Carries(task'[g])
           /\ \A g \in Worker \ {h} : task'[g].op = task[g].op /\ ~task'[g].quiet
  <1>1. ASSUME NEW g \in Worker \ {h}
        PROVE  task'[g].op = task[g].op /\ ~task'[g].quiet /\ Carries(task'[g])
    BY StillCarries DEF CatalogTypeOK, RowsTyped, Commit
  <1>2. task'[h] = IdleTask /\ Carries(IdleTask)
    BY IdleCarries DEF Commit
  <1> QED
    BY <1>1, <1>2 DEF Commit

(* An error ends it and leaves everything else alone.                      *)
LEMMA Failed ==
    ASSUME CatalogTypeOK, NEW h \in Worker, Fail(h)
    PROVE  /\ DOMAIN task' = Worker /\ task'[h] = IdleTask
           /\ \A g \in Worker \ {h} : task'[g] = task[g]
           /\ \A g \in Worker : Carries(task'[g])
           /\ UNCHANGED Rows
  <1>1. task'[h] = IdleTask /\ \A g \in Worker \ {h} : task'[g] = task[g]
    BY DEF Fail, CatalogTypeOK, RowsTyped
  <1>2. Carries(IdleTask)
    BY IdleCarries
  <1> QED
    BY <1>1, <1>2 DEF Fail, CatalogTypeOK, RowsTyped, Rows

(* A first half looks only.                                                *)
LEMMA Looked ==
    ASSUME CatalogTypeOK, NEW h \in Worker, NEW op, NEW id, NEW arg, NEW got,
           Look(h, op, id, arg, got)
    PROVE  /\ DOMAIN task' = Worker /\ task[h].op = "idle"
           /\ task'[h] = [op |-> op, id |-> id, arg |-> arg, got |-> got, quiet |-> TRUE]
           /\ \A g \in Worker \ {h} : task'[g] = task[g] /\ Carries(task'[g])
           /\ UNCHANGED Rows
  <1>1. UNCHANGED Rows
    BY DEF Look, Rows
  <1>2. DOMAIN task = Worker /\ \A g \in Worker : Carries(task[g])
    BY DEF CatalogTypeOK, RowsTyped
  <1>3. /\ DOMAIN task' = Worker /\ task[h].op = "idle"
        /\ task'[h] = [op |-> op, id |-> id, arg |-> arg, got |-> got, quiet |-> TRUE]
        /\ \A g \in Worker \ {h} : task'[g] = task[g]
    BY <1>2 DEF Look
  <1> QED
    BY <1>1, <1>2, <1>3

(* A second half commits or fails.                                         *)
LEMMA SecondEnds == ASSUME NEW h \in Worker, Second(h) PROVE Commit(h) \/ Fail(h)
  <1>1. CASE Reparent(h) \/ CreateSpec(h) \/ CreateProduct(h) \/ UpdateProduct(h)
    BY <1>1 DEF Reparent, CreateSpec, CreateProduct, UpdateProduct
  <1>2. CASE DeleteCategory(h) \/ DeleteMaker(h) \/ Import(h)
    BY <1>2 DEF DeleteCategory, DeleteMaker, Import
  <1> QED
    BY <1>1, <1>2 DEF Second

(* What was seen is still there as long as the rows are.                   *)
LEMMA KnowingStays ==
    ASSUME NEW g \in Worker, UNCHANGED Rows, task'[g] = task[g], Knows(g)
    PROVE  Knows(g)'
  BY DEF Knows, Rows, WouldCycle, Descendants, Reach, Below, Category, Fresh

(* A step that writes no row leaves every request but one what it knew.    *)
LEMMA LookingKnows ==
    ASSUME CatalogTypeOK, Knowing, NEW h \in Worker, UNCHANGED Rows,
           \A g \in Worker \ {h} : task'[g] = task[g], Knows(h)'
    PROVE  Knowing'
  <1>1. \A g \in Worker \ {h} : task'[g].quiet => Knows(g)'
    BY KnowingStays DEF Knowing
  <1> QED
    BY <1>1 DEF Knowing

-----------------------------------------------------------------------------
(* The tree                                                                *)

(* A traversal reaches where it starts and, from where it is, the children. *)
LEMMA ReachGrows ==
    ASSUME NEW set \in SUBSET Category, NEW from \in SUBSET set
    PROVE  /\ from \subseteq Reach(from, set) /\ Reach(from, set) \subseteq set
           /\ \A d \in set : parent[d] \in Reach(from, set) => d \in Reach(from, set)
  <1>1. from \subseteq Reach(from, set) /\ Reach(from, set) \subseteq set
    BY DEF Reach
  <1>2. ASSUME NEW d \in set, parent[d] \in Reach(from, set)
        PROVE  d \in Reach(from, set)
    <2> SUFFICES ASSUME NEW part \in SUBSET set, from \subseteq part,
                        \A c \in part : Below(c) \cap set \subseteq part
                 PROVE  d \in part
      BY DEF Reach
    <2>1. parent[d] \in part
      BY <1>2 DEF Reach
    <2>2. d \in Below(parent[d])
      BY DEF Below
    <2> QED
      BY <2>1, <2>2
  <1> QED
    BY <1>1, <1>2

(* And nothing else: it stays within any set that has both.                *)
LEMMA ReachStays ==
    ASSUME NEW set \in SUBSET Category, NEW from \in SUBSET set, NEW part \in SUBSET set,
           from \subseteq part, \A d \in set : parent[d] \in part => d \in part
    PROVE  Reach(from, set) \subseteq part
  <1>1. \A c \in part : Below(c) \cap set \subseteq part
    BY DEF Below
  <1> QED
    BY <1>1 DEF Reach

(* In a forest, what the tree left out would hang from what it left out.   *)
LEMMA TreeIsWhole ==
    ASSUME Acyclic, NEW visible \in SUBSET Category
    PROVE  Tree(visible) = visible
  <1> DEFINE ring == visible \ Tree(visible)
  <1>1. TreeRoots(visible) \in SUBSET visible
    BY DEF TreeRoots
  <1>2. /\ TreeRoots(visible) \subseteq Tree(visible) /\ Tree(visible) \subseteq visible
        /\ \A d \in visible : parent[d] \in Tree(visible) => d \in Tree(visible)
    BY <1>1, ReachGrows DEF Tree
  <1>3. \A c \in ring : parent[c] \in ring
    BY <1>2 DEF TreeRoots
  <1>4. ring = {}
    BY <1>3 DEF Acyclic
  <1> QED
    BY <1>2, <1>4

(* What the tree shows is below one of its roots.                          *)
LEMMA TreeIsListed ==
    ASSUME NEW k \in Tree(Category)
    PROVE  \E r \in TreeRoots(Category) : k \in Descendants(r)
  <1> DEFINE part == {d \in Category : \E r \in TreeRoots(Category) : d \in Descendants(r)}
  <1>1. \A r \in TreeRoots(Category) :
          /\ r \in Descendants(r)
          /\ \A d \in Category : parent[d] \in Descendants(r) => d \in Descendants(r)
    BY ReachGrows DEF TreeRoots, Descendants
  <1>2. TreeRoots(Category) \in SUBSET Category
    BY DEF TreeRoots
  <1>3. TreeRoots(Category) \subseteq part
    BY <1>1, <1>2
  <1>4. \A d \in Category : parent[d] \in part => d \in part
    BY <1>1
  <1>5. Reach(TreeRoots(Category), Category) \subseteq part
    <2> HIDE DEF part
    <2>1. part \in SUBSET Category
      BY DEF part
    <2> QED
      BY <1>2, <1>3, <1>4, <2>1, ReachStays
  <1> QED
    BY <1>5 DEF Tree

(* A forest shows every product, whose category is there.                  *)
LEMMA ForestShows == CatalogTypeOK => ForestShowsAll
  <1> SUFFICES ASSUME CatalogTypeOK, Acyclic
               PROVE  /\ \A visible \in SUBSET Category : Tree(visible) = visible
                      /\ UNION {Listed(c) : c \in TreeRoots(Category)} = DOMAIN product
    BY DEF ForestShowsAll
  <1>1. \A visible \in SUBSET Category : Tree(visible) = visible
    BY TreeIsWhole
  <1>2. ASSUME NEW p \in DOMAIN product
        PROVE  \E r \in TreeRoots(Category) : p \in Listed(r)
    <2>1. product[p].cat \in Category
      BY DEF CatalogTypeOK, RowsTyped, ProductRows
    <2>2. PICK r \in TreeRoots(Category) : product[p].cat \in Descendants(r)
      BY <1>1, <2>1, TreeIsListed
    <2> QED
      BY <2>2 DEF Listed
  <1>3. \A c : Listed(c) \subseteq DOMAIN product
    BY DEF Listed
  <1> QED
    BY <1>1, <1>2, <1>3

(* Moving c under what is not below it closes no cycle: what of a cycle is *)
(* not below c would have been one before.                                 *)
LEMMA MoveIsSafe ==
    ASSUME Acyclic, NEW c \in Category, NEW p \in Category, ~WouldCycle(c, p),
           parent' = [parent EXCEPT ![c] = p]
    PROVE  Acyclic'
  <1>1. Category' = Category
    BY DEF Category
  <1> SUFFICES ASSUME NEW ring \in SUBSET Category, \A d \in ring : parent'[d] \in ring
               PROVE  ring = {}
    BY <1>1 DEF Acyclic
  <1>2. /\ c \in Descendants(c)
        /\ \A d \in Category : parent[d] \in Descendants(c) => d \in Descendants(c)
    BY ReachGrows DEF Descendants
  <1>3. \A d \in Category : parent'[d] = IF d = c THEN p ELSE parent[d]
    BY DEF Category
  <1> DEFINE rest == ring \ Descendants(c)
  <1>4. \A d \in rest : parent[d] \in rest
    BY <1>2, <1>3
  <1>5. rest = {}
    BY <1>4 DEF Acyclic
  <1>6. c \notin ring
    BY <1>3, <1>5 DEF WouldCycle
  <1>7. \A d \in ring : parent[d] \in ring
    BY <1>3, <1>6
  <1> QED
    BY <1>7 DEF Acyclic
-----------------------------------------------------------------------------
(* The first half of a move, a delete or an import learns what it relies   *)
(* on.                                                                     *)
LEMMA LooksKnow ==
    ASSUME CatalogAssumption, CatalogTypeOK, Knowing,
           NEW h \in Worker, NEW op, NEW id, NEW arg, NEW got,
           Look(h, op, id, arg, got),
           op = "reparent" => ~WouldCycle(id, arg),
           op = "delete" => id \in Category
                          /\ (got \in Category \/ \A p \in DOMAIN product : product[p].cat # id),
           op = "import" => got.rows = Fresh(arg)
    PROVE  Knowing'
  <1> DEFINE j == [op |-> op, id |-> id, arg |-> arg, got |-> got, quiet |-> TRUE]
  <1>1. j.op = op /\ j.id = id /\ j.arg = arg /\ j.got = got
    OBVIOUS
  <1> HIDE DEF j
  <1>2. /\ task'[h] = j /\ UNCHANGED Rows /\ \A g \in Worker \ {h} : task'[g] = task[g]
    BY Looked DEF j
  <1>3. /\ WouldCycle(id, arg)' <=> WouldCycle(id, arg)
        /\ Category' = Category /\ Fresh(arg)' = Fresh(arg)
        /\ product' = product
    BY <1>2 DEF Rows, WouldCycle, Descendants, Reach, Below, Category, Fresh
  <1>4. Knows(h)'
    BY <1>1, <1>2, <1>3 DEF Knows
  <1> QED
    BY <1>2, <1>4, LookingKnows

(* Whoever commits ends, and nobody else is undisturbed any more.          *)
LEMMA CommitKnows == ASSUME CatalogTypeOK, NEW h \in Worker, Commit(h) PROVE Knowing'
  <1>1. /\ task'[h] = IdleTask /\ \A g \in Worker \ {h} : ~task'[g].quiet
    BY Committed
  <1> QED
    BY <1>1 DEF Knowing, Knows, IdleTask

(* An error takes nothing away from what the others know.                  *)
LEMMA FailKnows == ASSUME CatalogTypeOK, Knowing, NEW h \in Worker, Fail(h) PROVE Knowing'
  <1>1. /\ task'[h] = IdleTask /\ \A g \in Worker \ {h} : task'[g] = task[g]
        /\ UNCHANGED Rows
    BY Failed
  <1>2. Knows(h)'
    BY <1>1 DEF Knows, IdleTask
  <1> QED
    BY <1>1, <1>2, LookingKnows

(* The fallback that a delete finds is an active category.                 *)
LEMMA FallbackIsThere ==
    ASSUME CatalogAssumption, CatalogTypeOK, NEW c \in Category, active \ {c} # {}
    PROVE  Min(active \ {c}) \in Category \ {c}
  <1>1. active \ {c} \in SUBSET Nat
    BY DEF CatalogTypeOK, RowsTyped, CatalogAssumption
  <1>2. Min(active \ {c}) \in active \ {c}
    BY <1>1, LeastOf
  <1> QED
    BY <1>2 DEF CatalogTypeOK, RowsTyped

(* Every step keeps Knowing: a first half finds out what it then knows, a  *)
(* second half commits or fails.                                           *)
LEMMA NextKnows ==
    ASSUME CatalogAssumption, CatalogTypeOK, Knowing, CatalogNext PROVE Knowing'
  <1>1. PICK h \in Worker : First(h) \/ AtOnce(h) \/ Second(h)
    BY DEF CatalogNext, First, AtOnce, Second
  <1>2. CASE Commit(h)
    BY <1>2, CommitKnows
  <1>3. CASE Fail(h)
    BY <1>3, FailKnows
  <1>4. ASSUME NEW c \in Category, LookForFallback(h, c) PROVE Knowing'
    <2> DEFINE got == IF active \ {c} = {} THEN Null ELSE Min(active \ {c})
    <2>1. /\ Look(h, "delete", c, Null, got)
          /\ active \ {c} = {} => \A p \in DOMAIN product : product[p].cat # c
      BY <1>4 DEF LookForFallback
    <2>2. got \in Category \/ \A p \in DOMAIN product : product[p].cat # c
      BY <2>1, FallbackIsThere
    <2> QED
      BY <2>1, <2>2, LooksKnow
  <1>5. ASSUME NEW c \in Category, CheckSpec(h, c) PROVE Knowing'
    BY <1>5, LooksKnow DEF CheckSpec
  <1>6. ASSUME NEW c \in Category, NEW p \in Category, CheckParent(h, c, p) PROVE Knowing'
    BY <1>6, LooksKnow DEF CheckParent
  <1>7. ASSUME NEW c \in Category, NEW n \in Name, NEW m \in makers \cup {Null},
               CheckProduct(h, n, c, m)
        PROVE  Knowing'
    BY <1>7, LooksKnow DEF CheckProduct
  <1>8. ASSUME NEW p \in DOMAIN product, NEW x \in Changes, CheckUpdate(h, p, x)
        PROVE  Knowing'
    BY <1>8, LooksKnow DEF CheckUpdate
  <1>9. ASSUME NEW m \in makers, CheckUnused(h, m) PROVE Knowing'
    BY <1>9, LooksKnow DEF CheckUnused
  <1>10. ASSUME NEW sheet \in Sheets, ReadSheet(h, sheet) PROVE Knowing'
    BY <1>10, LooksKnow DEF ReadSheet
  <1>11. CASE AtOnce(h)
    BY <1>2, <1>11 DEF AtOnce, CreateCategory, SetActive, DeleteSpec, DropProduct, CreateMaker
  <1>12. CASE Second(h)
    BY <1>2, <1>3, <1>12, SecondEnds
  <1> QED
    BY <1>1, <1>4, <1>5, <1>6, <1>7, <1>8, <1>9, <1>10, <1>11, <1>12 DEF First

(* A request ends in its own second half.                                  *)
LEMMA OwnStep ==
    ASSUME CatalogTypeOK, CatalogNext, NEW h \in Worker, task[h].op # "idle", task'[h].op = "idle"
    PROVE  Second(h)
  <1>1. PICK g \in Worker : First(g) \/ AtOnce(g) \/ Second(g)
    BY DEF CatalogNext, First, AtOnce, Second
  <1>2. CASE g = h /\ task[g].op = "idle"
    BY <1>2
  <1>3. ASSUME g # h, Commit(g) \/ Fail(g) PROVE FALSE
    BY <1>3, Committed, Failed
  <1>4. ASSUME NEW op, NEW id, NEW arg, NEW got, Look(g, op, id, arg, got) PROVE FALSE
    BY <1>4, Looked
  <1>5. CASE Second(g)
    BY <1>3, <1>5, SecondEnds
  <1>6. CASE AtOnce(g)
    <2>1. task[g].op = "idle" /\ Commit(g)
      BY <1>6 DEF AtOnce, CreateCategory, SetActive, DeleteSpec, DropProduct, CreateMaker
    <2> QED
      BY <1>2, <1>3, <2>1
  <1>7. CASE First(g)
    <2>1. \E op, id, arg, got : Look(g, op, id, arg, got)
      BY <1>7 DEF First, LookForFallback, CheckSpec, CheckParent, CheckProduct,
                  CheckUpdate, CheckUnused, ReadSheet
    <2> QED
      BY <1>4, <2>1
  <1> QED
    BY <1>1, <1>5, <1>6, <1>7

(* A move that nothing disturbed is still a safe one.                      *)
LEMMA MoveStep == CatalogTypeOK /\ Knowing /\ [CatalogNext]_catalogVars => MoveKeepsForest
  <1> SUFFICES ASSUME CatalogTypeOK, Knowing, [CatalogNext]_catalogVars, Acyclic,
                      NEW h \in Worker, Ends(h, "reparent")
               PROVE  Acyclic'
    BY DEF MoveKeepsForest
  <1>1. CatalogNext
    BY DEF Ends, catalogVars
  <1>2. Reparent(h) /\ ~WouldCycle(task[h].id, task[h].arg)
    <2>1. Second(h)
      BY <1>1, OwnStep DEF Ends
    <2> QED
      BY <2>1 DEF Ends, Second, Knowing, Knows, Reparent, DeleteCategory, CreateSpec,
                  CreateProduct, UpdateProduct, DeleteMaker, Import
  <1>3. CASE {task[h].id, task[h].arg} \subseteq Category
    BY <1>2, <1>3, MoveIsSafe DEF Reparent
  <1>4. CASE ~({task[h].id, task[h].arg} \subseteq Category)
    BY <1>2, <1>4 DEF Reparent, Fail, Acyclic, Category
  <1> QED
    BY <1>3, <1>4

(* A delete that nothing disturbed has somebody to take the products over, *)
(* if there are any.                                                       *)
LEMMA DeleteStep == CatalogTypeOK /\ Knowing /\ [CatalogNext]_catalogVars => DeleteSucceeds
  <1> SUFFICES ASSUME CatalogTypeOK, Knowing, [CatalogNext]_catalogVars,
                      NEW h \in Worker, Ends(h, "delete")
               PROVE  task[h].id \notin Category' /\ DOMAIN product' = DOMAIN product
    BY DEF DeleteSucceeds
  <1>1. CatalogNext
    BY DEF Ends, catalogVars
  <1>2. Second(h)
    BY <1>1, OwnStep DEF Ends
  <1>3. /\ DeleteCategory(h)
        /\ \/ task[h].got \in Category
           \/ \A p \in DOMAIN product : product[p].cat # task[h].id
    BY <1>2 DEF Ends, Second, Knowing, Knows, Reparent, DeleteCategory, CreateSpec,
                CreateProduct, UpdateProduct, DeleteMaker, Import
  <1>4. /\ parent' = Orphaned(task[h].id)
        /\ DOMAIN product' = DOMAIN product
    BY <1>3 DEF DeleteCategory
  <1> QED
    BY <1>4 DEF Orphaned, Category

(* An import that nothing disturbed inserts the rows whose names are       *)
(* neither stored nor earlier in the sheet.                                *)
LEMMA ImportStep == CatalogTypeOK /\ Knowing /\ [CatalogNext]_catalogVars => ImportAddsNoDouble
  <1> SUFFICES ASSUME CatalogTypeOK, Knowing, [CatalogNext]_catalogVars,
                      NEW h \in Worker, Ends(h, "import"),
                      NEW p \in DOMAIN product' \ DOMAIN product, NEW q \in DOMAIN product', p # q
               PROVE  product'[p].name # product'[q].name
    BY DEF ImportAddsNoDouble
  <1>1. CatalogNext
    BY DEF Ends, catalogVars
  <1>2. Second(h)
    BY <1>1, OwnStep DEF Ends
  <1> DEFINE sheet == task[h].arg
             rows == task[h].got.rows
             id(i) == NextId - 1 + Cardinality({k \in rows : k <= i})
             chosen(r) == CHOOSE k \in rows : id(k) = r
  <1>3. Import(h) /\ rows = Fresh(sheet) /\ Carries(task[h])
    BY <1>2 DEF Ends, Second, Knowing, Knows, Reparent, DeleteCategory, CreateSpec,
                CreateProduct, UpdateProduct, DeleteMaker, Import, CatalogTypeOK
  <1>4. task[h].op = "import" /\ rows \subseteq {1, 2} /\ rows \subseteq DOMAIN sheet
    BY <1>3 DEF Ends, Carries
  <1>5. product' = [r \in DOMAIN product \cup {id(i) : i \in rows} |->
                      IF r \in DOMAIN product THEN product[r]
                      ELSE LET i == chosen(r)
                           IN  [name |-> sheet[i].name, cat |-> sheet[i].cat,
                                cats |-> {}, maker |-> sheet[i].maker]]
    BY <1>3 DEF Import, Fail
  <1> HIDE DEF id
  <1>6. ASSUME NEW r \in DOMAIN product' \ DOMAIN product
        PROVE  chosen(r) \in rows /\ id(chosen(r)) = r /\ product'[r].name = sheet[chosen(r)].name
    <2>1. \E i \in rows : id(i) = r
      BY <1>5
    <2>2. chosen(r) \in rows /\ id(chosen(r)) = r
      BY <2>1
    <2> HIDE DEF chosen
    <2> QED
      BY <1>5, <2>2
  <1> HIDE DEF chosen
  <1>7. CASE q \in DOMAIN product
    <2>1. product'[q] = product[q]
      BY <1>5, <1>7
    <2> QED
      BY <1>3, <1>6, <1>7, <2>1 DEF Fresh
  <1>8. CASE q \notin DOMAIN product
    <2>1. chosen(p) # chosen(q) /\ chosen(p) \in {1, 2} /\ chosen(q) \in {1, 2}
      BY <1>4, <1>6, <1>8
    <2>2. chosen(p) < chosen(q) \/ chosen(q) < chosen(p)
      BY <2>1
    <2>3. ASSUME NEW i \in rows, NEW k \in rows, k < i, i \in {1, 2}, k \in {1, 2}
          PROVE  sheet[k].name # sheet[i].name
      BY <1>3, <2>3 DEF Fresh
    <2> QED
      BY <1>6, <1>8, <2>1, <2>2, <2>3
  <1> QED
    BY <1>7, <1>8

-----------------------------------------------------------------------------
(* The types                                                               *)

(* Categories come, go and move.                                           *)
LEMMA CategoryRows ==
    ASSUME CatalogAssumption, RowsTyped, NEW h \in Worker,
           \/ \E p \in Category \cup {Null} : CreateCategory(h, p)
           \/ Reparent(h) /\ ~Fail(h)
           \/ DeleteCategory(h) /\ ~Fail(h) /\ Carries(task[h])
    PROVE  RowsTyped'
  <1>1. ASSUME NEW p \in Category \cup {Null}, CreateCategory(h, p) PROVE RowsTyped'
    <2> DEFINE c == 1 + Max(Category \cup {0})
    <2>1. c \in 1 .. MaxCategory
      BY <1>1, NextOf DEF CreateCategory, RowsTyped, CatalogAssumption
    <2>2. /\ parent' = [d \in Category \cup {c} |-> IF d = c THEN p ELSE parent[d]]
          /\ active' = active \cup {c}
          /\ specs' = [d \in Category \cup {c} |-> IF d = c THEN 0 ELSE specs[d]]
          /\ UNCHANGED <<product, makers>>
      BY <1>1 DEF CreateCategory
    <2> HIDE DEF c
    <2>3. Category' = Category \cup {c}
      BY <2>2 DEF Category
    <2>4. ProductRows(Category, makers) \subseteq ProductRows(Category', makers')
      BY <2>2, <2>3 DEF ProductRows
    <2>5. product' \in [DOMAIN product' -> ProductRows(Category', makers')]
      BY <2>2, <2>4 DEF RowsTyped
    <2>6. parent' \in [Category' -> Category' \cup {Null}] /\ specs' \in [Category' -> Nat]
      BY <2>2, <2>3 DEF RowsTyped
    <2> QED
      BY <2>1, <2>2, <2>3, <2>5, <2>6 DEF RowsTyped
  <1>2. CASE Reparent(h) /\ ~Fail(h)
    <2>1. /\ {task[h].id, task[h].arg} \subseteq Category
          /\ parent' = [parent EXCEPT ![task[h].id] = task[h].arg]
          /\ UNCHANGED <<active, product, makers, specs>>
      BY <1>2 DEF Reparent
    <2>2. Category' = Category
      BY <2>1 DEF Category
    <2>3. parent' \in [Category -> Category \cup {Null}]
      BY <2>1 DEF RowsTyped
    <2> QED
      BY <2>1, <2>2, <2>3 DEF RowsTyped, ProductRows
  <1>3. CASE DeleteCategory(h) /\ ~Fail(h) /\ Carries(task[h])
    <2> DEFINE c == task[h].id
               left == {p \in DOMAIN product : product[p].cat = c}
    <2>1. /\ left = {} \/ task[h].got \in Category \ {c}
          /\ parent' = Orphaned(c) /\ active' = active \ {c}
          /\ specs' = [d \in Category \ {c} |-> specs[d]]
          /\ product' = [p \in DOMAIN product |->
                           [product[p] EXCEPT !.cats = @ \ {c},
                                              !.cat = IF p \in left THEN task[h].got ELSE @]]
          /\ UNCHANGED makers
      BY <1>3 DEF DeleteCategory, Carries
    <2>2. Category' = Category \ {c}
      BY <2>1 DEF Orphaned, Category
    <2>3. parent' \in [Category' -> Category' \cup {Null}] /\ specs' \in [Category' -> Nat]
      BY <2>1, <2>2 DEF RowsTyped, Orphaned
    <2>4. ASSUME NEW p \in DOMAIN product PROVE product'[p] \in ProductRows(Category', makers)
      <3>1. product[p] \in ProductRows(Category, makers)
        BY DEF RowsTyped
      <3>2. p \in left <=> product[p].cat = c
        OBVIOUS
      <3>3. product'[p] = [product[p] EXCEPT !.cats = @ \ {c},
                                              !.cat = IF p \in left THEN task[h].got ELSE @]
        BY <2>1
      <3> HIDE DEF left
      <3> QED
        BY <2>1, <2>2, <3>1, <3>2, <3>3 DEF ProductRows
    <2> QED
      BY <2>1, <2>2, <2>3, <2>4 DEF RowsTyped
  <1> QED
    BY <1>1, <1>2, <1>3

(* Products come, go and change.                                           *)
LEMMA ProductRowsStep ==
    ASSUME CatalogAssumption, RowsTyped, NEW h \in Worker, Carries(task[h]),
           \/ \E p \in DOMAIN product : DropProduct(h, p)
           \/ CreateProduct(h) /\ ~Fail(h)
           \/ UpdateProduct(h) /\ ~Fail(h)
    PROVE  RowsTyped'
  <1> SUFFICES /\ DOMAIN product' \subseteq 1 .. MaxProduct
               /\ product' \in [DOMAIN product' -> ProductRows(Category, makers)]
    <2>1. UNCHANGED <<parent, active, makers, specs>>
      BY DEF DropProduct, CreateProduct, UpdateProduct
    <2> QED
      BY <2>1 DEF RowsTyped, ProductRows, Category
  <1>1. CASE \E p \in DOMAIN product : DropProduct(h, p)
    BY <1>1 DEF DropProduct, RowsTyped
  <1>2. CASE CreateProduct(h) /\ ~Fail(h)
    <2>1. /\ product' = With(product, NextId, task[h].arg) /\ NextId <= MaxProduct
          /\ task[h].arg.cat \in Category /\ task[h].arg.maker \in makers \cup {Null}
          /\ task[h].arg \in ProductRows({task[h].arg.cat}, Maker)
      BY <1>2 DEF CreateProduct, Carries
    <2>2. NextId \in 1 .. MaxProduct
      <3>1. Max(DOMAIN product \cup {0}) \in 0 .. MaxProduct
        BY NextOf DEF RowsTyped, CatalogAssumption
      <3>2. NextId <= MaxProduct
        BY <2>1
      <3> QED
        BY <3>1, <3>2 DEF NextId, CatalogAssumption
    <2>3. task[h].arg \in ProductRows(Category, makers)
      BY <2>1 DEF ProductRows
    <2> QED
      BY <2>1, <2>2, <2>3 DEF With, RowsTyped
  <1>3. CASE UpdateProduct(h) /\ ~Fail(h)
    <2>1. \E row \in ProductRows(Category, makers) : product' = [product EXCEPT ![task[h].id] = row]
      BY <1>3 DEF UpdateProduct
    <2> QED
      BY <2>1 DEF RowsTyped
  <1> QED
    BY <1>1, <1>2, <1>3

(* Makers, the state of a category and its specifications.                 *)
LEMMA MakerRows ==
    ASSUME CatalogAssumption, RowsTyped, NEW h \in Worker, Carries(task[h]),
           \/ \E m \in Maker : CreateMaker(h, m)
           \/ DeleteMaker(h)
           \/ \E c \in Category : SetActive(h, c) \/ DeleteSpec(h, c)
           \/ CreateSpec(h) /\ ~Fail(h)
    PROVE  RowsTyped'
  <1>1. ASSUME NEW m \in Maker, CreateMaker(h, m) PROVE RowsTyped'
    <2>1. makers' = makers \cup {m} /\ UNCHANGED <<parent, active, product, specs>>
      BY <1>1 DEF CreateMaker
    <2>2. ProductRows(Category, makers) \subseteq ProductRows(Category, makers')
      BY <2>1 DEF ProductRows
    <2>3. product \in [DOMAIN product -> ProductRows(Category, makers')]
      BY <2>2 DEF RowsTyped
    <2> QED
      BY <2>1, <2>3 DEF RowsTyped, Category, ProductRows
  <1>2. CASE DeleteMaker(h)
    <2> DEFINE m == task[h].id
    <2>1. /\ makers' = makers \ {m} /\ UNCHANGED <<parent, active, specs>>
          /\ product' = [p \in DOMAIN product |->
               IF p \in Users(m) THEN [product[p] EXCEPT !.maker = Null] ELSE product[p]]
      BY <1>2 DEF DeleteMaker
    <2>2. ASSUME NEW p \in DOMAIN product PROVE product'[p] \in ProductRows(Category, makers')
      <3>1. product[p] \in ProductRows(Category, makers)
        BY DEF RowsTyped
      <3>2. p \in Users(m) <=> product[p].maker = m
        BY DEF Users
      <3>3. product'[p] = IF p \in Users(m) THEN [product[p] EXCEPT !.maker = Null]
                          ELSE product[p]
        BY <2>1
      <3> QED
        BY <2>1, <3>1, <3>2, <3>3 DEF ProductRows
    <2>3. product' \in [DOMAIN product -> ProductRows(Category, makers')]
      BY <2>1, <2>2
    <2> QED
      BY <2>1, <2>3 DEF RowsTyped, Category, ProductRows
  <1>3. ASSUME NEW c \in Category, SetActive(h, c) PROVE RowsTyped'
    <2>1. active' \subseteq active \cup {c} /\ UNCHANGED <<parent, product, makers, specs>>
      BY <1>3 DEF SetActive
    <2> QED
      BY <2>1 DEF RowsTyped, Category, ProductRows
  <1>4. CASE (\E c \in Category : DeleteSpec(h, c)) \/ (CreateSpec(h) /\ ~Fail(h))
    <2>1. specs' \in [Category -> Nat] /\ UNCHANGED <<parent, active, product, makers>>
      BY <1>4 DEF DeleteSpec, CreateSpec, RowsTyped
    <2> QED
      BY <2>1 DEF RowsTyped, Category, ProductRows
  <1> QED
    BY <1>1, <1>2, <1>3, <1>4

(* The rows of a sheet become products with ids of their own.              *)
LEMMA ImportRows ==
    ASSUME CatalogAssumption, RowsTyped, NEW h \in Worker, Carries(task[h]),
           Import(h), ~Fail(h)
    PROVE  RowsTyped'
  <1> DEFINE sheet == task[h].arg
             rows == task[h].got.rows
             upTo(i) == {k \in rows : k <= i}
             id(i) == NextId - 1 + Cardinality(upTo(i))
             new(i) == [name |-> sheet[i].name, cat |-> sheet[i].cat,
                        cats |-> {}, maker |-> sheet[i].maker]
             chosen(p) == CHOOSE k \in rows : id(k) = p
  <1>1. /\ product' = [p \in DOMAIN product \cup {id(i) : i \in rows} |->
                         IF p \in DOMAIN product THEN product[p] ELSE new(chosen(p))]
        /\ makers' = makers \cup Named(rows, sheet)
        /\ UNCHANGED <<parent, active, specs>>
        /\ \A i \in rows : sheet[i].cat \in Category
        /\ NextId - 1 + Cardinality(rows) <= MaxProduct
    BY DEF Import
  <1>2. /\ sheet \in [DOMAIN sheet -> SheetRow] /\ rows \subseteq DOMAIN sheet
        /\ rows \subseteq {1, 2}
    BY DEF Import, Carries
  <1>3. NextId - 1 \in Nat
    <2>1. Max(DOMAIN product \cup {0}) \in 0 .. MaxProduct
      BY NextOf DEF RowsTyped, CatalogAssumption
    <2> QED
      BY <2>1 DEF NextId
  <1>4. ASSUME NEW i \in rows PROVE id(i) \in 1 .. MaxProduct
    <2>1. IsFiniteSet({1, 2})
      <3>1. IsFiniteSet(1 .. 2)
        <4>1. 1 \in Int /\ 2 \in Int
          OBVIOUS
        <4> QED
          BY <4>1, FS_Interval, Zenon
      <3>2. 1 .. 2 = {1, 2}
        OBVIOUS
      <3> QED
        BY <3>1, <3>2, Zenon
    <2>2. IsFiniteSet(rows) /\ IsFiniteSet(upTo(i))
      <3>1. upTo(i) \subseteq {1, 2}
        BY <1>2
      <3> QED
        BY <1>2, <2>1, <3>1, FS_Subset, Zenon
    <2>3. /\ Cardinality(upTo(i)) \in Nat /\ Cardinality(rows) \in Nat
          /\ Cardinality(upTo(i)) <= Cardinality(rows)
      <3>1. upTo(i) \subseteq rows
        OBVIOUS
      <3> HIDE DEF upTo, rows
      <3> QED
        BY <2>2, <3>1, FS_Subset, FS_CardinalityType, Zenon
    <2>4. Cardinality(upTo(i)) # 0
      <3>1. i \in upTo(i)
        BY <1>2
      <3> HIDE DEF upTo
      <3> QED
        BY <2>2, <3>1, FS_EmptySet, Zenon
    <2>5. NextId - 1 + Cardinality(rows) <= MaxProduct
      BY <1>1
    <2> HIDE DEF upTo, rows
    <2> QED
      BY <1>3, <2>3, <2>4, <2>5 DEF CatalogAssumption
  <1>5. ASSUME NEW i \in rows PROVE new(i) \in ProductRows(Category, makers')
    <2>1. sheet[i] \in SheetRow /\ sheet[i].cat \in Category
      BY <1>1, <1>2
    <2>2. sheet[i].maker \in makers' \cup {Null}
      BY <1>1 DEF Named
    <2> QED
      BY <2>1, <2>2 DEF SheetRow, ProductRows
  <1>6. ProductRows(Category, makers) \subseteq ProductRows(Category, makers')
    BY <1>1 DEF ProductRows
  <1> HIDE DEF id, new
  <1>7. ASSUME NEW p \in DOMAIN product' PROVE product'[p] \in ProductRows(Category, makers')
    <2>1. CASE p \in DOMAIN product
      BY <1>1, <1>6, <2>1 DEF RowsTyped
    <2>2. CASE p \notin DOMAIN product
      <3>1. chosen(p) \in rows
        BY <1>1, <2>2
      <3>2. product'[p] = new(chosen(p))
        BY <1>1, <2>2
      <3> QED
        BY <1>5, <3>1, <3>2
    <2> QED
      BY <2>1, <2>2
  <1>8. DOMAIN product' \subseteq 1 .. MaxProduct
    BY <1>1, <1>4 DEF RowsTyped
  <1>9. makers' \subseteq Maker
    <2>1. \A i \in rows : sheet[i].maker \in Maker \cup {Null}
      BY <1>2 DEF SheetRow
    <2> QED
      BY <1>1, <2>1 DEF Named, RowsTyped
  <1>10. product' \in [DOMAIN product' -> ProductRows(Category, makers')]
    BY <1>1, <1>7
  <1> QED
    BY <1>1, <1>8, <1>9, <1>10 DEF RowsTyped, Category, ProductRows

(* What the first halves carry.                                            *)
LEMMA LookCarries ==
    ASSUME CatalogTypeOK, NEW h \in Worker, NEW op \in Op, NEW id, NEW arg, NEW got,
           Look(h, op, id, arg, got), op # "create", op # "update", op # "import",
           op = "delete" => got # id
    PROVE  DOMAIN task' = Worker /\ \A g \in Worker : Carries(task'[g])
  <1> DEFINE j == [op |-> op, id |-> id, arg |-> arg, got |-> got, quiet |-> TRUE]
  <1>1. /\ j.op = op /\ j.id = id /\ j.arg = arg /\ j.got = got
        /\ j \in [op : Op, id : {id}, arg : {arg}, got : {got}, quiet : BOOLEAN]
    OBVIOUS
  <1> HIDE DEF j
  <1>2. Carries(j)
    BY <1>1 DEF Carries
  <1> QED
    BY <1>2, Looked DEF j

(* Every first half starts a request that carries what it should.          *)
LEMMA FirstCarries ==
    ASSUME CatalogAssumption, CatalogTypeOK, NEW h \in Worker, First(h)
    PROVE  DOMAIN task' = Worker /\ (\A g \in Worker : Carries(task'[g])) /\ UNCHANGED Rows
  <1> DEFINE Goal == DOMAIN task' = Worker /\ (\A g \in Worker : Carries(task'[g]))
                     /\ UNCHANGED Rows
  <1>1. ASSUME NEW c \in Category, LookForFallback(h, c) PROVE Goal
    <2> DEFINE got == IF active \ {c} = {} THEN Null ELSE Min(active \ {c})
    <2>1. Look(h, "delete", c, Null, got)
      BY <1>1 DEF LookForFallback
    <2>2. got # c
      BY FallbackIsThere DEF CatalogTypeOK, RowsTyped, CatalogAssumption
    <2> HIDE DEF got
    <2> QED
      BY <2>1, <2>2, LookCarries, Looked DEF Op
  <1>2. ASSUME NEW c \in Category, CheckSpec(h, c) PROVE Goal
    BY <1>2, LookCarries, Looked DEF CheckSpec, Op
  <1>3. ASSUME NEW c \in Category, NEW p \in Category, CheckParent(h, c, p) PROVE Goal
    BY <1>3, LookCarries, Looked DEF CheckParent, Op
  <1>4. ASSUME NEW m \in makers, CheckUnused(h, m) PROVE Goal
    BY <1>4, LookCarries, Looked DEF CheckUnused, Op
  <1>5. ASSUME NEW c \in Category, NEW n \in Name, NEW m \in makers \cup {Null},
               CheckProduct(h, n, c, m)
        PROVE  Goal
    <2> DEFINE x == [name |-> n, cat |-> c, cats |-> {c}, maker |-> m]
               j == [op |-> "create", id |-> Null, arg |-> x, got |-> Null, quiet |-> TRUE]
    <2>1. Look(h, "create", Null, x, Null)
      BY <1>5 DEF CheckProduct
    <2>2. x \in ProductRows({x.cat}, Maker)
      BY DEF ProductRows, CatalogTypeOK, RowsTyped
    <2>3. Carries(j)
      BY <2>2 DEF Carries, Op
    <2> HIDE DEF x
    <2> QED
      BY <2>1, <2>3, Looked
  <1>6. ASSUME NEW p \in DOMAIN product, NEW x \in Changes, CheckUpdate(h, p, x) PROVE Goal
    <2> DEFINE j == [op |-> "update", id |-> p, arg |-> x, got |-> product[p], quiet |-> TRUE]
    <2>1. Look(h, "update", p, x, product[p])
      BY <1>6 DEF CheckUpdate
    <2>2. x \in Sent /\ product[p] \in ProductRows(1 .. MaxCategory, Maker)
      <3>1. product[p] \in ProductRows(Category, makers)
        BY DEF CatalogTypeOK, RowsTyped
      <3>2. Category \subseteq 1 .. MaxCategory /\ makers \subseteq Maker
        BY DEF CatalogTypeOK, RowsTyped
      <3>3. product[p] \in ProductRows(1 .. MaxCategory, Maker)
        BY <3>1, <3>2 DEF ProductRows
      <3> QED
        BY <3>2, <3>3 DEF Changes, Sent
    <2>3. Carries(j)
      BY <2>2 DEF Carries, Op
    <2> QED
      BY <2>1, <2>3, Looked
  <1>7. ASSUME NEW sheet \in Sheets, ReadSheet(h, sheet) PROVE Goal
    <2> DEFINE found == [rows |-> Fresh(sheet), known |-> makers]
               j == [op |-> "import", id |-> Null, arg |-> sheet, got |-> found, quiet |-> TRUE]
    <2>1. Look(h, "import", Null, sheet, found)
      BY <1>7 DEF ReadSheet
    <2>2. /\ sheet \in [DOMAIN sheet -> SheetRow] /\ DOMAIN sheet \in {1 .. 1, 1 .. 2}
          /\ found \in [rows : SUBSET DOMAIN sheet, known : SUBSET Maker]
      <3>1. PICK n \in 1 .. 2, c \in Category, m \in Maker \cup {Null} :
              sheet \in [1 .. n -> [name : Name, cat : {c}, maker : {m}]]
        BY DEF Sheets
      <3>2. [name : Name, cat : {c}, maker : {m}] \subseteq SheetRow
        BY DEF SheetRow, CatalogTypeOK, RowsTyped
      <3> QED
        BY <3>1, <3>2 DEF Fresh, CatalogTypeOK, RowsTyped
    <2>3. Carries(j)
      BY <2>2 DEF Carries, Op
    <2> QED
      BY <2>1, <2>3, Looked
  <1> QED
    BY <1>1, <1>2, <1>3, <1>4, <1>5, <1>6, <1>7 DEF First

(* The first rows are typed.                                               *)
LEMMA CatalogTypesInit == CatalogAssumption /\ CatalogInit => CatalogTypeOK
  <1> SUFFICES ASSUME CatalogAssumption, CatalogInit PROVE CatalogTypeOK
    OBVIOUS
  <1>1. PICK n \in {2, MaxCategory}, f \in {Null, 1} :
          parent = [c \in 1 .. n |-> IF c = 1 THEN Null ELSE f]
    BY DEF CatalogInit
  <1>2. Category = 1 .. n /\ n \in 2 .. MaxCategory
    BY <1>1 DEF Category, CatalogAssumption
  <1>3. parent \in [Category -> Category \cup {Null}]
    BY <1>1, <1>2
  <1>4. product \in [{1} -> ProductRows(Category, makers)]
    <2> DEFINE x == CHOOSE m \in Name : TRUE
    <2>1. x \in Name
      BY DEF CatalogAssumption
    <2>2. product = [p \in {1} |-> [name |-> x, cat |-> 1, cats |-> {1}, maker |-> Null]]
      BY DEF CatalogInit
    <2> HIDE DEF x
    <2> QED
      BY <1>2, <2>1, <2>2 DEF ProductRows
  <1>5. RowsTyped
    BY <1>2, <1>3, <1>4 DEF CatalogInit, RowsTyped, CatalogAssumption
  <1>6. DOMAIN task = Worker /\ \A h \in Worker : Carries(task[h])
    BY IdleCarries DEF CatalogInit
  <1> QED
    BY <1>5, <1>6 DEF CatalogInit, CatalogTypeOK, CatalogAssumption

(* One more request is begun, or none.                                     *)
LEMMA BegunStep ==
    ASSUME CatalogAssumption, CatalogTypeOK, NEW h \in Worker, First(h) \/ AtOnce(h) \/ Second(h)
    PROVE  begun' \in 0 .. Requests
  <1>1. CASE Started
    BY <1>1 DEF Started, CatalogTypeOK, CatalogAssumption
  <1>2. CASE First(h)
    BY <1>1, <1>2 DEF First, LookForFallback, CheckSpec, CheckParent, CheckProduct, CheckUpdate,
                      CheckUnused, ReadSheet, Look
  <1>3. CASE AtOnce(h)
    BY <1>1, <1>3 DEF AtOnce, CreateCategory, SetActive, DeleteSpec, DropProduct, CreateMaker
  <1>4. CASE Second(h)
    <2>1. UNCHANGED begun
      BY <1>4 DEF Second, Reparent, DeleteCategory, CreateSpec, CreateProduct, UpdateProduct,
                  DeleteMaker, Import
    <2> QED
      BY <2>1 DEF CatalogTypeOK
  <1> QED
    BY <1>2, <1>3, <1>4

(* Every step keeps the types: a first half and an error touch no row, a   *)
(* commit ends its request and writes typed rows.                          *)
LEMMA CatalogTypesNext ==
    CatalogAssumption /\ CatalogTypeOK /\ [CatalogNext]_catalogVars => CatalogTypeOK'
  <1> SUFFICES ASSUME CatalogAssumption, CatalogTypeOK, [CatalogNext]_catalogVars
               PROVE  CatalogTypeOK'
    OBVIOUS
  <1>1. CASE UNCHANGED catalogVars
    BY <1>1 DEF catalogVars, CatalogTypeOK, RowsTyped, Category, ProductRows, Carries, SheetRow
  <1>2. ASSUME NEW h \in Worker, First(h) \/ AtOnce(h) \/ Second(h) PROVE CatalogTypeOK'
    <2>1. RowsTyped /\ Carries(task[h])
      BY DEF CatalogTypeOK
    <2>2. begun' \in 0 .. Requests
      BY <1>2, BegunStep
    <2>3. UNCHANGED Rows => RowsTyped'
      BY <2>1 DEF Rows, RowsTyped, Category, ProductRows
    <2>4. CASE First(h)
      BY <2>2, <2>3, <2>4, FirstCarries DEF CatalogTypeOK
    <2>5. CASE Fail(h)
      BY <2>2, <2>3, <2>5, Failed DEF CatalogTypeOK
    <2>6. CASE AtOnce(h)
      <3>1. Commit(h)
        BY <2>6 DEF AtOnce, CreateCategory, SetActive, DeleteSpec, DropProduct, CreateMaker
      <3>2. RowsTyped'
        BY <2>1, <2>6, CategoryRows, ProductRowsStep, MakerRows DEF AtOnce
      <3> QED
        BY <2>2, <3>1, <3>2, Committed DEF CatalogTypeOK
    <2>7. CASE Second(h) /\ ~Fail(h)
      <3>1. Commit(h)
        BY <2>7, SecondEnds
      <3>2. RowsTyped'
        BY <2>1, <2>7, CategoryRows, ProductRowsStep, MakerRows, ImportRows DEF Second
      <3> QED
        BY <2>2, <3>1, <3>2, Committed DEF CatalogTypeOK
    <2> QED
      BY <1>2, <2>4, <2>5, <2>6, <2>7
  <1> QED
    BY <1>1, <1>2 DEF CatalogNext, First, AtOnce, Second

(* At first nobody has looked.                                             *)
LEMMA KnowingInit == CatalogInit => Knowing
  BY DEF CatalogInit, IdleTask, Knowing, Knows

(* A step keeps what the undisturbed requests know, and so does a stutter. *)
LEMMA KnowingNext ==
    CatalogAssumption /\ CatalogTypeOK /\ Knowing /\ [CatalogNext]_catalogVars => Knowing'
  <1>1. CatalogAssumption /\ CatalogTypeOK /\ Knowing /\ CatalogNext => Knowing'
    BY NextKnows
  <1>2. ASSUME Knowing, UNCHANGED catalogVars PROVE Knowing'
    <2>1. UNCHANGED Rows /\ task' = task
      BY <1>2 DEF catalogVars, Rows
    <2> QED
      BY <1>2, <2>1, KnowingStays DEF Knowing
  <1> QED
    BY <1>1, <1>2

(* Categories, products, makers and requests keep their types.             *)
THEOREM CatalogTypesAlways == ASSUME CatalogAssumption PROVE CatalogSpec => []CatalogTypeOK
  <1>1. CatalogInit => CatalogTypeOK
    BY CatalogTypesInit
  <1>2. CatalogTypeOK /\ [CatalogNext]_catalogVars => CatalogTypeOK'
    BY CatalogTypesNext
  <1> QED
    BY <1>1, <1>2, PTL DEF CatalogSpec

(* Whoever sees any part of a forest sees all of that part in the tree, and *)
(* every product is listed under some root.                                *)
THEOREM ForestShowsAllAlways == ASSUME CatalogAssumption PROVE CatalogSpec => []ForestShowsAll
  <1>1. CatalogSpec => []CatalogTypeOK
    BY CatalogTypesAlways
  <1>2. CatalogTypeOK => ForestShowsAll
    BY ForestShows
  <1> QED
    BY <1>1, <1>2, PTL

(* A move that nothing disturbed keeps a forest a forest.                  *)
THEOREM LoneMoveKeepsForestAlways ==
    ASSUME CatalogAssumption PROVE CatalogSpec => LoneMoveKeepsForest
  <1>1. CatalogSpec => []CatalogTypeOK
    BY CatalogTypesAlways
  <1>2. CatalogInit => Knowing
    BY KnowingInit
  <1>3. CatalogTypeOK /\ Knowing /\ [CatalogNext]_catalogVars => Knowing'
    BY KnowingNext
  <1>4. CatalogTypeOK /\ Knowing /\ [CatalogNext]_catalogVars => MoveKeepsForest
    BY MoveStep
  <1> QED
    BY <1>1, <1>2, <1>3, <1>4, PTL DEF CatalogSpec, LoneMoveKeepsForest

(* A delete that was accepted and that nothing disturbed goes through.     *)
THEOREM LoneDeleteSucceedsAlways ==
    ASSUME CatalogAssumption PROVE CatalogSpec => LoneDeleteSucceeds
  <1>1. CatalogSpec => []CatalogTypeOK
    BY CatalogTypesAlways
  <1>2. CatalogInit => Knowing
    BY KnowingInit
  <1>3. CatalogTypeOK /\ Knowing /\ [CatalogNext]_catalogVars => Knowing'
    BY KnowingNext
  <1>4. CatalogTypeOK /\ Knowing /\ [CatalogNext]_catalogVars => DeleteSucceeds
    BY DeleteStep
  <1> QED
    BY <1>1, <1>2, <1>3, <1>4, PTL DEF CatalogSpec, LoneDeleteSucceeds

(* An import that nothing disturbed adds no name twice.                    *)
THEOREM LoneImportAddsNoDoubleAlways ==
    ASSUME CatalogAssumption PROVE CatalogSpec => LoneImportAddsNoDouble
  <1>1. CatalogSpec => []CatalogTypeOK
    BY CatalogTypesAlways
  <1>2. CatalogInit => Knowing
    BY KnowingInit
  <1>3. CatalogTypeOK /\ Knowing /\ [CatalogNext]_catalogVars => Knowing'
    BY KnowingNext
  <1>4. CatalogTypeOK /\ Knowing /\ [CatalogNext]_catalogVars => ImportAddsNoDouble
    BY ImportStep
  <1> QED
    BY <1>1, <1>2, <1>3, <1>4, PTL DEF CatalogSpec, LoneImportAddsNoDouble

-----------------------------------------------------------------------------
(* Sheets                                                                  *)

(* The two halves of a sheet, which may be replaced one by one.            *)
LEMMA SheetTypes ==
    ASSUME NEW s \in Sheet
    PROVE  /\ s.line \in [Row -> Line \cup {Nil}] /\ s.cost \in [Row -> Cost \cup {Nil}]
           /\ \A l \in [Row -> Line \cup {Nil}] : [s EXCEPT !.line = l] \in Sheet
           /\ \A c \in [Row -> Cost \cup {Nil}] :
                [s EXCEPT !.cost = c] \in Sheet /\ [s EXCEPT !.cost = c].line = s.line
                /\ [s EXCEPT !.cost = c].cost = c
  BY DEF Sheet

(* The sheet of a page that shows nothing is a sheet.                      *)
LEMMA BlankIsSheet == Blank \in Sheet
  BY DEF Blank, Sheet

(* A page shows a sheet, whether or not the costs were cut from it.        *)
LEMMA ShownIsSheet ==
    ASSUME NEW s \in Sheet, NEW allow \in BOOLEAN
    PROVE  Shown(s, allow) \in Sheet
  <1>1. Blank.cost \in [Row -> Cost \cup {Nil}]
    BY DEF Blank
  <1> QED
    BY <1>1, SheetTypes DEF Shown, Stripped

(* What a user makes of a sheet is a sheet.                                *)
LEMMA EditsAreSheets == ASSUME BomAssumption, NEW s \in Sheet PROVE Edits(s) \subseteq Sheet
  <1>1. s.line \in [Row -> Line \cup {Nil}] /\ 1 \in Row
    BY SheetTypes DEF BomAssumption, Row
  <1>2. [i \in Row |-> s.line[MaxRow + 1 - i]] \in [Row -> Line \cup {Nil}]
    <2>1. \A i \in Row : MaxRow + 1 - i \in Row
      BY DEF Row, BomAssumption
    <2> QED
      BY <1>1, <2>1
  <1>3. ASSUME NEW q \in Quantity, s.line[1] # Nil
        PROVE  [s EXCEPT !.line[1].qty = q] \in Sheet
    <2>1. [s.line[1] EXCEPT !.qty = q] \in Line
      BY <1>1, <1>3 DEF Line
    <2>2. [s.line EXCEPT ![1] = [s.line[1] EXCEPT !.qty = q]] \in [Row -> Line \cup {Nil}]
      BY <1>1, <2>1
    <2> QED
      BY <2>2, SheetTypes
  <1> QED
    BY <1>2, <1>3, SheetTypes DEF Edits

(* The template that is chosen is there, if there is any.                  *)
LEMMA ChosenIsThere ==
    ASSUME BomAssumption, BomTypeOK
    PROVE  Chosen \in DOMAIN template \cup {Nil}
  <1>1. ASSUME NEW S \in SUBSET DOMAIN template, S # {} PROVE Min(S) \in DOMAIN template
    <2>1. S \in SUBSET Nat
      BY DEF BomTypeOK, BomRowsTyped, BomAssumption
    <2>2. Min(S) \in S
      BY <1>1, <2>1, LeastOf
    <2> QED
      BY <2>2
  <1>2. {t \in DOMAIN template : template[t].default} \in SUBSET DOMAIN template
    OBVIOUS
  <1> QED
    BY <1>1, <1>2 DEF Chosen

(* A generated sheet is one.                                               *)
LEMMA GeneratedIsSheet ==
    ASSUME BomAssumption, BomTypeOK PROVE Generated(Chosen) \in Sheet
  <1> DEFINE under == IF Chosen = Nil THEN Blank ELSE template[Chosen].sheet
             line == [i \in Row |-> IF i <= Len(items) THEN items[i] ELSE under.line[i]]
             costs == [i \in Row |-> IF i <= Len(items) THEN cost[items[i].sku] ELSE under.cost[i]]
  <1>1. under \in Sheet
    BY ChosenIsThere, BlankIsSheet DEF BomTypeOK, BomRowsTyped
  <1>2. under.line \in [Row -> Line \cup {Nil}] /\ under.cost \in [Row -> Cost \cup {Nil}]
    BY <1>1, SheetTypes
  <1> HIDE DEF under
  <1>3. \A i \in Row : i <= Len(items) => items[i] \in Line
    BY ElementOfSeq DEF BomTypeOK, BomRowsTyped, Row, BomAssumption
  <1>4. line \in [Row -> Line \cup {Nil}]
    BY <1>2, <1>3
  <1>5. costs \in [Row -> Cost \cup {Nil}]
    BY <1>2, <1>3 DEF Line, BomTypeOK, BomRowsTyped
  <1>6. Generated(Chosen) = [line |-> line, cost |-> costs]
    BY DEF Generated, under
  <1> HIDE DEF line, costs
  <1> QED
    BY <1>4, <1>5, <1>6 DEF Sheet

(* Bringing the items up to date changes quantities only.                  *)
LEMMA SyncedItems ==
    ASSUME BomAssumption, NEW s \in Sheet, NEW list \in Seq(Line)
    PROVE  Synced(s, list) \in [1 .. Len(list) -> Line]
  <1> DEFINE n == Len(list)
             rows(i) == {k \in Row : s.line[k] # Nil /\ s.line[k].sku = list[i].sku}
             item(i) == IF rows(i) = {} THEN list[i]
                        ELSE [list[i] EXCEPT !.qty = s.line[Max(rows(i))].qty]
  <1>1. n \in Nat /\ DOMAIN list = 1 .. n /\ \A i \in 1 .. n : list[i] \in Line
    BY LenProperties, ElementOfSeq
  <1>2. ASSUME NEW i \in 1 .. n PROVE item(i) \in Line
    <2>1. CASE rows(i) = {}
      BY <1>1, <2>1
    <2>2. CASE rows(i) # {}
      <3>1. Max(rows(i)) \in rows(i)
        <4>1. rows(i) \in SUBSET Row
          OBVIOUS
        <4> HIDE DEF rows
        <4> QED
          BY <2>2, <4>1, LastRow
      <3>2. s.line[Max(rows(i))] \in Line
        <4>1. s.line \in [Row -> Line \cup {Nil}]
          BY SheetTypes
        <4>2. \A k \in rows(i) : k \in Row /\ s.line[k] # Nil
          OBVIOUS
        <4> HIDE DEF rows
        <4> QED
          BY <3>1, <4>1, <4>2
      <3>3. s.line[Max(rows(i))].qty \in Quantity
        BY <3>2 DEF Line
      <3> HIDE DEF rows
      <3> QED
        BY <1>1, <2>2, <3>3 DEF Line
    <2> QED
      BY <2>1, <2>2
  <1>3. Synced(s, list) = [i \in 1 .. n |-> item(i)]
    BY <1>1 DEF Synced
  <1> HIDE DEF item
  <1> QED
    BY <1>2, <1>3

-----------------------------------------------------------------------------
(* The requests of the pages                                               *)

(* What each page's request carries from step to step.                     *)
Carried(b) ==
    /\ req[b].at = "idle" => req[b].kind = "idle"
    /\ req[b].at = "none" /\ req[b].kind = "put" => req[b].first /\ ~req[b].allow
    /\ req[b].at = "ready" =>
          /\ req[b].kind = "get" => req[b].base \in Sheet
          /\ req[b].kind = "put" => req[b].base \in Sheet \/ (req[b].allow /\ req[b].first)

(* What it still knows unless somebody else has written.                   *)
Aware(b) ==
    /\ req[b].kind = "put" /\ req[b].at \in {"none", "ready"} => (req[b].first <=> snap = Nil)
    /\ req[b].kind = "put" /\ req[b].at = "ready" =>
          /\ ~req[b].first => req[b].base = snap.sheet
          /\ req[b].first /\ ~req[b].allow => req[b].base = Generated(Chosen)
    /\ req[b].at \in {"stored", "matched"} => snap.sheet.line = view[b].line
    /\ req[b].at = "matched" => req[b].seen = items

BomIInv ==
    /\ BomTypeOK
    /\ \A b \in Browser : Carried(b)
    /\ \A b \in Browser : req[b].quiet => Aware(b)

Stored == <<cost, items, template, snap>>

(* One page's request moves, the others' stay.                             *)
LEMMA Stepped ==
    ASSUME BomTypeOK, NEW b \in Browser, NEW r \in Request, Step(b, r)
    PROVE  /\ req' \in [Browser -> Request] /\ req'[b] = r
           /\ \A c \in Browser \ {b} : req'[c] = req[c]
  BY DEF Step, BomTypeOK, BomRowsTyped

(* A request that was disturbed is otherwise what it was.                  *)
LEMMA DisturbedOne ==
    ASSUME BomTypeOK, NEW c \in Browser
    PROVE  /\ [req[c] EXCEPT !.quiet = FALSE] \in Request
           /\ LET r == [req[c] EXCEPT !.quiet = FALSE]
              IN  /\ ~r.quiet /\ r.at = req[c].at /\ r.kind = req[c].kind /\ r.base = req[c].base
                  /\ r.first = req[c].first /\ r.allow = req[c].allow
  BY DEF BomTypeOK, BomRowsTyped, Request

(* A page that writes disturbs the requests of the others.                 *)
LEMMA SteppedAlone ==
    ASSUME BomTypeOK, NEW b \in Browser, NEW r \in Request, StepAlone(b, r)
    PROVE  /\ req' \in [Browser -> Request] /\ req'[b] = r
           /\ \A c \in Browser \ {b} : ~req'[c].quiet /\ (Carried(c) => Carried(c)')
  <1>1. \A c \in Browser : req'[c] = IF c = b THEN r ELSE [req[c] EXCEPT !.quiet = FALSE]
    BY DEF StepAlone
  <1>2. req' \in [Browser -> Request]
    BY <1>1, DisturbedOne DEF StepAlone
  <1>3. ASSUME NEW c \in Browser \ {b}
        PROVE  ~req'[c].quiet /\ (Carried(c) => Carried(c)')
    <2>1. req'[c] = [req[c] EXCEPT !.quiet = FALSE]
      BY <1>1
    <2>2. /\ ~req'[c].quiet /\ req'[c].at = req[c].at /\ req'[c].kind = req[c].kind
          /\ req'[c].base = req[c].base /\ req'[c].first = req[c].first
          /\ req'[c].allow = req[c].allow
      BY <2>1, DisturbedOne
    <2> QED
      BY <2>2 DEF Carried
  <1> QED
    BY <1>1, <1>2, <1>3

(* A write from elsewhere disturbs the requests of every page.             *)
LEMMA AllDisturbed ==
    ASSUME BomTypeOK, Disturb, \A b \in Browser : Carried(b)
    PROVE  /\ req' \in [Browser -> Request]
           /\ \A c \in Browser : ~req'[c].quiet /\ Carried(c)'
  <1>1. \A c \in Browser : req'[c] = [req[c] EXCEPT !.quiet = FALSE]
    BY DEF Disturb
  <1>2. req' \in [Browser -> Request]
    BY <1>1, DisturbedOne DEF Disturb
  <1>3. ASSUME NEW c \in Browser
        PROVE  ~req'[c].quiet /\ Carried(c)'
    <2>1. req'[c] = [req[c] EXCEPT !.quiet = FALSE]
      BY <1>1
    <2>2. /\ ~req'[c].quiet /\ req'[c].at = req[c].at /\ req'[c].kind = req[c].kind
          /\ req'[c].base = req[c].base /\ req'[c].first = req[c].first
          /\ req'[c].allow = req[c].allow
      BY <2>1, DisturbedOne
    <2> QED
      BY <2>2 DEF Carried
  <1> QED
    BY <1>2, <1>3

(* What a page knows of the stored rows stays as long as they do.          *)
LEMMA AwareStays ==
    ASSUME NEW c \in Browser, UNCHANGED Stored, req'[c] = req[c], view'[c] = view[c]
    PROVE  (Carried(c) => Carried(c)') /\ (Aware(c) => Aware(c)')
  <1>1. Carried(c) => Carried(c)'
    BY DEF Carried
  <1>2. Generated(Chosen)' = Generated(Chosen)
    BY DEF Stored, Generated, Chosen
  <1>3. Aware(c) => Aware(c)'
    BY <1>2 DEF Stored, Aware
  <1> QED
    BY <1>1, <1>3

(* Carried and known go together.                                          *)
LEMMA IInvFrom ==
    ASSUME BomRowsTyped', req' \in [Browser -> Request], edits' \in 0 .. Saves,
           \A c \in Browser : Carried(c)' /\ (req'[c].quiet => Aware(c)')
    PROVE  BomIInv'
  BY DEF BomIInv, BomTypeOK

(* A step that writes no row: its own page has to be looked at.            *)
LEMMA QuietStep ==
    ASSUME BomIInv, NEW b \in Browser, NEW r \in Request, Step(b, r), UNCHANGED Stored,
           UNCHANGED may, edits' \in 0 .. Saves,
           view' \in [Browser -> Sheet], \A c \in Browser \ {b} : view'[c] = view[c],
           Carried(b)', r.quiet => Aware(b)'
    PROVE  BomIInv'
  <1>1. /\ req' \in [Browser -> Request] /\ req'[b] = r
        /\ \A c \in Browser \ {b} : req'[c] = req[c]
    BY Stepped DEF BomIInv
  <1>2. BomRowsTyped'
    BY DEF BomIInv, BomTypeOK, BomRowsTyped, Stored
  <1>3. \A c \in Browser : Carried(c)' /\ (req'[c].quiet => Aware(c)')
    BY <1>1, AwareStays DEF BomIInv
  <1> QED
    BY <1>1, <1>2, <1>3, IInvFrom

(* A step that writes rows: the other pages know nothing any more.         *)
LEMMA WritingStep ==
    ASSUME BomIInv, NEW b \in Browser, NEW r \in Request, StepAlone(b, r), BomRowsTyped',
           edits' \in 0 .. Saves, Carried(b)', r.quiet => Aware(b)'
    PROVE  BomIInv'
  <1>1. /\ req' \in [Browser -> Request] /\ req'[b] = r
        /\ \A c \in Browser \ {b} : ~req'[c].quiet /\ Carried(c)'
    BY SteppedAlone DEF BomIInv
  <1>2. \A c \in Browser : Carried(c)' /\ (req'[c].quiet => Aware(c)')
    BY <1>1
  <1> QED
    BY <1>1, <1>2, IInvFrom

(* A change from elsewhere: no page knows anything any more.               *)
LEMMA ForeignStep ==
    ASSUME BomIInv, Disturb, BomRowsTyped', edits' \in 0 .. Saves PROVE BomIInv'
  <1>1. /\ req' \in [Browser -> Request]
        /\ \A c \in Browser : ~req'[c].quiet /\ Carried(c)'
    BY AllDisturbed DEF BomIInv
  <1> QED
    BY <1>1, IInvFrom

(* A page that rests.                                                      *)
LEMMA IdlePageRests ==
    /\ IdlePage \in Request /\ <<>> \in Seq(Line)
    /\ \A b \in Browser : req'[b] = IdlePage => Carried(b)' /\ Aware(b)'
  <1>1. IdlePage.at = "idle" /\ IdlePage.kind = "idle" /\ IdlePage \in Request
    BY DEF IdlePage, Request
  <1>2. <<>> \in Seq(Line)
    OBVIOUS
  <1> QED
    BY <1>1, <1>2 DEF Carried, Aware

(* A page that comes to rest without a write keeps the invariant.          *)
LEMMA RestStep ==
    ASSUME BomIInv, NEW b \in Browser, Step(b, IdlePage), UNCHANGED Stored,
           UNCHANGED may, edits' \in 0 .. Saves,
           view' \in [Browser -> Sheet], \A c \in Browser \ {b} : view'[c] = view[c]
    PROVE  BomIInv'
  <1>1. req'[b] = IdlePage
    BY Stepped, IdlePageRests DEF BomIInv
  <1> QED
    BY <1>1, IdlePageRests, QuietStep

(* One more edit is counted.                                               *)
LEMMA EditCounted == ASSUME BomAssumption, BomIInv, Edited PROVE edits' \in 0 .. Saves
  BY DEF BomIInv, BomTypeOK, Edited, BomAssumption

-----------------------------------------------------------------------------
(* The steps of a page                                                     *)

(* Opening the BOM shows the snapshot or starts to generate one.           *)
LEMMA OpenStep == ASSUME BomAssumption, BomIInv, NEW b \in Browser, Open(b) PROVE BomIInv'
  <1>1. /\ UNCHANGED Stored /\ UNCHANGED may /\ edits' \in 0 .. Saves
        /\ snap # Nil => snap.sheet \in Sheet
        /\ view \in [Browser -> Sheet] /\ may[b] \in BOOLEAN
    BY DEF Open, Stored, BomIInv, BomTypeOK, BomRowsTyped, Snapshot
  <1>2. CASE snap # Nil
    <2>1. view' = [view EXCEPT ![b] = Shown(snap.sheet, may[b])] /\ req' = req
      BY <1>2 DEF Open
    <2>2. BomRowsTyped'
      BY <1>1, <1>2, <2>1, ShownIsSheet DEF Stored, BomIInv, BomTypeOK, BomRowsTyped
    <2>3. ASSUME NEW c \in Browser PROVE Carried(c)' /\ (req'[c].quiet => Aware(c)')
      <3>1. CASE c = b
        BY <2>1, <3>1 DEF Open, BomIInv, Carried, Aware
      <3>2. CASE c # b
        BY <1>1, <2>1, <3>2, AwareStays DEF BomIInv
      <3> QED
        BY <3>1, <3>2
    <2> QED
      BY <1>1, <2>1, <2>2, <2>3, IInvFrom DEF BomIInv, BomTypeOK
  <1>3. CASE snap = Nil
    <2> DEFINE r == [IdlePage EXCEPT !.at = "none", !.kind = "get", !.allow = may[b]]
    <2>1. Step(b, r) /\ view' = view
      BY <1>3 DEF Open
    <2>2. r \in Request /\ r.at = "none" /\ r.kind = "get"
      BY <1>1, IdlePageRests DEF IdlePage, Request
    <2> HIDE DEF r
    <2>3. req'[b] = r
      BY <2>1, <2>2, Stepped DEF BomIInv
    <2>4. Carried(b)' /\ Aware(b)'
      BY <2>2, <2>3 DEF Carried, Aware
    <2> QED
      BY <1>1, <2>1, <2>2, <2>4, QuietStep
  <1> QED
    BY <1>2, <1>3

(* The first half of a save looks whether there is a snapshot, and which.  *)
LEMMA SaveStep == ASSUME BomAssumption, BomIInv, NEW b \in Browser, Save(b) PROVE BomIInv'
  <1> DEFINE r == [IdlePage EXCEPT !.kind = "put", !.allow = may[b], !.first = (snap = Nil),
                                   !.base = IF snap = Nil THEN Nil ELSE snap.sheet,
                                   !.at = IF snap = Nil /\ ~may[b] THEN "none" ELSE "ready"]
  <1>1. /\ UNCHANGED Stored /\ UNCHANGED may /\ edits' \in 0 .. Saves
        /\ snap # Nil => snap.sheet \in Sheet
        /\ view \in [Browser -> Sheet] /\ may[b] \in BOOLEAN
    BY EditCounted DEF Save, Stored, BomIInv, BomTypeOK, BomRowsTyped, Snapshot
  <1>2. Step(b, r) /\ \E s \in Edits(view[b]) : view' = [view EXCEPT ![b] = s]
    BY DEF Save
  <1>3. /\ r \in Request /\ r.kind = "put" /\ (r.allow <=> may[b]) /\ (r.first <=> snap = Nil)
        /\ r.base = IF snap = Nil THEN Nil ELSE snap.sheet
        /\ r.at = IF snap = Nil /\ ~may[b] THEN "none" ELSE "ready"
    BY <1>1, IdlePageRests DEF IdlePage, Request
  <1> HIDE DEF r
  <1>4. req'[b] = r
    BY <1>2, <1>3, Stepped DEF BomIInv
  <1>5. view' \in [Browser -> Sheet] /\ \A c \in Browser \ {b} : view'[c] = view[c]
    BY <1>1, <1>2, EditsAreSheets
  <1>6. Carried(b)' /\ Aware(b)'
    BY <1>1, <1>3, <1>4 DEF Carried, Aware, Stored
  <1> QED
    BY <1>1, <1>2, <1>3, <1>5, <1>6, QuietStep

(* Generating reads the template and the items of the moment.              *)
LEMMA GenerateStep == ASSUME BomAssumption, BomIInv, NEW b \in Browser, Generate(b) PROVE BomIInv'
  <1> DEFINE tid == IF req[b].kind = "get" THEN Chosen ELSE Nil
             r == [req[b] EXCEPT !.at = "ready", !.base = Generated(Chosen), !.tid = tid]
  <1>1. /\ UNCHANGED Stored /\ UNCHANGED may /\ edits' \in 0 .. Saves /\ view' = view
        /\ view \in [Browser -> Sheet] /\ req[b] \in Request
    BY DEF Generate, Stored, BomIInv, BomTypeOK, BomRowsTyped
  <1>2. Step(b, r) /\ req[b].at = "none"
    BY DEF Generate
  <1>3. Generated(Chosen) \in Sheet /\ tid \in 1 .. MaxTemplate \cup {Nil}
    BY GeneratedIsSheet, ChosenIsThere DEF BomIInv, BomTypeOK, BomRowsTyped
  <1> HIDE DEF tid
  <1>4. /\ r \in Request /\ r.kind = req[b].kind /\ r.allow = req[b].allow
        /\ r.first = req[b].first /\ r.at = "ready" /\ r.base = Generated(Chosen)
        /\ r.quiet = req[b].quiet
    BY <1>1, <1>3 DEF Request
  <1> HIDE DEF r
  <1>5. req'[b] = r
    BY <1>2, <1>4, Stepped DEF BomIInv
  <1>6. Carried(b)'
    BY <1>3, <1>4, <1>5 DEF Carried
  <1>7. Carried(b) /\ (req[b].quiet => Aware(b))
    BY DEF BomIInv
  <1>8. Generated(Chosen)' = Generated(Chosen)
    BY <1>1 DEF Stored, Generated, Chosen
  <1>9. r.quiet => Aware(b)'
    BY <1>1, <1>2, <1>4, <1>5, <1>7, <1>8 DEF Aware, Carried, Stored
  <1> QED
    BY <1>1, <1>2, <1>4, <1>6, <1>9, QuietStep

(* A request that goes on.                                                 *)
LEMMA GoesOn ==
    ASSUME BomTypeOK, NEW b \in Browser,
           NEW at \in {"none", "ready", "answer", "stored", "matched", "synced"}
    PROVE  /\ To(b, at) \in Request /\ To(b, at).at = at /\ To(b, at).kind = req[b].kind
           /\ To(b, at).quiet = req[b].quiet
  <1>1. req[b] \in Request
    BY DEF BomTypeOK
  <1> QED
    BY <1>1 DEF To, Request

(* Inserting stores the generated sheet unless another page was first.     *)
LEMMA InsertStep == ASSUME BomAssumption, BomIInv, NEW b \in Browser, Insert(b) PROVE BomIInv'
  <1> DEFINE r == To(b, "answer")
  <1>1. /\ UNCHANGED <<cost, items, template, may, view>> /\ edits' \in 0 .. Saves
        /\ view \in [Browser -> Sheet] /\ req[b] \in Request /\ BomTypeOK
        /\ req[b].kind = "get" /\ req[b].at = "ready"
    BY DEF Insert, BomIInv, BomTypeOK, BomRowsTyped
  <1>2. /\ r \in Request /\ r.at = "answer" /\ r.kind = "get"
    BY <1>1, GoesOn
  <1> HIDE DEF r
  <1>3. req'[b] = r => Carried(b)' /\ Aware(b)'
    BY <1>2 DEF Carried, Aware
  <1>4. CASE StepAlone(b, r) /\ snap' = [tid |-> req[b].tid, sheet |-> req[b].base]
             /\ req[b].tid \in DOMAIN template \cup {Nil}
    <2>1. req'[b] = r
      BY <1>1, <1>2, <1>4, SteppedAlone
    <2>2. Carried(b)
      BY DEF BomIInv
    <2>3. req[b].base \in Sheet /\ req[b].tid \in 1 .. MaxTemplate \cup {Nil}
      BY <1>1, <2>2 DEF Carried, Request
    <2>4. snap' \in Snapshot /\ snap'.tid \in DOMAIN template \cup {Nil}
      BY <1>4, <2>3 DEF Snapshot
    <2>5. BomRowsTyped'
      BY <1>1, <2>4 DEF BomTypeOK, BomRowsTyped
    <2> QED
      BY <1>1, <1>2, <1>3, <1>4, <2>1, <2>5, WritingStep
  <1>5. CASE Step(b, r) /\ UNCHANGED snap
    <2>1. req'[b] = r
      BY <1>1, <1>2, <1>5, Stepped
    <2> QED
      BY <1>1, <1>2, <1>3, <1>5, <2>1, QuietStep DEF Stored
  <1> QED
    BY <1>4, <1>5 DEF Insert, r

(* The answer to a reader shows what is stored, with or without costs.     *)
LEMMA AnswerStep == ASSUME BomAssumption, BomIInv, NEW b \in Browser, GetAnswer(b) PROVE BomIInv'
  <1>1. /\ UNCHANGED Stored /\ UNCHANGED may /\ edits' \in 0 .. Saves
        /\ snap # Nil => snap.sheet \in Sheet
        /\ view \in [Browser -> Sheet] /\ req[b].allow \in BOOLEAN
    BY DEF GetAnswer, Stored, BomIInv, BomTypeOK, BomRowsTyped, Snapshot, Request
  <1>2. Step(b, IdlePage)
    BY DEF GetAnswer, Answer
  <1>3. \/ view' = view
        \/ snap # Nil /\ view' = [view EXCEPT ![b] = Shown(snap.sheet, req[b].allow)]
    BY DEF GetAnswer, Answer
  <1>4. view' \in [Browser -> Sheet] /\ \A c \in Browser \ {b} : view'[c] = view[c]
    BY <1>1, <1>3, ShownIsSheet
  <1> QED
    BY <1>1, <1>2, <1>4, RestStep

(* What a save stores has the lines of the page and, for those who do not  *)
(* see them, the costs that were there.                                    *)
LEMMA StoreKeeps ==
    ASSUME BomIInv, NEW b \in Browser, req[b].at = "ready", req[b].kind = "put"
    PROVE  /\ ToStore(b) \in Sheet /\ ToStore(b).line = view[b].line
           /\ ~req[b].allow => ToStore(b).cost = req[b].base.cost
  <1>1. view[b] \in Sheet /\ Carried(b)
    BY DEF BomIInv, BomTypeOK, BomRowsTyped
  <1>2. CASE req[b].allow
    BY <1>1, <1>2 DEF ToStore
  <1>3. CASE ~req[b].allow
    <2>1. req[b].base \in Sheet
      BY <1>1, <1>3 DEF Carried
    <2>2. req[b].base.cost \in [Row -> Cost \cup {Nil}]
      BY <2>1, SheetTypes
    <2>3. ToStore(b) = [view[b] EXCEPT !.cost = req[b].base.cost]
      BY <1>3 DEF ToStore, KeepServerCost
    <2> QED
      BY <1>1, <2>2, <2>3, SheetTypes
  <1> QED
    BY <1>2, <1>3

(* A save that stores.                                                     *)
LEMMA Saved ==
    ASSUME BomIInv, NEW b \in Browser, Store(b), req'[b].at = "stored"
    PROVE  /\ req[b].at = "ready" /\ req[b].kind = "put" /\ (req[b].first <=> snap = Nil)
           /\ StepAlone(b, To(b, "stored"))
           /\ \/ req[b].first /\ snap' = [tid |-> Nil, sheet |-> ToStore(b)]
              \/ ~req[b].first /\ snap' = snap /\ ToStore(b) = req[b].base
              \/ ~req[b].first /\ snap' = [snap EXCEPT !.sheet = ToStore(b)]
  <1>1. ~Step(b, IdlePage)
    <2>1. Step(b, IdlePage) => req'[b] = IdlePage
      BY Stepped, IdlePageRests DEF BomIInv
    <2> QED
      BY <2>1 DEF IdlePage
  <1>2. req[b].at = "ready" /\ req[b].kind = "put" /\ req[b].first \in BOOLEAN
    BY DEF Store, BomIInv, BomTypeOK, Request
  <1>3. (req[b].first <=> snap = Nil) /\ StepAlone(b, To(b, "stored"))
    BY <1>1, <1>2 DEF Store
  <1>4. snap' = CASE req[b].first -> [tid |-> Nil, sheet |-> ToStore(b)]
                  [] Unchanged(b) -> snap
                  [] OTHER        -> [snap EXCEPT !.sheet = ToStore(b)]
    BY <1>1 DEF Store
  <1> QED
    BY <1>2, <1>3, <1>4 DEF Unchanged

(* Storing writes the sheet of the page, with the costs it may not see     *)
(* taken from the base.                                                    *)
LEMMA StoreStep == ASSUME BomAssumption, BomIInv, NEW b \in Browser, Store(b) PROVE BomIInv'
  <1>1. /\ UNCHANGED <<cost, items, template, may, view>> /\ edits' \in 0 .. Saves
        /\ view \in [Browser -> Sheet] /\ req[b] \in Request /\ BomTypeOK
        /\ req[b].kind = "put" /\ req[b].at = "ready"
    BY DEF Store, BomIInv, BomTypeOK, BomRowsTyped
  <1>2. CASE Step(b, IdlePage) /\ UNCHANGED snap
    BY <1>1, <1>2, RestStep DEF Stored
  <1>3. CASE StepAlone(b, To(b, "stored"))
    <2> DEFINE r == To(b, "stored")
    <2>1. r \in Request /\ r.at = "stored" /\ r.kind = "put" /\ (r.quiet <=> req[b].quiet)
      BY <1>1, GoesOn
    <2> HIDE DEF r
    <2>2. req'[b] = r
      BY <1>1, <1>3, <2>1, SteppedAlone DEF r
    <2>3. /\ req[b].first <=> snap = Nil
          /\ \/ req[b].first /\ snap' = [tid |-> Nil, sheet |-> ToStore(b)]
             \/ ~req[b].first /\ snap' = snap /\ ToStore(b) = req[b].base
             \/ ~req[b].first /\ snap' = [snap EXCEPT !.sheet = ToStore(b)]
      BY <2>1, <2>2, Saved
    <2>4. ToStore(b) \in Sheet /\ ToStore(b).line = view[b].line
      BY <1>1, StoreKeeps
    <2>5. snap # Nil => snap \in Snapshot /\ snap.tid \in DOMAIN template \cup {Nil}
      BY <1>1 DEF BomTypeOK, BomRowsTyped
    <2>6. snap' \in Snapshot /\ snap'.tid \in DOMAIN template \cup {Nil}
      BY <2>3, <2>4, <2>5 DEF Snapshot
    <2>7. BomRowsTyped'
      BY <1>1, <2>6 DEF BomTypeOK, BomRowsTyped
    <2>8. Carried(b)'
      BY <2>1, <2>2 DEF Carried
    <2>9. ASSUME r.quiet PROVE Aware(b)'
      <3>1. Aware(b)
        BY <2>1, <2>9 DEF BomIInv
      <3>2. snap'.sheet = ToStore(b)
        BY <1>1, <2>3, <2>5, <3>1 DEF Aware, Snapshot
      <3> QED
        BY <1>1, <2>1, <2>2, <2>4, <3>2 DEF Aware
    <2> QED
      BY <1>1, <1>3, <2>1, <2>7, <2>8, <2>9, WritingStep DEF r
  <1> QED
    BY <1>2, <1>3 DEF Store

(* A save that looks at the items writes none.                             *)
LEMMA SyncStep == ASSUME BomAssumption, BomIInv, NEW b \in Browser, Sync(b) PROVE BomIInv'
  <1>1. /\ UNCHANGED Stored /\ UNCHANGED <<may, view>> /\ edits' \in 0 .. Saves
        /\ view \in [Browser -> Sheet] /\ items \in Seq(Line)
        /\ BomTypeOK /\ req[b] \in Request /\ req[b].at = "stored"
    BY DEF Sync, Stored, BomIInv, BomTypeOK, BomRowsTyped
  <1>2. CASE snap = Nil
    BY <1>1, <1>2, RestStep DEF Sync
  <1>3. CASE snap # Nil
    <2> DEFINE r == [To(b, "matched") EXCEPT !.seen = items]
    <2>1. r \in Request /\ r.at = "matched" /\ r.kind = req[b].kind /\ r.seen = items
          /\ r.quiet = req[b].quiet
      BY <1>1 DEF To, Request
    <2>2. Step(b, r)
      BY <1>3 DEF Sync
    <2> HIDE DEF r
    <2>3. req'[b] = r
      BY <1>1, <2>1, <2>2, Stepped
    <2>4. Carried(b)'
      BY <2>1, <2>3 DEF Carried
    <2>5. ASSUME r.quiet PROVE Aware(b)'
      <3>1. snap.sheet.line = view[b].line
        BY <1>1, <2>1, <2>5 DEF BomIInv, Aware
      <3> QED
        BY <1>1, <2>1, <2>3, <3>1 DEF Aware, Stored
    <2> QED
      BY <1>1, <2>1, <2>2, <2>4, <2>5, QuietStep
  <1> QED
    BY <1>2, <1>3

(* Writing them changes quantities only.                                   *)
LEMMA CommitItemsStep ==
    ASSUME BomAssumption, BomIInv, NEW b \in Browser, CommitItems(b) PROVE BomIInv'
  <1>1. /\ UNCHANGED <<cost, template, snap, may, view>> /\ edits' \in 0 .. Saves
        /\ view \in [Browser -> Sheet] /\ items \in Seq(Line) /\ Len(items) <= MaxRow
        /\ BomTypeOK /\ req[b] \in Request
    BY DEF CommitItems, BomIInv, BomTypeOK, BomRowsTyped
  <1> DEFINE r == [To(b, "synced") EXCEPT !.seen = <<>>]
             to == Synced(view[b], items)
  <1>2. CASE Step(b, IdlePage) /\ UNCHANGED items
    BY <1>1, <1>2, RestStep DEF Stored
  <1>3. ASSUME NEW sent, StepAlone(b, r),
               items' = [i \in DOMAIN items |-> IF items[i].sku \in sent THEN to[i] ELSE items[i]]
        PROVE  BomIInv'
    <2>1. r \in Request /\ r.at = "synced"
      BY <1>1, IdlePageRests DEF To, Request
    <2> HIDE DEF r
    <2>2. req'[b] = r
      BY <1>1, <1>3, <2>1, SteppedAlone
    <2>3. BomRowsTyped'
      <3>1. to \in [1 .. Len(items) -> Line]
        BY <1>1, SyncedItems
      <3> HIDE DEF to
      <3>2. DOMAIN items = 1 .. Len(items) /\ \A i \in 1 .. Len(items) : items[i] \in Line
        BY <1>1, LenProperties, ElementOfSeq
      <3>3. items' \in [1 .. Len(items) -> Line] /\ Len(items) \in Nat
        BY <1>1, <1>3, <3>1, <3>2
      <3>4. items' \in Seq(Line) /\ Len(items') = Len(items)
        BY <3>3
      <3> QED
        BY <1>1, <3>4 DEF BomTypeOK, BomRowsTyped
    <2>4. Carried(b)' /\ Aware(b)'
      BY <2>1, <2>2 DEF Carried, Aware
    <2> QED
      BY <1>1, <1>3, <2>1, <2>3, <2>4, WritingStep
  <1> QED
    BY <1>2, <1>3 DEF CommitItems

-----------------------------------------------------------------------------
(* What changes elsewhere                                                  *)

(* A new template comes above those in use.                                *)
LEMMA TemplateStep ==
    ASSUME BomAssumption, BomIInv, NEW d \in BOOLEAN, NEW s \in Sheet, AddTemplate(d, s)
    PROVE  BomIInv'
  <1> DEFINE t == 1 + Max(DOMAIN template \cup {0})
  <1>1. /\ t <= MaxTemplate /\ Disturb /\ Edited
        /\ template' = [u \in DOMAIN template \cup {t} |->
                          IF u = t THEN [default |-> d, sheet |-> s] ELSE template[u]]
        /\ UNCHANGED <<cost, items, snap, may, view>>
    BY DEF AddTemplate
  <1>2. t \in 1 .. MaxTemplate
    <2>1. Max(DOMAIN template \cup {0}) \in 0 .. MaxTemplate
      BY NextOf DEF BomIInv, BomTypeOK, BomRowsTyped, BomAssumption
    <2> QED
      BY <1>1, <2>1 DEF BomAssumption
  <1> HIDE DEF t
  <1>3. template' \in [DOMAIN template' -> [default : BOOLEAN, sheet : Sheet]]
    BY <1>1 DEF BomIInv, BomTypeOK, BomRowsTyped
  <1>4. BomRowsTyped'
    BY <1>1, <1>2, <1>3 DEF BomIInv, BomTypeOK, BomRowsTyped
  <1> QED
    BY <1>1, <1>4, EditCounted, ForeignStep

(* The five actions on templates: a snapshot's template is there or the    *)
(* snapshot names none.                                                    *)
LEMMA TemplatesStep ==
    ASSUME BomAssumption, BomIInv,
           CreateTemplate \/ DuplicateTemplate \/ SaveAsTemplate \/ UpdateTemplate \/ DeleteTemplate
    PROVE  BomIInv'
  <1>1. /\ template \in [DOMAIN template -> [default : BOOLEAN, sheet : Sheet]]
        /\ DOMAIN template \subseteq 1 .. MaxTemplate
        /\ snap \in Snapshot \cup {Nil} /\ (snap # Nil => snap.tid \in DOMAIN template \cup {Nil})
    BY DEF BomIInv, BomTypeOK, BomRowsTyped
  <1>2. ClientSheets \subseteq Sheet
    BY BlankIsSheet DEF ClientSheets, BomIInv, BomTypeOK, BomRowsTyped
  <1>3. CASE CreateTemplate
    <2>1. PICK d \in BOOLEAN, s \in ClientSheets : AddTemplate(d, s)
      BY <1>3 DEF CreateTemplate
    <2> QED
      BY <1>2, <2>1, TemplateStep
  <1>4. CASE DuplicateTemplate
    <2>1. PICK t \in DOMAIN template : AddTemplate(FALSE, template[t].sheet)
      BY <1>4 DEF DuplicateTemplate
    <2>2. template[t].sheet \in Sheet
      BY <1>1
    <2> QED
      BY <2>1, <2>2, TemplateStep
  <1>5. CASE SaveAsTemplate
    <2>1. snap.sheet \in Sheet /\ AddTemplate(FALSE, snap.sheet)
      BY <1>1, <1>5 DEF SaveAsTemplate, Snapshot
    <2> QED
      BY <2>1, TemplateStep
  <1>6. CASE UpdateTemplate
    <2>1. PICK t \in DOMAIN template, d \in BOOLEAN :
            \E s \in ClientSheets \cup {template[t].sheet} :
              template' = [template EXCEPT ![t] = [default |-> d, sheet |-> s]]
      BY <1>6 DEF UpdateTemplate
    <2>2. template' \in [DOMAIN template -> [default : BOOLEAN, sheet : Sheet]]
      BY <1>1, <1>2, <2>1
    <2>3. Disturb /\ Edited /\ UNCHANGED <<cost, items, snap, may, view>>
      BY <1>6 DEF UpdateTemplate
    <2>4. BomRowsTyped'
      BY <1>1, <2>2, <2>3 DEF BomIInv, BomTypeOK, BomRowsTyped
    <2> QED
      BY <2>3, <2>4, EditCounted, ForeignStep
  <1>7. CASE DeleteTemplate
    <2>1. PICK t \in DOMAIN template :
            /\ template' = [u \in DOMAIN template \ {t} |-> template[u]]
            /\ snap' = IF snap # Nil /\ snap.tid = t THEN Nil ELSE snap
      BY <1>7 DEF DeleteTemplate
    <2>2. Disturb /\ Edited /\ UNCHANGED <<cost, items, may, view>>
      BY <1>7 DEF DeleteTemplate
    <2>3. template' \in [DOMAIN template' -> [default : BOOLEAN, sheet : Sheet]]
      BY <1>1, <2>1
    <2>4. /\ snap' \in Snapshot \cup {Nil}
          /\ snap' # Nil => snap'.tid \in DOMAIN template' \cup {Nil}
      BY <1>1, <2>1
    <2>5. BomRowsTyped'
      BY <1>1, <2>1, <2>2, <2>3, <2>4 DEF BomIInv, BomTypeOK, BomRowsTyped
    <2> QED
      BY <2>2, <2>5, EditCounted, ForeignStep
  <1> QED
    BY <1>3, <1>4, <1>5, <1>6, <1>7

(* An item of the solution goes.                                           *)
LEMMA ItemGone ==
    ASSUME BomAssumption, BomTypeOK, DeleteItem PROVE items' \in Seq(Line) /\ Len(items') <= MaxRow
  <1> DEFINE n == Len(items)
  <1>1. items \in Seq(Line) /\ n \in Nat /\ n <= MaxRow /\ DOMAIN items = 1 .. n
    BY LenProperties DEF BomTypeOK, BomRowsTyped
  <1>2. PICK i \in 1 .. n :
          items' = [k \in 1 .. n - 1 |-> IF k < i THEN items[k] ELSE items[k + 1]]
    BY <1>1 DEF DeleteItem
  <1>3. \A k \in 1 .. n : items[k] \in Line
    BY <1>1, ElementOfSeq
  <1>4. n - 1 \in Nat /\ \A k \in 1 .. n - 1 : k \in 1 .. n /\ k + 1 \in 1 .. n
    BY <1>1
  <1>5. items' \in [1 .. n - 1 -> Line]
    BY <1>2, <1>3, <1>4
  <1> HIDE DEF n
  <1>6. items' \in Seq(Line) /\ Len(items') = n - 1
    BY <1>4, <1>5
  <1> QED
    BY <1>1, <1>6 DEF BomAssumption

(* Costs, permissions, items and a restart.                                *)
LEMMA ElsewhereStep ==
    ASSUME BomAssumption, BomIInv, EditCost \/ SetPermission \/ DeleteItem \/ BomRestart
    PROVE  BomIInv'
  <1>1. CASE EditCost
    <2>1. Disturb /\ Edited /\ UNCHANGED <<items, template, snap, may, view>>
      BY <1>1 DEF EditCost
    <2>2. cost' \in [Ware -> Cost]
      BY <1>1 DEF EditCost, BomIInv, BomTypeOK, BomRowsTyped
    <2>3. BomRowsTyped'
      BY <2>1, <2>2 DEF BomIInv, BomTypeOK, BomRowsTyped
    <2> QED
      BY <2>1, <2>3, EditCounted, ForeignStep
  <1>2. CASE SetPermission
    <2>1. Edited /\ UNCHANGED Stored /\ view' = view /\ req' = req
      BY <1>2 DEF SetPermission, Stored
    <2>2. may' \in [Browser -> BOOLEAN]
      BY <1>2 DEF SetPermission, BomIInv, BomTypeOK, BomRowsTyped
    <2>3. BomRowsTyped'
      BY <2>1, <2>2 DEF BomIInv, BomTypeOK, BomRowsTyped, Stored
    <2>4. \A c \in Browser : Carried(c)' /\ (req'[c].quiet => Aware(c)')
      BY <2>1, AwareStays DEF BomIInv
    <2> QED
      BY <2>1, <2>3, <2>4, EditCounted, IInvFrom DEF BomIInv, BomTypeOK
  <1>3. CASE DeleteItem
    <2>1. Disturb /\ Edited /\ UNCHANGED <<cost, template, snap, may, view>>
      BY <1>3 DEF DeleteItem
    <2>2. items' \in Seq(Line) /\ Len(items') <= MaxRow
      BY <1>3, ItemGone DEF BomIInv
    <2>3. BomRowsTyped'
      BY <2>1, <2>2 DEF BomIInv, BomTypeOK, BomRowsTyped
    <2> QED
      BY <2>1, <2>3, EditCounted, ForeignStep
  <1>4. CASE BomRestart
    <2>1. UNCHANGED Stored /\ UNCHANGED <<may, view, edits>> /\ req' = [b \in Browser |-> IdlePage]
      BY <1>4 DEF BomRestart, Stored
    <2>2. BomRowsTyped'
      BY <2>1 DEF BomIInv, BomTypeOK, BomRowsTyped, Stored
    <2>3. req' \in [Browser -> Request] /\ \A c \in Browser : req'[c] = IdlePage
      BY <2>1, IdlePageRests
    <2> QED
      BY <2>1, <2>2, <2>3, IdlePageRests, IInvFrom DEF BomIInv, BomTypeOK
  <1> QED
    BY <1>1, <1>2, <1>3, <1>4

(* Every step keeps the invariant.                                         *)
LEMMA BomIInvNext == BomAssumption /\ BomIInv /\ [BomNext]_bomVars => BomIInv'
  <1> SUFFICES ASSUME BomAssumption, BomIInv, [BomNext]_bomVars PROVE BomIInv'
    OBVIOUS
  <1>1. CASE UNCHANGED bomVars
    <2>1. UNCHANGED Stored /\ UNCHANGED <<may, view, req, edits>>
      BY <1>1 DEF bomVars, Stored
    <2>2. BomRowsTyped'
      BY <2>1 DEF BomIInv, BomTypeOK, BomRowsTyped, Stored
    <2>3. \A c \in Browser : Carried(c)' /\ (req'[c].quiet => Aware(c)')
      BY <2>1, AwareStays DEF BomIInv
    <2> QED
      BY <2>1, <2>2, <2>3, IInvFrom DEF BomIInv, BomTypeOK
  <1>2. ASSUME NEW b \in Browser, PutAnswer(b) PROVE BomIInv'
    <2>1. /\ Step(b, IdlePage) /\ UNCHANGED Stored /\ UNCHANGED <<may, view, edits>>
          /\ view \in [Browser -> Sheet] /\ edits \in 0 .. Saves
      BY <1>2 DEF PutAnswer, Stored, BomIInv, BomTypeOK, BomRowsTyped
    <2> QED
      BY <2>1, RestStep
  <1> QED
    BY <1>1, <1>2, OpenStep, SaveStep, GenerateStep, InsertStep, AnswerStep, StoreStep, SyncStep,
       CommitItemsStep,
       TemplatesStep, ElsewhereStep DEF BomNext

(* No page has asked for anything at first.                                *)
LEMMA BomIInvInit == BomAssumption /\ BomInit => BomIInv
  <1> SUFFICES ASSUME BomAssumption, BomInit PROVE BomIInv
    OBVIOUS
  <1>1. Min(Cost) \in Cost /\ Min(Quantity) \in Quantity
    BY LeastOf DEF BomAssumption
  <1>2. items \in Seq(Line) /\ Len(items) <= MaxRow
    <2>1. items \in [Row -> [sku : Ware, qty : {Min(Quantity)}]]
      BY DEF BomInit
    <2>2. [sku : Ware, qty : {Min(Quantity)}] \subseteq Line
      BY <1>1 DEF Line
    <2>3. items \in [1 .. MaxRow -> Line]
      BY <2>1, <2>2 DEF Row
    <2> QED
      BY <2>3 DEF BomAssumption
  <1>3. /\ DOMAIN template \subseteq 1 .. MaxTemplate
        /\ template \in [DOMAIN template -> [default : BOOLEAN, sheet : Sheet]]
    BY BlankIsSheet DEF BomInit, BomAssumption
  <1>4. BomRowsTyped
    BY <1>1, <1>2, <1>3, BlankIsSheet DEF BomInit, BomRowsTyped
  <1>5. req \in [Browser -> Request] /\ \A b \in Browser : req[b] = IdlePage
    BY IdlePageRests DEF BomInit
  <1>6. \A b \in Browser : Carried(b) /\ Aware(b)
    BY <1>5 DEF IdlePage, Carried, Aware
  <1> QED
    BY <1>4, <1>5, <1>6 DEF BomInit, BomIInv, BomTypeOK, BomAssumption

-----------------------------------------------------------------------------
(* The properties                                                          *)

(* A page's request goes on in its own step.                               *)
LEMMA OwnPageStep ==
    ASSUME BomTypeOK, BomNext, NEW b \in Browser, req'[b].at # req[b].at, req'[b].at # "idle"
    PROVE  \/ Open(b) \/ Save(b) \/ Generate(b) \/ Insert(b)
           \/ Store(b) \/ Sync(b) \/ CommitItems(b)
  <1>1. ASSUME NEW c \in Browser, c # b, NEW r, Step(c, r) \/ StepAlone(c, r) PROVE FALSE
    <2>1. req'[b] = req[b] \/ req'[b] = [req[b] EXCEPT !.quiet = FALSE]
      BY <1>1 DEF Step, StepAlone
    <2> QED
      BY <2>1, DisturbedOne
  <1>2. ~Disturb
    <2>1. Disturb => req'[b] = [req[b] EXCEPT !.quiet = FALSE]
      BY DEF Disturb
    <2> QED
      BY <2>1, DisturbedOne
  <1>3. ~Step(b, IdlePage) /\ req' # req /\ ~BomRestart
    BY DEF Step, IdlePage, BomRestart
  <1>4. PICK c \in Browser :
          \/ Open(c) \/ Save(c) \/ Generate(c) \/ Insert(c) \/ Store(c) \/ Sync(c)
          \/ CommitItems(c) \/ GetAnswer(c) \/ PutAnswer(c)
    BY <1>2, <1>3 DEF BomNext, CreateTemplate, DuplicateTemplate, SaveAsTemplate, AddTemplate,
       UpdateTemplate, DeleteTemplate, EditCost, SetPermission, DeleteItem
  <1>5. \E r : Step(c, r) \/ StepAlone(c, r)
    BY <1>3, <1>4 DEF Open, Save, Generate, Insert, Store, Sync, CommitItems, GetAnswer, Answer,
                     PutAnswer
  <1>6. c = b
    BY <1>1, <1>5
  <1> QED
    BY <1>3, <1>4, <1>6 DEF GetAnswer, Answer, PutAnswer

(* A save that may not see the costs keeps those of its base, which is the *)
(* snapshot of the moment.                                                 *)
LEMMA CostsStep == BomIInv /\ [BomNext]_bomVars => CostsAreKept
  <1> SUFFICES ASSUME BomIInv, [BomNext]_bomVars, NEW b \in Browser, req[b].quiet, ~req[b].allow,
                      req[b].at = "ready", req'[b].at = "stored"
               PROVE  snap'.sheet.cost = IF snap = Nil THEN Generated(Chosen).cost
                                         ELSE snap.sheet.cost
    BY DEF CostsAreKept
  <1>1. BomNext
    BY DEF bomVars
  <1>2. Store(b)
    <2>1. \/ Open(b) \/ Save(b) \/ Generate(b) \/ Insert(b)
          \/ Store(b) \/ Sync(b) \/ CommitItems(b)
      BY <1>1, OwnPageStep DEF BomIInv
    <2>2. ~Insert(b)
      <3>1. Insert(b) => \/ Step(b, To(b, "answer")) \/ StepAlone(b, To(b, "answer"))
        BY DEF Insert
      <3>2. To(b, "answer").at = "answer" /\ To(b, "answer") \in Request
        BY GoesOn DEF BomIInv
      <3> QED
        BY <3>1, <3>2, Stepped, SteppedAlone DEF BomIInv
    <2> QED
      BY <2>1, <2>2 DEF Open, Save, Generate, Sync, CommitItems
  <1>3. /\ req[b].kind = "put" /\ (req[b].first <=> snap = Nil)
        /\ \/ req[b].first /\ snap' = [tid |-> Nil, sheet |-> ToStore(b)]
           \/ ~req[b].first /\ snap' = snap /\ ToStore(b) = req[b].base
           \/ ~req[b].first /\ snap' = [snap EXCEPT !.sheet = ToStore(b)]
    BY <1>2, Saved
  <1>4. ToStore(b).cost = req[b].base.cost
    BY <1>3, StoreKeeps
  <1>5. Aware(b)
    BY DEF BomIInv
  <1>6. CASE req[b].first
    BY <1>3, <1>4, <1>5, <1>6 DEF Aware
  <1>7. CASE ~req[b].first
    <2>1. req[b].base = snap.sheet /\ snap # Nil
      BY <1>3, <1>5, <1>7 DEF Aware
    <2>2. snap \in Snapshot
      BY <2>1 DEF BomIInv, BomTypeOK, BomRowsTyped
    <2> QED
      BY <1>3, <1>4, <1>7, <2>1, <2>2 DEF Snapshot
  <1> QED
    BY <1>6, <1>7

(* What a reader is shown is what is stored.                               *)
LEMMA ReadersStep == BomIInv /\ [BomNext]_bomVars => StoredIsAnswered
  <1> SUFFICES ASSUME BomIInv, [BomNext]_bomVars, NEW b \in Browser,
                      req[b].kind = "get", view'[b] # view[b]
               PROVE  snap # Nil /\ view'[b] = Shown(snap.sheet, req[b].allow)
    BY DEF StoredIsAnswered
  <1>1. BomNext
    BY DEF bomVars
  <1>2. req[b].at # "idle" /\ view \in [Browser -> Sheet]
    BY DEF BomIInv, Carried, BomTypeOK, BomRowsTyped
  <1>3. PICK c \in Browser : Open(c) \/ Save(c) \/ GetAnswer(c)
    BY <1>1 DEF BomNext, Generate, Insert, Store, Sync, CommitItems, PutAnswer,
       CreateTemplate, DuplicateTemplate, SaveAsTemplate, AddTemplate, UpdateTemplate, DeleteTemplate, EditCost,
       SetPermission, DeleteItem, BomRestart
  <1>4. GetAnswer(b)
    <2>1. CASE Open(c) \/ Save(c)
      <3>1. c # b /\ (view' = view \/ \E s : view' = [view EXCEPT ![c] = s])
        BY <1>2, <2>1 DEF Open, Save
      <3> QED
        BY <1>2, <3>1
    <2>2. CASE GetAnswer(c)
      <3>1. view' = view \/ \E s : view' = [view EXCEPT ![c] = s]
        BY <2>2 DEF GetAnswer, Answer
      <3> QED
        BY <1>2, <2>2, <3>1
    <2> QED
      BY <1>3, <2>1, <2>2
  <1> QED
    BY <1>2, <1>4 DEF GetAnswer, Answer

(* A save that nothing disturbed leaves items that follow the stored       *)
(* lines.                                                                  *)
LEMMA ItemsStep == BomAssumption /\ BomIInv /\ [BomNext]_bomVars => ItemsAreAligned
  <1> SUFFICES ASSUME BomAssumption, BomIInv, [BomNext]_bomVars, NEW b \in Browser,
                      req[b].at = "matched", req'[b].at = "synced", req[b].quiet,
                      NEW i \in DOMAIN items',
                      {k \in Row : /\ snap.sheet.line[k] # Nil
                                   /\ snap.sheet.line[k].sku = items'[i].sku} # {}
               PROVE  \E k \in {k \in Row : /\ snap.sheet.line[k] # Nil
                                            /\ snap.sheet.line[k].sku = items'[i].sku} :
                        snap.sheet.line[k].qty = items'[i].qty
    BY DEF ItemsAreAligned
  <1> DEFINE line == view[b].line
             rows == {k \in Row : line[k] # Nil /\ line[k].sku = items[i].sku}
  <1>1. BomNext
    BY DEF bomVars
  <1>2. CommitItems(b)
    <2>1. \/ Open(b) \/ Save(b) \/ Generate(b) \/ Insert(b)
          \/ Store(b) \/ Sync(b) \/ CommitItems(b)
      BY <1>1, OwnPageStep DEF BomIInv
    <2> QED
      BY <2>1 DEF Open, Save, Generate, Insert, Store, Sync
  <1>3. snap.sheet.line = line /\ req[b].seen = items
    BY DEF BomIInv, Aware
  <1> DEFINE to == Synced(view[b], items)
             sent == {items[j].sku : j \in {k \in DOMAIN items : to[k] # items[k]}}
  <1>4. items' = [k \in DOMAIN items |-> IF items[k].sku \in sent THEN to[k] ELSE items[k]]
    <2>1. ~Step(b, IdlePage)
      BY DEF Step, IdlePage
    <2> QED
      BY <1>2, <1>3, <2>1 DEF CommitItems
  <1>5. i \in DOMAIN items /\ items'[i] = IF rows = {} THEN items[i]
                                         ELSE [items[i] EXCEPT !.qty = line[Max(rows)].qty]
    <2>1. i \in DOMAIN items /\ (to[i] # items[i] => items[i].sku \in sent)
      BY <1>4
    <2>2. items'[i] = to[i]
      BY <1>4, <2>1
    <2> QED
      BY <2>1, <2>2 DEF Synced
  <1>6. items[i] \in Line
    BY <1>5, LenProperties, ElementOfSeq DEF BomIInv, BomTypeOK, BomRowsTyped
  <1>7. items'[i].sku = items[i].sku
    BY <1>5, <1>6 DEF Line
  <1>8. rows # {}
    BY <1>3, <1>7
  <1>9. Max(rows) \in rows
    <2>1. rows \in SUBSET Row
      OBVIOUS
    <2> HIDE DEF rows
    <2> QED
      BY <1>8, <2>1, LastRow
  <1>10. items'[i].qty = line[Max(rows)].qty
    BY <1>5, <1>6, <1>8 DEF Line
  <1> QED
    BY <1>3, <1>7, <1>9, <1>10

(* The sheet, the templates, the pages and their requests keep their types. *)
THEOREM BomTypesAlways == ASSUME BomAssumption PROVE BomSpec => []BomTypeOK
  <1>1. BomInit => BomIInv
    BY BomIInvInit
  <1>2. BomIInv /\ [BomNext]_bomVars => BomIInv'
    BY BomIInvNext
  <1>3. BomIInv => BomTypeOK
    BY DEF BomIInv
  <1> QED
    BY <1>1, <1>2, <1>3, PTL DEF BomSpec

(* Whoever may not see the costs does not change them either.              *)
THEOREM HiddenSaveKeepsCostsAlways == ASSUME BomAssumption PROVE BomSpec => HiddenSaveKeepsCosts
  <1>1. BomInit => BomIInv
    BY BomIInvInit
  <1>2. BomIInv /\ [BomNext]_bomVars => BomIInv'
    BY BomIInvNext
  <1>3. BomIInv /\ [BomNext]_bomVars => CostsAreKept
    BY CostsStep
  <1> QED
    BY <1>1, <1>2, <1>3, PTL DEF BomSpec, HiddenSaveKeepsCosts

(* Every first read answers with the sheet that is stored.                 *)
THEOREM FirstReadersAgreeAlways == ASSUME BomAssumption PROVE BomSpec => FirstReadersAgree
  <1>1. BomInit => BomIInv
    BY BomIInvInit
  <1>2. BomIInv /\ [BomNext]_bomVars => BomIInv'
    BY BomIInvNext
  <1>3. BomIInv /\ [BomNext]_bomVars => StoredIsAnswered
    BY ReadersStep
  <1> QED
    BY <1>1, <1>2, <1>3, PTL DEF BomSpec, FirstReadersAgree

(* A save left undisturbed ends with the items in step with the sheet.     *)
THEOREM LoneSaveAlignsItemsAlways == ASSUME BomAssumption PROVE BomSpec => LoneSaveAlignsItems
  <1>1. BomInit => BomIInv
    BY BomIInvInit
  <1>2. BomIInv /\ [BomNext]_bomVars => BomIInv'
    BY BomIInvNext
  <1>3. BomIInv /\ [BomNext]_bomVars => ItemsAreAligned
    BY ItemsStep
  <1> QED
    BY <1>1, <1>2, <1>3, PTL DEF BomSpec, LoneSaveAlignsItems
=============================================================================
