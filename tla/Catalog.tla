------------------------------- MODULE Catalog -------------------------------
(***************************************************************************)
(* Master data and products: routers/categories.py, dictionaries.py,       *)
(* suppliers.py, products.py and product_import.py.  Handlers look, decide *)
(* and commit in separate statements; the foreign keys are the last word:  *)
(* products.category_id RESTRICT, product_categories CASCADE, a maker SET  *)
(* NULL.  A maker stands for a manufacturer, a supplier or a dictionary    *)
(* entry, which the same helper guards.                                    *)
(*                                                                         *)
(* A product is found through its category or through the rows of          *)
(* product_categories; category ids are rows of device_categories.         *)
(***************************************************************************)
EXTENDS Integers, Sequences, FiniteSetsExt

CONSTANTS
    Worker,         \* concurrent requests
    Name, Maker,
    MaxCategory,    \* bound: category ids
    MaxProduct,     \* bound: product ids
    Requests,       \* bound: requests started
    Null

(* There is room for the first categories and the first product, and the   *)
(* missing parent or maker is neither a category nor a maker.              *)
CatalogAssumption ==
    /\ MaxCategory \in Nat \ {0, 1} /\ MaxProduct \in Nat \ {0} /\ Requests \in Nat
    /\ Name # {} /\ Null \notin 1 .. MaxCategory \cup Maker

VARIABLES
    parent,     \* device_categories: id to parent_id
    active,     \* the categories with is_active
    product,    \* products: id to its row and its product_categories
    makers,     \* manufacturers and suppliers present
    specs,      \* category_spec_definitions under one spec_key, per category
    task,       \* the requests
    begun       \* requests started so far, for the bound

catalogVars == <<parent, active, product, makers, specs, task, begun>>

Category == DOMAIN parent

(* Sheets of up to two rows, of one category and one maker.                *)
Sheets ==
    UNION {[1 .. n -> [name : Name, cat : {c}, maker : {m}]] :
             n \in 1 .. 2, c \in Category, m \in Maker \cup {Null}}

ProductRows(cats, mades) ==
    [name : Name, cat : cats, cats : SUBSET cats, maker : mades \cup {Null}]

SheetRow == [name : Name, cat : 1 .. MaxCategory, maker : Maker \cup {Null}]

Op == {"idle", "reparent", "delete", "spec", "create", "update", "drop", "import"}

(* What an update sends; Null and {} stand for a field that is not sent.   *)
Sent == [cat : 1 .. MaxCategory \cup {Null}, cats : SUBSET (1 .. MaxCategory),
         maker : Maker \cup {Null}]

(* What a request carries from its first half to its second.               *)
Carries(t) ==
    /\ t \in [op : Op, id : {t.id}, arg : {t.arg}, got : {t.got}, quiet : BOOLEAN]
    /\ t.op = "delete" => t.got # t.id
    /\ t.op = "create" => t.arg \in ProductRows({t.arg.cat}, Maker)
    /\ t.op = "update" => t.arg \in Sent /\ t.got \in ProductRows(1 .. MaxCategory, Maker)
    /\ t.op = "import" =>
          /\ t.arg \in [DOMAIN t.arg -> SheetRow] /\ DOMAIN t.arg \in {1 .. 1, 1 .. 2}
          /\ t.got \in [rows : SUBSET DOMAIN t.arg, known : SUBSET Maker]

RowsTyped ==
    /\ Category \subseteq 1 .. MaxCategory
    /\ parent \in [Category -> Category \cup {Null}]
    /\ active \subseteq Category
    /\ DOMAIN product \subseteq 1 .. MaxProduct
    /\ product \in [DOMAIN product -> ProductRows(Category, makers)]
    /\ makers \subseteq Maker
    /\ specs \in [Category -> Nat]

CatalogTypeOK ==
    /\ RowsTyped
    /\ DOMAIN task = Worker /\ \A h \in Worker : Carries(task[h])
    /\ begun \in 0 .. Requests

-----------------------------------------------------------------------------
(* The tree                                                                *)

Below(c) == {d \in Category : parent[d] = c}

(* What a traversal that starts at `from' and goes on to children reaches  *)
(* within a set of nodes, visiting each node once: whatever is in every    *)
(* part of the set that has the start and, with a node, its children.      *)
Reach(from, set) ==
    {d \in set :
        \A part \in SUBSET set :
            from \subseteq part /\ (\A c \in part : Below(c) \cap set \subseteq part) => d \in part}

(* get_category_descendants: c and all that hangs below it.                *)
Descendants(c) == Reach({c}, Category)

(* Mutation: only the direct children are considered.                      *)
ChildCycle(c, p) == p = c \/ p \in Below(c)

(* would_create_category_cycle                                             *)
WouldCycle(c, p) == p = c \/ p \in Descendants(c)

(* Mutation: nodes whose parent is not visible are left out.               *)
RootsOnly(visible) == {c \in visible : parent[c] = Null}

(* Where the tree starts: the roots, and the nodes whose parent the user   *)
(* may not see.                                                            *)
TreeRoots(visible) == {c \in visible : parent[c] = Null \/ parent[c] \notin visible}

(* category_tree: what hangs below those, through visible nodes only.      *)
Tree(visible) == Reach(TreeRoots(visible), visible)

(* The category filter of list_products.                                   *)
Listed(c) ==
    {p \in DOMAIN product : ({product[p].cat} \cup product[p].cats) \cap Descendants(c) # {}}

(* No set of categories whose parents are all among them: no cycle.        *)
Acyclic ==
    \A ring \in SUBSET Category : (\A c \in ring : parent[c] \in ring) => ring = {}

-----------------------------------------------------------------------------
IdleTask == [op |-> "idle", id |-> Null, arg |-> Null, got |-> Null, quiet |-> TRUE]

CatalogInit ==
    /\ \E n \in {2, MaxCategory} : \E f \in {Null, 1} :
          parent = [c \in 1 .. n |-> IF c = 1 THEN Null ELSE f]
    /\ active = Category
    /\ product = [p \in {1} |-> [name |-> CHOOSE n \in Name : TRUE,
                                 cat |-> 1, cats |-> {1}, maker |-> Null]]
    /\ makers = Maker
    /\ specs = [c \in Category |-> 0]
    /\ task = [h \in Worker |-> IdleTask]
    /\ begun = 0

Started == begun < Requests /\ begun' = begun + 1

(* The first half of a handler, and what ends it: a commit, which the      *)
(* other requests will not have seen, or an error.                         *)
Look(h, op, id, arg, got) ==
    /\ Started
    /\ task[h].op = "idle"
    /\ task' = [task EXCEPT ![h] = [op |-> op, id |-> id, arg |-> arg, got |-> got, quiet |-> TRUE]]
    /\ UNCHANGED <<parent, active, product, makers, specs>>

Commit(h) ==
    task' = [g \in Worker |-> IF g = h THEN IdleTask ELSE [task[g] EXCEPT !.quiet = FALSE]]

Fail(h) ==
    /\ task' = [task EXCEPT ![h] = IdleTask]
    /\ UNCHANGED <<parent, active, product, makers, specs>>

-----------------------------------------------------------------------------
(* Categories                                                              *)

CreateCategory(h, p) ==
    LET c == 1 + Max(Category \cup {0})
    IN  /\ task[h].op = "idle" /\ c <= MaxCategory
        /\ parent' = [d \in Category \cup {c} |-> IF d = c THEN p ELSE parent[d]]
        /\ active' = active \cup {c}
        /\ specs' = [d \in Category \cup {c} |-> IF d = c THEN 0 ELSE specs[d]]
        /\ Commit(h) /\ Started
        /\ UNCHANGED <<product, makers>>

SetActive(h, c) ==
    /\ task[h].op = "idle"
    /\ active' = IF c \in active THEN active \ {c} ELSE active \cup {c}
    /\ Commit(h) /\ Started
    /\ UNCHANGED <<parent, product, makers, specs>>

(* update_category with a parent: the cycle check, then the commit.  A     *)
(* parent is never taken away again: None means the field was not sent.    *)
CheckParent(h, c, p) == ~WouldCycle(c, p) /\ Look(h, "reparent", c, p, Null)

Reparent(h) ==
    LET c == task[h].id  p == task[h].arg
    IN  /\ task[h].op = "reparent"
        /\ IF {c, p} \subseteq Category
           THEN /\ parent' = [parent EXCEPT ![c] = p]
                /\ Commit(h)
                /\ UNCHANGED <<active, product, makers, specs>>
           ELSE Fail(h)
        /\ UNCHANGED begun

(* delete_category first looks for an active category to take over, and    *)
(* refuses when there is none and products would be left.                  *)
LookForFallback(h, c) ==
    LET others == active \ {c}
    IN  /\ others = {} => \A p \in DOMAIN product : product[p].cat # c
        /\ Look(h, "delete", c, Null, IF others = {} THEN Null ELSE Min(others))

(* Mutation: the children keep their deleted parent.                       *)
OrphanedKept(c) == [d \in Category \ {c} |-> parent[d]]

Orphaned(c) == [d \in Category \ {c} |-> IF parent[d] = c THEN Null ELSE parent[d]]

(* Mutation: the products' own category is forgotten.                      *)
DeleteCategoryOnly(h) ==
    LET c == task[h].id
        stuck == \E p \in DOMAIN product : product[p].cat = c
    IN  /\ task[h].op = "delete"
        /\ IF stuck THEN Fail(h)
           ELSE /\ parent' = Orphaned(c) /\ active' = active \ {c}
                /\ specs' = [d \in Category \ {c} |-> specs[d]]
                /\ product' = [p \in DOMAIN product |-> [product[p] EXCEPT !.cats = @ \ {c}]]
                /\ Commit(h) /\ UNCHANGED makers
        /\ UNCHANGED begun

(* One transaction: rows about c go, its products move to the fallback,    *)
(* its children become roots, then c goes.  It fails on a foreign key when *)
(* the fallback has gone, or a product has come that nobody takes over.    *)
DeleteCategory(h) ==
    LET c == task[h].id  fallback == task[h].got
        left == {p \in DOMAIN product : product[p].cat = c}
    IN  /\ task[h].op = "delete"
        /\ IF left # {} /\ fallback \notin Category THEN Fail(h)
           ELSE /\ parent' = Orphaned(c) /\ active' = active \ {c}
                /\ specs' = [d \in Category \ {c} |-> specs[d]]
                /\ product' = [p \in DOMAIN product |->
                                 [product[p] EXCEPT !.cats = @ \ {c},
                                                    !.cat = IF p \in left THEN fallback ELSE @]]
                /\ Commit(h) /\ UNCHANGED makers
        /\ UNCHANGED begun

(* create_spec_def: the key must be new in its category.  update_spec_def  *)
(* takes the same two steps when it renames a definition to the key.       *)
CheckSpec(h, c) == specs[c] = 0 /\ Look(h, "spec", c, Null, Null)

CreateSpec(h) ==
    LET c == task[h].id
    IN  /\ task[h].op = "spec"
        /\ IF c \in Category
           THEN /\ specs' = [specs EXCEPT ![c] = @ + 1]
                /\ Commit(h)
                /\ UNCHANGED <<parent, active, product, makers>>
           ELSE Fail(h)
        /\ UNCHANGED begun

DeleteSpec(h, c) ==
    /\ task[h].op = "idle" /\ specs[c] > 0
    /\ specs' = [specs EXCEPT ![c] = @ - 1]
    /\ Commit(h) /\ Started
    /\ UNCHANGED <<parent, active, product, makers>>

-----------------------------------------------------------------------------
(* Products                                                                *)

NextId == 1 + Max(DOMAIN product \cup {0})

With(f, id, x) == [k \in DOMAIN f \cup {id} |-> IF k = id THEN x ELSE f[k]]

(* create_product and update_product check that the categories exist and   *)
(* commit later; the other references are left to the foreign keys.        *)
CheckProduct(h, n, c, m) ==
    /\ c \in Category
    /\ Look(h, "create", Null, [name |-> n, cat |-> c, cats |-> {c}, maker |-> m], Null)

CreateProduct(h) ==
    LET x == task[h].arg
    IN  /\ task[h].op = "create" /\ NextId <= MaxProduct
        /\ IF x.cat \in Category /\ x.maker \in makers \cup {Null}
           THEN /\ product' = With(product, NextId, x)
                /\ Commit(h)
                /\ UNCHANGED <<parent, active, makers, specs>>
           ELSE Fail(h)
        /\ UNCHANGED begun

(* An update sends the main category alone, or a list whose first member   *)
(* becomes the main one, or another maker.                                 *)
CheckUpdate(h, p, sent) ==
    /\ ({sent.cat} \ {Null}) \cup sent.cats \subseteq Category
    /\ Look(h, "update", p, sent, product[p])

Changes ==
    LET change(cats, lists, mades) == [cat : cats, cats : lists, maker : mades]
    IN  change(Category, {{}}, {Null})
          \cup {x \in change(Category, SUBSET Category, {Null}) :
                   \E d \in Category : x.cats = {x.cat, d}}
          \cup change({Null}, {{}}, makers)

(* The commit writes what was sent and differs from what was read, and the *)
(* rows of product_categories anew when a list was sent; whatever else     *)
(* others have written meanwhile stays.                                    *)
UpdateProduct(h) ==
    LET p == task[h].id  sent == task[h].arg  was == task[h].got
        row == [product[p] EXCEPT
                  !.cat = IF sent.cat \in {Null, was.cat} THEN @ ELSE sent.cat,
                  !.cats = IF sent.cats = {} THEN @ ELSE sent.cats,
                  !.maker = IF sent.maker \in {Null, was.maker} THEN @ ELSE sent.maker]
    IN  /\ task[h].op = "update"
        /\ IF p \in DOMAIN product /\ row \in ProductRows(Category, makers)
           THEN /\ product' = [product EXCEPT ![p] = row]
                /\ Commit(h)
                /\ UNCHANGED <<parent, active, makers, specs>>
           ELSE Fail(h)
        /\ UNCHANGED begun

DropProduct(h, p) ==
    /\ task[h].op = "idle"
    /\ product' = [q \in DOMAIN product \ {p} |-> product[q]]
    /\ Commit(h) /\ Started
    /\ UNCHANGED <<parent, active, makers, specs>>

-----------------------------------------------------------------------------
(* Makers and imports                                                      *)

CreateMaker(h, m) ==
    /\ task[h].op = "idle" /\ m \notin makers
    /\ makers' = makers \cup {m}
    /\ Commit(h) /\ Started
    /\ UNCHANGED <<parent, active, product, specs>>

Users(m) == {p \in DOMAIN product : product[p].maker = m}

(* assert_dict_not_referenced                                              *)
CheckUnused(h, m) == Users(m) = {} /\ Look(h, "drop", m, Null, Null)

DeleteMaker(h) ==
    LET m == task[h].id
    IN  /\ task[h].op = "drop"
        /\ makers' = makers \ {m}
        /\ product' = [p \in DOMAIN product |->
                         IF p \in Users(m) THEN [product[p] EXCEPT !.maker = Null] ELSE product[p]]
        /\ Commit(h)
        /\ UNCHANGED <<parent, active, specs, begun>>

(* Mutation: two rows of one sheet are not compared with each other.       *)
NotStored(sheet) ==
    {i \in DOMAIN sheet : \A p \in DOMAIN product : product[p].name # sheet[i].name}

(* The rows that are neither products yet nor repeated in the sheet.       *)
Fresh(sheet) ==
    {i \in DOMAIN sheet :
        /\ \A p \in DOMAIN product : product[p].name # sheet[i].name
        /\ \A k \in 1 .. i - 1 : sheet[k].name # sheet[i].name}

(* import_confirm: a sheet with a row of no known category is refused as a *)
(* whole; otherwise the new rows are inserted, with the makers that were   *)
(* not found, and committed together.  It fails when a maker that was      *)
(* found has gone, or one that was not has come: their name is unique.     *)
ReadSheet(h, sheet) ==
    /\ \A i \in DOMAIN sheet : sheet[i].cat \in Category
    /\ Look(h, "import", Null, sheet, [rows |-> Fresh(sheet), known |-> makers])

Named(rows, sheet) == {sheet[i].maker : i \in rows} \ {Null}

Import(h) ==
    LET sheet == task[h].arg  rows == task[h].got.rows
        named == Named(rows, sheet)
        id(i) == NextId - 1 + Cardinality({k \in rows : k <= i})
    IN  /\ task[h].op = "import"
        /\ NextId - 1 + Cardinality(rows) <= MaxProduct
        /\ IF /\ \A i \in rows : sheet[i].cat \in Category
              /\ named \cap makers = named \cap task[h].got.known
           THEN /\ product' = [p \in DOMAIN product \cup {id(i) : i \in rows} |->
                                 IF p \in DOMAIN product THEN product[p]
                                 ELSE LET i == CHOOSE k \in rows : id(k) = p
                                      IN  [name |-> sheet[i].name, cat |-> sheet[i].cat,
                                           cats |-> {}, maker |-> sheet[i].maker]]
                /\ makers' = makers \cup named
                /\ Commit(h)
                /\ UNCHANGED <<parent, active, specs>>
           ELSE Fail(h)
        /\ UNCHANGED begun

CatalogNext ==
    \E h \in Worker :
        \/ \E p \in Category \cup {Null} : CreateCategory(h, p)
        \/ \E c \in Category :
            \/ SetActive(h, c) \/ LookForFallback(h, c) \/ CheckSpec(h, c) \/ DeleteSpec(h, c)
            \/ \E p \in Category : CheckParent(h, c, p)
            \/ \E n \in Name, m \in makers \cup {Null} : CheckProduct(h, n, c, m)
        \/ \E p \in DOMAIN product :
            \/ DropProduct(h, p)
            \/ \E sent \in Changes : CheckUpdate(h, p, sent)
        \/ \E m \in Maker : CreateMaker(h, m)
        \/ \E m \in makers : CheckUnused(h, m)
        \/ \E sheet \in Sheets : ReadSheet(h, sheet)
        \/ Reparent(h) \/ DeleteCategory(h) \/ CreateSpec(h)
        \/ CreateProduct(h) \/ UpdateProduct(h) \/ DeleteMaker(h) \/ Import(h)

CatalogSpec == CatalogInit /\ [][CatalogNext]_catalogVars

-----------------------------------------------------------------------------
(* Properties                                                              *)

(* As long as the categories form a forest, whatever part of them a user   *)
(* sees: the tree shows all of it, and every product is found by browsing  *)
(* the tree from its top, deletions and moves of categories included.      *)
ForestShowsAll ==
    Acyclic =>
        /\ \A visible \in SUBSET Category : Tree(visible) = visible
        /\ UNION {Listed(c) : c \in TreeRoots(Category)} = DOMAIN product

(* The comment in category_tree promises that a user sees every visible    *)
(* category; two moves that each pass the cycle check can close a cycle,   *)
(* which hangs from no root.                                               *)
TreeShowsAll == Tree(Category) = Category

(* A request that nothing disturbed ends.                                  *)
Ends(h, op) == task[h].op = op /\ task[h].quiet /\ task'[h].op = "idle"

(* A move of a category that nothing disturbed keeps a forest a forest.    *)
MoveKeepsForest ==
    (\E h \in Worker : Ends(h, "reparent")) /\ Acyclic => Acyclic'
LoneMoveKeepsForest == [][MoveKeepsForest]_catalogVars

(* A category delete that nothing disturbed always goes through once it    *)
(* was accepted, and loses no product.                                     *)
DeleteSucceeds ==
    \A h \in Worker :
        Ends(h, "delete") => task[h].id \notin Category' /\ DOMAIN product' = DOMAIN product
LoneDeleteSucceeds == [][DeleteSucceeds]_catalogVars

(* Importing a sheet, undisturbed, never makes a second product of a name. *)
ImportAddsNoDouble ==
    (\E h \in Worker : Ends(h, "import")) =>
        \A p \in DOMAIN product' \ DOMAIN product, q \in DOMAIN product' :
            p # q => product'[p].name # product'[q].name
LoneImportAddsNoDouble == [][ImportAddsNoDouble]_catalogVars
=============================================================================
