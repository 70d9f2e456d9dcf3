--------------------------------- MODULE Bom ---------------------------------
(***************************************************************************)
(* The BOM snapshot of one solution: routers/bom_templates.py.  The first  *)
(* read generates a sheet from a template and the solution's items and     *)
(* stores it; a save replaces the sheet, commits, and copies its           *)
(* quantities back to the items in a second transaction; deleting a        *)
(* template takes the snapshots generated from it along.                   *)
(*                                                                         *)
(* A sheet has, per row, the line of columns A to I (its SKU and quantity; *)
(* Nil for a blank row) and the cost of column J, which a user without     *)
(* the cost permission neither sees nor changes.  The headers, the total   *)
(* row and the styles are left out, and clients always send some cells.    *)
(***************************************************************************)
EXTENDS Integers, Sequences, FiniteSetsExt

CONSTANTS
    Browser,        \* pages open on the solution
    Ware,           \* the products
    Cost,           \* the costs a product may have
    Quantity,
    MaxRow,         \* bound: rows of a sheet and items of the solution
    MaxTemplate,    \* bound: template ids
    Saves,          \* bound: saves, and changes made elsewhere
    Nil

BomAssumption ==
    /\ MaxRow \in Nat \ {0} /\ MaxTemplate \in Nat \ {0} /\ Saves \in Nat
    /\ Cost \in (SUBSET Nat) \ {{}} /\ Quantity \in (SUBSET Nat) \ {{}}

VARIABLES
    cost,       \* products.cost_price
    items,      \* solution_items in sort order
    template,   \* bom_templates
    snap,       \* the row of solution_bom_snapshots, or Nil
    may,        \* who may see costs
    view,       \* what each page shows: the sheet it read and edited
    req,        \* the request each page has under way
    edits       \* saves and changes made elsewhere so far, for the bound

bomVars == <<cost, items, template, snap, may, view, req, edits>>

Row  == 1 .. MaxRow
Line == [sku : Ware, qty : Quantity]

(* The cells of rows beyond the items, and of column J when it is hidden.  *)
Blank == [line |-> [i \in Row |-> Nil], cost |-> [i \in Row |-> Nil]]

Sheet == [line : [Row -> Line \cup {Nil}], cost : [Row -> Cost \cup {Nil}]]

Snapshot == [tid : 1 .. MaxTemplate \cup {Nil}, sheet : Sheet]

Request == [at : {"idle", "none", "ready", "answer", "stored", "matched", "synced"},
            kind : {"idle", "get", "put"}, allow : BOOLEAN, tid : 1 .. MaxTemplate \cup {Nil},
            base : Sheet \cup {Nil}, first : BOOLEAN, seen : Seq(Line), quiet : BOOLEAN]

BomRowsTyped ==
    /\ cost \in [Ware -> Cost]
    /\ items \in Seq(Line) /\ Len(items) <= MaxRow
    /\ DOMAIN template \subseteq 1 .. MaxTemplate
    /\ template \in [DOMAIN template -> [default : BOOLEAN, sheet : Sheet]]
    /\ snap \in Snapshot \cup {Nil}
    /\ snap # Nil => snap.tid \in DOMAIN template \cup {Nil}
    /\ may \in [Browser -> BOOLEAN]
    /\ view \in [Browser -> Sheet]

BomTypeOK ==
    /\ BomRowsTyped
    /\ req \in [Browser -> Request]
    /\ edits \in 0 .. Saves

-----------------------------------------------------------------------------
(* Sheets                                                                  *)

(* _strip_cost_column                                                      *)
Stripped(s) == [s EXCEPT !.cost = Blank.cost]

Shown(s, allow) == IF allow THEN s ELSE Stripped(s)

(* Mutation: what the page sent back is stored as it is.                   *)
KeepClientCost(new, old) == new

(* _keep_server_cost: column J by cell, whatever its row now holds.        *)
KeepServerCost(new, old) == [new EXCEPT !.cost = old.cost]

Chosen ==
    LET defaults == {t \in DOMAIN template : template[t].default}
    IN  CASE defaults # {}        -> Min(defaults)
          [] DOMAIN template # {} -> Min(DOMAIN template)
          [] OTHER                -> Nil

(* _generate_snapshot: the items are laid over the template's cells; rows  *)
(* of the template below the last item stay.                               *)
Generated(t) ==
    LET under == IF t = Nil THEN Blank ELSE template[t].sheet
        n == Len(items)
    IN  [line |-> [i \in Row |-> IF i <= n THEN items[i] ELSE under.line[i]],
         cost |-> [i \in Row |-> IF i <= n THEN cost[items[i].sku] ELSE under.cost[i]]]

(* Mutation: rows are paired with items by position.                       *)
SyncedByRow(sheet, list) ==
    [i \in DOMAIN list |->
        IF sheet.line[i] = Nil THEN list[i] ELSE [list[i] EXCEPT !.qty = sheet.line[i].qty]]

(* _sync_snapshot_to_items: each item takes the quantity of the last row   *)
(* that bears its SKU.                                                     *)
Synced(sheet, list) ==
    [i \in DOMAIN list |->
        LET rows == {k \in Row : sheet.line[k] # Nil /\ sheet.line[k].sku = list[i].sku}
        IN  IF rows = {} THEN list[i]
            ELSE [list[i] EXCEPT !.qty = sheet.line[Max(rows)].qty]]

-----------------------------------------------------------------------------
(* Requests                                                                *)

IdlePage == [at |-> "idle", kind |-> "idle", allow |-> FALSE, tid |-> Nil,
             base |-> Nil, first |-> FALSE, seen |-> <<>>, quiet |-> TRUE]

BomInit ==
    /\ cost = [p \in Ware |-> Min(Cost)]
    /\ items \in {s \in [Row -> [sku : Ware, qty : {Min(Quantity)}]] :
                    \A i, j \in Row : s[i].sku = s[j].sku => i = j}
    /\ \E n \in {0, 1} : template = [t \in 1 .. n |-> [default |-> TRUE, sheet |-> Blank]]
    /\ snap = Nil
    /\ may \in [Browser -> BOOLEAN]
    /\ view = [b \in Browser |-> Blank]
    /\ req = [b \in Browser |-> IdlePage]
    /\ edits = 0

Edited == edits < Saves /\ edits' = edits + 1

(* The other requests are no longer undisturbed.                           *)
Step(b, r) == req' = [c \in Browser |-> IF c = b THEN r ELSE req[c]]
StepAlone(b, r) ==
    req' = [c \in Browser |-> IF c = b THEN r ELSE [req[c] EXCEPT !.quiet = FALSE]]
Disturb == req' = [c \in Browser |-> [req[c] EXCEPT !.quiet = FALSE]]

To(b, at) == [req[b] EXCEPT !.at = at]

Answer(b) ==
    IF snap = Nil THEN Step(b, IdlePage) /\ UNCHANGED view     \* 500
    ELSE /\ Step(b, IdlePage)
         /\ view' = [view EXCEPT ![b] = Shown(snap.sheet, req[b].allow)]

(* GET bom-snapshot: the permission, then the stored row if there is one.  *)
Open(b) ==
    /\ req[b].at = "idle"
    /\ IF snap # Nil
       THEN /\ view' = [view EXCEPT ![b] = Shown(snap.sheet, may[b])]
            /\ UNCHANGED req
       ELSE /\ Step(b, [IdlePage EXCEPT !.at = "none", !.kind = "get", !.allow = may[b]])
            /\ UNCHANGED view
    /\ UNCHANGED <<cost, items, template, snap, may, edits>>

(* The user edits the page and saves: two rows change places, or a row     *)
(* takes another quantity, or nothing but the save.                        *)
Edits(s) ==
    {s} \cup {[s EXCEPT !.line = [i \in Row |-> s.line[MaxRow + 1 - i]]]}
        \cup {[s EXCEPT !.line[1].qty = q] : q \in IF s.line[1] = Nil THEN {} ELSE Quantity}

(* PUT bom-snapshot, up to the look at the stored row.                     *)
Save(b) ==
    /\ req[b].at = "idle"
    /\ view[b] # Blank
    /\ \E s \in Edits(view[b]) : view' = [view EXCEPT ![b] = s]
    /\ Step(b, [IdlePage EXCEPT !.kind = "put", !.allow = may[b], !.first = (snap = Nil),
                                !.base = IF snap = Nil THEN Nil ELSE snap.sheet,
                                !.at = IF snap = Nil /\ ~may[b] THEN "none" ELSE "ready"])
    /\ Edited
    /\ UNCHANGED <<cost, items, template, snap, may>>

(* The server lays out a sheet of its own.                                 *)
Generate(b) ==
    /\ req[b].at = "none"
    /\ Step(b, [req[b] EXCEPT !.at = "ready", !.base = Generated(Chosen),
                              !.tid = IF req[b].kind = "get" THEN Chosen ELSE Nil])
    /\ UNCHANGED <<cost, items, template, snap, may, view, edits>>

(* Mutation: the loser of the race answers with the sheet it made.         *)
InsertOwn(b) ==
    /\ req[b].at = "ready" /\ req[b].kind = "get"
    /\ IF snap = Nil /\ req[b].tid \in DOMAIN template \cup {Nil}
       THEN snap' = [tid |-> req[b].tid, sheet |-> req[b].base] /\ StepAlone(b, To(b, "answer"))
            /\ UNCHANGED view
       ELSE /\ view' = [view EXCEPT ![b] = Shown(req[b].base, req[b].allow)]
            /\ Step(b, IdlePage) /\ UNCHANGED snap
    /\ UNCHANGED <<cost, items, template, may, edits>>

(* The first read stores its sheet, unless another has (UNIQUE) or the     *)
(* template is gone (foreign key): then it looks again.                    *)
Insert(b) ==
    /\ req[b].at = "ready" /\ req[b].kind = "get"
    /\ IF snap = Nil /\ req[b].tid \in DOMAIN template \cup {Nil}
       THEN snap' = [tid |-> req[b].tid, sheet |-> req[b].base] /\ StepAlone(b, To(b, "answer"))
       ELSE Step(b, To(b, "answer")) /\ UNCHANGED snap
    /\ UNCHANGED <<cost, items, template, may, view, edits>>

GetAnswer(b) ==
    /\ req[b].at = "answer"
    /\ Answer(b)
    /\ UNCHANGED <<cost, items, template, snap, may, edits>>

(* What a save stores.  No UPDATE of the sheet is sent when it equals the  *)
(* one that was read.                                                      *)
ToStore(b) ==
    IF req[b].allow THEN view[b] ELSE KeepServerCost(view[b], req[b].base)

Unchanged(b) == ~req[b].first /\ ToStore(b) = req[b].base

(* The first commit.  It fails when the row that was read is gone, or when *)
(* another request inserted the row first.                                 *)
Store(b) ==
    /\ req[b].at = "ready" /\ req[b].kind = "put"
    /\ IF req[b].first # (snap = Nil)
       THEN Step(b, IdlePage) /\ UNCHANGED snap
       ELSE /\ snap' = CASE req[b].first -> [tid |-> Nil, sheet |-> ToStore(b)]
                         [] Unchanged(b) -> snap
                         [] OTHER        -> [snap EXCEPT !.sheet = ToStore(b)]
            /\ StepAlone(b, To(b, "stored"))
    /\ UNCHANGED <<cost, items, template, may, view, edits>>

(* The row is reloaded, then the items are read,                           *)
Sync(b) ==
    /\ req[b].at = "stored"
    /\ Step(b, IF snap = Nil THEN IdlePage ELSE [To(b, "matched") EXCEPT !.seen = items])
    /\ UNCHANGED <<cost, items, template, snap, may, view, edits>>

(* and those whose quantity differs are committed; an UPDATE of an item    *)
(* that has gone makes it fail.  The answer reloads the row once more.     *)
CommitItems(b) ==
    LET seen == req[b].seen
        sent == {seen[i].sku : i \in {k \in DOMAIN seen : Synced(view[b], seen)[k] # seen[k]}}
    IN  /\ req[b].at = "matched"
        /\ IF sent \subseteq {items[i].sku : i \in DOMAIN items}
           THEN /\ items' = [i \in DOMAIN items |-> IF items[i].sku \in sent
                                                   THEN Synced(view[b], items)[i] ELSE items[i]]
                /\ StepAlone(b, [To(b, "synced") EXCEPT !.seen = <<>>])
           ELSE Step(b, IdlePage) /\ UNCHANGED items
        /\ UNCHANGED <<cost, template, snap, may, view, edits>>

PutAnswer(b) ==
    /\ req[b].at = "synced"
    /\ Step(b, IdlePage)
    /\ UNCHANGED <<cost, items, template, snap, may, view, edits>>

-----------------------------------------------------------------------------
(* Templates, and what else changes underneath                             *)

AddTemplate(default, sheet) ==
    LET t == 1 + Max(DOMAIN template \cup {0})
    IN  /\ t <= MaxTemplate
        /\ template' = [u \in DOMAIN template \cup {t} |->
                          IF u = t THEN [default |-> default, sheet |-> sheet] ELSE template[u]]
        /\ Disturb
        /\ Edited
        /\ UNCHANGED <<cost, items, snap, may, view>>

(* Administrators send a sheet of their own, or one they see in a solution.*)
ClientSheets == {Blank} \cup {view[b] : b \in Browser}

CreateTemplate == \E d \in BOOLEAN, s \in ClientSheets : AddTemplate(d, s)

DuplicateTemplate == \E t \in DOMAIN template : AddTemplate(FALSE, template[t].sheet)

SaveAsTemplate == snap # Nil /\ AddTemplate(FALSE, snap.sheet)

UpdateTemplate ==
    /\ \E t \in DOMAIN template, d \in BOOLEAN :
          \E s \in ClientSheets \cup {template[t].sheet} :
              template' = [template EXCEPT ![t] = [default |-> d, sheet |-> s]]
    /\ Disturb
    /\ Edited
    /\ UNCHANGED <<cost, items, snap, may, view>>

DeleteTemplate ==
    /\ \E t \in DOMAIN template :
          /\ template' = [u \in DOMAIN template \ {t} |-> template[u]]
          /\ snap' = IF snap # Nil /\ snap.tid = t THEN Nil ELSE snap    \* ON DELETE CASCADE
    /\ Disturb
    /\ Edited
    /\ UNCHANGED <<cost, items, may, view>>

(* Elsewhere: a product's cost, a permission, an item of the solution.     *)
EditCost ==
    /\ \E p \in Ware, c \in Cost : cost' = [cost EXCEPT ![p] = c]
    /\ Disturb
    /\ Edited
    /\ UNCHANGED <<items, template, snap, may, view>>

SetPermission ==
    /\ \E b \in Browser : may' = [may EXCEPT ![b] = ~@]
    /\ Edited
    /\ UNCHANGED <<cost, items, template, snap, view, req>>

DeleteItem ==
    /\ \E i \in DOMAIN items :
          items' = [k \in 1 .. Len(items) - 1 |-> IF k < i THEN items[k] ELSE items[k + 1]]
    /\ Disturb
    /\ Edited
    /\ UNCHANGED <<cost, template, snap, may, view>>

(* The process dies; what was committed stays.                             *)
BomRestart ==
    /\ \E b \in Browser : req[b].at # "idle"
    /\ req' = [b \in Browser |-> IdlePage]
    /\ UNCHANGED <<cost, items, template, snap, may, view, edits>>

BomNext ==
    \/ \E b \in Browser :
        \/ Open(b) \/ Save(b) \/ Generate(b) \/ Insert(b) \/ GetAnswer(b)
        \/ Store(b) \/ Sync(b) \/ CommitItems(b) \/ PutAnswer(b)
    \/ CreateTemplate \/ DuplicateTemplate \/ SaveAsTemplate \/ UpdateTemplate \/ DeleteTemplate
    \/ EditCost \/ SetPermission \/ DeleteItem \/ BomRestart

BomSpec == BomInit /\ [][BomNext]_bomVars

-----------------------------------------------------------------------------
(* Properties                                                              *)

(* Whoever may not see the costs does not change them either: a save that  *)
(* nothing disturbed leaves column J as it was stored or, on a first save, *)
(* as the products' costs say.  (test_api.py, the hidden-cost save tests.) *)
CostsAreKept ==
    \A b \in Browser :
        req[b].quiet /\ ~req[b].allow /\ req[b].at = "ready" /\ req'[b].at = "stored"
        => snap'.sheet.cost = IF snap = Nil THEN Generated(Chosen).cost ELSE snap.sheet.cost
HiddenSaveKeepsCosts == [][CostsAreKept]_bomVars

(* Of several first reads of a solution one stores its sheet; every one of *)
(* them answers with the sheet that is stored.                             *)
StoredIsAnswered ==
    \A b \in Browser :
        req[b].kind = "get" /\ view'[b] # view[b]
        => snap # Nil /\ view'[b] = Shown(snap.sheet, req[b].allow)
FirstReadersAgree == [][StoredIsAnswered]_bomVars

(* A save left undisturbed ends with the items in step with the sheet: a   *)
(* SKU on the sheet has a row with the item's quantity.  Whatever a crash  *)
(* between the two commits left behind, the next save repairs.             *)
ItemsAreAligned ==
    \A b \in Browser :
        req[b].at = "matched" /\ req'[b].at = "synced" /\ req[b].quiet =>
            \A i \in DOMAIN items' :
                LET rows == {k \in Row : /\ snap.sheet.line[k] # Nil
                                        /\ snap.sheet.line[k].sku = items'[i].sku}
                IN  rows # {} => \E k \in rows : snap.sheet.line[k].qty = items'[i].qty
LoneSaveAlignsItems == [][ItemsAreAligned]_bomVars
=============================================================================
