---------------------------- MODULE QuotationEdit ----------------------------
(***************************************************************************)
(* Editing one quotation: routers/quotations.py.  Its lines are changed    *)
(* one at a time, in two commits (the line, then the total), or all at     *)
(* once by the BOM page, which sends its rows back; the save deletes every *)
(* line and inserts the rows in one transaction.                           *)
(*                                                                         *)
(* A line has the SKU and the cost of its product snapshot, what quantity, *)
(* price and discount come to, and its sort_order; a row of the page lacks *)
(* the cost (None) when the user may not see it.                           *)
(***************************************************************************)
EXTENDS Naturals, Sequences, FiniteSetsExt, SequencesExt

CONSTANTS
    Editor,
    Sku, Cost, Worth,
    MaxLine,        \* bound: lines of the quotation, and their ids
    Absent

EditAssumption ==
    /\ Cost # {} /\ Worth \in (SUBSET Nat) \ {{}}
    /\ MaxLine \in Nat \ {0, 1}

VARIABLES
    exists,      \* the quotation exists
    lines,       \* quotation_items: id to line
    totalAmount, \* quotations.total_amount
    may,         \* the users of these requests may see costs
    page,        \* the rows the BOM page shows, or Absent
    edit         \* the requests

editVars == <<exists, lines, totalAmount, may, page, edit>>

Line == [sku : Sku, cost : Cost, amount : Worth, pos : 0 .. MaxLine]
Row == [sku : Sku, cost : IF may THEN Cost ELSE {Absent}, amount : Worth]
LineSum(f) == MapThenSumSet(LAMBDA i : f[i].amount, DOMAIN f)

(* The price list: the cost in the snapshot of a product that is added.    *)
ListCost == CHOOSE c \in Cost : TRUE

IdleEdit == [at |-> "idle", kind |-> Absent, id |-> Absent, base |-> 0, sum |-> 0,
             old |-> <<>>, rows |-> <<>>, alone |-> FALSE]
Underway == {"checked", "changed", "reloaded", "summed", "matched"}
Editing == {r \in Editor : edit[r].at \in Underway}

EditInit ==
    /\ exists = TRUE /\ page = Absent /\ may \in BOOLEAN
    /\ lines \in [1 .. 2 -> [sku : Sku, cost : Cost, amount : {Min(Worth)}, pos : {0}]]
    /\ lines[1].sku # lines[2].sku /\ lines[1].cost # lines[2].cost
    /\ totalAmount = LineSum(lines)
    /\ edit = [r \in Editor |-> IdleEdit]

Become(r, to) == edit' = [s \in Editor |-> IF s = r THEN to ELSE [edit[s] EXCEPT !.alone = FALSE]]
Begin(r, to) == Become(r, [to EXCEPT !.alone = (Editing = {})])
Step(r, to) == edit' = [edit EXCEPT ![r] = to]
Ended(how) == [IdleEdit EXCEPT !.at = how]
GiveUp(r) == Step(r, Ended("failed")) /\ UNCHANGED <<exists, lines, totalAmount>>

(* ORDER BY sort_order, id: the line that k - 1 others come before is k-th. *)
Before(i, j) == lines[i].pos < lines[j].pos \/ (lines[i].pos = lines[j].pos /\ i < j)
Place(i) == Cardinality({j \in DOMAIN lines : Before(j, i)}) + 1
Ordered == [k \in 1 .. Cardinality(DOMAIN lines) |->
              lines[CHOOSE i \in DOMAIN lines : Place(i) = k]]

-----------------------------------------------------------------------------
(* POST, PUT and DELETE of /quotations/{id}/items: the checks,             *)

AddItem(r, s, a) ==
    /\ edit[r].at = "idle" /\ exists
    /\ Begin(r, [IdleEdit EXCEPT !.at = "checked", !.kind = "add",
                   !.rows = <<[sku |-> s, cost |-> ListCost, amount |-> a, pos |-> 0]>>])
    /\ UNCHANGED <<exists, lines, totalAmount, may, page>>

UpdateItem(r, i, a) ==
    /\ edit[r].at = "idle" /\ exists
    /\ Begin(r, [IdleEdit EXCEPT !.at = "checked", !.kind = "update", !.id = i,
                   !.rows = <<[lines[i] EXCEPT !.amount = a]>>, !.old = <<lines[i]>>])
    /\ UNCHANGED <<exists, lines, totalAmount, may, page>>

DeleteItem(r, i) ==
    /\ edit[r].at = "idle" /\ exists
    /\ Begin(r, [IdleEdit EXCEPT !.at = "checked", !.kind = "delete", !.id = i])
    /\ UNCHANGED <<exists, lines, totalAmount, may, page>>

(* the first commit: an UPDATE sends the column that changed, and fails    *)
(* when the row is gone; a DELETE of a row that is gone only warns; the    *)
(* foreign key of the product, which nobody looked up, may fail the others *)
(* at any time,                                                            *)
WithLine(i, line) == [j \in DOMAIN lines \cup {i} |-> IF j = i THEN line ELSE lines[j]]
WithoutLine(i) == [j \in DOMAIN lines \ {i} |-> lines[j]]
NextLine == 1 + Max(DOMAIN lines \cup {0})

ChangeLine(r) ==
    LET kind == edit[r].kind  i == edit[r].id  sent == edit[r].rows
        to == [edit[r] EXCEPT !.at = "changed", !.rows = <<>>, !.old = <<>>]
    IN  /\ edit[r].at = "checked"
        /\ UNCHANGED <<may, page>>
        /\ \/ /\ kind = "add" /\ exists /\ NextLine <= MaxLine
              /\ lines' = WithLine(NextLine, sent[1])
              /\ Step(r, to) /\ UNCHANGED <<exists, totalAmount>>
           \/ /\ kind = "update" /\ sent # edit[r].old /\ i \in DOMAIN lines
              /\ lines' = [lines EXCEPT ![i].amount = sent[1].amount]
              /\ Step(r, to) /\ UNCHANGED <<exists, totalAmount>>
           \/ /\ kind = "update" /\ sent = edit[r].old
              /\ Step(r, to) /\ UNCHANGED <<exists, lines, totalAmount>>
           \/ /\ kind = "delete"
              /\ lines' = WithoutLine(i)
              /\ Step(r, to) /\ UNCHANGED <<exists, totalAmount>>
           \/ kind \in {"add", "update"} /\ GiveUp(r)

(* _recalc_total: the quotation is reloaded, its lines are added up,       *)
Reload(r) ==
    /\ edit[r].at = "changed"
    /\ UNCHANGED <<may, page>>
    /\ IF exists THEN /\ Step(r, [edit[r] EXCEPT !.at = "reloaded", !.base = totalAmount])
                     /\ UNCHANGED <<exists, lines, totalAmount>>
                ELSE GiveUp(r)

(* Mutation: the sum leaves out the line that this request updated.        *)
AddOtherLines(r) ==
    /\ edit[r].at = "reloaded"
    /\ Step(r, [edit[r] EXCEPT !.at = "summed", !.id = Absent,
                               !.sum = LineSum(WithoutLine(edit[r].id))])
    /\ UNCHANGED <<exists, lines, totalAmount, may, page>>

AddLines(r) ==
    /\ edit[r].at = "reloaded"
    /\ Step(r, [edit[r] EXCEPT !.at = "summed", !.sum = LineSum(lines), !.id = Absent])
    /\ UNCHANGED <<exists, lines, totalAmount, may, page>>

(* and the second commit: no UPDATE of an equal total; an UPDATE of the    *)
(* amount column of a line that is gone makes it fail.                     *)
StoreTotal(r) ==
    /\ edit[r].at = "summed"
    /\ UNCHANGED <<may, page>>
    /\ \/ /\ exists \/ edit[r].sum = edit[r].base
          /\ totalAmount' = IF edit[r].sum = edit[r].base THEN totalAmount ELSE edit[r].sum
          /\ Step(r, Ended("done")) /\ UNCHANGED <<exists, lines>>
       \/ ~edit[r].alone /\ GiveUp(r)

-----------------------------------------------------------------------------
(* The BOM page                                                            *)

OpenBom ==
    /\ exists
    /\ page' = [k \in DOMAIN Ordered |->
                  [sku |-> Ordered[k].sku, amount |-> Ordered[k].amount,
                   cost |-> IF may THEN Ordered[k].cost ELSE Absent]]
    /\ UNCHANGED <<exists, lines, totalAmount, may, edit>>

(* The user moves a row, deletes one, puts a new one on top, or retypes an *)
(* amount or, where it shows, a cost.                                      *)
Edits(p) ==
    LET new == [sku : Sku, amount : Worth, cost : IF may THEN Cost ELSE {Absent}]
    IN  {p, Reverse(p)} \cup {RemoveAt(p, k) : k \in DOMAIN p}
          \cup {<<n>> \o p : n \in IF Len(p) < MaxLine THEN new ELSE {}}
          \cup UNION {{[p EXCEPT ![k] = n] : n \in {m \in new : m.sku = p[k].sku}} : k \in DOMAIN p}

SaveBom(r) ==
    /\ edit[r].at = "idle" /\ exists /\ page # Absent
    /\ \E rows \in Edits(page) :
          Begin(r, [IdleEdit EXCEPT !.at = "matched", !.kind = "bom", !.old = Ordered,
                                !.rows = rows, !.base = totalAmount])
    /\ UNCHANGED <<exists, lines, totalAmount, may, page>>

(* Mutation: rows are matched with old lines by position alone.            *)
MatchByPosition(old, rows, k) == IF k \in DOMAIN old THEN old[k].cost ELSE ListCost

(* The cost a row of a user who may not see costs is given: that of the    *)
(* first old line of its SKU, or else of the old line in its place.  Cost  *)
(* absent from the snapshot is not told apart from the listed one.         *)
Match(old, rows, k) ==
    LET same == {i \in DOMAIN old : old[i].sku = rows[k].sku}
    IN  IF same # {} THEN old[Min(same)].cost
        ELSE IF k \in DOMAIN old THEN old[k].cost ELSE ListCost

(* One transaction; it fails when the quotation is gone, or a product an   *)
(* old line refers to is.  The total is compared with the one read before. *)
StoreBom(r) ==
    LET rows == edit[r].rows  old == edit[r].old
        new == [k \in DOMAIN rows |->
                  [sku |-> rows[k].sku, amount |-> rows[k].amount, pos |-> k,
                   cost |-> IF may THEN rows[k].cost ELSE Match(old, rows, k)]]
    IN  /\ edit[r].at = "matched"
        /\ \/ /\ exists \/ (rows = <<>> /\ edit[r].base = 0)
              /\ lines' = new
              /\ totalAmount' = IF LineSum(new) = edit[r].base THEN totalAmount ELSE LineSum(new)
              /\ Become(r, Ended("done"))
              /\ UNCHANGED exists
           \/ ~edit[r].alone /\ GiveUp(r)
        /\ UNCHANGED <<may, page>>

-----------------------------------------------------------------------------
(* DELETE /quotations/{id} and batch-delete: the lines cascade.            *)
DeleteQuotation ==
    /\ exists /\ exists' = FALSE
    /\ lines' = [i \in {} |-> Absent] /\ totalAmount' = 0
    /\ edit' = [r \in Editor |-> [edit[r] EXCEPT !.alone = FALSE]]
    /\ UNCHANGED <<may, page>>

(* The process dies between two commits; the page stays open.              *)
EditRestart ==
    /\ Editing # {}
    /\ edit' = [r \in Editor |-> IF r \in Editing THEN Ended("failed") ELSE edit[r]]
    /\ UNCHANGED <<exists, lines, totalAmount, may, page>>

EditNext ==
    \/ \E r \in Editor :
        \/ \E s \in Sku, a \in Worth : AddItem(r, s, a)
        \/ \E i \in DOMAIN lines : DeleteItem(r, i) \/ \E a \in Worth : UpdateItem(r, i, a)
        \/ ChangeLine(r) \/ Reload(r) \/ AddLines(r) \/ StoreTotal(r) \/ SaveBom(r) \/ StoreBom(r)
    \/ OpenBom \/ DeleteQuotation \/ EditRestart

EditSpec == EditInit /\ [][EditNext]_editVars

-----------------------------------------------------------------------------
Sheet == {p \in Seq(Row) : Len(p) <= MaxLine}
Lines == {p \in Seq(Line) : Len(p) <= MaxLine}

Draft == [at : Underway \cup {"idle", "done", "failed"},
          kind : {"add", "update", "delete", "bom", Absent},
          id : 1 .. MaxLine \cup {Absent}, base : Nat, sum : Nat,
          old : Lines, rows : Sheet \cup Lines, alone : BOOLEAN]

EditRowsTyped ==
    /\ exists \in BOOLEAN /\ may \in BOOLEAN /\ totalAmount \in Nat
    /\ DOMAIN lines \subseteq 1 .. MaxLine /\ lines \in [DOMAIN lines -> Line]
    /\ page \in Sheet \cup {Absent}

EditTypeOK == EditRowsTyped /\ edit \in [Editor -> Draft]

(* Whatever races, crashes and stale totals came before: an edit that ran  *)
(* alone, of one line or of the whole BOM, leaves the quotation's total    *)
(* equal to the sum of its lines.                                          *)
TotalIsSettled ==
    \A r \in Editing :
        edit[r].alone /\ edit'[r].at = "done" => totalAmount' = LineSum(lines')
LoneEditSettlesTotal == [][TotalIsSettled]_editVars

(* test_api.py, test_quotation_bom_save_keeps_server_cost_for_user: a save *)
(* by somebody who may not see costs leaves the cost of every SKU that     *)
(* stands once before and once after as it was, wherever its row has moved *)
(* and however old the page is.                                            *)
HiddenCostsAreKept ==
    \A r \in Editor :
        edit[r].at = "matched" /\ edit[r].alone /\ ~may /\ lines' # lines
        => \A i \in DOMAIN lines, j \in DOMAIN lines' :
             /\ lines[i].sku = lines'[j].sku
             /\ \A k \in DOMAIN lines \ {i} : lines[k].sku # lines[i].sku
             => lines'[j].cost = lines[i].cost
HiddenBomKeepsCosts == [][HiddenCostsAreKept]_editVars
=============================================================================
