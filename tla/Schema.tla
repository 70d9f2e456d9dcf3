------------------------------- MODULE Schema -------------------------------
(***************************************************************************)
(* The references between tables, and the migrations that changed how the  *)
(* database treats them.  Until e0f1a2b3c4d5 SQLite did not enforce        *)
(* foreign keys, so deletions left orphans; that migration gives every     *)
(* foreign key its ON DELETE action, clears what dangles and only then     *)
(* lets the application enforce them (database.py).                        *)
(*                                                                         *)
(* There are two histories: the live database, older than the migrations   *)
(* and stamped past the first ones, and one built by the whole chain.      *)
(* Data is abstract: a table holds one row or none, and a reference of     *)
(* that row is set or NULL, so a set reference dangles when the table it   *)
(* names is empty.                                                         *)
(***************************************************************************)
EXTENDS Naturals, FiniteSets, Functions

CONSTANTS
  Table,       \* the tables that hold data
  MaxMoves     \* bound: deletions

SchemaAssumption == IsFiniteSet(Table) /\ MaxMoves \in Nat

(* A foreign key; rule "none" is a column that refers without one.         *)
Key(null, of, col, to, rule) == [of |-> of, col |-> col, to |-> to, rule |-> rule, null |-> null]
Opt(of, col, to, rule) == Key(TRUE, of, col, to, rule)
Req(of, col, to, rule) == Key(FALSE, of, col, to, rule)

-----------------------------------------------------------------------------
(* What the models declare.                                                *)

CreatedBy(tables) == {Opt(t, "created_by", "users", "SET_NULL") : t \in tables}

CategoryModel == {Opt("device_categories", "parent_id", "device_categories", "SET_NULL")}
                 \cup CreatedBy({"device_categories"})
SpecDefinitionModel ==
    {Req("category_spec_definitions", "category_id", "device_categories", "CASCADE")}
Dictionaries == {"manufacturers", "dict_comm_methods", "dict_comm_protocols",
                 "dict_power_supplies", "dict_sensor_metrics"}
DictionaryModel == CreatedBy(Dictionaries)
SupplierModel == CreatedBy({"suppliers"})

ProductModel ==
  {Req("products", "category_id", "device_categories", "RESTRICT"),
   Opt("products", "manufacturer_id", "manufacturers", "SET_NULL"),
   Opt("products", "supplier_id", "suppliers", "SET_NULL"),
   Opt("products", "parent_id", "products", "SET_NULL")} \cup CreatedBy({"products"})
OfProduct(tables) == {Req(t, "product_id", "products", "CASCADE") : t \in tables}
MappingModel ==
  {Req("product_comm_methods", "method_id", "dict_comm_methods", "CASCADE"),
   Req("product_comm_protocols", "protocol_id", "dict_comm_protocols", "CASCADE"),
   Req("product_power_supplies", "power_id", "dict_power_supplies", "CASCADE"),
   Req("product_sensor_capabilities", "metric_id", "dict_sensor_metrics", "CASCADE")}
  \cup OfProduct({"product_comm_methods", "product_comm_protocols", "product_power_supplies",
                  "product_hardware_interfaces", "product_sensor_capabilities", "product_images"})
FileModel == OfProduct({"product_files"})
DependencyModel ==
  {Opt("product_dependencies", "depends_on_product_id", "products", "CASCADE"),
   Opt("product_dependencies", "depends_on_category_id", "device_categories", "CASCADE")}
  \cup OfProduct({"product_dependencies"})

SolutionModel ==
  {Req("solution_items", "solution_id", "solutions", "CASCADE"),
   Req("solution_items", "product_id", "products", "RESTRICT")} \cup CreatedBy({"solutions"})
BomModel ==
  {Req("solution_bom_snapshots", "solution_id", "solutions", "CASCADE"),
   Opt("solution_bom_snapshots", "template_id", "bom_templates", "CASCADE")}
  \cup CreatedBy({"bom_templates"})
QuotationModel ==
  {Opt("quotations", "solution_id", "solutions", "SET_NULL"),
   Req("quotation_items", "quotation_id", "quotations", "CASCADE"),
   Opt("quotation_items", "solution_item_id", "solution_items", "SET_NULL"),
   Opt("quotation_items", "product_id", "products", "RESTRICT")} \cup CreatedBy({"quotations"})

ConversationModel == {Req("ai_conversations", "user_id", "users", "CASCADE"),
                      Req("ai_messages", "conversation_id", "ai_conversations", "CASCADE")}
UsageLogModel == {Opt("ai_usage_logs", "user_id", "users", "SET_NULL")}
LoginLogModel == {Opt("login_logs", "user_id", "users", "SET_NULL")}
DownloadLogModel == {Opt("download_logs", "user_id", "users", "SET_NULL")}

(* product_categories has no model: the helper's SQL and the migration     *)
(* below define it.                                                        *)
CategoryLinks == {Req("product_categories", "category_id", "device_categories", "CASCADE")}
                 \cup OfProduct({"product_categories"})

Models == UNION {CategoryModel, SpecDefinitionModel, DictionaryModel, SupplierModel, ProductModel,
                 MappingModel, FileModel, DependencyModel, SolutionModel, BomModel, QuotationModel,
                 ConversationModel, UsageLogModel, LoginLogModel, DownloadLogModel, CategoryLinks}

-----------------------------------------------------------------------------
(* What the explicit DDL of a fresh database declares (fix_explicit_ddl).  *)

ExplicitProducts ==
  {Opt("device_categories", "parent_id", "device_categories", "NO_ACTION"),
   Req("products", "category_id", "device_categories", "SET_NULL"),
   Opt("products", "manufacturer_id", "manufacturers", "SET_NULL"),
   Opt("products", "supplier_id", "suppliers", "SET_NULL"),
   Opt("products", "parent_id", "products", "SET_NULL")}
ExplicitMappings ==
  MappingModel \cup DependencyModel \cup SpecDefinitionModel
ExplicitSolutions ==
  {Opt("solutions", "created_by", "users", "NO_ACTION"),
   Opt("bom_templates", "created_by", "users", "SET_NULL"),
   Opt("quotations", "created_by", "users", "NO_ACTION"),
   Opt("quotations", "solution_id", "solutions", "SET_NULL"),
   Req("quotation_items", "quotation_id", "quotations", "CASCADE"),
   Opt("quotation_items", "solution_item_id", "solution_items", "SET_NULL"),
   Req("quotation_items", "product_id", "products", "RESTRICT")}
  \cup ((SolutionModel \cup BomModel) \ CreatedBy({"solutions", "bom_templates"}))
ExplicitLogs ==
  {Req("ai_conversations", "user_id", "users", "NO_ACTION"),
   Req("ai_messages", "conversation_id", "ai_conversations", "CASCADE"),
   Req("ai_usage_logs", "user_id", "users", "NO_ACTION"),
   Opt("login_logs", "user_id", "users", "NO_ACTION"),
   Req("download_logs", "user_id", "users", "NO_ACTION")}

(* product_files stays as the initial migration made it from the models.   *)
Explicit == UNION {ExplicitProducts, ExplicitMappings, ExplicitSolutions, ExplicitLogs, FileModel}

(* d4e5f6a7b8c9: product_categories and the missing columns, whose DDL is  *)
(* a bare INTEGER.                                                         *)
AddedOwners == {[r EXCEPT !.rule = "none"] : r \in
                  CreatedBy({"device_categories", "suppliers", "products"} \cup Dictionaries)}
Converged(schema) ==
  schema \cup {r \in AddedOwners \cup CategoryLinks :
                 \A s \in schema : <<s.of, s.col>> # <<r.of, r.col>>}

-----------------------------------------------------------------------------
(* e0f1a2b3c4d5.  The action each rebuilt table's keys get if they have    *)
(* none, by _FK_ACTIONS, and the keys the live database lacks.             *)

Owned == {"products", "device_categories", "bom_templates", "suppliers", "solutions",
          "quotations"} \cup Dictionaries
CascadingActions ==   \* a slip of FKActions: a user's logs go with the user
  {IF r.to = "users" THEN [r EXCEPT !.rule = "CASCADE"] ELSE r : r \in
     CreatedBy(Owned) \cup UsageLogModel \cup LoginLogModel \cup DownloadLogModel}
FKActions ==
  CreatedBy(Owned) \cup UsageLogModel \cup LoginLogModel \cup DownloadLogModel \cup DependencyModel
  \cup {r \in UNION {CategoryModel, ProductModel, ConversationModel, SolutionModel, BomModel} :
          <<r.of, r.col>> \in
            {<<"products", "category_id">>, <<"products", "manufacturer_id">>,
             <<"products", "supplier_id">>, <<"products", "parent_id">>,
             <<"device_categories", "parent_id">>, <<"ai_conversations", "user_id">>,
             <<"solution_items", "product_id">>, <<"solution_bom_snapshots", "template_id">>}}

MissingFKs == DownloadLogModel \cup DependencyModel
DropNotNull == {<<"ai_usage_logs", "user_id">>, <<"download_logs", "user_id">>}

(* _patch_ddl, for the tables of _FK_ACTIONS: only a foreign key without   *)
(* an action is given one.                                                 *)
Action(r) == CHOOSE a \in FKActions : <<a.of, a.col>> = <<r.of, r.col>>
Patched(schema) ==
  {IF r.rule = "NO_ACTION" /\ \E a \in FKActions : <<a.of, a.col>> = <<r.of, r.col>>
   THEN [r EXCEPT !.rule = Action(r).rule, !.null = @ \/ <<r.of, r.col>> \in DropNotNull]
   ELSE r : r \in {k \in schema : k.rule # "none" \/ \A m \in MissingFKs :
                                   <<m.of, m.col>> # <<k.of, k.col>>}} \cup MissingFKs

(* The live database before it: the 21 keys of _FK_ACTIONS that exist have *)
(* no action, the others of the models have theirs.                        *)
Live == {IF r \in FKActions THEN [r EXCEPT !.rule = "NO_ACTION",
                                           !.null = @ /\ <<r.of, r.col>> \notin DropNotNull]
         ELSE r : r \in Models \ MissingFKs}
        \cup {[r EXCEPT !.rule = "none"] : r \in MissingFKs}

(* _DELETES, _NULLS, and _ORPHAN_TARGETS of b7c8d9e0f1a2: columns of the   *)
(* child whose row goes, or which is set to NULL, when its parent is gone. *)
Purged == {<<"solution_items", "solution_id">>, <<"solution_bom_snapshots", "solution_id">>,
           <<"quotation_items", "quotation_id">>}
Deletes == Purged \cup
  {<<r.of, r.col>> : r \in MappingModel \cup FileModel \cup DependencyModel \cup SpecDefinitionModel
                           \cup CategoryLinks}
  \cup {<<"ai_messages", "conversation_id">>}
Nulls == {<<r.of, r.col>> : r \in CreatedBy(Owned) \cup LoginLogModel \cup UsageLogModel
                                  \cup DownloadLogModel} \cup {<<"ai_conversations", "user_id">>}

-----------------------------------------------------------------------------
VARIABLES
  origin,      \* "live" or "fresh"
  stage,       \* the last migration that ran
  schema,      \* the keys of the database
  rows,        \* the tables that have a row
  links,       \* the references that are set, as <<table, column>>
  moves
schemaVars == <<origin, stage, schema, rows, links, moves>>

At(r) == <<r.of, r.col>>

(* The references between two tables of the model.  With one row to a      *)
(* table, a table that refers to itself (parent_id) refers to that row, so *)
(* the reference comes and goes with it and can neither dangle nor forbid. *)
Known(s) == {r \in s : {r.of, r.to} \subseteq Table /\ r.of # r.to}
Dangling(s, ls, rs) == {r \in s : At(r) \in ls /\ r.to \notin rs}

Init == /\ \/ origin = "live" /\ schema = Live
           \/ origin = "fresh" /\ schema = Explicit
        /\ stage = "c3d4" /\ moves = 0
        /\ rows = {} /\ links = {}

(* The application fills the database.                                     *)
Fill == /\ rows = {} /\ stage # "failed" /\ moves = 0
        /\ rows' = Table /\ links' = {At(r) : r \in Known(schema)}
        /\ moves' = 1
        /\ UNCHANGED <<origin, stage, schema>>

(* A deletion while keys are not enforced: the rows that refer to it stay. *)
Parents == {r.to : r \in Models}
LegacyDelete(t) ==
  /\ stage \notin {"enforced", "failed"} /\ moves \in 1..MaxMoves
  /\ t \in rows \cap Parents
  /\ rows' = rows \ {t} /\ links' = {l \in links : l[1] # t}
  /\ moves' = moves + 1
  /\ UNCHANGED <<origin, stage, schema>>

Converge == /\ stage = "c3d4" /\ stage' = "d4e5"
            /\ schema' = Converged(schema)
            /\ UNCHANGED <<origin, rows, links, moves>>

(* One pass over the columns of a list, in any order: none of them refers  *)
(* to a table that the list deletes from, but ai_messages after            *)
(* conversations, which it does not delete.                                *)
Orphans(cols) == {r.of : r \in {k \in Dangling(Known(schema'), links, rows) : At(k) \in cols}}
Removed(gone) == /\ rows' = rows \ gone
                 /\ links' = {l \in links : l[1] \notin gone}

PurgeOrphans == /\ stage = "d4e5" /\ stage' = "b7c8"
                /\ UNCHANGED <<origin, schema, moves>>
                /\ Removed(Orphans(Purged))

(* Rebuild, then _cleanup, then the check that refuses to go on with a     *)
(* violation left or a NULL where the column forbids it.                   *)
Cleaned(ls) == {l \in ls : ~(l \in Nulls /\ \E r \in schema' : At(r) = l /\ r.to \notin rows')}
EnforceUnchecked ==   \* a slip of Enforce: the keys are enforced whatever is left
  /\ stage = "b7c8" /\ schema' = Patched(schema) /\ stage' = "enforced"
  /\ rows' = rows \ Orphans(Deletes)
  /\ links' = Cleaned({l \in links : l[1] \in rows'})
  /\ UNCHANGED <<origin, moves>>
Enforce ==
  /\ stage = "b7c8" /\ schema' = Patched(schema)
  /\ rows' = rows \ Orphans(Deletes)
  /\ LET kept == {l \in links : l[1] \in rows'}
         nulled == kept \ Cleaned(kept)
         left == {r \in Dangling(Known(schema'), Cleaned(kept), rows') : r.rule # "none"}
     IN /\ links' = Cleaned(kept)
        /\ stage' = IF left # {} \/ \E r \in schema' : At(r) \in nulled /\ ~r.null
                    THEN "failed" ELSE "enforced"
  /\ UNCHANGED <<origin, moves>>

(* DELETE with foreign_keys=ON: the rows that cascade, unless a key that   *)
(* refers to one of them forbids it.                                       *)
Cascading == {k \in Known(schema) : k.rule = "CASCADE" /\ At(k) \in links}
Grown(gone) == gone \cup {k.of : k \in {c \in Cascading : c.to \in gone}}
Cascade(t) ==
  LET after[n \in Nat] == IF n = 0 THEN {t} ELSE Grown(after[n - 1])
  IN after[Cardinality(Table)]
Delete(t) ==
  LET gone == Cascade(t)
      hit == {r \in Known(schema) : At(r) \in links /\ r.to \in gone /\ r.of \notin gone}
  IN /\ stage = "enforced" /\ t \in rows /\ moves \in 1..MaxMoves
     /\ \A r \in hit : r.rule = "none" \/ (r.rule = "SET_NULL" /\ r.null)
     /\ rows' = rows \ gone
     /\ links' = {l \in links : l[1] \notin gone}
                   \ {At(r) : r \in {k \in hit : k.rule = "SET_NULL"}}
     /\ moves' = moves + 1
     /\ UNCHANGED <<origin, stage, schema>>

Next == \/ Fill \/ Converge \/ PurgeOrphans \/ Enforce
        \/ \E t \in Table : LegacyDelete(t) \/ Delete(t)

Spec == Init /\ [][Next]_schemaVars
-----------------------------------------------------------------------------
(* Links are references of rows that exist.                                *)
TypeOK == /\ origin \in {"live", "fresh"} /\ moves \in 0..MaxMoves + 1
          /\ stage \in {"c3d4", "d4e5", "b7c8", "enforced", "failed"}
          /\ rows \subseteq Table
          /\ \A l \in links : l[1] \in rows /\ \E r \in schema : At(r) = l

(* database.py: the keys may be enforced only once nothing violates them.  *)
(* Whatever was deleted before, between and after the migrations, once they *)
(* are enforced every reference with a foreign key has its row.            *)
EnforcedIsSound ==
  stage = "enforced" => \A r \in Dangling(Known(schema), links, rows) : r.rule = "none"

(* docs/database.md: logs and documents outlive the user they refer to.    *)
(* Neither the upgrade nor the deletion of a user takes one of them away.  *)
UserData == {"login_logs", "ai_usage_logs", "download_logs", "solutions", "quotations", "products",
             "bom_templates"}
DataIsSpared ==
  stage' = "enforced" /\ (stage # "enforced" \/ "users" \in rows \ rows')
  => rows \cap UserData \subseteq rows'
AuditSurvives == [][DataIsSpared]_schemaVars

(* test_migrations.py: the live and the fresh database must end alike.     *)
(* After the last migration the keys are those of the models.              *)
HeadMatchesModels ==
  stage = "enforced" =>
    {<<r.of, r.col, r.rule>> : r \in schema} = {<<r.of, r.col, r.rule>> : r \in Models}
=============================================================================
