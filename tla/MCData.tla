------------------------------- MODULE MCData -------------------------------
(* What the database and the upload directory hold.  Each behaviour is one *)
(* of one component: `part' names it, the others rest in one initial state. *)
EXTENDS Schema, FileStore, Catalog, Bom, AiChat

VARIABLE part

dataVars == <<part, schemaVars, bomVars, catalogVars, storeVars, chatVars>>

(* What the proofs about these components assume of the constants.         *)
ASSUME DataAssumption ==
    /\ SchemaAssumption /\ StoreAssumption /\ CatalogAssumption /\ BomAssumption
    /\ ChatAssumption

(* The wares are alike, so one order of the first items stands for all.    *)
DataInit ==
    /\ part \in {"bom", "catalog", "files", "chat", "schema"}
    /\ Init /\ BomInit /\ CatalogInit /\ StoreInit /\ ChatInit
    /\ items[1].sku = CHOOSE p \in Ware : TRUE
    /\ part # "bom" => template = <<>> /\ may = [b \in Browser |-> FALSE]
    /\ part # "catalog" => Category = {1, 2} /\ parent[2] = 1
    /\ part # "schema" => origin = "live"

OnlyBom == part = "bom" /\ BomNext
    /\ UNCHANGED <<part, schemaVars, catalogVars, storeVars, chatVars>>
OnlyCatalog == part = "catalog" /\ CatalogNext
    /\ UNCHANGED <<part, schemaVars, bomVars, storeVars, chatVars>>
OnlyFiles == part = "files" /\ StoreNext
    /\ UNCHANGED <<part, schemaVars, bomVars, catalogVars, chatVars>>
OnlyChat == part = "chat" /\ ChatNext
    /\ UNCHANGED <<part, schemaVars, bomVars, catalogVars, storeVars>>
OnlySchema == part = "schema" /\ Next
    /\ UNCHANGED <<part, bomVars, catalogVars, storeVars, chatVars>>

DataNext == OnlyBom \/ OnlyCatalog \/ OnlyFiles \/ OnlyChat \/ OnlySchema
DataSpec == DataInit /\ [][DataNext]_dataVars

(* Every component keeps the types of its state.                           *)
TypesOK == TypeOK /\ StoreTypeOK /\ CatalogTypeOK /\ BomTypeOK /\ ChatTypeOK
=============================================================================
