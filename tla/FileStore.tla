------------------------------ MODULE FileStore ------------------------------
(***************************************************************************)
(* The upload directory and the rows that name its files:                  *)
(* routers/product_files.py, services/storage.py, the image rows of        *)
(* products.py and product_helpers.py, and the sweep of agent.py.  A file  *)
(* and its row change in two steps, never in one transaction, and the      *)
(* process may die in between.                                             *)
(*                                                                         *)
(* A file is written under a new random name, so a name is used once.  It  *)
(* is fresh until seven days have passed, which no request outlives.       *)
(***************************************************************************)
EXTENDS FiniteSets

CONSTANTS
    Handler,    \* concurrent requests
    Image, Doc, \* names of uploaded images and documents
    Product,
    None

(* Images and documents are told apart, and no name stands for no file.    *)
StoreAssumption == Image \cap Doc = {} /\ None \notin Image \cup Doc

VARIABLES
    disk,       \* File to "unused", "fresh", "old" or "removed"
    row,        \* live products: image_url, product_images, product_files
    pinned,     \* products that a solution or a quotation refers to
    job         \* the requests

storeVars == <<disk, row, pinned, job>>

File == Image \cup Doc

OnDisk == {f \in File : disk[f] \in {"fresh", "old"}}

(* What a row names: the file of its image_url, its images, its documents. *)
Cover(r) == IF r.cover = None THEN {} ELSE {r.cover}

Shape == [cover : Image \cup {None}, images : SUBSET Image, docs : SUBSET Doc]

Job == [op : {"idle", "save", "drop", "upload", "unlink", "sweep"}, p : Product \cup {None},
        new : {None} \cup Doc \cup Shape, refs : SUBSET File, quiet : BOOLEAN]

StoreTypeOK ==
    /\ disk \in [File -> {"unused", "fresh", "old", "removed"}]
    /\ DOMAIN row \subseteq Product /\ row \in [DOMAIN row -> Shape]
    /\ pinned \subseteq DOMAIN row
    /\ job \in [Handler -> Job]

-----------------------------------------------------------------------------
Idle == [op |-> "idle", p |-> None, new |-> None, refs |-> {}, quiet |-> TRUE]

NoFiles == [cover |-> None, images |-> {}, docs |-> {}]

StoreInit ==
    /\ disk = [f \in File |-> "unused"]
    /\ row \in [Product -> {NoFiles}]
    /\ pinned = {}
    /\ job = [h \in Handler |-> Idle]

Become(h, j) == job' = [g \in Handler |-> IF g = h THEN j ELSE [job[g] EXCEPT !.quiet = FALSE]]

Begin(h, op, p, new) == Become(h, [Idle EXCEPT !.op = op, !.p = p, !.new = new])

DeleteFiles(set) == disk' = [f \in File |-> IF f \in set THEN "removed" ELSE disk[f]]

Write(f) == disk[f] = "unused" /\ disk' = [disk EXCEPT ![f] = "fresh"]

End(h) == Become(h, Idle)

-----------------------------------------------------------------------------
(* Images                                                                  *)

(* A file nobody names yet: an image the user sends or has downloaded, or  *)
(* whatever is attached to a message to the agent.                         *)
Add(h, files) ==
    /\ job[h].op = "idle"
    /\ \E f \in files : Write(f)
    /\ End(h)
    /\ UNCHANGED <<row, pinned>>

UploadImage(h) == Add(h, Image)
DownloadImage(h) == Add(h, Image)
AgentUpload(h) == Add(h, File)

(* _cleanup_image_files: every local file of the stored image rows.        *)
ImageFiles(p) == row[p].images

(* What a form may send: any uploaded image as cover, any as images.       *)
Forms(p) ==
    LET known == {f \in Image : disk[f] # "unused"}
    IN  {[row[p] EXCEPT !.cover = form.cover, !.images = form.images] :
           form \in [cover : known \cup {None}, images : SUBSET known]}

(* rewrite_mappings with images: the old files go first ...                *)
SaveImages(h, p, new) ==
    /\ job[h].op = "idle"
    /\ DeleteFiles(ImageFiles(p))
    /\ Begin(h, "save", p, new)
    /\ UNCHANGED <<row, pinned>>

(* ... then the new rows are committed, or refused: another reference of   *)
(* the form was deleted meanwhile (400), or the product itself was (500).  *)
CommitImages(h) ==
    LET p == job[h].p
    IN  /\ job[h].op = "save"
        /\ \/ p \in DOMAIN row /\ row' = [row EXCEPT ![p].cover = job[h].new.cover,
                                                     ![p].images = job[h].new.images]
           \/ UNCHANGED row
        /\ End(h)
        /\ UNCHANGED <<disk, pinned>>

(* delete_product: the reference check, the files, then the row, which a   *)
(* reference that came meanwhile holds back (RESTRICT).  Documents and the *)
(* image_url keep their files.                                             *)
DeleteProduct(h, p) ==
    /\ job[h].op = "idle" /\ p \notin pinned
    /\ DeleteFiles(row[p].images)
    /\ Begin(h, "drop", p, None)
    /\ UNCHANGED <<row, pinned>>

CommitDelete(h) ==
    /\ job[h].op = "drop"
    /\ row' = IF job[h].p \in pinned THEN row ELSE [p \in DOMAIN row \ {job[h].p} |-> row[p]]
    /\ End(h)
    /\ UNCHANGED <<disk, pinned>>

(* A solution or a quotation takes the product up.                         *)
Pin(p) ==
    /\ pinned' = pinned \cup {p}
    /\ UNCHANGED <<disk, row, job>>

-----------------------------------------------------------------------------
(* Documents                                                               *)

(* upload_file: the file is written, then its row committed.               *)
UploadDoc(h, p) ==
    /\ job[h].op = "idle"
    /\ \E f \in Doc : Write(f) /\ Begin(h, "upload", p, f)
    /\ UNCHANGED <<row, pinned>>

CommitDoc(h) ==
    LET p == job[h].p
    IN  /\ job[h].op = "upload"
        /\ row' = IF p \in DOMAIN row THEN [row EXCEPT ![p].docs = @ \cup {job[h].new}] ELSE row
        /\ End(h)
        /\ UNCHANGED <<disk, pinned>>

(* delete_product_file: the file, then the row.                            *)
DeleteDoc(h, p) ==
    /\ job[h].op = "idle"
    /\ \E f \in row[p].docs : DeleteFiles({f}) /\ Begin(h, "unlink", p, f)
    /\ UNCHANGED <<row, pinned>>

CommitUnlink(h) ==
    LET p == job[h].p
    IN  /\ job[h].op = "unlink"
        /\ row' = IF p \in DOMAIN row THEN [row EXCEPT ![p].docs = @ \ {job[h].new}] ELSE row
        /\ End(h)
        /\ UNCHANGED <<disk, pinned>>

-----------------------------------------------------------------------------
(* agent_cleanup_uploads                                                   *)

(* Mutation: the query of products.image_url is left out.                  *)
WithoutCovers == UNION {row[p].images \cup row[p].docs : p \in DOMAIN row}

Referenced == UNION {Cover(row[p]) \cup row[p].images \cup row[p].docs : p \in DOMAIN row}

Collect(h) ==
    /\ job[h].op = "idle"
    /\ Become(h, [Idle EXCEPT !.op = "sweep", !.refs = Referenced])
    /\ UNCHANGED <<disk, row, pinned>>

(* Mutation: files go whatever their age.                                  *)
Unnamed(h) == OnDisk \ job[h].refs

OrphanFiles(h) == {f \in File : disk[f] = "old"} \ job[h].refs

Sweep(h) ==
    /\ job[h].op = "sweep"
    /\ DeleteFiles(OrphanFiles(h))
    /\ End(h)
    /\ UNCHANGED <<row, pinned>>

(* Seven days pass; the requests that are under way wrote theirs since.    *)
Age ==
    /\ \E f \in File :
          /\ disk[f] = "fresh"
          /\ \A h \in Handler : job[h].op = "idle"
          /\ disk' = [disk EXCEPT ![f] = "old"]
    /\ UNCHANGED <<row, pinned, job>>

(* The process dies: what a request had left to do is never done.          *)
Restart ==
    /\ \E h \in Handler : job[h].op # "idle"
    /\ job' = [h \in Handler |-> Idle]
    /\ UNCHANGED <<disk, row, pinned>>

StoreNext ==
    \/ \E h \in Handler :
        \/ UploadImage(h) \/ DownloadImage(h) \/ AgentUpload(h)
        \/ CommitImages(h) \/ CommitDelete(h)
        \/ CommitDoc(h) \/ CommitUnlink(h) \/ Collect(h) \/ Sweep(h)
        \/ \E p \in DOMAIN row :
            \/ DeleteProduct(h, p) \/ UploadDoc(h, p) \/ DeleteDoc(h, p)
            \/ \E new \in Forms(p) : SaveImages(h, p, new)
    \/ \E p \in DOMAIN row : Pin(p)
    \/ Age \/ Restart

StoreSpec == StoreInit /\ [][StoreNext]_storeVars

-----------------------------------------------------------------------------
(* Properties                                                              *)

(* The rows of a document appear only once its file is there, whatever is  *)
(* swept meanwhile: the seven days keep the sweep away from a file whose   *)
(* row is yet to be committed.                                             *)
DocsHaveFiles ==
    \A p \in DOMAIN row \cap DOMAIN row' : row'[p].docs \ row[p].docs \subseteq OnDisk'

NewDocHasFile == [][DocsHaveFiles]_storeVars

(* test_agent_admin_files.py, "Cleanup must never delete files referenced":*)
(* a sweep that nothing disturbed removes every old file that no row names *)
(* and no other.                                                           *)
SweptExactly ==
    \A h \in Handler :
        job[h].op = "sweep" /\ job[h].quiet /\ job'[h].op = "idle" /\ disk' # disk
        => OnDisk \ OnDisk' =
             {f \in File : disk[f] = "old" /\ \A p \in DOMAIN row :
                             f # row[p].cover /\ f \notin row[p].images \cup row[p].docs}

LoneSweepIsExact == [][SweptExactly]_storeVars

(* A save that keeps an image keeps its file.  The comment in              *)
(* _cleanup_image_files speaks of deleted products and replaced images.    *)
KeptImageKeepsFile ==
    [][\A h \in Handler :
          job[h].op = "idle" /\ job'[h].op = "save"
          => row[job'[h].p].images \cap job'[h].new.images \cap OnDisk \subseteq OnDisk']_storeVars
=============================================================================
