---------------------------- MODULE StorageProofs ----------------------------
(***************************************************************************)
(* What the upload directory and the database keep, for any number of      *)
(* requests, files, products, tables, conversations and turns.             *)
(*                                                                         *)
(* Files: between the write of a file and the commit of its row nothing    *)
(* names it, so nothing but its age keeps the sweep away from it; and      *)
(* since a name is written once, no other request holds it (Waiting,       *)
(* NamedWritten).                                                          *)
(*                                                                         *)
(* Rows: once the keys are enforced no reference dangles, and the keys     *)
(* that cascade from a user lead to the chats only (Modest).               *)
(*                                                                         *)
(* Conversations: the replay is a fold over the window, reasoned about by  *)
(* unrolling it (FoldExists, FoldSteps).  What it keeps is sound before    *)
(* the last message that is no answer; what follows that message answers   *)
(* it (FoldIsSound).  A turn's rows are committed at once, so in every log *)
(* an answer directly follows another row of its own turn (Follows), and a *)
(* window cuts nothing but the beginning.                                  *)
(*                                                                         *)
(* The last theorem is about the composition of MCData, whose parts are    *)
(* proved about here and in CatalogBomProofs.                              *)
(***************************************************************************)
EXTENDS MCData, CatalogBomProofs, Extremes, FiniteSetTheorems, SequenceTheorems, TLAPS

Uploading(h) == job[h].op = "upload"

Waiting ==
    \A h \in Handler :
        Uploading(h) =>
            /\ job[h].new \in Doc /\ disk[job[h].new] = "fresh"
            /\ \A p \in DOMAIN row : job[h].new \notin row[p].docs
            /\ \A g \in Handler \ {h} : Uploading(g) => job[g].new # job[h].new

FormsKept == \A h \in Handler : job[h].op = "save" => job[h].new \in Shape

NamedWritten == \A p \in DOMAIN row : \A d \in row[p].docs : disk[d] # "unused"

StoreIInv == StoreTypeOK /\ Waiting /\ FormsKept /\ NamedWritten

-----------------------------------------------------------------------------
(* A request moves: of the others only the history changes.                *)
LEMMA Moved ==
    ASSUME job \in [Handler -> Job], NEW h \in Handler, NEW j \in Job, Become(h, j)
    PROVE  /\ job' \in [Handler -> Job] /\ job'[h] = j
           /\ \A g \in Handler \ {h} : job'[g].op = job[g].op /\ job'[g].new = job[g].new
  <1>1. ASSUME NEW g \in Handler
        PROVE  /\ [job[g] EXCEPT !.quiet = FALSE] \in Job
               /\ [job[g] EXCEPT !.quiet = FALSE].op = job[g].op
               /\ [job[g] EXCEPT !.quiet = FALSE].new = job[g].new
    BY DEF Job
  <1>2. \A g \in Handler : job'[g] = IF g = h THEN j ELSE [job[g] EXCEPT !.quiet = FALSE]
    BY DEF Become
  <1>3. \A g \in Handler : job'[g] \in Job
    BY <1>1, <1>2
  <1>4. job' \in [Handler -> Job]
    BY <1>3 DEF Become
  <1> QED
    BY <1>1, <1>2, <1>4

(* A request that rests is a request.                                      *)
LEMMA Resting == Idle \in Job /\ Idle.op = "idle"
  BY DEF Idle, Job

(* A request that neither holds a file nor a form moves, and no file that  *)
(* is waited for is touched: those who wait go on waiting.                 *)
LEMMA OthersWait ==
    ASSUME StoreIInv, NEW h \in Handler, NEW j \in Job, Become(h, j), j.op # "upload",
           j.op = "save" => j.new \in Shape,
           \A f \in Doc : disk[f] = "fresh" =>
              \/ disk'[f] = "fresh"
              \/ \E p \in DOMAIN row : f \in row[p].docs,
           \A p \in DOMAIN row' : p \in DOMAIN row /\
              \A d \in row'[p].docs \ row[p].docs : Uploading(h) /\ d = job[h].new
    PROVE  Waiting' /\ FormsKept'
  <1>1. /\ job'[h] = j
        /\ \A g \in Handler \ {h} : job'[g].op = job[g].op /\ job'[g].new = job[g].new
    BY Moved DEF StoreIInv, StoreTypeOK
  <1>2. FormsKept'
    BY <1>1 DEF StoreIInv, FormsKept
  <1>3. Waiting'
    <2> SUFFICES ASSUME NEW g \in Handler, Uploading(g)'
                 PROVE  /\ job'[g].new \in Doc /\ disk'[job'[g].new] = "fresh"
                        /\ \A p \in DOMAIN row' : job'[g].new \notin row'[p].docs
                        /\ \A i \in Handler \ {g} : Uploading(i)' => job'[i].new # job'[g].new
      BY DEF Waiting
    <2>1. g # h /\ Uploading(g) /\ job'[g].new = job[g].new
      BY <1>1 DEF Uploading
    <2>2. /\ job[g].new \in Doc /\ disk[job[g].new] = "fresh"
          /\ \A p \in DOMAIN row : job[g].new \notin row[p].docs
          /\ \A i \in Handler \ {g} : Uploading(i) => job[i].new # job[g].new
      BY <2>1 DEF StoreIInv, Waiting
    <2>3. disk'[job[g].new] = "fresh"
      BY <2>2
    <2>4. \A p \in DOMAIN row' : job[g].new \notin row'[p].docs
      BY <2>1, <2>2
    <2>5. \A i \in Handler \ {g} : Uploading(i)' => job'[i].new # job'[g].new
      BY <1>1, <2>1, <2>2 DEF Uploading
    <2> QED
      BY <2>1, <2>2, <2>3, <2>4, <2>5
  <1> QED
    BY <1>2, <1>3

-----------------------------------------------------------------------------
(* A file nobody waits for is written.                                     *)
LEMMA AddStep ==
    ASSUME StoreIInv, NEW h \in Handler, NEW files \in SUBSET File, Add(h, files) PROVE StoreIInv'
  <1>1. PICK f \in files : disk[f] = "unused" /\ disk' = [disk EXCEPT ![f] = "fresh"]
    BY DEF Add, Write
  <1>2. Become(h, Idle) /\ UNCHANGED <<row, pinned>> /\ job \in [Handler -> Job]
    BY DEF Add, End, StoreIInv, StoreTypeOK
  <1>3. StoreTypeOK'
    BY <1>1, <1>2, Moved, Resting DEF StoreIInv, StoreTypeOK
  <1>4. \A d \in Doc : disk[d] = "fresh" => disk'[d] = "fresh"
    BY <1>1 DEF StoreIInv, StoreTypeOK, File
  <1>5. Idle \in Job /\ Idle.op # "upload" /\ Idle.op # "save"
    BY Resting
  <1>6. Waiting' /\ FormsKept'
    BY <1>2, <1>4, <1>5, OthersWait
  <1>7. NamedWritten'
    BY <1>1, <1>2 DEF StoreIInv, StoreTypeOK, NamedWritten, File, Shape
  <1> QED
    BY <1>3, <1>6, <1>7 DEF StoreIInv

(* Files of rows are removed, and whatever the sweep found old.            *)
LEMMA RemoveStep ==
    ASSUME StoreAssumption, StoreIInv, NEW h \in Handler, NEW set \in SUBSET File, NEW j \in Job,
           DeleteFiles(set), Become(h, j), j.op # "upload", j.op = "save" => j.new \in Shape,
           UNCHANGED <<row, pinned>>,
           \A f \in set \cap Doc : disk[f] = "old" \/ \E p \in DOMAIN row : f \in row[p].docs
    PROVE  StoreIInv'
  <1>1. \A f \in File : disk'[f] = IF f \in set THEN "removed" ELSE disk[f]
    BY DEF DeleteFiles
  <1>2. StoreTypeOK'
    <2>1. disk' \in [File -> {"unused", "fresh", "old", "removed"}]
      BY <1>1 DEF DeleteFiles, StoreIInv, StoreTypeOK
    <2>2. job' \in [Handler -> Job]
      BY Moved DEF StoreIInv, StoreTypeOK
    <2> QED
      BY <2>1, <2>2 DEF StoreIInv, StoreTypeOK
  <1>3. \A f \in Doc : disk[f] = "fresh" =>
           disk'[f] = "fresh" \/ \E p \in DOMAIN row : f \in row[p].docs
    BY <1>1 DEF File
  <1>4. Waiting' /\ FormsKept'
    BY <1>3, OthersWait
  <1>5. NamedWritten'
    BY <1>1 DEF StoreIInv, StoreTypeOK, NamedWritten, File, Shape
  <1> QED
    BY <1>2, <1>4, <1>5 DEF StoreIInv

(* A request removes the files that rows name, or sweeps.                  *)
LEMMA RemovingStep ==
    ASSUME StoreAssumption, StoreIInv, NEW h \in Handler,
           \/ Sweep(h)
           \/ \E p \in DOMAIN row : \/ DeleteProduct(h, p) \/ DeleteDoc(h, p)
                                    \/ \E new \in Forms(p) : SaveImages(h, p, new)
    PROVE  StoreIInv'
  <1>1. \A p \in DOMAIN row : p \in Product /\ row[p] \in Shape
    BY DEF StoreIInv, StoreTypeOK
  <1>2. CASE Sweep(h)
    <2>1. OrphanFiles(h) \in SUBSET File /\ \A f \in OrphanFiles(h) : disk[f] = "old"
      BY DEF OrphanFiles
    <2>2. DeleteFiles(OrphanFiles(h)) /\ Become(h, Idle) /\ UNCHANGED <<row, pinned>>
      BY <1>2 DEF Sweep, End
    <2>3. Idle \in Job /\ Idle.op # "upload" /\ Idle.op # "save"
      BY Resting
    <2> QED
      BY <2>1, <2>2, <2>3, RemoveStep
  <1>3. ASSUME NEW p \in DOMAIN row, DeleteProduct(h, p) PROVE StoreIInv'
    <2>1. row[p].images \in SUBSET File /\ row[p].images \cap Doc = {}
      BY <1>1 DEF Shape, File, StoreAssumption
    <2> DEFINE j == [Idle EXCEPT !.op = "drop", !.p = p, !.new = None]
    <2>2. j \in Job /\ j.op = "drop"
      BY <1>1 DEF Idle, Job
    <2>3. DeleteFiles(row[p].images) /\ Become(h, j) /\ UNCHANGED <<row, pinned>>
      BY <1>3 DEF DeleteProduct, Begin
    <2> HIDE DEF j
    <2> QED
      BY <2>1, <2>2, <2>3, RemoveStep
  <1>4. ASSUME NEW p \in DOMAIN row, DeleteDoc(h, p) PROVE StoreIInv'
    <2>1. PICK f \in row[p].docs : DeleteFiles({f}) /\ Begin(h, "unlink", p, f)
      BY <1>4 DEF DeleteDoc
    <2>2. f \in Doc /\ {f} \in SUBSET File
      BY <1>1, <2>1 DEF Shape, File
    <2> DEFINE j == [Idle EXCEPT !.op = "unlink", !.p = p, !.new = f]
    <2>3. j \in Job /\ j.op = "unlink"
      BY <1>1, <2>2 DEF Idle, Job
    <2>4. Become(h, j) /\ UNCHANGED <<row, pinned>>
      BY <1>4, <2>1 DEF DeleteDoc, Begin
    <2> HIDE DEF j
    <2> QED
      BY <2>1, <2>2, <2>3, <2>4, RemoveStep
  <1>5. ASSUME NEW p \in DOMAIN row, NEW new \in Forms(p), SaveImages(h, p, new) PROVE StoreIInv'
    <2>1. row[p].images \in SUBSET File /\ row[p].images \cap Doc = {}
      BY <1>1 DEF Shape, File, StoreAssumption
    <2>2. new \in Shape
      <3> DEFINE known == {f \in Image : disk[f] # "unused"}
      <3>1. PICK form \in [cover : known \cup {None}, images : SUBSET known] :
               new = [row[p] EXCEPT !.cover = form.cover, !.images = form.images]
        BY DEF Forms
      <3>2. row[p] \in Shape
        BY <1>1
      <3>3. form.cover \in Image \cup {None} /\ form.images \in SUBSET Image
        BY <3>1
      <3> QED
        BY <3>1, <3>2, <3>3 DEF Shape
    <2> DEFINE j == [Idle EXCEPT !.op = "save", !.p = p, !.new = new]
    <2>3. j \in Job /\ j.op = "save" /\ j.new = new
      BY <1>1, <2>2 DEF Idle, Job
    <2>4. DeleteFiles(row[p].images) /\ Become(h, j) /\ UNCHANGED <<row, pinned>>
      BY <1>5 DEF SaveImages, Begin, ImageFiles
    <2> HIDE DEF j
    <2> QED
      BY <2>1, <2>2, <2>3, <2>4, RemoveStep
  <1> QED
    BY <1>2, <1>3, <1>4, <1>5

(* The file of a document is new: nobody waits for it, no row names it.    *)
LEMMA UploadStep ==
    ASSUME StoreIInv, NEW h \in Handler, NEW p \in DOMAIN row, UploadDoc(h, p) PROVE StoreIInv'
  <1>1. PICK f \in Doc : Write(f) /\ Begin(h, "upload", p, f)
    BY DEF UploadDoc
  <1> DEFINE j == [Idle EXCEPT !.op = "upload", !.p = p, !.new = f]
  <1>2. j \in Job /\ j.op = "upload" /\ j.new = f
    BY DEF Idle, Job, StoreIInv, StoreTypeOK
  <1>3. Become(h, j) /\ UNCHANGED <<row, pinned>>
    BY <1>1 DEF UploadDoc, Begin
  <1> HIDE DEF j
  <1>4. /\ job' \in [Handler -> Job] /\ job'[h] = j
        /\ \A g \in Handler \ {h} : job'[g].op = job[g].op /\ job'[g].new = job[g].new
    BY <1>2, <1>3, Moved DEF StoreIInv, StoreTypeOK
  <1>5. disk[f] = "unused" /\ disk' = [disk EXCEPT ![f] = "fresh"]
    BY <1>1 DEF Write
  <1>6. StoreTypeOK'
    BY <1>3, <1>4, <1>5 DEF StoreIInv, StoreTypeOK
  <1>7. FormsKept'
    BY <1>2, <1>4 DEF StoreIInv, FormsKept
  <1>8. NamedWritten'
    BY <1>3, <1>5 DEF StoreIInv, StoreTypeOK, NamedWritten
  <1>9. Waiting'
    <2>1. disk'[f] = "fresh" /\ \A p2 \in DOMAIN row' : f \notin row'[p2].docs
      BY <1>3, <1>5 DEF StoreIInv, StoreTypeOK, NamedWritten, File
    <2>2. \A g \in Handler \ {h} :
             Uploading(g) => /\ job[g].new \in Doc /\ job[g].new # f /\ disk'[job[g].new] = "fresh"
                             /\ \A p2 \in DOMAIN row' : job[g].new \notin row'[p2].docs
      BY <1>3, <1>5 DEF StoreIInv, StoreTypeOK, Waiting, File
    <2> SUFFICES ASSUME NEW g \in Handler, Uploading(g)'
                 PROVE  /\ job'[g].new \in Doc /\ disk'[job'[g].new] = "fresh"
                        /\ \A p2 \in DOMAIN row' : job'[g].new \notin row'[p2].docs
                        /\ \A i \in Handler \ {g} : Uploading(i)' => job'[i].new # job'[g].new
      BY DEF Waiting
    <2>3. CASE g = h
      BY <1>2, <1>4, <2>1, <2>2, <2>3 DEF Uploading
    <2>4. CASE g # h
      BY <1>2, <1>4, <2>2, <2>4 DEF Uploading, StoreIInv, Waiting
    <2> QED
      BY <2>3, <2>4
  <1> QED
    BY <1>6, <1>7, <1>8, <1>9 DEF StoreIInv

(* A commit changes rows by what its request holds; the file of a document *)
(* is there.                                                               *)
LEMMA CommitStep ==
    ASSUME StoreIInv, NEW h \in Handler,
           CommitImages(h) \/ CommitDelete(h) \/ CommitDoc(h) \/ CommitUnlink(h)
    PROVE  StoreIInv' /\ DocsHaveFiles
  <1>1. /\ UNCHANGED disk /\ Become(h, Idle)
    BY DEF CommitImages, CommitDelete, CommitDoc, CommitUnlink, End
  <1>2. Idle \in Job /\ Idle.op # "upload" /\ Idle.op # "save"
    BY Resting
  <1>3. job' \in [Handler -> Job]
    BY <1>1, <1>2, Moved DEF StoreIInv, StoreTypeOK
  <1>4. /\ DOMAIN row' \subseteq DOMAIN row /\ pinned' \subseteq DOMAIN row'
        /\ row' \in [DOMAIN row' -> Shape]
        /\ \A p \in DOMAIN row' : \A d \in row'[p].docs \ row[p].docs :
               Uploading(h) /\ d = job[h].new
    <2>1. /\ pinned \subseteq DOMAIN row /\ row \in [DOMAIN row -> Shape]
          /\ \A p \in DOMAIN row : row[p] \in Shape
      BY DEF StoreIInv, StoreTypeOK
    <2>2. CASE UNCHANGED <<row, pinned>>
      BY <2>1, <2>2
    <2>3. ASSUME NEW p \in DOMAIN row, NEW r \in Shape, row' = [row EXCEPT ![p] = r],
                 UNCHANGED pinned,
                 \A d \in r.docs \ row[p].docs : Uploading(h) /\ d = job[h].new
          PROVE  /\ DOMAIN row' \subseteq DOMAIN row /\ pinned' \subseteq DOMAIN row'
                 /\ row' \in [DOMAIN row' -> Shape]
                 /\ \A q \in DOMAIN row' : \A d \in row'[q].docs \ row[q].docs :
                        Uploading(h) /\ d = job[h].new
      BY <2>1, <2>3
    <2>4. CASE CommitImages(h) /\ row' # row
      <3> DEFINE r == [row[job[h].p] EXCEPT !.cover = job[h].new.cover,
                                            !.images = job[h].new.images]
      <3>1. /\ job[h].p \in DOMAIN row /\ UNCHANGED pinned /\ job[h].new \in Shape
            /\ row' = [row EXCEPT ![job[h].p] = r]
        BY <2>4 DEF CommitImages, StoreIInv, FormsKept
      <3>2. r \in Shape /\ r.docs = row[job[h].p].docs
        BY <2>1, <3>1 DEF Shape
      <3> QED
        BY <2>3, <3>1, <3>2
    <2>5. CASE CommitDelete(h) /\ row' # row
      BY <2>1, <2>5 DEF CommitDelete
    <2>6. CASE CommitDoc(h) /\ row' # row
      <3> DEFINE r == [row[job[h].p] EXCEPT !.docs = @ \cup {job[h].new}]
      <3>1. /\ job[h].p \in DOMAIN row /\ UNCHANGED pinned /\ Uploading(h)
            /\ row' = [row EXCEPT ![job[h].p] = r]
        BY <2>6 DEF CommitDoc, Uploading
      <3>2. r \in Shape /\ r.docs = row[job[h].p].docs \cup {job[h].new}
        BY <2>1, <3>1 DEF Shape, StoreIInv, Waiting
      <3> QED
        BY <2>3, <3>1, <3>2
    <2>7. CASE CommitUnlink(h) /\ row' # row
      <3> DEFINE r == [row[job[h].p] EXCEPT !.docs = @ \ {job[h].new}]
      <3>1. /\ job[h].p \in DOMAIN row /\ UNCHANGED pinned
            /\ row' = [row EXCEPT ![job[h].p] = r]
        BY <2>7 DEF CommitUnlink
      <3>2. r \in Shape /\ r.docs = row[job[h].p].docs \ {job[h].new}
        BY <2>1, <3>1 DEF Shape
      <3> QED
        BY <2>3, <3>1, <3>2
    <2>8. UNCHANGED pinned
      BY DEF CommitImages, CommitDelete, CommitDoc, CommitUnlink
    <2> QED
      BY <2>2, <2>4, <2>5, <2>6, <2>7, <2>8
  <1>5. StoreTypeOK'
    BY <1>1, <1>3, <1>4 DEF StoreIInv, StoreTypeOK
  <1>6. Waiting' /\ FormsKept'
    BY <1>1, <1>2, <1>4, OthersWait
  <1>7. NamedWritten'
    BY <1>1, <1>4 DEF StoreIInv, NamedWritten, Waiting
  <1>8. DocsHaveFiles
    BY <1>1, <1>4 DEF StoreIInv, Waiting, OnDisk, File, DocsHaveFiles
  <1> QED
    BY <1>5, <1>6, <1>7, <1>8 DEF StoreIInv

(* Steps that touch no document: the sweep collects, a product is pinned,  *)
(* days pass while nobody waits, the process dies.                         *)
LEMMA OtherStep ==
    ASSUME StoreIInv,
           \/ \E h \in Handler : Collect(h)
           \/ \E p \in DOMAIN row : Pin(p)
           \/ Age \/ Restart
    PROVE  StoreIInv'
  <1>1. ASSUME NEW h \in Handler, Collect(h) PROVE StoreIInv'
    <2> DEFINE j == [Idle EXCEPT !.op = "sweep", !.refs = Referenced]
    <2>1. Referenced \in SUBSET File
      BY DEF Referenced, Cover, StoreIInv, StoreTypeOK, Shape, File
    <2>2. j \in Job /\ j.op # "upload" /\ j.op # "save"
      BY <2>1 DEF Idle, Job
    <2>3. Become(h, j) /\ UNCHANGED <<disk, row, pinned>>
      BY <1>1 DEF Collect
    <2> HIDE DEF j
    <2>4. StoreTypeOK'
      BY <2>2, <2>3, Moved DEF StoreIInv, StoreTypeOK
    <2>5. Waiting' /\ FormsKept'
      BY <2>2, <2>3, OthersWait
    <2> QED
      BY <2>3, <2>4, <2>5 DEF StoreIInv, NamedWritten
  <1>2. ASSUME NEW p \in DOMAIN row, Pin(p) PROVE StoreIInv'
    BY <1>2 DEF Pin, StoreIInv, StoreTypeOK, Waiting, Uploading, FormsKept, NamedWritten
  <1>3. CASE Age
    <2>1. \A h \in Handler : job[h].op = "idle"
      BY <1>3 DEF Age
    <2>2. PICK f \in File : disk' = [disk EXCEPT ![f] = "old"]
      BY <1>3 DEF Age
    <2>3. UNCHANGED <<row, pinned, job>>
      BY <1>3 DEF Age
    <2>4. StoreTypeOK'
      BY <2>2, <2>3 DEF StoreIInv, StoreTypeOK
    <2>5. Waiting' /\ FormsKept'
      BY <2>1, <2>3 DEF Waiting, Uploading, FormsKept
    <2>6. NamedWritten'
      BY <2>2, <2>3 DEF StoreIInv, StoreTypeOK, NamedWritten
    <2> QED
      BY <2>4, <2>5, <2>6 DEF StoreIInv
  <1>4. CASE Restart
    <2>1. job' = [h \in Handler |-> Idle] /\ UNCHANGED <<disk, row, pinned>>
      BY <1>4 DEF Restart
    <2>2. StoreTypeOK'
      BY <2>1, Resting DEF StoreIInv, StoreTypeOK
    <2>3. Waiting' /\ FormsKept'
      BY <2>1, Resting DEF Waiting, Uploading, FormsKept
    <2> QED
      BY <2>1, <2>2, <2>3 DEF StoreIInv, NamedWritten
  <1> QED
    BY <1>1, <1>2, <1>3, <1>4

-----------------------------------------------------------------------------
(* At the start there are no files and no requests.                        *)
LEMMA InitStoreIInv == StoreInit => StoreIInv
  <1> SUFFICES ASSUME StoreInit PROVE StoreIInv
    OBVIOUS
  <1>1. \A p \in DOMAIN row : row[p].docs = {}
    BY DEF StoreInit, NoFiles
  <1>2. NoFiles \in Shape
    BY DEF NoFiles, Shape
  <1>3. StoreTypeOK
    BY <1>2, Resting DEF StoreInit, StoreTypeOK
  <1> QED
    BY <1>1, <1>3, Resting DEF StoreInit, StoreIInv, Waiting, Uploading, FormsKept, NamedWritten

(* The invariant is inductive, and a step adds only documents on disk.     *)
LEMMA NextStoreIInv ==
    ASSUME StoreAssumption, StoreIInv, [StoreNext]_storeVars
    PROVE  StoreIInv' /\ DocsHaveFiles
  <1>1. CASE UNCHANGED storeVars
    BY <1>1 DEF storeVars, DocsHaveFiles, StoreIInv, StoreTypeOK, Waiting, Uploading, FormsKept,
                NamedWritten
  <1>2. ASSUME NEW h \in Handler, UploadImage(h) \/ DownloadImage(h) \/ AgentUpload(h)
        PROVE  StoreIInv' /\ UNCHANGED row
    BY <1>2, AddStep DEF UploadImage, DownloadImage, AgentUpload, Add, File
  <1>3. ASSUME NEW h \in Handler,
               \/ Sweep(h)
               \/ \E p \in DOMAIN row : \/ DeleteProduct(h, p) \/ DeleteDoc(h, p)
                                        \/ \E new \in Forms(p) : SaveImages(h, p, new)
        PROVE  StoreIInv' /\ UNCHANGED row
    BY <1>3, RemovingStep DEF Sweep, DeleteProduct, DeleteDoc, SaveImages
  <1>4. ASSUME NEW h \in Handler, NEW p \in DOMAIN row, UploadDoc(h, p)
        PROVE  StoreIInv' /\ UNCHANGED row
    BY <1>4, UploadStep DEF UploadDoc
  <1>5. CASE \/ \E h \in Handler : Collect(h)
             \/ \E p \in DOMAIN row : Pin(p)
             \/ Age \/ Restart
    <2>1. StoreIInv'
      BY <1>5, OtherStep
    <2>2. UNCHANGED row
      BY <1>5 DEF Collect, Pin, Age, Restart
    <2> QED
      BY <2>1, <2>2 DEF DocsHaveFiles
  <1>6. CASE \E h \in Handler :
               CommitImages(h) \/ CommitDelete(h) \/ CommitDoc(h) \/ CommitUnlink(h)
    BY <1>6, CommitStep
  <1>7. CASE UNCHANGED row /\ StoreIInv'
    BY <1>7 DEF DocsHaveFiles
  <1> QED
    BY <1>1, <1>2, <1>3, <1>4, <1>5, <1>6, <1>7 DEF StoreNext

(* A row of a document appears only when its file is on disk, whatever     *)
(* else is uploaded, removed, swept and cut off by a restart meanwhile.    *)
THEOREM NewDocHasFileAlways == ASSUME StoreAssumption PROVE StoreSpec => NewDocHasFile
  <1>1. StoreInit => StoreIInv
    BY InitStoreIInv
  <1>2. StoreIInv /\ [StoreNext]_storeVars => StoreIInv'
    BY NextStoreIInv
  <1>3. StoreIInv /\ [StoreNext]_storeVars =>
          [DocsHaveFiles]_storeVars
    BY NextStoreIInv
  <1> QED
    BY <1>1, <1>2, <1>3, PTL DEF StoreSpec, NewDocHasFile

(* The upload directory, the rows, the references and the requests keep    *)
(* their types.                                                            *)
THEOREM StoreTypesAlways == ASSUME StoreAssumption PROVE StoreSpec => []StoreTypeOK
  <1>1. StoreInit => StoreIInv
    BY InitStoreIInv
  <1>2. StoreIInv /\ [StoreNext]_storeVars => StoreIInv'
    BY NextStoreIInv
  <1>3. StoreIInv => StoreTypeOK
    BY DEF StoreIInv
  <1> QED
    BY <1>1, <1>2, <1>3, PTL DEF StoreSpec

-----------------------------------------------------------------------------
(* The sweep.  Every commit of another request disturbs it, so while it is *)
(* quiet what it collected is what the rows name.                          *)

SweepsKnow ==
    \A h \in Handler : job[h].op = "sweep" /\ job[h].quiet => job[h].refs = Referenced

(* A request that moves starts to sweep by collecting, and of those that   *)
(* sweep only the sweep itself moves and touches the disk.                 *)
LEMMA HandlerMoves ==
    ASSUME StoreIInv, NEW h \in Handler,
           \/ UploadImage(h) \/ DownloadImage(h) \/ AgentUpload(h)
           \/ CommitImages(h) \/ CommitDelete(h)
           \/ CommitDoc(h) \/ CommitUnlink(h) \/ Collect(h) \/ Sweep(h)
           \/ \E p \in DOMAIN row :
               \/ DeleteProduct(h, p) \/ UploadDoc(h, p) \/ DeleteDoc(h, p)
               \/ \E new \in Forms(p) : SaveImages(h, p, new)
    PROVE  /\ job[h].op = "sweep" => Sweep(h)
           /\ \E j : /\ Become(h, j)
                     /\ j.op = "sweep" => j.refs = Referenced /\ UNCHANGED row
  <1>1. job[h].op = "sweep" => Sweep(h)
    BY DEF UploadImage, DownloadImage, AgentUpload, Add, CommitImages, CommitDelete, CommitDoc,
           CommitUnlink, Collect, DeleteProduct, UploadDoc, DeleteDoc, SaveImages
  <1>2. CASE Become(h, Idle)
    BY <1>1, <1>2, Resting
  <1>3. CASE Collect(h)
    <2> DEFINE j == [Idle EXCEPT !.op = "sweep", !.refs = Referenced]
    <2>1. j.refs = Referenced
      BY DEF Idle
    <2>2. Become(h, j) /\ UNCHANGED row
      BY <1>3 DEF Collect
    <2> HIDE DEF j
    <2> QED
      BY <1>1, <2>1, <2>2
  <1>4. ASSUME NEW p, NEW new, NEW op \in {"drop", "save", "upload", "unlink"}, Begin(h, op, p, new)
        PROVE  \E j : Become(h, j) /\ j.op # "sweep"
    <2> DEFINE j == [Idle EXCEPT !.op = op, !.p = p, !.new = new]
    <2>1. j.op # "sweep"
      BY DEF Idle
    <2>2. Become(h, j)
      BY <1>4 DEF Begin
    <2> HIDE DEF j
    <2> QED
      BY <2>1, <2>2
  <1> QED
    BY <1>1, <1>2, <1>3, <1>4
       DEF UploadImage, DownloadImage, AgentUpload, Add, CommitImages, CommitDelete, CommitDoc,
           CommitUnlink, Sweep, End, DeleteProduct, UploadDoc, DeleteDoc, SaveImages

(* What a quiet sweep knows stays true.                                    *)
LEMMA SweepsGoOnKnowing ==
    ASSUME StoreIInv, SweepsKnow, [StoreNext]_storeVars
    PROVE  SweepsKnow'
  <1>1. CASE UNCHANGED <<row, job>>
    BY <1>1 DEF SweepsKnow, Referenced
  <1>2. ASSUME NEW h \in Handler, NEW j, Become(h, j),
               j.op = "sweep" => j.refs = Referenced /\ UNCHANGED row
        PROVE  SweepsKnow'
    <2>1. SUFFICES ASSUME NEW g \in Handler, job'[g].op = "sweep", job'[g].quiet
                   PROVE  job'[g].refs = Referenced'
      BY DEF SweepsKnow
    <2>2. job'[g] = IF g = h THEN j ELSE [job[g] EXCEPT !.quiet = FALSE]
      BY <1>2 DEF Become
    <2>3. g = h
      BY <2>1, <2>2 DEF StoreIInv, StoreTypeOK, Job
    <2> QED
      BY <1>2, <2>1, <2>2, <2>3 DEF Referenced
  <1>3. CASE Restart
    BY <1>3, Resting DEF Restart, SweepsKnow
  <1>4. CASE Age \/ \E p \in DOMAIN row : Pin(p)
    BY <1>1, <1>4 DEF Age, Pin
  <1> QED
    BY <1>1, <1>2, <1>3, <1>4, HandlerMoves DEF StoreNext, storeVars

(* A request that swept has removed what it found old and did not know     *)
(* named.                                                                  *)
LEMMA SweepingStep ==
    ASSUME StoreAssumption, StoreIInv, SweepsKnow, [StoreNext]_storeVars
    PROVE  SweptExactly
  <1> SUFFICES ASSUME NEW h \in Handler, job[h].op = "sweep", job[h].quiet,
                      job'[h].op = "idle", disk' # disk
               PROVE  OnDisk \ OnDisk' =
                        {f \in File : disk[f] = "old" /\ \A p \in DOMAIN row :
                                        f # row[p].cover /\ f \notin row[p].images \cup row[p].docs}
    BY DEF SweptExactly
  <1>1. Sweep(h)
    <2>1. ~UNCHANGED storeVars /\ ~Restart /\ ~\E p \in DOMAIN row : Pin(p)
      BY DEF storeVars, Restart, Pin
    <2>2. ~Age
      BY DEF Age
    <2>3. ASSUME NEW g \in Handler \ {h}, NEW j, Become(g, j) PROVE FALSE
      BY <2>3 DEF Become, StoreIInv, StoreTypeOK, Job
    <2> QED
      BY <2>1, <2>2, <2>3, HandlerMoves DEF StoreNext
  <1>2. \A f \in File : disk'[f] = IF disk[f] = "old" /\ f \notin Referenced
                                  THEN "removed" ELSE disk[f]
    BY <1>1 DEF Sweep, DeleteFiles, OrphanFiles, SweepsKnow
  <1>3. OnDisk \ OnDisk' = {f \in File : disk[f] = "old" /\ f \notin Referenced}
    BY <1>2 DEF OnDisk
  <1>4. ASSUME NEW f \in File
        PROVE  f \notin Referenced <=>
                 \A p \in DOMAIN row : f # row[p].cover /\ f \notin row[p].images \cup row[p].docs
    <2>1. None \notin File
      BY DEF StoreAssumption, File
    <2>2. \A p \in DOMAIN row : f \in Cover(row[p]) <=> f = row[p].cover
      BY <2>1 DEF Cover
    <2> QED
      BY <2>2 DEF Referenced
  <1> QED
    BY <1>3, <1>4

(* A sweep that nothing disturbed removes every old file that no row names *)
(* and no other, whatever was uploaded, saved and deleted before.          *)
THEOREM LoneSweepIsExactAlways == ASSUME StoreAssumption PROVE StoreSpec => LoneSweepIsExact
  <1>1. StoreInit => StoreIInv /\ SweepsKnow
    BY InitStoreIInv, Resting DEF StoreInit, SweepsKnow
  <1>2. StoreIInv /\ SweepsKnow /\ [StoreNext]_storeVars => StoreIInv' /\ SweepsKnow'
    BY NextStoreIInv, SweepsGoOnKnowing
  <1>3. StoreIInv /\ SweepsKnow /\ [StoreNext]_storeVars => [SweptExactly]_storeVars
    BY SweepingStep
  <1> QED
    BY <1>1, <1>2, <1>3, PTL DEF StoreSpec, LoneSweepIsExact

-----------------------------------------------------------------------------
(* The references between tables.                                          *)

(* The migration lets nothing through, and from then on a deletion clears  *)
(* or takes along what referred to its rows.                               *)
LEMMA SoundStep ==
    ASSUME EnforcedIsSound, [Next]_schemaVars
    PROVE  EnforcedIsSound'
  <1> USE DEF Dangling, EnforcedIsSound
  <1>1. CASE UNCHANGED schemaVars
    BY <1>1 DEF schemaVars, Known
  <1>2. CASE Fill
    BY <1>2 DEF Fill, Known
  <1>3. CASE Converge \/ PurgeOrphans \/ \E t \in Table : LegacyDelete(t)
    BY <1>3 DEF Converge, PurgeOrphans, LegacyDelete
  <1>4. CASE Enforce
    <2> DEFINE kept == {l \in links : l[1] \in rows'}
               left == {r \in Dangling(Known(schema'), Cleaned(kept), rows') : r.rule # "none"}
    <2>1. links' = Cleaned(kept) /\ (stage' = "enforced" => left = {})
      BY <1>4 DEF Enforce
    <2>2. Known(schema)' = Known(schema')
      BY DEF Known
    <2> QED
      BY <2>1, <2>2
  <1>5. ASSUME NEW t \in Table, Delete(t) PROVE EnforcedIsSound'
    <2> DEFINE gone == Cascade(t)
               hit == {r \in Known(schema) : At(r) \in links /\ r.to \in gone /\ r.of \notin gone}
    <2>1. /\ stage = "enforced" /\ UNCHANGED schema
          /\ \A r \in hit : r.rule = "none" \/ r.rule = "SET_NULL"
          /\ rows' = rows \ gone
          /\ links' = {l \in links : l[1] \notin gone}
                      \ {At(r) : r \in {k \in hit : k.rule = "SET_NULL"}}
      BY <1>5 DEF Delete
    <2> HIDE DEF gone
    <2>2. SUFFICES ASSUME NEW r \in Known(schema), At(r) \in links', r.to \notin rows'
                   PROVE  r.rule = "none"
      BY <2>1 DEF Known
    <2>3. At(r) \in links /\ r.of \notin gone
      BY <2>1, <2>2 DEF At
    <2>4. CASE r.to \notin rows
      BY <2>1, <2>3, <2>4
    <2>5. CASE r.to \in gone
      BY <2>1, <2>2, <2>3, <2>5
    <2> QED
      BY <2>1, <2>2, <2>4, <2>5
  <1> QED
    BY <1>1, <1>2, <1>3, <1>4, <1>5 DEF Next

(* Links stay references of rows that exist.                               *)
LEMMA LinksStep ==
    ASSUME SchemaAssumption, TypeOK, [Next]_schemaVars
    PROVE  TypeOK'
  <1> DEFINE Held(ls, rs, s) == \A l \in ls : l[1] \in rs /\ \E r \in s : At(r) = l
  <1>1. CASE UNCHANGED schemaVars
    BY <1>1 DEF schemaVars, TypeOK
  <1>2. CASE Fill
    <2>1. Held(links', Table, schema)
      BY <1>2 DEF Fill, Known, At
    <2> QED
      BY <1>2, <2>1 DEF Fill, TypeOK, SchemaAssumption
  <1>3. ASSUME NEW gone, NEW ls,
               rows' = rows \ gone, links' = {l \in links : l[1] \notin gone} \ ls,
               \A r \in schema : \E s \in schema' : At(s) = At(r)
        PROVE  rows' \subseteq Table /\ Held(links', rows', schema')
    BY <1>3 DEF TypeOK
  <1>4. ASSUME NEW t \in Table, LegacyDelete(t) PROVE TypeOK'
    BY <1>4 DEF LegacyDelete, TypeOK, SchemaAssumption
  <1>5. ASSUME NEW t \in Table, Delete(t) PROVE TypeOK'
    <2>1. PICK gone, ls : /\ rows' = rows \ gone
                          /\ links' = {l \in links : l[1] \notin gone} \ ls
      BY <1>5 DEF Delete
    <2>2. UNCHANGED <<origin, stage, schema>> /\ moves' \in 0 .. MaxMoves + 1
      BY <1>5 DEF Delete, SchemaAssumption
    <2> QED
      BY <1>3, <2>1, <2>2 DEF TypeOK
  <1>6. CASE Converge
    BY <1>6 DEF Converge, Converged, TypeOK
  <1>7. CASE PurgeOrphans
    BY <1>7 DEF PurgeOrphans, Removed, TypeOK
  <1>8. CASE Enforce
    <2>1. \A r \in schema : \E s \in Patched(schema) : At(s) = At(r)
      <3> TAKE r \in schema
      <3>1. CASE r.rule = "none" /\ \E m \in MissingFKs : At(m) = At(r)
        BY <3>1 DEF Patched
      <3>2. CASE ~(r.rule = "none" /\ \E m \in MissingFKs : At(m) = At(r))
        <4> DEFINE s == IF /\ r.rule = "NO_ACTION"
                           /\ \E a \in FKActions : <<a.of, a.col>> = <<r.of, r.col>>
                        THEN [r EXCEPT !.rule = Action(r).rule,
                                       !.null = @ \/ <<r.of, r.col>> \in DropNotNull]
                        ELSE r
        <4>1. s \in Patched(schema)
          BY <3>2 DEF Patched, At
        <4>2. At(s) = At(r)
          BY DEF At
        <4> QED
          BY <4>1, <4>2
      <3> QED
        BY <3>1, <3>2
    <2>2. rows' \subseteq rows /\ schema' = Patched(schema) /\ UNCHANGED <<origin, moves>>
      BY <1>8 DEF Enforce
    <2>3. links' \subseteq {l \in links : l[1] \in rows'} /\ stage' \in {"failed", "enforced"}
      BY <1>8 DEF Enforce, Cleaned
    <2> QED
      BY <2>1, <2>2, <2>3 DEF TypeOK
  <1> QED
    BY <1>1, <1>2, <1>4, <1>5, <1>6, <1>7, <1>8 DEF Next

(* The database, its rows, their references and the stage of the migration *)
(* keep their types.                                                       *)
THEOREM SchemaTypesAlways == ASSUME SchemaAssumption PROVE Spec => []TypeOK
  <1>1. Init => TypeOK
    BY DEF Init, TypeOK, SchemaAssumption
  <1>2. TypeOK /\ [Next]_schemaVars => TypeOK'
    BY LinksStep
  <1> QED
    BY <1>1, <1>2, PTL DEF Spec

(* Whatever was deleted before, between and after the migrations: once the *)
(* keys are enforced, every reference with a foreign key has its row.      *)
THEOREM EnforcedIsSoundAlways == Spec => []EnforcedIsSound
  <1>1. Init => EnforcedIsSound
    BY DEF Init, EnforcedIsSound
  <1>2. EnforcedIsSound /\ [Next]_schemaVars => EnforcedIsSound'
    BY SoundStep
  <1> QED
    BY <1>1, <1>2, PTL DEF Spec

-----------------------------------------------------------------------------
(* What a deletion takes along.  Cascade is a recursive function: there is *)
(* one that satisfies its definition, the tables at the end of the paths   *)
(* of at most n cascading keys.                                            *)

Path(n, t, p) ==
    /\ p \in [0 .. n -> Table] /\ p[0] = t
    /\ \A i \in 1 .. n : p[i] = p[i - 1] \/ \E k \in Cascading : k.to = p[i - 1] /\ k.of = p[i]

Reached(n, t) == {u \in Table : \E p : Path(n, t, p) /\ p[n] = u}

(* A path of n keys is one of n - 1 and a last step.                       *)
LEMMA PathsGrow ==
    ASSUME NEW n \in Nat \ {0}, NEW t \in Table
    PROVE  Reached(n, t) = Grown(Reached(n - 1, t))
  <1>1. ASSUME NEW u \in Reached(n, t)
        PROVE  \E v \in Reached(n - 1, t) : u = v \/ \E k \in Cascading : k.to = v /\ k.of = u
    <2>1. PICK p : Path(n, t, p) /\ p[n] = u
      BY DEF Reached
    <2> DEFINE q == [i \in 0 .. n - 1 |-> p[i]]
    <2>2. Path(n - 1, t, q)
      <3>1. p \in [0 .. n -> Table] /\ p[0] = t
        BY <2>1 DEF Path
      <3>2. n - 1 \in Nat /\ \A i \in 0 .. n - 1 : i \in 0 .. n /\ q[i] = p[i]
        OBVIOUS
      <3> HIDE DEF q
      <3>3. q \in [0 .. n - 1 -> Table] /\ q[0] = t
        BY <3>1, <3>2 DEF q
      <3>4. ASSUME NEW i \in 1 .. n - 1
            PROVE  q[i] = q[i - 1] \/ \E k \in Cascading : k.to = q[i - 1] /\ k.of = q[i]
        <4>1. i \in 1 .. n /\ q[i] = p[i] /\ q[i - 1] = p[i - 1]
          BY <3>2
        <4>2. p[i] = p[i - 1] \/ \E k \in Cascading : k.to = p[i - 1] /\ k.of = p[i]
          BY <2>1, <4>1 DEF Path
        <4> QED
          BY <4>1, <4>2
      <3> QED
        BY <3>3, <3>4 DEF Path
    <2>3. p[n - 1] \in Table /\ q[n - 1] = p[n - 1]
      BY <2>1 DEF Path
    <2>4. p[n - 1] \in Reached(n - 1, t)
      BY <2>2, <2>3 DEF Reached
    <2>5. p[n] = p[n - 1] \/ \E k \in Cascading : k.to = p[n - 1] /\ k.of = p[n]
      BY <2>1 DEF Path
    <2> QED
      BY <2>1, <2>4, <2>5
  <1>2. ASSUME NEW v \in Reached(n - 1, t), NEW u \in Table,
               u = v \/ \E k \in Cascading : k.to = v /\ k.of = u
        PROVE  u \in Reached(n, t)
    <2>1. PICK q : Path(n - 1, t, q) /\ q[n - 1] = v
      BY DEF Reached
    <2> DEFINE p == [i \in 0 .. n |-> IF i = n THEN u ELSE q[i]]
    <2>2. p \in [0 .. n -> Table] /\ p[0] = t /\ p[n] = u /\ p[n - 1] = v
      BY <2>1 DEF Path
    <2>3. ASSUME NEW i \in 1 .. n
          PROVE  p[i] = p[i - 1] \/ \E k \in Cascading : k.to = p[i - 1] /\ k.of = p[i]
      <3>1. CASE i = n
        BY <1>2, <2>2, <3>1
      <3>2. CASE i # n
        <4>1. i \in 1 .. n - 1 /\ p[i] = q[i] /\ p[i - 1] = q[i - 1]
          BY <3>2
        <4> QED
          BY <2>1, <4>1 DEF Path
      <3> QED
        BY <3>1, <3>2
    <2> QED
      BY <2>2, <2>3 DEF Path, Reached
  <1>3. \A k \in Cascading : k.of \in Table
    BY DEF Cascading, Known
  <1>4. Reached(n - 1, t) \subseteq Table
    BY DEF Reached
  <1> QED
    BY <1>1, <1>2, <1>3, <1>4 DEF Grown

(* A deletion stays within any set of tables that no cascading key leaves. *)
LEMMA CascadeStays ==
    ASSUME SchemaAssumption, NEW S, NEW t \in Table \cap S,
           \A k \in Cascading : k.to \in S => k.of \in S
    PROVE  Cascade(t) \subseteq S
  <1> DEFINE Body(g) == [n \in Nat |-> IF n = 0 THEN {t} ELSE Grown(g[n - 1])]
             ends == [n \in Nat |-> Reached(n, t)]
             after == CHOOSE g : g = Body(g)
  <1>1. Cascade(t) = after[Cardinality(Table)]
    BY DEF Cascade
  <1>2. ASSUME NEW n \in Nat PROVE Reached(n, t) = IF n = 0 THEN {t} ELSE Grown(ends[n - 1])
    <2>1. CASE n = 0
      <3>1. \A u \in Reached(0, t) : u = t
        BY DEF Reached, Path
      <3>2. Path(0, t, [i \in 0 .. 0 |-> t])
        BY DEF Path
      <3>3. t \in Reached(0, t)
        BY <3>2 DEF Reached
      <3> QED
        BY <2>1, <3>1, <3>3
    <2>2. CASE n # 0
      BY <2>2, PathsGrow
    <2> QED
      BY <2>1, <2>2
  <1>3. ends = Body(ends)
    BY <1>2
  <1>4. after = Body(after)
    BY <1>3
  <1>5. after[0] = {t} /\ \A n \in Nat \ {0} : after[n] = Grown(after[n - 1])
    BY <1>4
  <1> HIDE DEF after
  <1> DEFINE outside == {n \in Nat : ~(after[n] \subseteq S)}
  <1>6. ASSUME outside # {} PROVE FALSE
    <2>1. PICK n \in outside : \A m \in outside : n <= m
      BY <1>6, Smallest
    <2>2. n # 0
      BY <1>5, <2>1
    <2>3. n - 1 \in Nat /\ n - 1 \notin outside
      BY <2>1, <2>2
    <2>4. after[n - 1] \subseteq S
      BY <2>3
    <2>5. after[n] \subseteq S
      BY <1>5, <2>1, <2>2, <2>4 DEF Grown
    <2> QED
      BY <2>1, <2>5
  <1>7. Cardinality(Table) \in Nat
    BY FS_CardinalityType DEF SchemaAssumption
  <1> QED
    BY <1>1, <1>6, <1>7

-----------------------------------------------------------------------------
(* Whose rows go with a user: those of the chat and no others, in every    *)
(* database the migrations pass through.                                   *)

Chats == {"users", "ai_conversations", "ai_messages"}

Modest(k) ==
    /\ k.of # "users"
    /\ k.rule = "CASCADE" /\ k.to \in Chats => k.of \in Chats
    /\ k.of \in {"product_dependencies", "solution_bom_snapshots"} => k.to \notin Chats

(* What the models and the explicit DDL declare.                           *)
LEMMA DeclaredIsModest == \A k \in Models \cup Explicit : Modest(k)
  <1> USE DEF Modest, Chats, Opt, Req, Key, CreatedBy, OfProduct
  <1>1. \A k \in CategoryModel \cup SpecDefinitionModel \cup CategoryLinks : Modest(k)
    BY DEF CategoryModel, SpecDefinitionModel, CategoryLinks
  <1>2. \A k \in DictionaryModel \cup SupplierModel : Modest(k)
    BY DEF DictionaryModel, SupplierModel, Dictionaries
  <1>3. \A k \in ProductModel \cup MappingModel \cup FileModel \cup DependencyModel : Modest(k)
    BY DEF ProductModel, MappingModel, FileModel, DependencyModel
  <1>4. \A k \in SolutionModel \cup BomModel \cup QuotationModel : Modest(k)
    BY DEF SolutionModel, BomModel, QuotationModel
  <1>5. \A k \in UNION {ConversationModel, UsageLogModel, LoginLogModel, DownloadLogModel} :
          Modest(k)
    BY DEF ConversationModel, UsageLogModel, LoginLogModel, DownloadLogModel
  <1>6. \A k \in ExplicitProducts \cup ExplicitLogs : Modest(k)
    BY DEF ExplicitProducts, ExplicitLogs
  <1>7. \A k \in {Opt("solutions", "created_by", "users", "NO_ACTION"),
                  Opt("bom_templates", "created_by", "users", "SET_NULL"),
                  Opt("quotations", "created_by", "users", "NO_ACTION"),
                  Opt("quotations", "solution_id", "solutions", "SET_NULL"),
                  Req("quotation_items", "quotation_id", "quotations", "CASCADE"),
                  Opt("quotation_items", "solution_item_id", "solution_items", "SET_NULL"),
                  Req("quotation_items", "product_id", "products", "RESTRICT")} : Modest(k)
    OBVIOUS
  <1> QED
    BY <1>1, <1>2, <1>3, <1>4, <1>5, <1>6, <1>7
       DEF Models, Explicit, ExplicitMappings, ExplicitSolutions

(* The actions that the last migration gives.                              *)
LEMMA GivenIsModest ==
    /\ \A a \in FKActions : a.rule = "CASCADE" =>
          a.of \in {"product_dependencies", "solution_bom_snapshots", "ai_conversations"}
    /\ \A k \in MissingFKs : Modest(k)
  <1> USE DEF Opt, Req, Key, CreatedBy, OfProduct
  <1>1. \A a \in CreatedBy(Owned) \cup UsageLogModel \cup LoginLogModel \cup DownloadLogModel :
           a.rule # "CASCADE"
    BY DEF UsageLogModel, LoginLogModel, DownloadLogModel
  <1>2. \A a \in DependencyModel : a.of = "product_dependencies"
    BY DEF DependencyModel
  <1>3. \A a \in UNION {CategoryModel, ProductModel, ConversationModel, SolutionModel, BomModel} :
           <<a.of, a.col>> \in
             {<<"products", "category_id">>, <<"products", "manufacturer_id">>,
              <<"products", "supplier_id">>, <<"products", "parent_id">>,
              <<"device_categories", "parent_id">>, <<"ai_conversations", "user_id">>,
              <<"solution_items", "product_id">>, <<"solution_bom_snapshots", "template_id">>}
           /\ a.rule = "CASCADE"
           => a.of \in {"product_dependencies", "solution_bom_snapshots", "ai_conversations"}
    BY DEF CategoryModel, ProductModel, ConversationModel, SolutionModel, BomModel
  <1>4. \A k \in MissingFKs : Modest(k)
    BY DEF MissingFKs, DownloadLogModel, DependencyModel, Modest, Chats
  <1> QED
    BY <1>1, <1>2, <1>3, <1>4 DEF FKActions

SchemaIsModest == \A k \in schema : Modest(k)

(* A database that starts so stays so: a migration changes the action of a *)
(* key or its nullability, never what it refers to.                        *)
LEMMA ModestInit == Init => SchemaIsModest
  <1>1. \A k \in Live : Modest(k)
    <2>1. ASSUME NEW r \in Models
          PROVE  Modest([r EXCEPT !.rule = "NO_ACTION",
                                  !.null = @ /\ <<r.of, r.col>> \notin DropNotNull])
      BY DeclaredIsModest DEF Modest
    <2>2. ASSUME NEW r \in MissingFKs PROVE Modest([r EXCEPT !.rule = "none"])
      BY GivenIsModest DEF Modest
    <2> QED
      BY <2>1, <2>2, DeclaredIsModest DEF Live
  <1> QED
    BY <1>1, DeclaredIsModest DEF Init, SchemaIsModest

(* Every migration keeps the keys modest.                                  *)
LEMMA ModestStep == SchemaIsModest /\ [Next]_schemaVars => SchemaIsModest'
  <1> SUFFICES ASSUME SchemaIsModest, [Next]_schemaVars PROVE SchemaIsModest'
    OBVIOUS
  <1>1. CASE Converge
    <2>1. \A k \in AddedOwners \cup CategoryLinks : Modest(k)
      <3>1. \A k \in CategoryLinks : Modest(k)
        BY DeclaredIsModest DEF Models
      <3>2. \A k \in AddedOwners : Modest(k)
        BY DEF AddedOwners, CreatedBy, Opt, Key, Dictionaries, Modest, Chats
      <3> QED
        BY <3>1, <3>2
    <2> QED
      BY <1>1, <2>1 DEF Converge, Converged, SchemaIsModest
  <1>2. CASE Enforce
    <2>1. ASSUME NEW r \in schema, \E a \in FKActions : <<a.of, a.col>> = <<r.of, r.col>>
          PROVE  Modest([r EXCEPT !.rule = Action(r).rule,
                                  !.null = @ \/ <<r.of, r.col>> \in DropNotNull])
      <3>1. Action(r) \in FKActions /\ Action(r).of = r.of
        BY <2>1 DEF Action
      <3> DEFINE a == Action(r)
      <3>2. a.rule = "CASCADE" =>
              r.of \in {"product_dependencies", "solution_bom_snapshots", "ai_conversations"}
        BY <3>1, GivenIsModest
      <3> QED
        BY <3>2 DEF SchemaIsModest, Modest, Chats
    <2> QED
      BY <1>2, <2>1, GivenIsModest DEF Enforce, Patched, SchemaIsModest
  <1>3. CASE UNCHANGED schema
    BY <1>3 DEF SchemaIsModest
  <1> QED
    BY <1>1, <1>2, <1>3 DEF Next, schemaVars, Fill, PurgeOrphans, LegacyDelete, Delete

(* None of what the clean-up deletes is a log or a document of a user.     *)
LEMMA CleanUpSpares == \A k : At(k) \in Deletes => k.of \notin UserData
  <1> USE DEF Opt, Req, Key, OfProduct
  <1>1. \A k \in MappingModel \cup FileModel \cup DependencyModel \cup SpecDefinitionModel
                 \cup CategoryLinks : k.of \notin UserData
    BY DEF MappingModel, FileModel, DependencyModel, SpecDefinitionModel, CategoryLinks, UserData
  <1>2. \A l \in Purged \cup {<<"ai_messages", "conversation_id">>} : l[1] \notin UserData
    BY DEF Purged, UserData
  <1>3. \A l \in Deletes : l[1] \notin UserData
    BY <1>1, <1>2 DEF Deletes
  <1> QED
    BY <1>3 DEF At

(* Neither the last migration nor the deletion of a user takes a log or a  *)
(* document away: the keys that cascade lead from a user to the chats and  *)
(* no further.                                                             *)
LEMMA SparingStep ==
    ASSUME SchemaAssumption, SchemaIsModest, [Next]_schemaVars
    PROVE  DataIsSpared
  <1> SUFFICES ASSUME stage' = "enforced", stage # "enforced" \/ "users" \in rows \ rows'
               PROVE  rows \cap UserData \subseteq rows'
    BY DEF DataIsSpared
  <1>1. CASE UNCHANGED rows
    BY <1>1
  <1>2. CASE Fill
    BY <1>2 DEF Fill
  <1>3. CASE Enforce
    BY <1>3, CleanUpSpares DEF Enforce, Orphans, Dangling
  <1>4. ASSUME NEW t \in Table, Delete(t) PROVE rows \cap UserData \subseteq rows'
    <2>1. stage = "enforced" /\ t \in rows /\ rows' = rows \ Cascade(t)
      BY <1>4 DEF Delete
    <2>2. \A k \in Cascading : k \in schema /\ k.rule = "CASCADE"
      BY DEF Cascading, Known
    <2>3. t = "users"
      <3>1. "users" \in Cascade(t)
        BY <2>1
      <3>2. ASSUME t # "users" PROVE FALSE
        <4>1. Cascade(t) \subseteq Table \ {"users"}
          <5>1. \A k \in Cascading : k.of \in Table \ {"users"}
            BY <2>2 DEF Cascading, Known, SchemaIsModest, Modest
          <5> QED
            BY <3>2, <5>1, CascadeStays
        <4> QED
          BY <3>1, <4>1
      <3> QED
        BY <3>2
    <2>4. Cascade(t) \subseteq Chats
      <3>1. \A k \in Cascading : k.to \in Chats => k.of \in Chats
        BY <2>2 DEF SchemaIsModest, Modest
      <3> QED
        BY <2>3, <3>1, CascadeStays DEF Chats
    <2> QED
      BY <2>1, <2>4 DEF Chats, UserData
  <1>5. CASE PurgeOrphans \/ \E t \in Table : LegacyDelete(t)
    BY <1>5 DEF PurgeOrphans, LegacyDelete
  <1> QED
    BY <1>1, <1>2, <1>3, <1>4, <1>5 DEF Next, schemaVars, Converge

(* Logs and documents outlive the user they refer to, whichever database   *)
(* the migrations started from.                                            *)
THEOREM AuditSurvivesAlways == ASSUME SchemaAssumption PROVE Spec => AuditSurvives
  <1>1. Init => SchemaIsModest
    BY ModestInit
  <1>2. SchemaIsModest /\ [Next]_schemaVars => SchemaIsModest'
    BY ModestStep
  <1>3. SchemaIsModest /\ [Next]_schemaVars => [DataIsSpared]_schemaVars
    BY SparingStep
  <1> QED
    BY <1>1, <1>2, <1>3, PTL DEF Spec, AuditSurvives

-----------------------------------------------------------------------------
(* The messages of conversations.  What is replayed, first.                *)

(* The replay is a fold over the messages of a window: g[s] is what is left *)
(* of the messages s.                                                      *)
Start == [out |-> <<>>, open |-> {}, at |-> 0]
Taken(w, g, s) == IF s = {} THEN Start ELSE Absorb(g[s \ {Max(s)}], w[Max(s)])

(* There is such a function: a smallest window that had none would be one  *)
(* message longer than one that has.                                       *)
LEMMA FoldExists ==
    ASSUME NEW w, NEW n \in Nat
    PROVE  \E g : g = [s \in SUBSET (1 .. n) |-> Taken(w, g, s)]
  <1> DEFINE Has == {k \in Nat : \E g : g = [s \in SUBSET (1 .. k) |-> Taken(w, g, s)]}
  <1>1. 0 \in Has
    <2>1. SUBSET (1 .. 0) = {{}}
      OBVIOUS
    <2> DEFINE g == [s \in SUBSET (1 .. 0) |-> Start]
    <2>2. g = [s \in SUBSET (1 .. 0) |-> Taken(w, g, s)]
      BY <2>1 DEF Taken
    <2> QED
      BY <2>2
  <1>2. ASSUME NEW k \in 1 .. n, k - 1 \in Has PROVE k \in Has
    <2>1. PICK g : g = [s \in SUBSET (1 .. k - 1) |-> Taken(w, g, s)]
      BY <1>2
    <2> DEFINE more == [s \in SUBSET (1 .. k) |->
                          IF k \in s THEN Absorb(g[s \ {k}], w[k]) ELSE g[s]]
    <2>2. ASSUME NEW s \in SUBSET (1 .. k) PROVE more[s] = Taken(w, more, s)
      <3>1. CASE k \in s
        <4>1. Max(s) = k
          BY <3>1, LastIsMax
        <4>2. s \ {k} \in SUBSET (1 .. k) /\ k \notin s \ {k} /\ s # {}
          BY <3>1
        <4>3. more[s \ {k}] = g[s \ {k}] /\ more[s] = Absorb(g[s \ {k}], w[k])
          BY <3>1, <4>2
        <4> QED
          BY <4>1, <4>2, <4>3 DEF Taken
      <3>2. CASE k \notin s /\ s # {}
        <4>1. s \in SUBSET (1 .. k - 1) /\ s \in SUBSET (0 .. k)
          BY <3>2
        <4>2. Max(s) \in s
          <5>1. k \in Nat /\ s # {}
            BY <3>2
          <5> QED
            BY <4>1, <5>1, GreatestOf, Zenon
        <4>3. s \ {Max(s)} \in SUBSET (1 .. k - 1) /\ s \ {Max(s)} \in SUBSET (1 .. k)
          BY <4>1
        <4>4. k \notin s \ {Max(s)}
          BY <3>2
        <4>5. more[s \ {Max(s)}] = g[s \ {Max(s)}] /\ more[s] = g[s]
          BY <3>2, <4>3, <4>4
        <4>6. g[s] = Taken(w, g, s)
          BY <2>1, <4>1
        <4> QED
          BY <3>2, <4>5, <4>6 DEF Taken
      <3>3. CASE s = {}
        <4>1. more[s] = g[s]
          BY <3>3
        <4>2. g[s] = Taken(w, g, s)
          BY <2>1, <3>3
        <4> QED
          BY <3>3, <4>1, <4>2 DEF Taken
      <3> QED
        BY <3>1, <3>2, <3>3
    <2>3. more = [s \in SUBSET (1 .. k) |-> Taken(w, more, s)]
      BY <2>2
    <2> HIDE DEF more
    <2>4. k \in Nat
      OBVIOUS
    <2> QED
      BY <2>3, <2>4
  <1> HIDE DEF Has
  <1>3. \A k \in 0 .. n : k \in Has
    BY <1>1, <1>2, UpTo
  <1>4. n \in Has
    BY <1>3
  <1> QED
    BY <1>4 DEF Has

(* What is left after each message.                                        *)
Steps(w, f) == f[0] = Start /\ \A k \in 1 .. Len(w) : f[k] = Absorb(f[k - 1], w[k])

(* The fold takes the messages in their order.                             *)
LEMMA FoldSteps ==
    ASSUME NEW w \in Seq(ChatRow)
    PROVE  \E f : Steps(w, f) /\ FoldLeft(Absorb, Start, w) = f[Len(w)]
  <1> DEFINE n == Len(w)
             Body(g) == [s \in SUBSET (1 .. n) |->
                           IF s = {} THEN Start ELSE Absorb(g[s \ {Max(s)}], w[Max(s)])]
             iter == CHOOSE g : g = Body(g)
             f == [k \in 0 .. n |-> iter[1 .. k]]
  <1>1. n \in Nat /\ DOMAIN w = 1 .. n
    BY LenProperties
  <1>2. FoldLeft(Absorb, Start, w) = iter[1 .. n]
    BY <1>1 DEF FoldLeft, MapThenFoldSet
  <1>3. \A g : Body(g) = [s \in SUBSET (1 .. n) |-> Taken(w, g, s)]
    BY DEF Taken
  <1> HIDE DEF Body
  <1>4. \E g : g = Body(g)
    <2>1. PICK g : g = [s \in SUBSET (1 .. n) |-> Taken(w, g, s)]
      BY <1>1, FoldExists
    <2>2. g = Body(g)
      BY <1>3, <2>1
    <2> QED
      BY <2>2
  <1>5. iter = [s \in SUBSET (1 .. n) |-> Taken(w, iter, s)]
    BY <1>3, <1>4
  <1> HIDE DEF iter, n
  <1>6. f[0] = Start
    <2>1. 1 .. 0 = {}
      OBVIOUS
    <2> QED
      BY <1>1, <1>5, <2>1 DEF Taken
  <1>7. ASSUME NEW k \in 1 .. n PROVE f[k] = Absorb(f[k - 1], w[k])
    <2>1. 1 .. k \in SUBSET (1 .. n) /\ k \in 1 .. k /\ k \in Nat
      BY <1>1
    <2>2. Max(1 .. k) = k
      BY <2>1, LastIsMax
    <2>3. (1 .. k) \ {k} = 1 .. k - 1
      BY <1>1
    <2>4. iter[1 .. k] = Absorb(iter[1 .. k - 1], w[k])
      BY <1>5, <2>1, <2>2, <2>3 DEF Taken
    <2> QED
      BY <1>1, <2>4
  <1>8. f[n] = iter[1 .. n]
    BY <1>1
  <1> QED
    BY <1>2, <1>6, <1>7, <1>8 DEF Steps, n

-----------------------------------------------------------------------------
(* What is left, and where its last message with calls stands.             *)
Acc == {a \in [out : Seq(ChatRow), open : SUBSET Call, at : Nat] : a.at <= Len(a.out)}

(* The parts of a message and of what is left.                             *)
LEMMA RowParts ==
    ASSUME NEW m \in ChatRow
    PROVE  /\ m.turn \in Turn /\ m.role \in {"user", "assistant", "tool"}
           /\ m.calls \in SUBSET Call /\ m.call \in Call \cup {Nothing}
  BY DEF ChatRow

LEMMA AccParts ==
    ASSUME NEW a
    PROVE  /\ a \in Acc => /\ a.out \in Seq(ChatRow) /\ a.open \in SUBSET Call /\ a.at \in Nat
                          /\ a.at <= Len(a.out)
                          /\ a = [out |-> a.out, open |-> a.open, at |-> a.at]
           /\ \A out \in Seq(ChatRow), open \in SUBSET Call, at \in Nat :
                at <= Len(out) => [out |-> out, open |-> open, at |-> at] \in Acc
  BY DEF Acc

(* A part of a sequence, and a sequence without one of its messages.       *)
LEMMA FirstOf ==
    ASSUME NEW s \in Seq(ChatRow), NEW n \in 0 .. Len(s)
    PROVE  /\ SubSeq(s, 1, n) \in Seq(ChatRow) /\ Len(SubSeq(s, 1, n)) = n
           /\ \A i \in 1 .. n : SubSeq(s, 1, n)[i] = s[i]
  <1>1. Len(s) \in Nat /\ \A i \in 1 .. n : s[i] \in ChatRow
    BY LenProperties
  <1>2. 1 \in Int /\ n \in Int
    BY <1>1
  <1>3. /\ SubSeq(s, 1, n) \in Seq(ChatRow)
        /\ Len(SubSeq(s, 1, n)) = IF 1 <= n THEN n - 1 + 1 ELSE 0
        /\ \A i \in 1 .. n - 1 + 1 : SubSeq(s, 1, n)[i] = s[1 + i - 1]
    BY <1>1, <1>2, SubSeqProperties
  <1> QED
    BY <1>1, <1>3

LEMMA RemovedIsSeq ==
    ASSUME NEW s \in Seq(ChatRow), NEW i \in 0 .. Len(s)
    PROVE  /\ RemoveAt(s, i) \in Seq(ChatRow)
           /\ i # 0 /\ i = Len(s) => RemoveAt(s, i) = SubSeq(s, 1, i - 1)
  <1> DEFINE l == SubSeq(s, 1, i - 1)
             r == SubSeq(s, i + 1, Len(s))
  <1>1. Len(s) \in Nat /\ \A k \in 1 .. Len(s) : s[k] \in ChatRow
    BY LenProperties
  <1>2. l \in Seq(ChatRow)
    <2>1. 1 \in Int /\ i - 1 \in Int /\ \A k \in 1 .. i - 1 : s[k] \in ChatRow
      BY <1>1
    <2> QED
      BY <2>1, SubSeqProperties
  <1>3. r \in Seq(ChatRow) /\ (i = Len(s) => r = <<>>)
    <2>1. i + 1 \in Int /\ Len(s) \in Int /\ \A k \in i + 1 .. Len(s) : s[k] \in ChatRow
      BY <1>1
    <2>2. i = Len(s) => Len(s) < i + 1
      BY <1>1
    <2> QED
      BY <2>1, <2>2, SubSeqProperties, SubSeqEmpty
  <1>4. RemoveAt(s, i) = l \o r
    BY DEF RemoveAt
  <1> HIDE DEF l, r
  <1>5. l \o r \in Seq(ChatRow) /\ l \o <<>> = l
    BY <1>2, <1>3, ConcatProperties, ConcatEmptySeq
  <1> QED
    BY <1>3, <1>4, <1>5 DEF l

(* Nothing is open when an unanswered message is dropped.                  *)
LEMMA DropTypes ==
    ASSUME NEW a \in Acc
    PROVE  DropOpen(a) \in Acc /\ DropOpen(a).open = {}
  <1>1. CASE a.open = {}
    BY <1>1 DEF DropOpen
  <1>2. CASE a.open # {}
    <2>1. RemoveAt(a.out, a.at) \in Seq(ChatRow)
      <3>1. a.at \in 0 .. Len(a.out) /\ a.out \in Seq(ChatRow)
        BY AccParts, LenProperties
      <3> QED
        BY <3>1, RemovedIsSeq
    <2>2. DropOpen(a) = [out |-> RemoveAt(a.out, a.at), open |-> {}, at |-> 0]
      BY <1>2 DEF DropOpen
    <2>3. 0 <= Len(RemoveAt(a.out, a.at))
      BY <2>1, LenProperties
    <2>4. {} \in SUBSET Call /\ 0 \in Nat
      OBVIOUS
    <2>5. [out |-> RemoveAt(a.out, a.at), open |-> {}, at |-> 0] \in Acc
      BY <2>1, <2>3, <2>4, AccParts
    <2> QED
      BY <2>2, <2>5
  <1> QED
    BY <1>1, <1>2

(* A message that is not an answer drops the open one and comes after.     *)
LEMMA AbsorbOther ==
    ASSUME NEW a \in Acc, NEW m \in ChatRow, m.role # "tool"
    PROVE  /\ Absorb(a, m) = [out |-> Append(DropOpen(a).out, m), open |-> m.calls,
                              at |-> Len(DropOpen(a).out) + 1]
           /\ Absorb(a, m) \in Acc
  <1>1. DropOpen(a).out \in Seq(ChatRow)
    BY DropTypes, AccParts
  <1> DEFINE out == Append(DropOpen(a).out, m)
  <1>2. /\ Absorb(a, m) = [out |-> out, open |-> m.calls, at |-> Len(DropOpen(a).out) + 1]
    BY DEF Absorb
  <1>3. out \in Seq(ChatRow) /\ Len(out) = Len(DropOpen(a).out) + 1
    BY <1>1, AppendProperties
  <1>4. Len(out) \in Nat /\ Len(out) <= Len(out) /\ m.calls \in SUBSET Call
    BY <1>3, LenProperties, RowParts
  <1> HIDE DEF out
  <1>5. [out |-> out, open |-> m.calls, at |-> Len(out)] \in Acc
    BY <1>3, <1>4, AccParts
  <1> QED
    BY <1>2, <1>3, <1>5 DEF out

(* An answer comes after the others, or is left out.                       *)
LEMMA AbsorbAnswer ==
    ASSUME NEW a \in Acc, NEW m \in ChatRow, m.role = "tool"
    PROVE  /\ m.call \in a.open => Absorb(a, m) = [out |-> Append(a.out, m),
                                        open |-> a.open \ {m.call}, at |-> a.at]
           /\ m.call \notin a.open => Absorb(a, m) = a
           /\ Absorb(a, m) \in Acc
  <1>1. CASE m.call \notin a.open
    BY <1>1 DEF Absorb
  <1>2. CASE m.call \in a.open
    <2>1. /\ a.out \in Seq(ChatRow) /\ a.open \in SUBSET Call /\ a.at \in Nat
          /\ a.at <= Len(a.out)
          /\ a = [out |-> a.out, open |-> a.open, at |-> a.at]
      BY AccParts
    <2>2. Absorb(a, m) = [a EXCEPT !.open = @ \ {m.call}, !.out = Append(@, m)]
      BY <1>2 DEF Absorb
    <2>3. Absorb(a, m) = [out |-> Append(a.out, m), open |-> a.open \ {m.call}, at |-> a.at]
      BY <2>1, <2>2
    <2>4. Append(a.out, m) \in Seq(ChatRow) /\ Len(Append(a.out, m)) = Len(a.out) + 1
      BY <2>1, AppendProperties
    <2>5. a.at <= Len(Append(a.out, m)) /\ a.open \ {m.call} \in SUBSET Call
      BY <2>1, <2>4, LenProperties
    <2>6. [out |-> Append(a.out, m), open |-> a.open \ {m.call}, at |-> a.at] \in Acc
      BY <2>1, <2>4, <2>5, AccParts
    <2> QED
      BY <1>2, <2>3, <2>6
  <1> QED
    BY <1>1, <1>2

(* So messages are what is left of messages.                               *)
LEMMA StepTypes ==
    ASSUME NEW w \in Seq(ChatRow), NEW f, Steps(w, f)
    PROVE  \A k \in 0 .. Len(w) : f[k] \in Acc
  <1>1. Start \in Acc
    <2>1. <<>> \in Seq(ChatRow) /\ Len(<<>>) = 0 /\ {} \in SUBSET Call /\ 0 \in Nat
      BY EmptySeq
    <2>2. PICK empty : empty = <<>>
      OBVIOUS
    <2>3. empty \in Seq(ChatRow) /\ 0 <= Len(empty)
      BY <2>1, <2>2
    <2>4. [out |-> empty, open |-> {}, at |-> 0] \in Acc
      BY <2>1, <2>3, AccParts
    <2> QED
      BY <2>2, <2>4 DEF Start
  <1> DEFINE S == {k \in 0 .. Len(w) : f[k] \in Acc}
  <1>2. Len(w) \in Nat /\ 0 \in S
    BY <1>1, LenProperties DEF Steps
  <1>3. ASSUME NEW k \in 1 .. Len(w), k - 1 \in S PROVE k \in S
    <2>1. w[k] \in ChatRow /\ f[k - 1] \in Acc /\ f[k] = Absorb(f[k - 1], w[k])
      BY <1>3, ElementOfSeq DEF Steps
    <2>2. f[k] \in Acc
      BY <2>1, AbsorbOther, AbsorbAnswer, RowParts
    <2> QED
      BY <1>2, <2>2
  <1>4. \A k \in 0 .. Len(w) : k \in S
    BY <1>2, <1>3, UpTo
  <1> QED
    BY <1>4

-----------------------------------------------------------------------------
(* The answers that directly follow message i, and whether it and the call *)
(* it answers are in order.                                                *)
Trail(h, i) == {k \in i + 1 .. Len(h) : \A l \in i + 1 .. k : h[l].role = "tool"}
Fit(h, i) ==
    /\ h[i].role = "tool" => \E j \in 1 .. i - 1 : i \in Trail(h, j) /\ h[i].call \in h[j].calls
    /\ h[i].calls \subseteq {h[k].call : k \in Trail(h, i)}
Sound(h) == \A i \in 1 .. Len(h) : Fit(h, i)

(* In a log an answer makes no calls and follows a message of its turn; a  *)
(* window may start with one.                                              *)
Follows(s) == \A i \in DOMAIN s :
    s[i].role = "tool" => s[i].calls = {} /\ (i # 1 => s[i - 1].turn = s[i].turn)

(* The calls answered by messages i to k.                                  *)
Answered(w, i, k) == {w[j].call : j \in i .. k}

(* After k messages of a window, q is the last that is not an answer: what *)
(* comes before it is sound, the answers to it that are left are those to  *)
(* its calls, and the other calls are open.                                *)
LastIs(w, k, a, q) ==
    /\ q \in 1 .. k /\ w[q].role # "tool"
    /\ \A j \in q + 1 .. k : w[j].role = "tool" /\ w[j].turn = w[q].turn
    /\ a.at \in 1 .. Len(a.out) /\ a.out[a.at] = w[q]
    /\ \A i \in a.at + 1 .. Len(a.out) : a.out[i].role = "tool" /\ a.out[i].calls = {}
    /\ a.open = w[q].calls \ Answered(w, q + 1, k)
    /\ w[q].calls \ a.open = Answered(a.out, a.at + 1, Len(a.out))
    /\ Sound(SubSeq(a.out, 1, a.at - 1))
Reads(w, k, a) == a = Start \/ \E q \in 1 .. k : LastIs(w, k, a, q)

(* A message that ends the answers to q, or the end of the window.         *)
AnswersEnd(w, k) == k = Len(w) \/ w[k + 1].role # "tool"

(* In a window without a message that is answered in part, whose answers   *)
(* end, all calls of the last one are open or none.                        *)
LEMMA WholeOrOpen ==
    ASSUME NEW w \in Seq(ChatRow), ~PartlyAnswered(w), NEW k \in 1 .. Len(w), AnswersEnd(w, k),
           NEW a \in Acc, NEW q, LastIs(w, k, a, q)
    PROVE  a.open \in {{}, w[q].calls}
  <1> DEFINE D == {j \in DOMAIN w : j > q /\ w[j].role = "tool" /\ w[j].turn = w[q].turn
                                    /\ \A l \in q + 1 .. j : w[l].role = "tool"}
  <1>1. Len(w) \in Nat /\ DOMAIN w = 1 .. Len(w) /\ q \in 1 .. k /\ q \in DOMAIN w
    BY LenProperties DEF LastIs
  <1>2. D = q + 1 .. k
    <2>1. ASSUME NEW j \in q + 1 .. k PROVE j \in D
      BY <1>1 DEF LastIs
    <2>2. ASSUME NEW j \in D PROVE j \in q + 1 .. k
      <3>1. CASE j > k
        <4>1. j \in 1 .. Len(w) /\ \A l \in q + 1 .. j : w[l].role = "tool"
          BY <1>1
        <4> HIDE DEF D
        <4>2. k # Len(w) /\ k + 1 \in q + 1 .. j
          <5>1. j \in Nat /\ k \in Nat /\ Len(w) \in Nat /\ q \in Nat /\ q <= k /\ k < j /\ j <= Len(w)
            BY <1>1, <3>1, <4>1
          <5> QED
            BY <5>1
        <4> QED
          BY <4>1, <4>2 DEF AnswersEnd
      <3> QED
        BY <1>1, <3>1
    <2> QED
      BY <2>1, <2>2
  <1> DEFINE answered == {w[j].call : j \in D}
  <1>3. answered \cap w[q].calls \in {{}, w[q].calls}
    BY <1>1 DEF PartlyAnswered
  <1>4. answered = Answered(w, q + 1, k)
    BY <1>2 DEF Answered
  <1> HIDE DEF answered
  <1>5. a.open = w[q].calls \ answered
    BY <1>4 DEF LastIs
  <1> QED
    BY <1>3, <1>5

(* What is left when the open message is dropped is sound.                 *)
LEMMA DropIsSound ==
    ASSUME NEW w \in Seq(ChatRow), ~PartlyAnswered(w), NEW k \in 0 .. Len(w), AnswersEnd(w, k),
           NEW a \in Acc, Reads(w, k, a)
    PROVE  Sound(DropOpen(a).out)
  <1>1. CASE a = Start
    <2>1. DropOpen(a).out = <<>>
      BY <1>1 DEF DropOpen, Start
    <2> QED
      BY <2>1 DEF Sound
  <1>2. CASE \E q \in 1 .. k : LastIs(w, k, a, q)
    <2>1. PICK q \in 1 .. k : LastIs(w, k, a, q)
      BY <1>2
    <2>2. k \in 1 .. Len(w) /\ Len(w) \in Nat
      BY LenProperties
    <2>3. a.open \in {{}, w[q].calls}
      BY <2>1, <2>2, WholeOrOpen
    <2> DEFINE n == Len(a.out)
               first == SubSeq(a.out, 1, a.at - 1)
    <2>4. a.out \in Seq(ChatRow) /\ n \in Nat /\ a.at \in 1 .. n /\ Sound(first)
      BY <2>1, AccParts, LenProperties DEF LastIs
    <2>5. CASE a.open # {}
      <3>1. Answered(a.out, a.at + 1, n) = {}
        BY <2>1, <2>3, <2>5 DEF LastIs
      <3>2. a.at = n
        <4>1. CASE a.at + 1 \in a.at + 1 .. n
          BY <3>1, <4>1 DEF Answered
        <4> QED
          BY <2>4, <4>1
      <3>3. DropOpen(a).out = RemoveAt(a.out, a.at)
        BY <2>5 DEF DropOpen
      <3>4. a.at \in 0 .. n /\ a.at # 0
        BY <2>4
      <3> QED
        BY <2>4, <3>2, <3>3, <3>4, RemovedIsSeq
    <2>6. CASE a.open = {}
      <3>1. DropOpen(a).out = a.out
        BY <2>6 DEF DropOpen
      <3>2. Len(first) = a.at - 1 /\ \A i \in 1 .. a.at - 1 : first[i] = a.out[i]
        <4>1. a.at - 1 \in 0 .. n
          BY <2>4
        <4> QED
          BY <2>4, <4>1, FirstOf
      <3> HIDE DEF first
      <3>3. ASSUME NEW i \in 1 .. a.at - 1 PROVE Fit(a.out, i)
        <4>1. Fit(first, i) /\ i \in 1 .. n
          BY <2>4, <3>2 DEF Sound
        <4>2. ASSUME NEW j \in 1 .. i, NEW l \in Trail(first, j) 
              PROVE  l \in Trail(a.out, j) /\ first[l] = a.out[l]
          <5>1. l \in j + 1 .. a.at - 1 /\ \A x \in j + 1 .. l : first[x].role = "tool"
            BY <3>2 DEF Trail
          <5>2. \A x \in j + 1 .. l : x \in 1 .. a.at - 1
            BY <2>4, <5>1
          <5>3. \A x \in j + 1 .. l : a.out[x].role = "tool"
            BY <3>2, <5>1, <5>2
          <5>4. l \in j + 1 .. n /\ l \in 1 .. a.at - 1
            BY <2>4, <5>1
          <5> QED
            BY <3>2, <5>3, <5>4 DEF Trail
        <4>3. i \in 1 .. i /\ first[i] = a.out[i]
          BY <3>2
        <4>4. ASSUME a.out[i].role = "tool"
              PROVE  \E j \in 1 .. i - 1 : i \in Trail(a.out, j) /\ a.out[i].call \in a.out[j].calls
          <5>1. PICK j \in 1 .. i - 1 : i \in Trail(first, j) /\ first[i].call \in first[j].calls
            BY <4>1, <4>3, <4>4 DEF Fit
          <5>2. j \in 1 .. i /\ first[j] = a.out[j]
            BY <3>2
          <5> QED
            BY <4>2, <4>3, <5>1, <5>2
        <4>5. a.out[i].calls \subseteq {a.out[l].call : l \in Trail(a.out, i)}
          BY <4>1, <4>2, <4>3 DEF Fit
        <4> QED
          BY <4>4, <4>5 DEF Fit
      <3>4. Fit(a.out, a.at)
        <4>1. a.out[a.at] = w[q] /\ w[q].role # "tool"
          BY <2>1 DEF LastIs
        <4>2. w[q].calls = Answered(a.out, a.at + 1, n)
          BY <2>1, <2>6 DEF LastIs
        <4>3. a.at + 1 .. n \subseteq Trail(a.out, a.at)
          BY <2>1, <2>4 DEF LastIs, Trail
        <4> QED
          BY <4>1, <4>2, <4>3 DEF Fit, Answered
      <3>5. ASSUME NEW i \in a.at + 1 .. n PROVE Fit(a.out, i)
        <4>1. i \in Trail(a.out, a.at) /\ a.at \in 1 .. i - 1
          BY <2>1, <2>4 DEF LastIs, Trail
        <4>2. a.out[i].call \in a.out[a.at].calls /\ a.out[i].calls = {}
          BY <2>1 DEF LastIs, Answered
        <4> QED
          BY <4>1, <4>2 DEF Fit
      <3>6. Sound(a.out)
        <4>1. \A i \in 1 .. n : i \in 1 .. a.at - 1 \/ i = a.at \/ i \in a.at + 1 .. n
          BY <2>4
        <4> QED
          BY <3>3, <3>4, <3>5, <4>1 DEF Sound
      <3> QED
        BY <3>1, <3>6
    <2> QED
      BY <2>5, <2>6
  <1> QED
    BY <1>1, <1>2 DEF Reads

(* A message that is not an answer: what came before is sound.             *)
LEMMA ReadsOther ==
    ASSUME NEW w \in Seq(ChatRow), ~PartlyAnswered(w), NEW k \in 1 .. Len(w),
           w[k].role # "tool", NEW a \in Acc, Reads(w, k - 1, a)
    PROVE  Reads(w, k, Absorb(a, w[k]))
  <1> DEFINE out == DropOpen(a).out
             b == Absorb(a, w[k])
  <1>1. Len(w) \in Nat /\ w[k] \in ChatRow /\ k - 1 \in 0 .. Len(w) /\ k - 1 + 1 = k
    BY LenProperties, ElementOfSeq
  <1>2. Sound(out) /\ out \in Seq(ChatRow)
    BY <1>1, DropIsSound, DropTypes, AccParts DEF AnswersEnd
  <1>3. b = [out |-> Append(out, w[k]), open |-> w[k].calls, at |-> Len(out) + 1]
    BY <1>1, AbsorbOther
  <1> HIDE DEF out
  <1>4. /\ Append(out, w[k]) \in Seq(ChatRow) /\ Len(Append(out, w[k])) = Len(out) + 1
        /\ \A i \in 1 .. Len(out) : Append(out, w[k])[i] = out[i]
        /\ Append(out, w[k])[Len(out) + 1] = w[k] /\ Len(out) \in Nat
    BY <1>1, <1>2, AppendProperties, LenProperties
  <1> DEFINE more == Append(out, w[k])
  <1>5. SubSeq(more, 1, Len(out)) = out
    <2>1. Len(out) \in 0 .. Len(more)
      BY <1>4
    <2> HIDE DEF more
    <2>2. /\ SubSeq(more, 1, Len(out)) \in Seq(ChatRow)
          /\ Len(SubSeq(more, 1, Len(out))) = Len(out)
          /\ \A i \in 1 .. Len(out) : SubSeq(more, 1, Len(out))[i] = more[i]
      BY <1>4, <2>1, FirstOf DEF more
    <2>3. \A i \in 1 .. Len(SubSeq(more, 1, Len(out))) : SubSeq(more, 1, Len(out))[i] = out[i]
      BY <1>4, <2>2 DEF more
    <2> QED
      BY <1>2, <2>2, <2>3, SeqEqual
  <1>6. b.out = more /\ b.open = w[k].calls /\ b.at = Len(out) + 1
    BY <1>3
  <1>7. Answered(w, k + 1, k) = {} /\ Answered(more, Len(out) + 1 + 1, Len(more)) = {}
    BY <1>1, <1>4 DEF Answered
  <1>8. Len(more) = Len(out) + 1 /\ more[Len(out) + 1] = w[k]
    BY <1>4
  <1> HIDE DEF b, more
  <1>9. LastIs(w, k, b, k)
    <2>1. k \in 1 .. k /\ k + 1 .. k = {} /\ b.at - 1 = Len(out)
      BY <1>1, <1>4, <1>6
    <2>2. b.at \in 1 .. Len(b.out) /\ b.at + 1 .. Len(b.out) = {}
      BY <1>4, <1>6, <1>8
    <2>3. b.open = w[k].calls \ Answered(w, k + 1, k)
      BY <1>6, <1>7
    <2>4. w[k].calls \ b.open = Answered(b.out, b.at + 1, Len(b.out))
      BY <1>6, <1>7
    <2> QED
      BY <1>2, <1>5, <1>6, <1>8, <2>1, <2>2, <2>3, <2>4 DEF LastIs
  <1> QED
    BY <1>1, <1>9 DEF Reads, b

(* An answer: to a call of the last message that is open, or left out.     *)
LEMMA ReadsAnswer ==
    ASSUME NEW w \in Seq(ChatRow), Follows(w), NEW k \in 1 .. Len(w),
           w[k].role = "tool", NEW a \in Acc, Reads(w, k - 1, a)
    PROVE  Reads(w, k, Absorb(a, w[k]))
  <1> DEFINE b == Absorb(a, w[k])
             m == w[k]
  <1>1. Len(w) \in Nat /\ m \in ChatRow /\ DOMAIN w = 1 .. Len(w)
    BY LenProperties, ElementOfSeq
  <1>2. /\ m.call \in a.open => b = [out |-> Append(a.out, m),
                                     open |-> a.open \ {m.call}, at |-> a.at]
        /\ m.call \notin a.open => b = a
    BY <1>1, AbsorbAnswer
  <1>3. CASE a = Start
    <2>1. m.call \notin a.open
      BY <1>3 DEF Start
    <2> QED
      BY <1>2, <1>3, <2>1 DEF Reads
  <1>4. CASE \E q \in 1 .. k - 1 : LastIs(w, k - 1, a, q)
    <2>1. PICK q \in 1 .. k - 1 : LastIs(w, k - 1, a, q)
      BY <1>4
    <2>2. q \in 1 .. k /\ k # 1 /\ k - 1 \in q .. k - 1
      BY <1>1
    <2>3. \A j \in q + 1 .. k : w[j].role = "tool" /\ w[j].turn = w[q].turn
      <3>1. m.turn = w[k - 1].turn
        BY <1>1, <2>2 DEF Follows
      <3>2. w[k - 1].turn = w[q].turn
        BY <1>1, <2>1, <2>2 DEF LastIs
      <3>3. \A j \in q + 1 .. k : j = k \/ j \in q + 1 .. k - 1
        BY <1>1
      <3> QED
        BY <2>1, <3>1, <3>2, <3>3 DEF LastIs
    <2>4. Answered(w, q + 1, k) = Answered(w, q + 1, k - 1) \cup {m.call}
      <3>1. q + 1 .. k = (q + 1 .. k - 1) \cup {k}
        BY <1>1
      <3> QED
        BY <3>1 DEF Answered
    <2>5. m.calls = {}
      BY <1>1 DEF Follows
    <2>6. /\ a.at \in 1 .. Len(a.out) /\ a.out[a.at] = w[q] /\ w[q].role # "tool"
          /\ \A i \in a.at + 1 .. Len(a.out) : a.out[i].role = "tool" /\ a.out[i].calls = {}
          /\ a.open = w[q].calls \ Answered(w, q + 1, k - 1)
          /\ w[q].calls \ a.open = Answered(a.out, a.at + 1, Len(a.out))
          /\ Sound(SubSeq(a.out, 1, a.at - 1))
      BY <2>1 DEF LastIs
    <2>7. CASE m.call \notin a.open
      <3>1. a.open = w[q].calls \ Answered(w, q + 1, k)
        BY <2>4, <2>6, <2>7
      <3>2. LastIs(w, k, a, q)
        BY <2>2, <2>3, <2>6, <3>1 DEF LastIs
      <3> QED
        BY <1>2, <2>2, <2>7, <3>2 DEF Reads
    <2>8. CASE m.call \in a.open
      <3> DEFINE n == Len(a.out)
                 more == Append(a.out, m)
      <3>1. b.out = more /\ b.open = a.open \ {m.call} /\ b.at = a.at
        BY <1>2, <2>8
      <3>2. /\ a.out \in Seq(ChatRow) /\ n \in Nat /\ more \in Seq(ChatRow) /\ Len(more) = n + 1
            /\ \A i \in 1 .. n : more[i] = a.out[i]
            /\ more[n + 1] = m
        BY <1>1, AccParts, AppendProperties, LenProperties
      <3> HIDE DEF more, b, n, m
      <3>3. a.at \in 1 .. n /\ a.at \in 1 .. n + 1
        BY <2>6, <3>2 DEF n
      <3>4. SubSeq(more, 1, a.at - 1) = SubSeq(a.out, 1, a.at - 1)
        <4>1. a.at - 1 \in 0 .. n /\ a.at - 1 \in 0 .. Len(more) /\ a.at - 1 \in 0 .. Len(a.out)
          BY <3>2, <3>3 DEF n
        <4>2. /\ SubSeq(more, 1, a.at - 1) \in Seq(ChatRow)
              /\ Len(SubSeq(more, 1, a.at - 1)) = a.at - 1
              /\ \A i \in 1 .. a.at - 1 : SubSeq(more, 1, a.at - 1)[i] = more[i]
          BY <3>2, <4>1, FirstOf
        <4>3. /\ SubSeq(a.out, 1, a.at - 1) \in Seq(ChatRow)
              /\ Len(SubSeq(a.out, 1, a.at - 1)) = a.at - 1
              /\ \A i \in 1 .. a.at - 1 : SubSeq(a.out, 1, a.at - 1)[i] = a.out[i]
          BY <3>2, <4>1, FirstOf
        <4>4. \A i \in 1 .. a.at - 1 : more[i] = a.out[i]
          BY <3>2, <4>1
        <4>5. \A i \in 1 .. Len(SubSeq(more, 1, a.at - 1)) :
                SubSeq(more, 1, a.at - 1)[i] = SubSeq(a.out, 1, a.at - 1)[i]
          BY <4>2, <4>3, <4>4
        <4> QED
          BY <4>2, <4>3, <4>5, SeqEqual
      <3>5. \A i \in a.at + 1 .. n + 1 : i = n + 1 \/ (i \in a.at + 1 .. n /\ i \in 1 .. n)
        BY <3>2, <3>3
      <3>6. \A i \in a.at + 1 .. n + 1 : more[i].role = "tool" /\ more[i].calls = {}
        BY <2>5, <2>6, <3>2, <3>5 DEF n, m
      <3>7. Answered(more, a.at + 1, n + 1) = Answered(a.out, a.at + 1, n) \cup {m.call}
        <4>1. \A i \in a.at + 1 .. n : i \in a.at + 1 .. n + 1 /\ more[i] = a.out[i]
          BY <3>2, <3>3
        <4>2. n + 1 \in a.at + 1 .. n + 1
          BY <3>2, <3>3
        <4> QED
          BY <3>2, <3>5, <4>1, <4>2 DEF Answered
      <3>8. b.open = w[q].calls \ Answered(w, q + 1, k)
        BY <2>4, <2>6, <3>1
      <3>9. w[q].calls \ b.open = Answered(more, a.at + 1, n + 1)
        BY <2>6, <2>8, <3>1, <3>7 DEF n
      <3>10. LastIs(w, k, b, q)
        <4>1. more[a.at] = w[q]
          BY <2>6, <3>2, <3>3
        <4> QED
          BY <2>2, <2>3, <2>6, <3>1, <3>2, <3>3, <3>4, <3>6, <3>8, <3>9, <4>1 DEF LastIs
      <3> QED
        BY <2>2, <3>10 DEF Reads, b, m
    <2> QED
      BY <2>7, <2>8
  <1> QED
    BY <1>3, <1>4 DEF Reads

(* What is left of a window is in order.                                   *)
LEMMA FoldIsSound ==
    ASSUME NEW w \in Seq(ChatRow)
    PROVE  /\ DropOpen(FoldLeft(Absorb, Start, w)).out \in Seq(ChatRow)
           /\ Follows(w) /\ ~PartlyAnswered(w) => Sound(DropOpen(FoldLeft(Absorb, Start, w)).out)
  <1>1. PICK f : Steps(w, f) /\ FoldLeft(Absorb, Start, w) = f[Len(w)]
    BY FoldSteps
  <1>2. Len(w) \in Nat /\ \A k \in 0 .. Len(w) : f[k] \in Acc
    BY <1>1, StepTypes, LenProperties
  <1>3. f[Len(w)] \in Acc
    BY <1>2
  <1>4. DropOpen(f[Len(w)]).out \in Seq(ChatRow)
    BY <1>3, DropTypes, AccParts
  <1>5. ASSUME Follows(w), ~PartlyAnswered(w) PROVE Sound(DropOpen(f[Len(w)]).out)
    <2> DEFINE S == {k \in 0 .. Len(w) : Reads(w, k, f[k])}
    <2>1. 0 \in S
      BY <1>1, <1>2 DEF Steps, Reads
    <2>2. ASSUME NEW k \in 1 .. Len(w), k - 1 \in S PROVE k \in S
      <3>1. f[k] = Absorb(f[k - 1], w[k]) /\ f[k - 1] \in Acc /\ Reads(w, k - 1, f[k - 1])
        BY <1>1, <1>2, <2>2 DEF Steps
      <3>2. Reads(w, k, f[k])
        BY <1>5, <3>1, ReadsOther, ReadsAnswer
      <3> QED
        BY <1>2, <3>2
    <2>3. \A k \in 0 .. Len(w) : k \in S
      BY <1>2, <2>1, <2>2, UpTo
    <2>4. Len(w) \in 0 .. Len(w) /\ Reads(w, Len(w), f[Len(w)])
      BY <1>2, <2>3
    <2> QED
      BY <1>3, <1>5, <2>4, DropIsSound DEF AnswersEnd
  <1> QED
    BY <1>1, <1>4, <1>5

(* What starts at a user's message needs nothing that came before it.      *)
LEMMA CutIsValid ==
    ASSUME NEW s \in Seq(ChatRow)
    PROVE  FromFirstUser(s) \in Seq(ChatRow) /\ (Sound(s) => Valid(FromFirstUser(s)))
  <1> DEFINE users == {i \in DOMAIN s : s[i].role = "user"}
             n == Len(s)
  <1>1. n \in Nat /\ DOMAIN s = 1 .. n /\ \A i \in 1 .. n : s[i] \in ChatRow
    BY LenProperties
  <1>2. CASE users = {}
    <2>1. FromFirstUser(s) = <<>>
      BY <1>2 DEF FromFirstUser
    <2>2. <<>> \in Seq(ChatRow) /\ Len(<<>>) = 0 /\ DOMAIN <<>> = {}
      OBVIOUS
    <2> QED
      BY <2>1, <2>2 DEF Valid
  <1>3. CASE users # {}
    <2>1. users \in SUBSET Nat
      BY <1>1
    <2>2. PICK u : u = Min(users)
      OBVIOUS
    <2>3. u \in users
      BY <1>3, <2>1, <2>2, LeastOf
    <2>4. u \in 1 .. n /\ s[u].role = "user"
      BY <1>1, <2>3
    <2> DEFINE h == SubSeq(s, u, n)
               m == n - u + 1
    <2>5. FromFirstUser(s) = h
      BY <1>3, <2>2 DEF FromFirstUser
    <2>6. h \in Seq(ChatRow) /\ Len(h) = m /\ (\A i \in 1 .. m : h[i] = s[u + i - 1]) /\ m \in Nat
      <3>1. u \in Int /\ n \in Int /\ u <= n /\ \A i \in u .. n : s[i] \in ChatRow
        BY <1>1, <2>4
      <3>2. /\ SubSeq(s, u, n) \in Seq(ChatRow)
            /\ Len(SubSeq(s, u, n)) = IF u <= n THEN n - u + 1 ELSE 0
            /\ \A i \in 1 .. n - u + 1 : SubSeq(s, u, n)[i] = s[u + i - 1]
        BY <3>1, SubSeqProperties
      <3>3. m \in Nat
        BY <3>1
      <3> QED
        BY <3>1, <3>2, <3>3
    <2> HIDE DEF h, n
    <2>7. DOMAIN h = 1 .. m /\ h # <<>> /\ Head(h) = h[1]
      BY <1>1, <2>4, <2>6, LenProperties, EmptySeq
    <2>8. Head(h).role = "user"
      BY <1>1, <2>4, <2>6, <2>7
    <2>9. ASSUME NEW i \in 1 .. m, NEW j \in 1 .. m
          PROVE  u + i - 1 \in Trail(s, u + j - 1) <=> i \in Trail(h, j)
      <3>1. u + i - 1 \in 1 .. n /\ u + j - 1 \in 1 .. n
        BY <1>1, <2>4, <2>6
      <3>2. u + i - 1 \in u + j - 1 + 1 .. n <=> i \in j + 1 .. m
        BY <1>1, <2>4, <2>6
      <3>3. ASSUME \A l \in u + j - 1 + 1 .. u + i - 1 : s[l].role = "tool", NEW l \in j + 1 .. i
            PROVE  h[l].role = "tool"
        <4>1. l \in 1 .. m /\ u + l - 1 \in u + j - 1 + 1 .. u + i - 1
          BY <1>1, <2>4, <2>6
        <4> QED
          BY <2>6, <3>3, <4>1
      <3>4. ASSUME \A l \in j + 1 .. i : h[l].role = "tool", NEW l \in u + j - 1 + 1 .. u + i - 1
            PROVE  s[l].role = "tool"
        <4>1. l - u + 1 \in 1 .. m /\ l - u + 1 \in j + 1 .. i /\ u + (l - u + 1) - 1 = l
          BY <1>1, <2>4, <2>6
        <4> QED
          BY <2>6, <3>4, <4>1
      <3> QED
        BY <2>6, <3>2, <3>3, <3>4 DEF Trail, n
    <2>10. ASSUME Sound(s), NEW i \in 1 .. m PROVE Fit(h, i)
      <3> DEFINE x == u + i - 1
      <3>1. x \in u .. n /\ x \in 1 .. n /\ h[i] = s[x]
        BY <1>1, <2>4, <2>6
      <3>2. Fit(s, x)
        BY <2>10, <3>1 DEF Sound, n
      <3>3. ASSUME h[i].role = "tool"
            PROVE  \E j \in 1 .. i - 1 : i \in Trail(h, j) /\ h[i].call \in h[j].calls
        <4>1. PICK y \in 1 .. x - 1 : x \in Trail(s, y) /\ s[x].call \in s[y].calls
          BY <3>1, <3>2, <3>3 DEF Fit
        <4>2. y >= u
          <5>1. CASE y < u
            <6>1. u \in y + 1 .. x
              BY <1>1, <2>4, <3>1, <5>1
            <6> QED
              BY <2>4, <4>1, <6>1 DEF Trail
          <5> QED
            BY <2>4, <3>1, <5>1
        <4>3. y - u + 1 \in 1 .. i - 1 /\ y - u + 1 \in 1 .. m /\ u + (y - u + 1) - 1 = y
          BY <1>1, <2>4, <2>6, <3>1, <4>2
        <4>4. i \in Trail(h, y - u + 1) /\ h[y - u + 1] = s[y]
          BY <2>6, <2>9, <4>1, <4>3
        <4> QED
          BY <3>1, <4>1, <4>3, <4>4
      <3>4. ASSUME NEW c \in h[i].calls PROVE \E k \in Trail(h, i) : h[k].call = c
        <4>1. PICK y \in Trail(s, x) : s[y].call = c
          BY <3>1, <3>2 DEF Fit
        <4>2. y \in x + 1 .. n
          BY <4>1 DEF Trail, n
        <4>3. y - u + 1 \in 1 .. m /\ u + (y - u + 1) - 1 = y
          BY <1>1, <2>4, <2>6, <3>1, <4>2
        <4>4. y - u + 1 \in Trail(h, i) /\ h[y - u + 1] = s[y]
          BY <2>6, <2>9, <4>3
        <4> QED
          BY <4>1, <4>4
      <3> QED
        BY <3>3, <3>4 DEF Fit
    <2>11. ASSUME Sound(s) PROVE Valid(h)
      <3>1. \A i \in DOMAIN h : Fit(h, i)
        BY <2>7, <2>10, <2>11
      <3> QED
        BY <2>8, <3>1 DEF Valid, Fit, Trail
    <2> QED
      BY <2>5, <2>6, <2>11
  <1> QED
    BY <1>2, <1>3

(* A window of a log is a part of it.                                      *)
LEMMA WindowFollows ==
    ASSUME ChatAssumption, NEW log \in Seq(ChatRow)
    PROVE  Recent(log) \in Seq(ChatRow) /\ (Follows(log) => Follows(Recent(log)))
  <1> DEFINE n == Len(log)
             S == {Window, n}
  <1>1. n \in Nat /\ DOMAIN log = 1 .. n /\ \A i \in 1 .. n : log[i] \in ChatRow
    BY LenProperties
  <1>2. S \in SUBSET Nat /\ S # {} /\ n \in S
    BY <1>1 DEF ChatAssumption
  <1>3. PICK m : m = Min(S)
    OBVIOUS
  <1>4. m \in S /\ \A y \in S : m <= y
    <2> HIDE DEF S
    <2>1. \E x \in S : \A y \in S : x <= y
      BY <1>2, Smallest
    <2> QED
      BY <1>3, <2>1 DEF Min
  <1>5. m \in 0 .. n
    BY <1>2, <1>4
  <1> DEFINE a == n - m + 1
             w == SubSeq(log, a, n)
  <1>6. Recent(log) = w
    BY <1>3 DEF Recent
  <1>7. w \in Seq(ChatRow) /\ Len(w) = m /\ \A i \in 1 .. m : w[i] = log[a + i - 1]
    <2>1. a \in Int /\ n \in Int /\ (\A i \in a .. n : log[i] \in ChatRow)
      BY <1>1, <1>5
    <2>2. n - a + 1 = m /\ (a <= n <=> m # 0)
      BY <1>1, <1>5
    <2>3. /\ SubSeq(log, a, n) \in Seq(ChatRow)
          /\ Len(SubSeq(log, a, n)) = IF a <= n THEN n - a + 1 ELSE 0
          /\ \A i \in 1 .. n - a + 1 : SubSeq(log, a, n)[i] = log[a + i - 1]
      BY <2>1, SubSeqProperties
    <2> QED
      BY <2>2, <2>3
  <1>8. DOMAIN w = 1 .. m
    BY <1>7, LenProperties
  <1>9. a \in Nat /\ a # 0 /\ a + m = n + 1 /\ m \in Nat
    BY <1>1, <1>5
  <1> HIDE DEF w, a, n
  <1>10. ASSUME Follows(log), NEW i \in DOMAIN w, w[i].role = "tool"
         PROVE  w[i].calls = {} /\ (i # 1 => w[i - 1].turn = w[i].turn)
    <2>1. i \in 1 .. m
      BY <1>8
    <2>2. PICK x : x = a + i - 1
      OBVIOUS
    <2>3. x \in 1 .. n /\ w[i] = log[x]
      BY <1>1, <1>7, <1>9, <2>1, <2>2
    <2>4. i # 1 => i - 1 \in 1 .. m /\ x # 1 /\ a + (i - 1) - 1 = x - 1
      BY <1>1, <1>9, <2>1, <2>2, <2>3
    <2>5. i # 1 => w[i - 1] = log[x - 1]
      BY <1>7, <2>4
    <2>6. w[i].calls = {} /\ (x # 1 => log[x - 1].turn = w[i].turn)
      BY <1>1, <1>10, <2>3 DEF Follows
    <2> QED
      BY <2>4, <2>5, <2>6
  <1> QED
    BY <1>6, <1>7, <1>10 DEF Follows

(* The history replayed from a log is a sequence of messages; it is valid  *)
(* if in the window no message is answered in part.                        *)
LEMMA ReplayOf ==
    ASSUME ChatAssumption, NEW log \in Seq(ChatRow)
    PROVE  /\ Replayed(log) \in Seq(ChatRow)
           /\ Follows(log) => PartlyAnswered(Recent(log)) \/ Valid(Replayed(log))
  <1>1. Recent(log) \in Seq(ChatRow) /\ (Follows(log) => Follows(Recent(log)))
    BY WindowFollows
  <1> DEFINE s == DropOpen(FoldLeft(Absorb, Start, Recent(log))).out
  <1>2. /\ s \in Seq(ChatRow)
        /\ Follows(Recent(log)) /\ ~PartlyAnswered(Recent(log)) => Sound(s)
    BY <1>1, FoldIsSound
  <1>3. Replayed(log) = FromFirstUser(s)
    BY DEF Replayed, Start
  <1> HIDE DEF s
  <1> QED
    BY <1>1, <1>2, <1>3, CutIsValid

-----------------------------------------------------------------------------
(* The invariant                                                           *)

Headed(s) == s # <<>> => s[1].role # "tool"

(* Logs are sequences of messages in which answers follow.                 *)
Conversations(cs, b) ==
    /\ cs \in [DOMAIN cs -> [born : 1 .. b, log : Seq(ChatRow)]] /\ DOMAIN cs \subseteq 1 .. MaxConv
    /\ \A c \in DOMAIN cs : Follows(cs[c].log)

(* What turn t has flushed is its own and can follow any log.              *)
Flushed(s, t) == Follows(s) /\ Headed(s) /\ \A i \in 1 .. Len(s) : s[i].turn = t

(* A turn that has an answer to save or is done, and was not refused, has  *)
(* its reply in the conversation it began in, if that is still there.      *)
Replied(r, t, cs) ==
    r.pc \in {"streaming", "done"} /\ r.saved /\ r.conv \in DOMAIN cs /\ cs[r.conv].born = r.born
        => \E m \in Range(cs[r.conv].log) : m.turn = t /\ IsReply(m)

(* Who calls tools holds the lock and has a round left, and a turn that    *)
(* begins does not hold it; the conversation of the turn that holds it     *)
(* cannot be deleted.                                                      *)
InRound(r, t, cs, l, b) ==
    /\ r.pc \in {"chat", "tools"} => r.left # 0
    /\ r.pc = "tools" => r.calls # {} /\ l = t
    /\ r.pc \in {"idle", "opened", "extract", "broken"} => l # t
    /\ (l = t) <=> (r.own # <<>>)
    /\ l = t => r.conv \in DOMAIN cs
    /\ r.born <= b

Turns(r, t, cs, l, b) ==
    /\ r \in ChatTurn /\ Flushed(r.own, t) /\ InRound(r, t, cs, l, b) /\ Replied(r, t, cs)
    /\ r.torn \/ Valid(r.history)

ChatIInv ==
    /\ born \in Nat /\ lock \in Turn \cup {Nothing} /\ Conversations(convs, born)
    /\ turn = [t \in Turn |-> turn[t]]
    /\ \A t \in Turn : Turns(turn[t], t, convs, lock, born)

-----------------------------------------------------------------------------
(* What is appended to a log can follow it.                                *)
LEMMA FollowsOn ==
    ASSUME NEW s \in Seq(ChatRow), NEW u \in Seq(ChatRow), Follows(s), Follows(u), Headed(u)
    PROVE  s \o u \in Seq(ChatRow) /\ Follows(s \o u)
           /\ Range(s \o u) = Range(s) \cup Range(u)
  <1> DEFINE w == s \o u
             n == Len(s)
             m == Len(u)
  <1>1. /\ w \in Seq(ChatRow) /\ Len(w) = n + m /\ n \in Nat /\ m \in Nat
        /\ \A i \in 1 .. n + m : w[i] = IF i <= n THEN s[i] ELSE u[i - n]
    BY ConcatProperties, LenProperties
  <1>2. DOMAIN w = 1 .. n + m /\ DOMAIN s = 1 .. n /\ DOMAIN u = 1 .. m
    BY <1>1, LenProperties
  <1>3. Range(w) = Range(s) \cup Range(u)
    BY RangeConcatenation
  <1>4. m # 0 => u # <<>>
    BY EmptySeq
  <1> HIDE DEF w, n, m
  <1>5. ASSUME NEW i \in 1 .. n + m, w[i].role = "tool"
        PROVE  w[i].calls = {} /\ (i # 1 => w[i - 1].turn = w[i].turn)
    <2>1. CASE i <= n
      <3>1. i \in 1 .. n /\ w[i] = s[i] /\ (i # 1 => i - 1 \in 1 .. n + m /\ i - 1 <= n)
        BY <1>1, <2>1
      <3>2. i # 1 => w[i - 1] = s[i - 1]
        BY <1>1, <3>1
      <3> QED
        BY <1>2, <1>5, <3>1, <3>2 DEF Follows
    <2>2. CASE ~(i <= n)
      <3>1. i - n \in 1 .. m /\ w[i] = u[i - n] /\ m # 0
        BY <1>1, <2>2
      <3>2. i - n # 1
        BY <1>4, <1>5, <3>1 DEF Headed
      <3>3. i - 1 \in 1 .. n + m /\ ~(i - 1 <= n) /\ i - 1 - n = i - n - 1
        BY <1>1, <2>2, <3>1, <3>2
      <3>4. w[i - 1] = u[i - n - 1]
        BY <1>1, <3>3
      <3> QED
        BY <1>2, <1>5, <3>1, <3>2, <3>4 DEF Follows
    <2> QED
      BY <2>1, <2>2
  <1> QED
    BY <1>1, <1>2, <1>3, <1>5 DEF Follows, w

(* A turn may flush a message of its own, an answer after another message. *)
LEMMA FlushOne ==
    ASSUME NEW s \in Seq(ChatRow), NEW t \in Turn, Flushed(s, t), NEW m \in ChatRow, m.turn = t,
           m.role = "tool" => m.calls = {} /\ s # <<>>
    PROVE  Append(s, m) \in Seq(ChatRow) /\ Append(s, m) # <<>> /\ Flushed(Append(s, m), t)
  <1> DEFINE w == Append(s, m)
             n == Len(s)
  <1>1. /\ w \in Seq(ChatRow) /\ w # <<>> /\ Len(w) = n + 1 /\ n \in Nat
        /\ \A i \in 1 .. n : w[i] = s[i]
        /\ w[n + 1] = m
    BY AppendProperties, LenProperties
  <1>2. DOMAIN w = 1 .. n + 1 /\ DOMAIN s = 1 .. n /\ (s # <<>> => n # 0) /\ (n # 0 => s # <<>>)
    BY <1>1, LenProperties, EmptySeq
  <1> HIDE DEF w, n
  <1>3. \A i \in 1 .. n + 1 : i = n + 1 \/ i \in 1 .. n
    BY <1>1
  <1>4. \A i \in 1 .. Len(w) : w[i].turn = t
    BY <1>1, <1>3 DEF Flushed, n
  <1>5. ASSUME NEW i \in 1 .. n + 1, w[i].role = "tool"
        PROVE  w[i].calls = {} /\ (i # 1 => w[i - 1].turn = w[i].turn)
    <2>1. i # 1 => i - 1 \in 1 .. n + 1
      BY <1>1
    <2>2. i # 1 => w[i - 1].turn = w[i].turn
      BY <1>1, <1>4, <2>1
    <2>3. w[i].calls = {}
      BY <1>1, <1>2, <1>3, <1>5 DEF Flushed, Follows
    <2> QED
      BY <2>2, <2>3
  <1>6. w[1].role # "tool"
    <2>1. 1 \in 1 .. n \/ (n = 0 /\ n + 1 = 1)
      BY <1>1
    <2> QED
      BY <1>1, <1>2, <2>1 DEF Flushed, Headed
  <1> QED
    BY <1>1, <1>2, <1>4, <1>5, <1>6 DEF Flushed, Follows, Headed, w

LEMMA NothingFlushed ==
    ASSUME NEW t
    PROVE  <<>> \in Seq(ChatRow) /\ Flushed(<<>>, t) /\ Valid(<<>>)
  <1>1. Len(<<>>) = 0 /\ DOMAIN <<>> = {} /\ 1 .. 0 = {}
    OBVIOUS
  <1> QED
    BY <1>1 DEF Flushed, Follows, Headed, Valid

(* A reply, on its own, and a user's message.                              *)
LEMMA OneMessage ==
    ASSUME NEW t \in Turn, NEW role \in {"user", "assistant"}
    PROVE  LET m == Message(t, role, {}, Nothing)
           IN /\ m \in ChatRow /\ m.turn = t /\ m.role = role /\ (role = "assistant" => IsReply(m))
              /\ <<m>> \in Seq(ChatRow) /\ Flushed(<<m>>, t) /\ m \in Range(<<m>>)
  <1> DEFINE m == Message(t, role, {}, Nothing)
  <1>1. m \in ChatRow /\ m.turn = t /\ m.role = role /\ m.role # "tool" /\ m.calls = {}
    BY DEF Message, ChatRow
  <1>2. role = "assistant" => IsReply(m)
    BY <1>1 DEF IsReply
  <1> HIDE DEF m
  <1>3. <<m>> \in Seq(ChatRow) /\ Len(<<m>>) = 1 /\ DOMAIN <<m>> = {1} /\ <<m>>[1] = m
    BY <1>1
  <1>4. 1 .. 1 = {1} /\ m \in Range(<<m>>)
    BY <1>3 DEF Range
  <1> HIDE DEF m
  <1>5. Flushed(<<m>>, t)
    BY <1>1, <1>3, <1>4 DEF Flushed, Follows, Headed
  <1> QED
    BY <1>1, <1>2, <1>3, <1>4, <1>5 DEF m

-----------------------------------------------------------------------------
(* Steps                                                                   *)

(* Conversations there were before keep their messages, or their id was    *)
(* given to one that was created later.                                    *)
Keeps(cs, ds, b) ==
    \A c \in DOMAIN ds :
        \/ ds[c].born > b
        \/ /\ c \in DOMAIN cs /\ ds[c].born = cs[c].born
           /\ Range(cs[c].log) \subseteq Range(ds[c].log)

(* A turn does not lose its reply by what others do.                       *)
LEMMA OthersKeep ==
    ASSUME NEW r, NEW t \in Turn, NEW cs, NEW ds, NEW l, NEW m, NEW b \in Nat, NEW e \in Nat,
           Turns(r, t, cs, l, b), Keeps(cs, ds, b), b <= e,
           (m = t) <=> (l = t), l = t => DOMAIN cs \subseteq DOMAIN ds
    PROVE  Turns(r, t, ds, m, e)
  <1>1. r.born \in Nat /\ r.born <= b
    BY DEF Turns, InRound, ChatTurn
  <1>2. Replied(r, t, ds)
    <2>1. CASE ~(r.conv \in DOMAIN ds /\ ds[r.conv].born = r.born)
      BY <2>1 DEF Replied
    <2>2. CASE r.conv \in DOMAIN ds /\ ds[r.conv].born = r.born
      <3>1. r.conv \in DOMAIN cs /\ ds[r.conv].born = cs[r.conv].born
            /\ Range(cs[r.conv].log) \subseteq Range(ds[r.conv].log)
        BY <1>1, <2>2 DEF Keeps
      <3> QED
        BY <2>2, <3>1 DEF Turns, Replied
    <2> QED
      BY <2>1, <2>2
  <1>3. InRound(r, t, ds, m, e)
    <2>1. r.born <= e
      BY <1>1
    <2> QED
      BY <2>1 DEF Turns, InRound
  <1> QED
    BY <1>2, <1>3 DEF Turns

(* A step of turn t keeps the invariant if it does what follows.           *)
LEMMA StepKeeps ==
    ASSUME ChatIInv, NEW t \in Turn, NEW r, turn' = [turn EXCEPT ![t] = r], born' \in Nat,
           born <= born', Conversations(convs', born'), Keeps(convs, convs', born),
           DOMAIN convs \subseteq DOMAIN convs', Turns(r, t, convs', lock', born'),
           lock' = lock \/ {lock, lock'} \subseteq {Nothing, t}, Nothing \notin Turn
    PROVE  ChatIInv'
  <1>1. turn = [g \in Turn |-> turn[g]] /\ \A g \in Turn : Turns(turn[g], g, convs, lock, born)
    BY DEF ChatIInv
  <1>2. /\ turn' = [g \in Turn |-> turn'[g]] /\ turn'[t] = r
        /\ \A g \in Turn \ {t} : turn'[g] = turn[g]
    BY <1>1
  <1>3. born \in Nat
    BY DEF ChatIInv
  <1>4. ASSUME NEW g \in Turn \ {t} PROVE Turns(turn'[g], g, convs', lock', born')
    <2>1. (lock' = g) <=> (lock = g)
      OBVIOUS
    <2>2. Turns(turn[g], g, convs, lock, born)
      BY <1>1
    <2>3. Turns(turn[g], g, convs', lock', born')
      BY <1>3, <2>1, <2>2, OthersKeep
    <2> QED
      BY <1>2, <2>3
  <1>5. \A g \in Turn : Turns(turn'[g], g, convs', lock', born')
    BY <1>2, <1>4
  <1>6. lock' \in Turn \cup {Nothing}
    BY DEF ChatIInv
  <1> QED
    BY <1>2, <1>5, <1>6 DEF ChatIInv

LEMMA NothingLost == ASSUME NEW cs, NEW b PROVE Keeps(cs, cs, b)
  BY DEF Keeps

(* A step of a turn that only changes the turn.                            *)
LEMMA TurnOnly ==
    ASSUME ChatAssumption, ChatIInv, NEW t \in Turn, NEW r, turn' = [turn EXCEPT ![t] = r],
           UNCHANGED <<convs, born, lock>>, Turns(r, t, convs, lock, born)
    PROVE  ChatIInv'
  <1>1. born \in Nat /\ Conversations(convs, born)
    BY DEF ChatIInv
  <1>2. born <= born
    BY <1>1
  <1> QED
    BY <1>1, <1>2, NothingLost, StepKeeps DEF ChatAssumption

(* A message of ai_messages is added to a conversation by who has the lock. *)
LEMMA RowsSaved ==
    ASSUME ChatAssumption, ChatIInv, NEW t \in Turn, CanSave(t), NEW more \in Seq(ChatRow),
           Follows(more), Headed(more), SaveRows(t, more), born' = born
    PROVE  /\ Conversations(convs', born) /\ Keeps(convs, convs', born)
           /\ DOMAIN convs' = DOMAIN convs /\ born \in Nat /\ born <= born
           /\ lock' = Nothing /\ {lock, lock'} \subseteq {Nothing, t}
           /\ turn[t].conv \in DOMAIN convs' /\ convs'[turn[t].conv].born = convs[turn[t].conv].born
           /\ Range(more) \subseteq Range(convs'[turn[t].conv].log)
  <1>1. born \in Nat /\ Conversations(convs, born) /\ turn[t] \in ChatTurn /\ Flushed(turn[t].own, t)
    BY DEF ChatIInv, Turns
  <1>2. PICK c : c = turn[t].conv
    OBVIOUS
  <1>3. PICK own : own = turn[t].own
    OBVIOUS
  <1>4. c \in DOMAIN convs /\ lock \in {Nothing, t}
    BY <1>2 DEF CanSave
  <1>5. own \in Seq(ChatRow) /\ Follows(own) /\ Headed(own)
    BY <1>1, <1>3 DEF ChatTurn, Flushed
  <1>6. convs[c].log \in Seq(ChatRow) /\ Follows(convs[c].log)
    BY <1>1, <1>4 DEF Conversations
  <1> DEFINE half == convs[c].log \o own
             all == half \o more
  <1>7. half \in Seq(ChatRow) /\ Follows(half) /\ Range(half) = Range(convs[c].log) \cup Range(own)
    BY <1>5, <1>6, FollowsOn
  <1> HIDE DEF half
  <1>8. all \in Seq(ChatRow) /\ Follows(all) /\ Range(all) = Range(half) \cup Range(more)
    BY <1>7, FollowsOn
  <1>9. convs' = [convs EXCEPT ![c].log = all] /\ lock' = Nothing
    BY <1>2, <1>3 DEF SaveRows, half
  <1> HIDE DEF all
  <1>10. convs \in [DOMAIN convs -> [born : 1 .. born, log : Seq(ChatRow)]]
    BY <1>1 DEF Conversations
  <1>11. /\ convs'[c] = [convs[c] EXCEPT !.log = all] /\ \A d \in DOMAIN convs \ {c} : convs'[d] = convs[d]
         /\ DOMAIN convs' = DOMAIN convs
    BY <1>4, <1>9
  <1>12. convs'[c].log = all /\ convs'[c].born = convs[c].born
    BY <1>4, <1>10, <1>11
  <1>13. Conversations(convs', born)
    <2>1. convs' \in [DOMAIN convs -> [born : 1 .. born, log : Seq(ChatRow)]]
      BY <1>4, <1>8, <1>9, <1>10
    <2> QED
      BY <1>1, <1>8, <1>11, <1>12, <2>1 DEF Conversations
  <1>14. Keeps(convs, convs', born)
    BY <1>7, <1>8, <1>11, <1>12 DEF Keeps
  <1> QED
    BY <1>1, <1>2, <1>4, <1>8, <1>9, <1>11, <1>12, <1>13, <1>14

(* Once a turn has saved its reply, or what came after it, it has flushed  *)
(* all of its messages.                                                    *)
LEMMA SaveKeeps ==
    ASSUME ChatAssumption, ChatIInv, NEW t \in Turn, CanSave(t), NEW more \in Seq(ChatRow),
           Follows(more), Headed(more), SaveRows(t, more), UNCHANGED born,
           NEW r \in ChatTurn, turn' = [turn EXCEPT ![t] = r],
           r.own = <<>>, r.pc \in {"streaming", "done"}, r.torn \/ Valid(r.history),
           r.conv = turn[t].conv, r.born = turn[t].born,
           \/ \E m \in Range(more) : m.turn = t /\ IsReply(m)
           \/ r.saved => turn[t].saved /\ turn[t].pc \in {"streaming", "done"}
    PROVE  ChatIInv'
  <1>1. /\ Conversations(convs', born) /\ Keeps(convs, convs', born)
        /\ DOMAIN convs' = DOMAIN convs /\ born \in Nat /\ born <= born
        /\ lock' = Nothing /\ {lock, lock'} \subseteq {Nothing, t}
        /\ turn[t].conv \in DOMAIN convs' /\ convs'[turn[t].conv].born = convs[turn[t].conv].born
        /\ Range(more) \subseteq Range(convs'[turn[t].conv].log)
    BY RowsSaved
  <1>2. Turns(turn[t], t, convs, lock, born) /\ Nothing \notin Turn
    BY DEF ChatIInv, ChatAssumption
  <1>3. Replied(r, t, convs')
    <2>1. CASE \E m \in Range(more) : m.turn = t /\ IsReply(m)
      BY <1>1, <2>1 DEF Replied
    <2>2. CASE r.saved => turn[t].saved /\ turn[t].pc \in {"streaming", "done"}
      <3>1. turn[t].born <= born /\ turn[t].born \in Nat
        BY <1>2 DEF Turns, InRound, ChatTurn
      <3>2. Replied(turn[t], t, convs)
        BY <1>2 DEF Turns
      <3>3. turn[t].conv \in DOMAIN convs
        BY DEF CanSave
      <3>4. convs'[turn[t].conv].born = turn[t].born
            => Range(convs[turn[t].conv].log) \subseteq Range(convs'[turn[t].conv].log)
        BY <1>1, <3>1 DEF Keeps
      <3> QED
        BY <1>1, <2>2, <3>2, <3>3, <3>4 DEF Replied
    <2> QED
      BY <2>1, <2>2
  <1>4. Turns(r, t, convs', lock', born)
    <2>1. InRound(r, t, convs', lock', born)
      BY <1>1, <1>2 DEF Turns, InRound
    <2>2. Flushed(r.own, t)
      BY NothingFlushed
    <2> QED
      BY <1>3, <2>1, <2>2 DEF Turns
  <1> QED
    BY <1>1, <1>2, <1>4, StepKeeps

(* What a turn carries, part by part.                                      *)
LEMMA TurnParts ==
    ASSUME ChatIInv, NEW t \in Turn
    PROVE  /\ Turns(turn[t], t, convs, lock, born)
           /\ turn[t].pc \in TurnStates /\ turn[t].conv \in 0 .. MaxConv /\ turn[t].born \in Nat
           /\ turn[t].history \in Seq(ChatRow) /\ turn[t].torn \in BOOLEAN
           /\ turn[t].own \in Seq(ChatRow) /\ turn[t].calls \in SUBSET Call
           /\ turn[t].left \in 0 .. 2 /\ turn[t].found \in BOOLEAN /\ turn[t].saved \in BOOLEAN
           /\ turn[t].logged \in {"none", "ok", "failed"}
           /\ turn = [g \in Turn |-> turn[g]] /\ turn[t] \in ChatTurn
  BY DEF ChatIInv, Turns, ChatTurn

(* A turn moves on and neither saves nor flushes.                          *)
LEMMA MovesOn ==
    ASSUME ChatAssumption, ChatIInv, NEW t \in Turn, NEW r \in ChatTurn,
           turn' = [turn EXCEPT ![t] = r], UNCHANGED <<convs, born, lock>>,
           r.own = turn[t].own, r.conv = turn[t].conv, r.born = turn[t].born,
           r.torn = turn[t].torn, r.history = turn[t].history,
           r.pc \notin {"tools", "done", "idle", "opened", "extract"},
           r.pc = "chat" => r.left # 0, r.pc = "broken" => lock # t, r.pc = "streaming" => ~r.saved
    PROVE  ChatIInv'
  <1>1. Turns(turn[t], t, convs, lock, born)
    BY TurnParts
  <1>2. InRound(r, t, convs, lock, born)
    BY <1>1 DEF Turns, InRound
  <1>3. Replied(r, t, convs)
    BY DEF Replied
  <1>4. Turns(r, t, convs, lock, born)
    BY <1>1, <1>2, <1>3 DEF Turns
  <1> QED
    BY <1>4, TurnOnly

LEMMA NewState ==
    ASSUME ChatIInv, NEW t \in Turn, NEW pc \in TurnStates, turn' = [turn EXCEPT ![t].pc = pc]
    PROVE  \E r \in ChatTurn :
             /\ turn' = [turn EXCEPT ![t] = r] /\ r.pc = pc
             /\ r.own = turn[t].own /\ r.conv = turn[t].conv /\ r.born = turn[t].born
             /\ r.torn = turn[t].torn /\ r.history = turn[t].history
  <1> DEFINE r == [turn[t] EXCEPT !.pc = pc]
  <1>1. r \in ChatTurn
    BY TurnParts DEF ChatTurn
  <1>2. /\ r.pc = pc /\ r.own = turn[t].own /\ r.conv = turn[t].conv /\ r.born = turn[t].born
        /\ r.torn = turn[t].torn /\ r.history = turn[t].history
    BY TurnParts DEF ChatTurn
  <1>3. turn' = [turn EXCEPT ![t] = r]
    BY TurnParts DEF ChatTurn
  <1> HIDE DEF r
  <1> QED
    BY <1>1, <1>2, <1>3

LEMMA LockerCanSave ==
    ASSUME ChatIInv, NEW t \in Turn, ~CanSave(t)
    PROVE  lock # t
  BY TurnParts DEF Turns, InRound, CanSave

LEMMA BreakKeeps ==
    ASSUME ChatAssumption, ChatIInv, NEW t \in Turn, Break(t)
    PROVE  ChatIInv'
  <1>1. lock # t
    BY LockerCanSave DEF Break
  <1>2. "broken" \in TurnStates
    BY DEF TurnStates
  <1>3. turn' = [turn EXCEPT ![t].pc = "broken"] /\ UNCHANGED <<convs, born, lock>>
    BY DEF Break
  <1>4. PICK r \in ChatTurn :
             /\ turn' = [turn EXCEPT ![t] = r] /\ r.pc = "broken"
             /\ r.own = turn[t].own /\ r.conv = turn[t].conv /\ r.born = turn[t].born
             /\ r.torn = turn[t].torn /\ r.history = turn[t].history
    BY <1>2, <1>3, NewState
  <1> QED
    BY <1>1, <1>3, <1>4, MovesOn

LEMMA MockAgentKeeps ==
    ASSUME ChatAssumption, ChatIInv, NEW t \in Turn, MockAgent(t)
    PROVE  ChatIInv'
  <1>1. "typing" \in TurnStates
    BY DEF TurnStates
  <1>2. turn' = [turn EXCEPT ![t].pc = "typing"] /\ UNCHANGED <<convs, born, lock>>
    BY DEF MockAgent
  <1>3. PICK r \in ChatTurn :
             /\ turn' = [turn EXCEPT ![t] = r] /\ r.pc = "typing"
             /\ r.own = turn[t].own /\ r.conv = turn[t].conv /\ r.born = turn[t].born
             /\ r.torn = turn[t].torn /\ r.history = turn[t].history
    BY <1>1, <1>2, NewState
  <1> QED
    BY <1>2, <1>3, MovesOn

(* The chat model is asked again, or its answer is shown and not saved.    *)
LEMMA AskKeeps ==
    ASSUME ChatAssumption, ChatIInv, NEW t \in Turn, NEW n \in 1 .. 2, Ask(t, n)
    PROVE  ChatIInv'
  <1> DEFINE r == [turn[t] EXCEPT !.pc = "chat", !.left = n]
  <1>1. n \in 0 .. 2 /\ n # 0
    OBVIOUS
  <1>2. r \in ChatTurn
    BY <1>1, TurnParts DEF ChatTurn, TurnStates
  <1>3. /\ r.pc = "chat" /\ r.left = n /\ r.own = turn[t].own /\ r.conv = turn[t].conv
        /\ r.born = turn[t].born /\ r.torn = turn[t].torn /\ r.history = turn[t].history
    BY TurnParts DEF ChatTurn
  <1>4. turn' = [turn EXCEPT ![t] = r] /\ UNCHANGED <<convs, born, lock>>
    BY TurnParts DEF ChatTurn, Ask
  <1> HIDE DEF r
  <1> QED
    BY <1>1, <1>2, <1>3, <1>4, MovesOn

LEMMA UnsavedKeeps ==
    ASSUME ChatAssumption, ChatIInv, NEW t \in Turn, UNCHANGED <<convs, born, lock>>,
           turn' = [turn EXCEPT ![t].pc = "streaming", ![t].saved = FALSE]
    PROVE  ChatIInv'
  <1> DEFINE r == [turn[t] EXCEPT !.pc = "streaming", !.saved = FALSE]
  <1>1. r \in ChatTurn
    BY TurnParts DEF ChatTurn, TurnStates
  <1>2. /\ r.pc = "streaming" /\ r.saved = FALSE /\ r.own = turn[t].own /\ r.conv = turn[t].conv
        /\ r.born = turn[t].born /\ r.torn = turn[t].torn /\ r.history = turn[t].history
    BY TurnParts DEF ChatTurn
  <1>3. turn' = [turn EXCEPT ![t] = r]
    BY TurnParts DEF ChatTurn
  <1> HIDE DEF r
  <1> QED
    BY <1>1, <1>2, <1>3, MovesOn

(* The reply is committed together with what was flushed.                  *)
LEMMA ReplyKeeps ==
    ASSUME ChatAssumption, ChatIInv, NEW t \in Turn, Reply(t)
    PROVE  ChatIInv'
  <1>1. CASE Break(t)
    BY <1>1, BreakKeeps
  <1>2. CASE /\ CanSave(t)
             /\ SaveRows(t, <<Message(t, "assistant", {}, Nothing)>>)
             /\ turn' = [turn EXCEPT ![t].pc = "streaming", ![t].own = <<>>]
             /\ UNCHANGED born
    <2> DEFINE r == [turn[t] EXCEPT !.pc = "streaming", !.own = <<>>]
               m == Message(t, "assistant", {}, Nothing)
    <2>1. r \in ChatTurn
      BY TurnParts, NothingFlushed DEF ChatTurn, TurnStates
    <2>2. /\ r.pc = "streaming" /\ r.own = <<>> /\ r.conv = turn[t].conv
          /\ r.born = turn[t].born /\ r.torn = turn[t].torn /\ r.history = turn[t].history
      BY TurnParts DEF ChatTurn
    <2>3. turn' = [turn EXCEPT ![t] = r]
      BY <1>2, TurnParts DEF ChatTurn
    <2>4. r.torn \/ Valid(r.history)
      BY <2>2, TurnParts DEF Turns
    <2> HIDE DEF r
    <2>5. /\ m.turn = t /\ IsReply(m) /\ m \in Range(<<m>>) /\ <<m>> \in Seq(ChatRow)
          /\ Follows(<<m>>) /\ Headed(<<m>>)
      BY OneMessage DEF Flushed
    <2>6. CanSave(t) /\ SaveRows(t, <<m>>) /\ UNCHANGED born
      BY <1>2
    <2> HIDE DEF m
    <2> QED
      BY <2>1, <2>2, <2>3, <2>4, <2>5, <2>6, SaveKeeps
  <1> QED
    BY <1>1, <1>2 DEF Reply

(* A message with calls is flushed by who gets the lock or has it.         *)
LEMMA CallToolsKeeps ==
    ASSUME ChatAssumption, ChatIInv, NEW t \in Turn, turn[t].pc = "chat",
           NEW calls \in (SUBSET Call) \ {{}}, CallTools(t, calls)
    PROVE  ChatIInv'
  <1>1. CASE Break(t)
    BY <1>1, BreakKeeps
  <1>2. CASE /\ CanSave(t)
             /\ lock' = t
             /\ turn' = [turn EXCEPT ![t].pc = "tools", ![t].calls = calls,
                           ![t].own = Append(@, Message(t, "assistant", calls, Nothing))]
             /\ UNCHANGED <<convs, born>>
    <2> DEFINE m == Message(t, "assistant", calls, Nothing)
               own == Append(turn[t].own, m)
               r == [turn[t] EXCEPT !.pc = "tools", !.calls = calls, !.own = own]
    <2>1. m \in ChatRow /\ m.turn = t /\ m.role # "tool"
      BY DEF Message, ChatRow
    <2> HIDE DEF m
    <2>2. own \in Seq(ChatRow) /\ own # <<>> /\ Flushed(own, t)
      BY <2>1, FlushOne, TurnParts DEF Turns
    <2>3. turn' = [turn EXCEPT ![t] = r]
      BY <1>2, TurnParts DEF ChatTurn, m
    <2> HIDE DEF own
    <2>4. r \in ChatTurn
      BY <2>2, TurnParts DEF ChatTurn, TurnStates
    <2>5. /\ r.pc = "tools" /\ r.own = own /\ r.calls = calls /\ r.conv = turn[t].conv
          /\ r.left = turn[t].left
          /\ r.born = turn[t].born /\ r.torn = turn[t].torn /\ r.history = turn[t].history
      BY TurnParts DEF ChatTurn
    <2> HIDE DEF r
    <2>6. born \in Nat /\ born <= born /\ Conversations(convs, born) /\ lock \in {Nothing, t}
          /\ Nothing \notin Turn /\ turn[t].conv \in DOMAIN convs
      BY <1>2 DEF ChatIInv, CanSave, ChatAssumption
    <2>7. Turns(r, t, convs, t, born)
      <3>1. Turns(turn[t], t, convs, lock, born)
        BY TurnParts
      <3>2. InRound(r, t, convs, t, born)
        BY <2>2, <2>5, <2>6, <3>1 DEF Turns, InRound
      <3>3. Replied(r, t, convs)
        BY <2>5 DEF Replied
      <3> QED
        BY <2>2, <2>4, <2>5, <3>1, <3>2, <3>3 DEF Turns
    <2> QED
      BY <1>2, <2>3, <2>6, <2>7, NothingLost, StepKeeps
  <1> QED
    BY <1>1, <1>2 DEF CallTools

(* A tool's result is flushed after the message that called it.            *)
LEMMA RunToolKeeps ==
    ASSUME ChatAssumption, ChatIInv, NEW t \in Turn, RunTool(t)
    PROVE  ChatIInv'
  <1> DEFINE call == Min(turn[t].calls)
             rest == turn[t].calls \ {call}
             left == IF rest = {} THEN turn[t].left - 1 ELSE turn[t].left
             m == Message(t, "tool", {}, call)
             own == Append(turn[t].own, m)
             pc == CASE rest # {} -> "tools" [] turn[t].left - 1 > 0 -> "chat" [] OTHER -> "final"
  <1>1. /\ turn[t].calls \in SUBSET Call /\ turn[t].calls # {} /\ lock = t /\ turn[t].own # <<>>
        /\ turn[t].left \in 1 .. 2 /\ turn[t].conv \in DOMAIN convs /\ turn[t].born <= born
        /\ Flushed(turn[t].own, t) /\ turn[t].own \in Seq(ChatRow)
    <2>1. turn[t].pc = "tools"
      BY DEF RunTool
    <2>2. InRound(turn[t], t, convs, lock, born) /\ Flushed(turn[t].own, t)
      BY TurnParts DEF Turns
    <2>3. /\ turn[t].calls \in SUBSET Call /\ turn[t].own \in Seq(ChatRow)
          /\ turn[t].left \in 0 .. 2
      BY TurnParts
    <2> QED
      BY <2>1, <2>2, <2>3 DEF InRound
  <1>2. call \in Call
    <2>1. turn[t].calls \in SUBSET Nat
      BY <1>1 DEF Call
    <2>2. call \in turn[t].calls
      BY <1>1, <2>1, LeastOf
    <2> QED
      BY <1>1, <2>2
  <1> HIDE DEF call
  <1>3. m \in ChatRow /\ m.turn = t /\ m.calls = {}
    BY <1>2 DEF Message, ChatRow
  <1> HIDE DEF m
  <1>4. own \in Seq(ChatRow) /\ own # <<>> /\ Flushed(own, t)
    BY <1>1, <1>3, FlushOne
  <1>5. PICK some \in BOOLEAN :
          turn' = [turn EXCEPT ![t].calls = rest, ![t].found = @ \/ some, ![t].own = own,
                               ![t].left = left, ![t].pc = pc]
    BY DEF RunTool, call, m
  <1> DEFINE found == turn[t].found \/ some
             r == [turn[t] EXCEPT !.calls = rest, !.found = found, !.own = own, !.left = left,
                                  !.pc = pc]
  <1>6. /\ pc \in {"tools", "chat", "final"} /\ (pc = "tools" => rest # {}) /\ left \in 0 .. 2
        /\ pc \in {"tools", "chat"} => left # 0
    BY <1>1
  <1>7. rest \in SUBSET Call
    BY <1>1
  <1> HIDE DEF pc, left, rest, own
  <1>8. turn' = [turn EXCEPT ![t] = r] /\ found \in BOOLEAN
    BY <1>5, TurnParts DEF ChatTurn
  <1> HIDE DEF found
  <1>9. r \in ChatTurn
    BY <1>4, <1>6, <1>7, <1>8, TurnParts DEF ChatTurn, TurnStates
  <1>10. /\ r.pc = pc /\ r.own = own /\ r.calls = rest /\ r.left = left /\ r.conv = turn[t].conv
         /\ r.born = turn[t].born /\ r.torn = turn[t].torn /\ r.history = turn[t].history
    BY TurnParts DEF ChatTurn
  <1> HIDE DEF r
  <1>11. Turns(r, t, convs, lock, born)
    <2>1. InRound(r, t, convs, lock, born)
      BY <1>1, <1>4, <1>6, <1>10 DEF InRound
    <2>2. Replied(r, t, convs)
      BY <1>6, <1>10 DEF Replied
    <2>3. r.torn \/ Valid(r.history)
      BY <1>10, TurnParts DEF Turns
    <2> QED
      BY <1>4, <1>9, <1>10, <2>1, <2>2, <2>3 DEF Turns
  <1>12. UNCHANGED <<convs, born, lock>>
    BY DEF RunTool
  <1> QED
    BY <1>8, <1>11, <1>12, TurnOnly

-----------------------------------------------------------------------------
(* The end of a turn                                                       *)

(* The initial record, which the beginning and the end of a turn start from. *)
LEMMA IdleParts ==
    ASSUME ChatAssumption
    PROVE  /\ IdleTurn \in ChatTurn /\ IdleTurn.pc = "idle" /\ IdleTurn.own = <<>>
           /\ IdleTurn.history = <<>> /\ IdleTurn.born = 0
  <1>1. MaxConv \in Nat
    BY DEF ChatAssumption
  <1> QED
    BY <1>1, NothingFlushed DEF IdleTurn, ChatTurn, TurnStates

(* A turn that is refused, or whose stream never starts, has flushed       *)
(* nothing.                                                                *)
LEMMA GivesUpKeeps ==
    ASSUME ChatAssumption, ChatIInv, NEW t \in Turn, NEW pc \in {"refused", "unstarted"},
           turn' = [turn EXCEPT ![t] = [IdleTurn EXCEPT !.pc = pc]],
           UNCHANGED <<convs, born, lock>>, turn[t].pc \in {"idle", "opened", "extract"}
    PROVE  ChatIInv'
  <1> DEFINE r == [IdleTurn EXCEPT !.pc = pc]
  <1>1. /\ r \in ChatTurn /\ r.pc = pc /\ r.own = <<>> /\ r.history = <<>> /\ r.born = 0
    BY IdleParts DEF ChatTurn, TurnStates
  <1>2. turn' = [turn EXCEPT ![t] = r]
    OBVIOUS
  <1> HIDE DEF r
  <1>3. lock # t /\ born \in Nat
    BY TurnParts DEF Turns, InRound, ChatIInv
  <1>4. InRound(r, t, convs, lock, born) /\ Replied(r, t, convs)
    BY <1>1, <1>3 DEF InRound, Replied
  <1>5. Turns(r, t, convs, lock, born)
    BY <1>1, <1>4, NothingFlushed DEF Turns
  <1> QED
    BY <1>2, <1>5, TurnOnly

LEMMA RefusedKeeps ==
    ASSUME ChatAssumption, ChatIInv, NEW t \in Turn, Refused(t)
    PROVE  ChatIInv'
  <1>1. "refused" \in {"refused", "unstarted"}
    OBVIOUS
  <1> QED
    BY <1>1, GivesUpKeeps DEF Refused, Refuse

LEMMA NeverStartedKeeps ==
    ASSUME ChatAssumption, ChatIInv, NEW t \in Turn, NeverStarted(t)
    PROVE  ChatIInv'
  <1>1. "unstarted" \in {"refused", "unstarted"}
    OBVIOUS
  <1> QED
    BY <1>1, GivesUpKeeps DEF NeverStarted

(* What is kept of a turn that ended.                                      *)
LEMMA DoneParts ==
    ASSUME ChatAssumption, ChatIInv, NEW t \in Turn, NEW saved \in BOOLEAN,
           NEW ok \in {"ok", "failed"}, Done(t, saved, ok)
    PROVE  \E r \in ChatTurn :
             /\ turn' = [turn EXCEPT ![t] = r] /\ r.pc = "done" /\ r.saved = saved
             /\ r.own = <<>> /\ r.conv = turn[t].conv /\ r.born = turn[t].born
             /\ r.history = <<>>
  <1> DEFINE logged == IF lock \in {Nothing, t} THEN ok ELSE "none"
             r == [IdleTurn EXCEPT !.pc = "done", !.conv = turn[t].conv, !.born = turn[t].born,
                                   !.saved = saved, !.logged = logged]
  <1>1. logged \in {"none", "ok", "failed"}
    OBVIOUS
  <1>2. turn' = [turn EXCEPT ![t] = r]
    BY DEF Done
  <1> HIDE DEF logged
  <1>3. r \in ChatTurn
    BY <1>1, TurnParts, IdleParts DEF ChatTurn, TurnStates
  <1>4. /\ r.pc = "done" /\ r.saved = saved /\ r.own = <<>> /\ r.conv = turn[t].conv
        /\ r.born = turn[t].born /\ r.history = <<>>
    BY IdleParts DEF ChatTurn
  <1> HIDE DEF r
  <1> QED
    BY <1>2, <1>3, <1>4

(* A turn that ends without a commit has flushed nothing.                  *)
LEMMA DoneKeeps ==
    ASSUME ChatAssumption, ChatIInv, NEW t \in Turn, NEW saved \in BOOLEAN,
           NEW ok \in {"ok", "failed"}, Done(t, saved, ok), UNCHANGED <<convs, born, lock>>,
           lock # t, saved => turn[t].saved /\ turn[t].pc \in {"streaming", "done"}
    PROVE  ChatIInv'
  <1>1. PICK r \in ChatTurn :
             /\ turn' = [turn EXCEPT ![t] = r] /\ r.pc = "done" /\ r.saved = saved
             /\ r.own = <<>> /\ r.conv = turn[t].conv /\ r.born = turn[t].born
             /\ r.history = <<>>
    BY DoneParts
  <1>2. Turns(turn[t], t, convs, lock, born)
    BY TurnParts
  <1>3. InRound(r, t, convs, lock, born)
    BY <1>1, <1>2 DEF Turns, InRound
  <1>4. Replied(r, t, convs)
    BY <1>1, <1>2 DEF Turns, Replied
  <1>5. Flushed(r.own, t) /\ Valid(r.history)
    BY <1>1, NothingFlushed
  <1>6. Turns(r, t, convs, lock, born)
    BY <1>3, <1>4, <1>5 DEF Turns
  <1> QED
    BY <1>1, <1>6, TurnOnly

(* One that commits does so with its reply, or had saved it before.        *)
LEMMA CommitKeeps ==
    ASSUME ChatAssumption, ChatIInv, NEW t \in Turn, NEW saved \in BOOLEAN,
           NEW ok \in {"ok", "failed"}, Done(t, saved, ok), UNCHANGED born, CanSave(t),
           NEW more \in Seq(ChatRow), Follows(more), Headed(more), SaveRows(t, more),
           \/ \E m \in Range(more) : m.turn = t /\ IsReply(m)
           \/ saved => turn[t].saved /\ turn[t].pc \in {"streaming", "done"}
    PROVE  ChatIInv'
  <1>1. PICK r \in ChatTurn :
             /\ turn' = [turn EXCEPT ![t] = r] /\ r.pc = "done" /\ r.saved = saved
             /\ r.own = <<>> /\ r.conv = turn[t].conv /\ r.born = turn[t].born
             /\ r.history = <<>>
    BY DoneParts
  <1>2. Valid(r.history)
    BY <1>1, NothingFlushed
  <1> QED
    BY <1>1, <1>2, SaveKeeps

LEMMA FinishKeeps ==
    ASSUME ChatAssumption, ChatIInv, NEW t \in Turn, Finish(t)
    PROVE  ChatIInv'
  <1>1. /\ turn[t].pc = "streaming" /\ Done(t, turn[t].saved, "ok") /\ UNCHANGED born
        /\ turn[t].saved \in BOOLEAN /\ "ok" \in {"ok", "failed"}
    BY TurnParts DEF Finish
  <1>2. CASE CanSave(t)
    <2>1. SaveRows(t, <<>>)
      BY <1>2 DEF Finish
    <2>2. <<>> \in Seq(ChatRow) /\ Follows(<<>>) /\ Headed(<<>>)
      BY NothingFlushed DEF Flushed
    <2>3. turn[t].saved => turn[t].saved /\ turn[t].pc \in {"streaming", "done"}
      BY <1>1
    <2> QED
      BY <1>1, <1>2, <2>1, <2>2, <2>3, CommitKeeps
  <1>3. CASE ~CanSave(t)
    <2>1. UNCHANGED <<convs, born, lock>>
      BY <1>3 DEF Finish
    <2>2. lock # t
      BY <1>3, LockerCanSave
    <2> QED
      BY <1>1, <2>1, <2>2, DoneKeeps
  <1> QED
    BY <1>2, <1>3

LEMMA PlaceholderKeeps ==
    ASSUME ChatAssumption, ChatIInv, NEW t \in Turn, NEW ok \in {"ok", "failed"},
           Placeholder(t, ok), UNCHANGED born
    PROVE  ChatIInv'
  <1>1. CASE CanSave(t)
    <2> DEFINE m == Message(t, "assistant", {}, Nothing)
    <2>1. SaveRows(t, <<m>>) /\ Done(t, TRUE, ok)
      BY <1>1 DEF Placeholder
    <2>2. /\ m.turn = t /\ IsReply(m) /\ m \in Range(<<m>>) /\ <<m>> \in Seq(ChatRow)
          /\ Follows(<<m>>) /\ Headed(<<m>>)
      BY OneMessage DEF Flushed
    <2> HIDE DEF m
    <2> QED
      BY <1>1, <2>1, <2>2, CommitKeeps
  <1>2. CASE ~CanSave(t)
    <2>1. Done(t, FALSE, ok) /\ UNCHANGED <<convs, born, lock>>
      BY <1>2 DEF Placeholder
    <2>2. lock # t
      BY <1>2, LockerCanSave
    <2> QED
      BY <2>1, <2>2, DoneKeeps
  <1> QED
    BY <1>1, <1>2

LEMMA CloseKeeps ==
    ASSUME ChatAssumption, ChatIInv, NEW t \in Turn, Close(t)
    PROVE  ChatIInv'
  <1>1. turn[t].pc = "broken" /\ Done(t, FALSE, "failed") /\ UNCHANGED <<convs, born, lock>>
    BY DEF Close
  <1>2. lock # t
    BY <1>1, TurnParts DEF Turns, InRound
  <1>3. "failed" \in {"ok", "failed"} /\ FALSE \in BOOLEAN
    OBVIOUS
  <1> QED
    BY <1>1, <1>2, <1>3, DoneKeeps

-----------------------------------------------------------------------------
(* The beginning of a turn                                                 *)

(* A new conversation gets an id above the others.                         *)
LEMMA FreshIdIs ==
    ASSUME ChatAssumption, NEW b, Conversations(convs, b)
    PROVE  FreshId \in Nat \ {0}
  <1>1. DOMAIN convs \in SUBSET (0 .. MaxConv) /\ MaxConv \in Nat
    BY DEF Conversations, ChatAssumption
  <1>2. DOMAIN convs # {} => Max(DOMAIN convs) \in DOMAIN convs
    BY <1>1, GreatestOf, Zenon
  <1> QED
    BY <1>1, <1>2 DEF FreshId

(* The conversations a turn finds: those there are, or a new one as well,  *)
(* which was created later than any other.                                 *)
LEMMA Found ==
    ASSUME ChatAssumption, ChatIInv, NEW c, c \in DOMAIN convs \/ FreshId <= MaxConv
    PROVE  LET id == IF c \in DOMAIN convs THEN c ELSE FreshId
               now == Conversation(c)
               last == Max({born} \cup {now[d].born : d \in DOMAIN now})
           IN /\ Conversations(now, last) /\ Keeps(convs, now, born) /\ id \in DOMAIN now
              /\ last \in Nat /\ born <= last /\ DOMAIN convs \subseteq DOMAIN now
              /\ id \in 1 .. MaxConv
  <1> DEFINE id == IF c \in DOMAIN convs THEN c ELSE FreshId
             now == Conversation(c)
             S == {born} \cup {now[d].born : d \in DOMAIN now}
             last == Max(S)
  <1>1. born \in Nat /\ Conversations(convs, born) /\ born + 1 \in Nat
    BY DEF ChatIInv
  <1>2. \A d \in DOMAIN convs : /\ convs[d].born \in 1 .. born /\ convs[d].log \in Seq(ChatRow)
                                /\ convs[d] \in [born : 1 .. born, log : Seq(ChatRow)]
                                /\ Follows(convs[d].log) /\ d \in 1 .. MaxConv
    BY <1>1 DEF Conversations
  <1>3. CASE c \in DOMAIN convs
    <2>1. now = convs /\ id = c
      BY <1>3 DEF Conversation
    <2>2. S \in SUBSET (0 .. born) /\ born \in S
      BY <1>1, <1>2, <2>1
    <2>3. last \in S /\ \A x \in S : x <= last
      BY <1>1, <2>2, GreatestOf
    <2>4. last = born
      <3> HIDE DEF S, last
      <3>1. last \in 0 .. born /\ born <= last
        BY <2>2, <2>3
      <3> QED
        BY <1>1, <3>1
    <2>5. born <= born
      BY <1>1
    <2> HIDE DEF now, id, last
    <2>6. id \in 1 .. MaxConv
      BY <1>2, <1>3, <2>1
    <2> QED
      BY <1>1, <1>3, <2>1, <2>4, <2>5, <2>6, NothingLost DEF now, id, last
  <1>4. CASE c \notin DOMAIN convs
    <2>1. PICK f : f = FreshId
      OBVIOUS
    <2>2. f \in 1 .. MaxConv
      <3>1. FreshId \in Nat \ {0} /\ FreshId <= MaxConv /\ MaxConv \in Nat
        BY <1>1, <1>4, FreshIdIs DEF ChatAssumption
      <3> QED
        BY <2>1, <3>1
    <2> DEFINE fresh == [born |-> born + 1, log |-> <<>>]
    <2>3. /\ now = [d \in DOMAIN convs \cup {f} |-> IF d = f THEN fresh ELSE convs[d]]
          /\ id = f
      BY <1>4, <2>1 DEF Conversation
    <2>4. /\ DOMAIN now = DOMAIN convs \cup {f} /\ now[f] = fresh
          /\ \A d \in DOMAIN convs \ {f} : now[d] = convs[d]
      BY <2>3
    <2>5. fresh.born = born + 1 /\ fresh.log = <<>> /\ fresh \in [born : 1 .. born + 1, log : Seq(ChatRow)]
      BY <1>1, NothingFlushed
    <2> HIDE DEF now, fresh
    <2>6. S \in SUBSET (0 .. born + 1) /\ born \in S /\ born + 1 \in S
      BY <1>1, <1>2, <2>4, <2>5
    <2>7. last \in S /\ \A x \in S : x <= last
      BY <1>1, <2>6, GreatestOf
    <2>8. last = born + 1
      <3> HIDE DEF S, last
      <3>1. last \in 0 .. born + 1 /\ born + 1 <= last
        BY <2>6, <2>7
      <3> QED
        BY <1>1, <3>1
    <2> HIDE DEF last, id, S
    <2>9. Conversations(now, born + 1)
      <3>1. ASSUME NEW d \in DOMAIN now
            PROVE  /\ now[d] \in [born : 1 .. born + 1, log : Seq(ChatRow)]
                   /\ Follows(now[d].log) /\ d \in 1 .. MaxConv
        <4>1. CASE d = f
          BY <2>2, <2>4, <2>5, <4>1, NothingFlushed DEF Flushed
        <4>2. CASE d # f
          <5>1. d \in DOMAIN convs /\ now[d] = convs[d]
            BY <2>4, <4>2
          <5>2. 1 .. born \subseteq 1 .. born + 1
            BY <1>1
          <5> QED
            BY <1>2, <5>1, <5>2
        <4> QED
          BY <4>1, <4>2
      <3>2. now = [d \in DOMAIN now |-> now[d]]
        BY <2>3 DEF now
      <3> QED
        BY <3>1, <3>2 DEF Conversations
    <2>10. Keeps(convs, now, born)
      <3>1. born + 1 > born
        BY <1>1
      <3> QED
        BY <2>4, <2>5, <3>1 DEF Keeps
    <2>11. born <= born + 1 /\ f \in DOMAIN now
      BY <1>1, <2>4
    <2> QED
      BY <1>1, <2>2, <2>3, <2>4, <2>8, <2>9, <2>10, <2>11 DEF now, id, last, S
  <1> QED
    BY <1>3, <1>4

LEMMA BeginKeeps ==
    ASSUME ChatAssumption, ChatIInv, NEW t \in Turn, NEW c \in 0 .. MaxConv, BeginTurn(t, c)
    PROVE  ChatIInv'
  <1> DEFINE id == IF c \in DOMAIN convs THEN c ELSE FreshId
             now == Conversation(c)
             last == Max({born} \cup {now[d].born : d \in DOMAIN now})
             r == [IdleTurn EXCEPT !.pc = "opened", !.conv = id, !.born = now[id].born]
  <1>1. /\ Conversations(now, last) /\ Keeps(convs, now, born) /\ id \in DOMAIN now
        /\ last \in Nat /\ born <= last /\ DOMAIN convs \subseteq DOMAIN now
        /\ id \in 1 .. MaxConv
    BY Found DEF BeginTurn
  <1>2. /\ turn' = [turn EXCEPT ![t] = r] /\ born' = last /\ lock' = lock /\ lock = Nothing
        /\ convs' = now
    BY DEF BeginTurn
  <1> HIDE DEF id, now, last
  <1>3. now[id].born \in 1 .. last
    BY <1>1 DEF Conversations
  <1>4. /\ r \in ChatTurn /\ r.pc = "opened" /\ r.own = <<>> /\ r.history = <<>>
        /\ r.born = now[id].born
    <2>1. id \in 0 .. MaxConv /\ now[id].born \in Nat
      BY <1>1, <1>3
    <2>2. r \in ChatTurn
      BY <2>1, IdleParts DEF ChatTurn, TurnStates
    <2> QED
      BY <2>2, IdleParts DEF ChatTurn
  <1> HIDE DEF r
  <1>5. Nothing \notin Turn
    BY DEF ChatAssumption
  <1>6. Turns(r, t, convs', lock', born')
    <2>1. InRound(r, t, convs', lock', born')
      <3>1. r.born <= last
        BY <1>1, <1>3, <1>4
      <3> QED
        BY <1>2, <1>4, <1>5, <3>1 DEF InRound
    <2>2. Replied(r, t, convs')
      BY <1>4 DEF Replied
    <2> QED
      BY <1>4, <2>1, <2>2, NothingFlushed DEF Turns
  <1> QED
    BY <1>1, <1>2, <1>5, <1>6, StepKeeps

(* The history is read and the message stored, or the turn is refused.     *)
LEMMA PostKeeps ==
    ASSUME ChatAssumption, ChatIInv, NEW t \in Turn, Post(t)
    PROVE  ChatIInv'
  <1> DEFINE id == turn[t].conv
  <1>1. CASE id \notin DOMAIN convs
    <2>1. Refuse(t) /\ UNCHANGED <<convs, born, lock>> /\ turn[t].pc = "opened"
      BY <1>1 DEF Post
    <2>2. "refused" \in {"refused", "unstarted"}
      OBVIOUS
    <2> QED
      BY <2>1, <2>2, GivesUpKeeps DEF Refuse
  <1>2. CASE id \in DOMAIN convs
    <2> DEFINE history == Replayed(convs[id].log)
               torn == PartlyAnswered(Recent(convs[id].log))
               m == Message(t, "user", {}, Nothing)
               r == [turn[t] EXCEPT !.pc = "extract", !.history = history, !.torn = torn]
               log == Append(convs[id].log, m)
    <2>1. /\ turn' = [turn EXCEPT ![t] = r] /\ UNCHANGED <<born, lock>>
          /\ convs' = [convs EXCEPT ![id].log = log]
      BY <1>2, TurnParts DEF Post, ChatTurn
    <2>2. /\ Turns(turn[t], t, convs, lock, born) /\ born \in Nat /\ Conversations(convs, born)
          /\ lock # t /\ Nothing \notin Turn /\ born <= born
      BY TurnParts DEF Post, Turns, InRound, ChatIInv, ChatAssumption
    <2>3. convs[id].log \in Seq(ChatRow) /\ Follows(convs[id].log)
      BY <1>2, <2>2 DEF Conversations
    <2>4. history \in Seq(ChatRow) /\ (torn \/ Valid(history)) /\ torn \in BOOLEAN
      BY <2>3, ReplayOf DEF PartlyAnswered
    <2> HIDE DEF history, torn
    <2>5. m \in ChatRow /\ <<m>> \in Seq(ChatRow) /\ Follows(<<m>>) /\ Headed(<<m>>)
      BY OneMessage DEF Flushed
    <2> HIDE DEF m
    <2>6. log \in Seq(ChatRow) /\ Follows(log) /\ Range(convs[id].log) \subseteq Range(log)
      <3>1. log = convs[id].log \o <<m>>
        BY <2>3, <2>5, AppendIsConcat
      <3> QED
        BY <2>3, <2>5, <3>1, FollowsOn
    <2> HIDE DEF log
    <2>7. convs \in [DOMAIN convs -> [born : 1 .. born, log : Seq(ChatRow)]]
      BY <2>2 DEF Conversations
    <2>8. /\ convs'[id] = [convs[id] EXCEPT !.log = log] /\ DOMAIN convs' = DOMAIN convs
          /\ \A d \in DOMAIN convs \ {id} : convs'[d] = convs[d]
      BY <1>2, <2>1
    <2>9. convs'[id].log = log /\ convs'[id].born = convs[id].born
      BY <1>2, <2>7, <2>8
    <2>10. Conversations(convs', born)
      <3>1. convs' \in [DOMAIN convs -> [born : 1 .. born, log : Seq(ChatRow)]]
        BY <1>2, <2>1, <2>6, <2>7
      <3> QED
        BY <2>2, <2>6, <2>8, <2>9, <3>1 DEF Conversations
    <2>11. Keeps(convs, convs', born)
      BY <2>6, <2>8, <2>9 DEF Keeps
    <2>12. r \in ChatTurn
      BY <2>4, TurnParts DEF ChatTurn, TurnStates
    <2>13. /\ r.pc = "extract" /\ r.own = turn[t].own /\ r.history = history /\ r.torn = torn
           /\ r.born = turn[t].born
      BY TurnParts DEF ChatTurn
    <2> HIDE DEF r
    <2>14. Turns(r, t, convs', lock', born')
      <3>1. InRound(r, t, convs', lock', born')
        BY <2>1, <2>2, <2>13 DEF Turns, InRound
      <3>2. Replied(r, t, convs')
        BY <2>13 DEF Replied
      <3> QED
        BY <2>2, <2>4, <2>12, <2>13, <3>1, <3>2 DEF Turns
    <2> QED
      BY <2>1, <2>2, <2>8, <2>10, <2>11, <2>14, StepKeeps
  <1> QED
    BY <1>1, <1>2

(* A conversation is deleted when no turn has flushed anything.            *)
LEMMA DeleteKeeps ==
    ASSUME ChatAssumption, ChatIInv, NEW c \in DOMAIN convs, DeleteConversation(c)
    PROVE  ChatIInv'
  <1>1. /\ born \in Nat /\ Conversations(convs, born) /\ Nothing \notin Turn
        /\ turn = [t \in Turn |-> turn[t]]
    BY DEF ChatIInv, ChatAssumption
  <1>2. /\ convs' = [d \in DOMAIN convs \ {c} |-> convs[d]] /\ UNCHANGED <<born, turn, lock>>
        /\ lock = Nothing
    BY DEF DeleteConversation, Restrict
  <1>3. Conversations(convs', born)
    BY <1>1, <1>2 DEF Conversations
  <1>4. Keeps(convs, convs', born)
    BY <1>2 DEF Keeps
  <1>5. ASSUME NEW t \in Turn PROVE Turns(turn[t], t, convs', lock, born)
    <2>1. Turns(turn[t], t, convs, lock, born) /\ lock # t /\ born <= born
      BY <1>1, <1>2, TurnParts
    <2> QED
      BY <1>1, <1>4, <2>1, OthersKeep
  <1> QED
    BY <1>1, <1>2, <1>3, <1>5 DEF ChatIInv

-----------------------------------------------------------------------------
(* The theorems                                                            *)

LEMMA ChatInitIInv == ASSUME ChatAssumption, ChatInit PROVE ChatIInv
  <1>1. /\ convs = <<>> /\ born = 0 /\ lock = Nothing /\ turn = [t \in Turn |-> IdleTurn]
        /\ DOMAIN convs = {} /\ Nothing \notin Turn /\ MaxConv \in Nat
    BY DEF ChatInit, ChatAssumption
  <1>2. Conversations(convs, born)
    BY <1>1 DEF Conversations
  <1>3. ASSUME NEW t \in Turn PROVE Turns(IdleTurn, t, convs, lock, born)
    <2>1. IdleTurn \in ChatTurn /\ IdleTurn.pc = "idle" /\ IdleTurn.own = <<>>
          /\ IdleTurn.history = <<>> /\ IdleTurn.born = 0
      BY IdleParts
    <2>2. InRound(IdleTurn, t, convs, lock, born)
      BY <1>1, <2>1 DEF InRound
    <2>3. Replied(IdleTurn, t, convs)
      BY <2>1 DEF Replied
    <2> QED
      BY <2>1, <2>1, <2>2, <2>3, NothingFlushed DEF Turns
  <1> QED
    BY <1>1, <1>2, <1>3 DEF ChatIInv

LEMMA ChatStepIInv == ASSUME ChatAssumption, ChatIInv, [ChatNext]_chatVars PROVE ChatIInv'
  <1>1. CASE UNCHANGED chatVars
    BY <1>1 DEF chatVars, ChatIInv, Turns, InRound, Replied, Conversations
  <1>2. ASSUME NEW c \in DOMAIN convs, DeleteConversation(c) PROVE ChatIInv'
    BY <1>2, DeleteKeeps
  <1>3. ASSUME NEW t \in Turn, NEW c \in 0 .. MaxConv, BeginTurn(t, c) PROVE ChatIInv'
    BY <1>3, BeginKeeps
  <1>4. ASSUME NEW t \in Turn, Extract(t) PROVE ChatIInv'
    <2>1. 1 \in 1 .. 2 /\ 2 \in 1 .. 2
      OBVIOUS
    <2> QED
      BY <1>4, <2>1, MockAgentKeeps, ReplyKeeps, AskKeeps
         DEF Extract, Searched, Grouped, ShowProducts
  <1>5. ASSUME NEW t \in Turn, MockReply(t) PROVE ChatIInv'
    BY <1>5, ReplyKeeps DEF MockReply
  <1>6. ASSUME NEW t \in Turn, Chat(t) PROVE ChatIInv'
    BY <1>6, ReplyKeeps, MockAgentKeeps, CallToolsKeeps DEF Chat, Unreachable, ShowProducts
  <1>7. ASSUME NEW t \in Turn, Final(t) PROVE ChatIInv'
    BY <1>7, ReplyKeeps, UnsavedKeeps DEF Final
  <1>8. ASSUME NEW t \in Turn, Interrupt(t) PROVE ChatIInv'
    <2>1. "ok" \in {"ok", "failed"} /\ "failed" \in {"ok", "failed"}
      OBVIOUS
    <2> QED
      BY <1>8, <2>1, PlaceholderKeeps DEF Interrupt
  <1>9. ASSUME NEW t \in Turn, RunTool(t) \/ Finish(t) \/ Close(t) PROVE ChatIInv'
    BY <1>9, RunToolKeeps, FinishKeeps, CloseKeeps
  <1>10. ASSUME NEW t \in Turn, Post(t) \/ Refused(t) \/ NeverStarted(t) PROVE ChatIInv'
    BY <1>10, PostKeeps, RefusedKeeps, NeverStartedKeeps
  <1> QED
    BY <1>1, <1>2, <1>3, <1>4, <1>5, <1>6, <1>7, <1>8, <1>9, <1>10 DEF ChatNext

LEMMA ChatIInvAlways == ASSUME ChatAssumption PROVE ChatSpec => []ChatIInv
  <1>1. ChatInit => ChatIInv
    BY ChatInitIInv
  <1>2. ChatIInv /\ [ChatNext]_chatVars => ChatIInv'
    BY ChatStepIInv
  <1> QED
    BY <1>1, <1>2, PTL DEF ChatSpec

(* AiChat: conversations are sequences of messages, and only a turn that   *)
(* has flushed rows holds the lock.                                        *)
THEOREM ChatTypesAlways == ASSUME ChatAssumption PROVE ChatSpec => []ChatTypeOK
  <1>1. ASSUME ChatIInv PROVE ChatTypeOK
    <2>1. \A t \in Turn : turn[t] \in ChatTurn /\ ((lock = t) <=> (turn[t].own # <<>>))
      BY <1>1 DEF ChatIInv, Turns, InRound
    <2> QED
      BY <1>1, <2>1 DEF ChatIInv, ChatTypeOK, Conversations
  <1> QED
    BY <1>1, ChatIInvAlways, PTL

(* get_messages_for_context: the history replayed to the model is valid,   *)
(* whatever window it was cut to and whoever wrote to the conversation, if *)
(* no message in it has only some of its calls answered.                   *)
THEOREM ReplayIsAlwaysValid == ASSUME ChatAssumption PROVE ChatSpec => []UntornReplayIsValid
  <1>1. ChatIInv => UntornReplayIsValid
    BY DEF ChatIInv, Turns, UntornReplayIsValid
  <1> QED
    BY <1>1, ChatIInvAlways, PTL

(* ai_chat's finally clause: a turn whose stream started and that ended    *)
(* without a refused save left a reply in its conversation, wherever it    *)
(* was cut off.                                                            *)
THEOREM TurnsAreAnswered == ASSUME ChatAssumption PROVE ChatSpec => []CutTurnIsAnswered
  <1>1. ASSUME ChatIInv PROVE CutTurnIsAnswered
    <2>1. ASSUME NEW t \in Turn, turn[t].pc = "done", turn[t].saved, InOwnConversation(t)
          PROVE  Replies(t) # {}
      <3>1. Replied(turn[t], t, convs)
        BY <1>1 DEF ChatIInv, Turns
      <3>2. PICK m \in Range(convs[turn[t].conv].log) : m.turn = t /\ IsReply(m)
        BY <2>1, <3>1 DEF Replied, InOwnConversation
      <3>3. PICK i \in DOMAIN convs[turn[t].conv].log : m = convs[turn[t].conv].log[i]
        BY <3>2 DEF Range
      <3> QED
        BY <3>2, <3>3 DEF Replies
    <2> QED
      BY <2>1 DEF CutTurnIsAnswered
  <1> QED
    BY <1>1, ChatIInvAlways, PTL

-----------------------------------------------------------------------------
(* All components                                                          *)

(* What TLC checks, one component at a time, are behaviours of each.       *)
LEMMA DataIsOfEach ==
    DataSpec => Spec /\ BomSpec /\ CatalogSpec /\ StoreSpec /\ ChatSpec
  <1>1. DataInit => Init /\ BomInit /\ CatalogInit /\ StoreInit /\ ChatInit
    BY DEF DataInit
  <1>2. [DataNext]_dataVars =>
            /\ [Next]_schemaVars /\ [BomNext]_bomVars /\ [CatalogNext]_catalogVars
            /\ [StoreNext]_storeVars /\ [ChatNext]_chatVars
    BY DEF DataNext, OnlyBom, OnlyCatalog, OnlyFiles, OnlyChat, OnlySchema, dataVars
  <1> QED
    BY <1>1, <1>2, PTL DEF DataSpec, Spec, BomSpec, CatalogSpec, StoreSpec, ChatSpec

(* So the types of all of them hold there as well.                         *)
THEOREM DataTypesAlways == DataSpec => []TypesOK
  <1>1. TypeOK /\ StoreTypeOK /\ CatalogTypeOK /\ BomTypeOK /\ ChatTypeOK => TypesOK
    BY DEF TypesOK
  <1>2. /\ SchemaAssumption /\ StoreAssumption /\ CatalogAssumption /\ BomAssumption
        /\ ChatAssumption
    BY DataAssumption
  <1>3. Spec => []TypeOK
    BY <1>2, SchemaTypesAlways
  <1>4. StoreSpec => []StoreTypeOK
    BY <1>2, StoreTypesAlways
  <1>5. CatalogSpec => []CatalogTypeOK
    BY <1>2, CatalogTypesAlways
  <1>6. BomSpec => []BomTypeOK
    BY <1>2, BomTypesAlways
  <1>7. ChatSpec => []ChatTypeOK
    BY <1>2, ChatTypesAlways
  <1> QED
    BY <1>1, <1>3, <1>4, <1>5, <1>6, <1>7, DataIsOfEach, PTL
=============================================================================
