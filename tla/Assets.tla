------------------------------- MODULE Assets -------------------------------
(***************************************************************************)
(* The files under assets/, the table that registers them, the rows of the *)
(* tasks that refer to them, and the collection of the files nobody refers *)
(* to (tasks/asset_store.py, tasks/asset_gc.py).                           *)
(*                                                                         *)
(* Tasks make files and save references to them; an upload is registered   *)
(* before it is referred to.  The next episode of a series inherits the    *)
(* pictures of its parent.  After a deletion, and when the process starts, *)
(* a collection reads the references and the registry, removes files from  *)
(* the disk and rows from the registry.  All of it runs in one process     *)
(* (jobs in local mode); an action is the code between two awaits.  The    *)
(* database is MySQL: the two reads of a collection, being of one          *)
(* transaction, see the same snapshot.                                     *)
(***************************************************************************)
EXTENDS Naturals, FiniteSets

CONSTANTS Task,       \* a task's name also stands for its own video and film
          Image,      \* generated pictures, img_<uuid>
          Upload,     \* files under uploads/
          Foreign,    \* files nobody has registered
          Deletion,   \* requests that delete a task
          Boot,       \* the lifespan's startup
          None,       \* no row; nothing in memory; no parent
          Requests    \* bound: users' requests and crashes

ASSUME FilesAssumption ==
  /\ Task \cap (Image \cup Upload \cup Foreign) = {}
  /\ Image \cap (Upload \cup Foreign) = {} /\ Upload \cap Foreign = {}
ASSUME NamesAssumption == Boot \notin Deletion /\ None \notin Task \cup Nat
ASSUME TaskAssumption == IsFiniteSet(Task)
ASSUME RequestsAssumption == Requests \in Nat

File      == Task \cup Image \cup Upload \cup Foreign
Collector == Deletion \cup {Boot}

VARIABLES disk,      \* the files that exist
          asset,     \* asset[f]: ref_count in f's row of the table, or None
          row,       \* row[t]: the files the row of t refers to, or None
          parent,    \* parent[t]: the root of the series t continues, or None
          held,      \* held[t]: what the object of t in memory refers to, or None
          marked,    \* _deleted_ids
          pc,        \* pc[c]: where the deletion or the startup stands
          target,    \* target[c]: the task it deletes
          read,      \* read[c]: references and registered files it has read
          gone,      \* gone[c]: the rows of the registry it is about to delete
          asked,     \* requests and crashes so far
          deleted,   \* history: tasks whose rows were deleted
          saved,     \* history: files a row has referred to
          written,   \* history: tasks whose rows were written during a collection
          fresh      \* fresh[c]: history: files first saved since c has read

tasks   == <<row, parent, held, marked>>
work    == <<pc, target, read, gone>>
history == <<deleted, saved, written, fresh>>
vars    == <<disk, asset, tasks, work, asked, history>>

NothingRead == [refs |-> {}, known |-> {}]

Rows       == {t \in Task : row[t] # None}
Referenced == UNION {row[t] : t \in Rows}
Registered == {f \in File : asset[f] # None}
RefCount(f) == Cardinality({t \in Rows : f \in row[t]})

Idle == \A c \in Collector : pc[c] = "idle"
Up   == pc[Boot] = "idle"

Ask == Up /\ asked < Requests /\ asked' = asked + 1

\* sync_task_assets: what is referred to gets a row, unless it has one.
Synced(files) == [f \in File |-> IF f \in files /\ asset[f] = None THEN 1 ELSE asset[f]]

Write(t, files) == /\ row' = [row EXCEPT ![t] = files]
                   /\ asset' = Synced(files)
                   /\ saved' = saved \cup files
                   /\ written' = IF Idle THEN {} ELSE written \cup {t}
                   /\ fresh' = [c \in Collector |-> fresh[c] \cup (files \ saved)]

-----------------------------------------------------------------------------
Init == /\ disk = Foreign
        /\ asset = [f \in File |-> None]
        /\ row = [t \in Task |-> None]
        /\ parent = [t \in Task |-> None] /\ held = [t \in Task |-> None]
        /\ marked = {}
        /\ pc = [c \in Collector |-> "idle"]
        /\ target = [c \in Collector |-> None]
        /\ read = [c \in Collector |-> NothingRead] /\ gone = [c \in Collector |-> {}]
        /\ asked = 0
        /\ deleted = {} /\ saved = {} /\ written = {}
        /\ fresh = [c \in Collector |-> {}]

\* submit_new_task: a new task; an episode takes over the pictures of the one it
\* continues, as that is in memory.  Of a series that was deleted the episodes
\* still are.
Submit(t, p) ==
  /\ Ask
  /\ row[t] = None /\ held[t] = None /\ t \notin deleted
  /\ p # None => held[p] # None /\ p \notin marked
  /\ held' = [held EXCEPT ![t] = IF p = None THEN {} ELSE held[p] \cap (Image \cup Upload)]
  /\ parent' = [parent EXCEPT ![t] = IF p = None \/ parent[p] = None THEN p ELSE parent[p]]
  /\ UNCHANGED <<disk, asset, row, marked, work, history>>

\* A task is read from its row.
Load(t) == /\ Up /\ row[t] # None /\ held[t] = None
           /\ held' = [held EXCEPT ![t] = row[t]]
           /\ UNCHANGED <<disk, asset, row, parent, marked, work, asked, history>>

\* A picture with a new name or the task's video is written and referred to; a
\* job that began before the deletion of its task goes on.
Make(t, f) == /\ Ask
              /\ held[t] # None
              /\ f = t \/ f \in Image \ (disk \cup saved)
              /\ disk' = disk \cup {f}
              /\ held' = [held EXCEPT ![t] = @ \cup {f}]
              /\ UNCHANGED <<asset, row, parent, marked, work, history>>

\* A picture is cleared or redrawn, the segments are made anew.
Forget(t, f) == /\ Ask
                /\ held[t] # None /\ f \in held[t]
                /\ held' = [held EXCEPT ![t] = @ \ {f}]
                /\ UNCHANGED <<disk, asset, row, parent, marked, work, history>>

\* replace_image: save_user_upload writes the file, ...
UploadFile(f) == /\ Ask
                 /\ f \in Upload \ disk
                 /\ disk' = disk \cup {f}
                 /\ UNCHANGED <<asset, tasks, work, history>>

\* ... register_upload_row registers it, and the task refers to it.
RegisterUpload(t, f) == /\ Up
                        /\ f \in Upload \cap disk /\ asset[f] = None
                        /\ held[t] # None
                        /\ asset' = [asset EXCEPT ![f] = 1]
                        /\ held' = [held EXCEPT ![t] = @ \cup {f}]
                        /\ UNCHANGED <<disk, row, parent, marked, work, asked, history>>

\* _save_task, update_task: the row gets the references and the registry their
\* files in one transaction.  A row that is not there is created, of a task that
\* is not parsed yet without references, unless the task is marked as deleted.
Save(t) == /\ Up /\ held[t] # None
           /\ row[t] = None => t \notin marked
           /\ \E files \in {held[t]} \cup (IF row[t] = None THEN {{}} ELSE {}) :
                row[t] # files /\ Write(t, files)
           /\ UNCHANGED <<disk, parent, held, marked, work, asked, deleted>>

-----------------------------------------------------------------------------
\* DELETE /api/tasks/{task_id}: the task is marked, and its row and those of its
\* episodes go; a second request, or one for an episode that went with its root,
\* finds nothing to delete, but goes on all the same, ...
Delete(d, t) ==
  LET doomed == {u \in Rows : row[t] # None /\ (u = t \/ parent[u] = t)}
  IN  /\ Ask
      /\ pc[d] = "idle" /\ (row[t] # None \/ t \in deleted)
      /\ row' = [u \in Task |-> IF u \in doomed THEN None ELSE row[u]]
      /\ marked' = marked \cup {t}
      /\ deleted' = deleted \cup doomed
      /\ written' = IF Idle THEN {} ELSE written
      /\ pc' = [pc EXCEPT ![d] = "remove"]
      /\ target' = [target EXCEPT ![d] = t]
      /\ UNCHANGED <<disk, asset, parent, held, read, gone, saved, fresh>>

\* ... remove_task_assets removes what is named after the task, ...
RemoveTaskAssets(d) == /\ pc[d] = "remove"
                       /\ disk' = disk \ {target[d]}
                       /\ pc' = [pc EXCEPT ![d] = "read"]
                       /\ UNCHANGED <<asset, tasks, target, read, gone, asked, history>>

Ends(c) == /\ pc' = [pc EXCEPT ![c] = "idle"]
           /\ target' = [target EXCEPT ![c] = None]
           /\ read' = [read EXCEPT ![c] = NothingRead]
           /\ gone' = [gone EXCEPT ![c] = {}]

\* A slip: the references of the episodes are not read.
ReadOfRoots(c) ==
  LET refs == UNION {row[t] : t \in {u \in Rows : parent[u] = None}}
  IN  /\ pc[c] = "read" /\ refs # {}
      /\ pc' = [pc EXCEPT ![c] = "sweep"]
      /\ read' = [read EXCEPT ![c] = [refs |-> refs, known |-> Registered]]
      /\ fresh' = [fresh EXCEPT ![c] = {}]
      /\ UNCHANGED <<disk, asset, tasks, target, gone, asked, deleted, saved, written>>

\* ... and gc_orphan_assets reads the references (_referenced_rel_set) and the
\* registry, ...
Read(c) == /\ pc[c] = "read" /\ Referenced # {}
           /\ pc' = [pc EXCEPT ![c] = "sweep"]
           /\ read' = [read EXCEPT ![c] = [refs |-> Referenced, known |-> Registered]]
           /\ fresh' = [fresh EXCEPT ![c] = {}]
           /\ UNCHANGED <<disk, asset, tasks, target, gone, asked, deleted, saved, written>>

\* ... leaves everything as it is if there are none, ...
SkipCollection(c) == /\ pc[c] = "read" /\ Referenced = {}
                     /\ Ends(c)
                     /\ UNCHANGED <<disk, asset, tasks, asked, history>>

\* A slip: the registry is read when the files are removed.
OrphansOfLateRead(c) == (disk \cap Registered) \ (Upload \cup read[c].refs)

Orphans(c) == (disk \cap read[c].known) \ (Upload \cup read[c].refs)

\* A slip: only the rows of the files it has removed itself are deleted.
DanglingRemoved(c) == Orphans(c)

\* A slip: that somebody refers to the file does not matter.
DanglingReferred(c) == read[c].known \ (disk \ Orphans(c))

\* The rows of files that are not there, and nobody refers to.
Dangling(c) == (read[c].known \ (disk \ Orphans(c))) \ read[c].refs

\* ... removes the orphans, without an await, and notes the rows to delete, ...
Sweep(c) == /\ pc[c] = "sweep"
            /\ disk' = disk \ Orphans(c)
            /\ gone' = [gone EXCEPT ![c] = Dangling(c)]
            /\ pc' = [pc EXCEPT ![c] = "commit"]
            /\ UNCHANGED <<asset, tasks, target, read, asked, history>>

\* ... and deletes them.
CommitCollection(c) ==
  /\ pc[c] = "commit"
  /\ asset' = [f \in File |-> IF f \in gone[c] THEN None ELSE asset[f]]
  /\ Ends(c)
  /\ UNCHANGED <<disk, tasks, asked, history>>

-----------------------------------------------------------------------------
\* The process dies, possibly amidst a sweep, and starts again.
Crash == /\ asked < Requests /\ asked' = asked + 1
         /\ \E c \in Collector : \E removed \in SUBSET Orphans(c) :
              /\ removed # {} => pc[c] = "sweep"
              /\ disk' = disk \ removed
         /\ held' = [t \in Task |-> None] /\ marked' = {}
         /\ pc' = [c \in Collector |-> IF c = Boot THEN "backfill" ELSE "idle"]
         /\ target' = [c \in Collector |-> None]
         /\ read' = [c \in Collector |-> NothingRead] /\ gone' = [c \in Collector |-> {}]
         /\ written' = {}
         /\ UNCHANGED <<asset, row, parent, deleted, saved, fresh>>

\* backfill_all_assets registers what the rows refer to ...
Backfill == /\ pc[Boot] = "backfill"
            /\ asset' = Synced(Referenced)
            /\ pc' = [pc EXCEPT ![Boot] = "count"]
            /\ UNCHANGED <<disk, tasks, target, read, gone, asked, history>>

\* ... and _rebuild_ref_counts_inner counts the references.  The collection
\* follows.
Count == /\ pc[Boot] = "count"
         /\ asset' = [f \in File |-> IF asset[f] = None THEN None ELSE RefCount(f)]
         /\ pc' = [pc EXCEPT ![Boot] = "read"]
         /\ UNCHANGED <<disk, tasks, target, read, gone, asked, history>>

Next == \/ \E t \in Task, p \in Task \cup {None} : Submit(t, p)
        \/ \E t \in Task : Load(t) \/ Save(t)
        \/ \E t \in Task, f \in File : Make(t, f) \/ Forget(t, f) \/ RegisterUpload(t, f)
        \/ \E f \in Upload : UploadFile(f)
        \/ \E d \in Deletion, t \in Task : Delete(d, t)
        \/ \E d \in Deletion : RemoveTaskAssets(d)
        \/ \E c \in Collector : \/ Read(c) \/ SkipCollection(c)
                                \/ Sweep(c) \/ CommitCollection(c)
        \/ Crash \/ Backfill \/ Count

Spec == Init /\ [][Next]_vars

-----------------------------------------------------------------------------
\* Only files that rows refer to, or uploads, are ever registered, and rows of
\* the registry are given up only when nobody was seen to refer to their files.
TypeOK ==
  /\ disk \subseteq File /\ Foreign \subseteq disk
  /\ asset \in [File -> Nat \cup {None}]
  /\ Registered \subseteq saved \cup Upload
  /\ row \in [Task -> (SUBSET File) \cup {None}] /\ held \in [Task -> (SUBSET File) \cup {None}]
  /\ parent \in [Task -> Task \cup {None}] /\ marked \subseteq deleted
  /\ \A c \in Collector : gone[c] \cap read[c].refs = {}
  /\ asked \in 0..Requests

\* Nothing is removed but the video of a deleted task and what a row referred to
\* before the collection read the rows, and that is not an upload: neither files
\* of unknown origin nor new ones, saved or not, whoever collects meanwhile
\* (asset_gc.py: principles 2 and 3).
NewAndForeignFilesStay ==
  [][\A f \in disk \ disk' :
       \/ f \in deleted
       \/ \E c \in Collector : pc[c] = "sweep" /\ f \in saved \ (Upload \cup fresh[c])]_vars

\* The files of a task whose row was not written during a collection stay, also
\* those it shares with tasks that are deleted.
SettledFilesStay ==
  [][\A t \in Rows \ written : row[t] \cap (disk \ disk') = {}]_vars

\* After a start, however the last process ended: every reference is registered
\* and counted, and what is registered is on disk or referred to.  Unless there
\* is no reference at all, no orphan is left.
StartSettles ==
  [][pc[Boot] # "idle" /\ pc'[Boot] = "idle" =>
       /\ \A f \in Referenced' : asset'[f] # None
       /\ \A f \in Registered' : asset'[f] = RefCount(f)'
       /\ Referenced' # {} =>
            \A f \in Registered' : f \in Referenced' \/ f \in disk' \cap Upload]_vars

=============================================================================
