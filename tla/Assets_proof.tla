---------------------------- MODULE Assets_proof ----------------------------
(***************************************************************************)
(* For any tasks, files and deletions: collections spare what they must,   *)
(* and a start brings the registry, the rows and the disk together.        *)
(***************************************************************************)
EXTENDS Assets, FiniteSetTheorems, TLAPS

Steps == {"idle", "remove", "read", "sweep", "commit", "backfill", "count"}

Types ==
  /\ disk \subseteq File
  /\ asset \in [File -> Nat \cup {None}]
  /\ row \in [Task -> (SUBSET File) \cup {None}] /\ held \in [Task -> (SUBSET File) \cup {None}]
  /\ parent \in [Task -> Task \cup {None}]
  /\ pc \in [Collector -> Steps] /\ target \in [Collector -> Task \cup {None}]
  /\ read \in [Collector -> [refs : SUBSET File, known : SUBSET File]]
  /\ gone \in [Collector -> SUBSET File]
  /\ asked \in 0..Requests
  /\ marked \subseteq Task /\ deleted \subseteq Task /\ saved \subseteq File /\ written \subseteq Task
  /\ fresh \in [Collector -> SUBSET File]

\* What a task may refer to: no other task's video, nothing foreign.
Own(t) == Image \cup Upload \cup {t}

Files ==
  /\ \A t \in Task : row[t] # None => row[t] \subseteq Own(t) \cap saved
  /\ \A t \in Task : held[t] # None => held[t] \subseteq Own(t)
  /\ saved \subseteq Task \cup Image \cup Upload
  /\ Registered \subseteq saved \cup Upload
  /\ marked \subseteq deleted

\* What the collections under way have read.
Reads ==
  /\ \A c \in Collector :
       /\ pc[c] = "remove" => /\ target[c] \in deleted
                              /\ row[target[c]] # None => target[c] \in written
       /\ pc[c] # "commit" => gone[c] = {}
       /\ gone[c] \cap read[c].refs = {}
       /\ pc[c] = "sweep" =>
            /\ read[c].known \subseteq saved \cup Upload
            /\ read[c].known \cap fresh[c] \subseteq Upload
            /\ \A t \in Task \ written : row[t] # None => row[t] \subseteq read[c].refs

LEMMA InitInv == Init => Types /\ Files /\ Reads
<1>. SUFFICES ASSUME Init PROVE Types /\ Files /\ Reads
  OBVIOUS
<1>1. read \in [Collector -> [refs : SUBSET File, known : SUBSET File]]
  BY DEF Init, NothingRead
<1>2. Types
  BY <1>1, RequestsAssumption DEF Init, Types, Steps, File
<1>3. Files
  BY DEF Init, Files, Registered
<1>4. Reads
  BY DEF Init, Reads
<1>. QED BY <1>2, <1>3, <1>4

LEMMA TypesStep == Types /\ [Next]_vars => Types'
<1>. SUFFICES ASSUME Types, [Next]_vars PROVE Types'
  OBVIOUS
<1>1. ASSUME NEW t \in Task, NEW p \in Task \cup {None}, Submit(t, p) PROVE Types'
  BY <1>1, RequestsAssumption DEF Submit, Ask, Types, Steps, File, Collector, Referenced, Rows, tasks, work, history
<1>2. ASSUME NEW t \in Task, Load(t) PROVE Types'
  BY <1>2, RequestsAssumption DEF Load, Types, Steps, File, Collector, Referenced, Rows, tasks, work, history
<1>3. ASSUME NEW t \in Task, Save(t) PROVE Types'
  <2>1. PICK files \in {held[t]} \cup {{}} : Write(t, files)
    BY <1>3 DEF Save
  <2>2. files \in SUBSET File
    BY <1>3 DEF Save, Types
  <2>3. asset' \in [File -> Nat \cup {None}] /\ fresh' \in [Collector -> SUBSET File]
    BY <2>1, <2>2 DEF Write, Synced, Types
  <2>. QED BY <1>3, <2>1, <2>2, <2>3 DEF Save, Write, Types, work
<1>4. ASSUME NEW t \in Task, NEW f \in File, Make(t, f) PROVE Types'
  BY <1>4, RequestsAssumption DEF Make, Ask, Types, Steps, File, Collector, Referenced, Rows, tasks, work, history
<1>5. ASSUME NEW t \in Task, NEW f \in File, Forget(t, f) PROVE Types'
  BY <1>5, RequestsAssumption DEF Forget, Ask, Types, Steps, File, Collector, Referenced, Rows, tasks, work, history
<1>6. ASSUME NEW t \in Task, NEW f \in File, RegisterUpload(t, f) PROVE Types'
  BY <1>6, RequestsAssumption DEF RegisterUpload, Types, Steps, File, Collector, Referenced, Rows, tasks, work, history
<1>7. ASSUME NEW f \in Upload, UploadFile(f) PROVE Types'
  BY <1>7, RequestsAssumption DEF UploadFile, Ask, Types, Steps, File, Collector, Referenced, Rows, tasks, work, history
<1>8. ASSUME NEW d \in Deletion, NEW t \in Task, Delete(d, t) PROVE Types'
  <2>1. row' \in [Task -> (SUBSET File) \cup {None}]
    BY <1>8 DEF Delete, Types, Rows
  <2>2. pc' \in [Collector -> Steps] /\ target' \in [Collector -> Task \cup {None}]
    BY <1>8 DEF Delete, Types, Steps, Collector
  <2>3. deleted' \subseteq Task /\ written' \subseteq Task /\ asked' \in 0..Requests
    BY <1>8, RequestsAssumption DEF Delete, Ask, Types, Rows
  <2>. QED BY <1>8, <2>1, <2>2, <2>3 DEF Delete, Types
<1>9. ASSUME NEW d \in Deletion, RemoveTaskAssets(d) PROVE Types'
  BY <1>9, RequestsAssumption DEF RemoveTaskAssets, Types, Steps, File, Collector, Referenced, Rows, tasks, work, history
<1>10. ASSUME NEW c \in Collector, Read(c) PROVE Types'
  <2>1. [refs |-> Referenced, known |-> Registered] \in [refs : SUBSET File, known : SUBSET File]
    BY DEF Types, Referenced, Registered, Rows
  <2>2. read' \in [Collector -> [refs : SUBSET File, known : SUBSET File]]
    BY <1>10, <2>1 DEF Read, Types
  <2>. QED BY <1>10, <2>2 DEF Read, Types, Steps, tasks
<1>11. ASSUME NEW c \in Collector, SkipCollection(c) PROVE Types'
  BY <1>11, RequestsAssumption DEF SkipCollection, Ends, NothingRead, Types, Steps, File, Collector, Referenced, Rows, tasks, work, history
<1>12. ASSUME NEW c \in Collector, Sweep(c) PROVE Types'
  BY <1>12, RequestsAssumption DEF Sweep, Orphans, Dangling, Types, Steps, File, Collector, Referenced, Rows, tasks, work, history
<1>13. ASSUME NEW c \in Collector, CommitCollection(c) PROVE Types'
  BY <1>13, RequestsAssumption DEF CommitCollection, Ends, NothingRead, Types, Steps, File, Collector, Referenced, Rows, tasks, work, history
<1>14. ASSUME Crash PROVE Types'
  <2>1. disk' \subseteq File
    BY <1>14 DEF Crash, Types
  <2>2. pc' \in [Collector -> Steps] /\ target' \in [Collector -> Task \cup {None}]
    BY <1>14 DEF Crash, Steps
  <2>3. /\ read' \in [Collector -> [refs : SUBSET File, known : SUBSET File]]
        /\ gone' \in [Collector -> SUBSET File]
        /\ held' \in [Task -> (SUBSET File) \cup {None}]
    BY <1>14 DEF Crash, NothingRead
  <2>4. asked' \in 0..Requests /\ written' \subseteq Task
    BY <1>14, RequestsAssumption DEF Crash, Types
  <2>. QED BY <1>14, <2>1, <2>2, <2>3, <2>4 DEF Crash, Types
<1>15. ASSUME Backfill PROVE Types'
  BY <1>15, RequestsAssumption DEF Backfill, Synced, Types, Steps, File, Collector, Referenced, Rows, tasks, work, history
<1>16. ASSUME Count PROVE Types'
  <2>1. \A f \in File : RefCount(f) \in Nat
    BY TaskAssumption, FS_Subset, FS_CardinalityType DEF RefCount, Rows
  <2>. QED BY <1>16, <2>1 DEF Count, Types, Steps, tasks, work, history, Collector
<1>17. CASE UNCHANGED vars
  BY <1>17 DEF vars, tasks, work, history, Types, Steps, File, Collector, Referenced, Rows
<1>. QED
  BY <1>1, <1>2, <1>3, <1>4, <1>5, <1>6, <1>7, <1>8, <1>9, <1>10, <1>11, <1>12, <1>13, <1>14, <1>15, <1>16, <1>17 DEF Next

LEMMA FilesStep == Types /\ Files /\ [Next]_vars => Files'
<1>. SUFFICES ASSUME Types, Files, [Next]_vars PROVE Files'
  OBVIOUS
<1>1. ASSUME NEW t \in Task, NEW p \in Task \cup {None}, Submit(t, p) PROVE Files'
  BY <1>1, FilesAssumption DEF Submit, Ask, Write, Synced, Types, Files, Own, File, Registered, Referenced, Rows, Collector, tasks, work, history
<1>2. ASSUME NEW t \in Task, Load(t) PROVE Files'
  BY <1>2, FilesAssumption DEF Load, Types, Files, Own, File, Registered, Referenced, Rows, Collector, tasks, work, history
<1>3. ASSUME NEW t \in Task, Save(t) PROVE Files'
  BY <1>3, FilesAssumption DEF Save, Write, Synced, Types, Files, Own, File, Registered, Referenced, Rows, Collector, tasks, work, history
<1>4. ASSUME NEW t \in Task, NEW f \in File, Make(t, f) PROVE Files'
  BY <1>4, FilesAssumption DEF Make, Ask, Types, Files, Own, File, Registered, Referenced, Rows, Collector, tasks, work, history
<1>5. ASSUME NEW t \in Task, NEW f \in File, Forget(t, f) PROVE Files'
  BY <1>5, FilesAssumption DEF Forget, Ask, Types, Files, Own, File, Registered, Referenced, Rows, Collector, tasks, work, history
<1>6. ASSUME NEW t \in Task, NEW f \in File, RegisterUpload(t, f) PROVE Files'
  BY <1>6, FilesAssumption DEF RegisterUpload, Types, Files, Own, File, Registered, Referenced, Rows, Collector, tasks, work, history
<1>7. ASSUME NEW f \in Upload, UploadFile(f) PROVE Files'
  BY <1>7, FilesAssumption DEF UploadFile, Ask, Types, Files, Own, File, Registered, Referenced, Rows, Collector, tasks, work, history
<1>8. ASSUME NEW d \in Deletion, NEW t \in Task, Delete(d, t) PROVE Files'
  BY <1>8, FilesAssumption DEF Delete, Ask, Types, Files, Own, File, Registered, Referenced, Rows, Collector, tasks, work, history
<1>9. ASSUME NEW d \in Deletion, RemoveTaskAssets(d) PROVE Files'
  BY <1>9, FilesAssumption DEF RemoveTaskAssets, Types, Files, Own, File, Registered, Referenced, Rows, Collector, tasks, work, history
<1>10. ASSUME NEW c \in Collector, Read(c) PROVE Files'
  BY <1>10, FilesAssumption DEF Read, Types, Files, Own, File, Registered, Referenced, Rows, Collector, tasks, work, history
<1>11. ASSUME NEW c \in Collector, SkipCollection(c) PROVE Files'
  BY <1>11, FilesAssumption DEF SkipCollection, Ends, NothingRead, Types, Files, Own, File, Registered, Referenced, Rows, Collector, tasks, work, history
<1>12. ASSUME NEW c \in Collector, Sweep(c) PROVE Files'
  BY <1>12, FilesAssumption DEF Sweep, Orphans, Dangling, Types, Files, Own, File, Registered, Referenced, Rows, Collector, tasks, work, history
<1>13. ASSUME NEW c \in Collector, CommitCollection(c) PROVE Files'
  BY <1>13, FilesAssumption DEF CommitCollection, Ends, NothingRead, Types, Files, Own, File, Registered, Referenced, Rows, Collector, tasks, work, history
<1>14. ASSUME Crash PROVE Files'
  BY <1>14, FilesAssumption DEF Crash, NothingRead, Orphans, Types, Files, Own, File, Registered, Referenced, Rows, Collector, tasks, work, history
<1>15. ASSUME Backfill PROVE Files'
  BY <1>15, FilesAssumption DEF Backfill, Synced, Types, Files, Own, File, Registered, Referenced, Rows, Collector, tasks, work, history
<1>16. ASSUME Count PROVE Files'
  BY <1>16, FilesAssumption DEF Count, Types, Files, Own, File, Registered, Referenced, Rows, Collector, tasks, work, history
<1>17. CASE UNCHANGED vars
  BY <1>17 DEF vars, tasks, work, history, Types, Files, Own, File, Registered, Referenced, Rows, Collector
<1>. QED
  BY <1>1, <1>2, <1>3, <1>4, <1>5, <1>6, <1>7, <1>8, <1>9, <1>10, <1>11, <1>12, <1>13, <1>14, <1>15, <1>16, <1>17 DEF Next

LEMMA ReadsStep == Types /\ Files /\ Reads /\ [Next]_vars => Reads'
<1>. SUFFICES ASSUME Types, Files, Reads, [Next]_vars PROVE Reads'
  OBVIOUS
<1>1. ASSUME NEW t \in Task, NEW p \in Task \cup {None}, Submit(t, p) PROVE Reads'
  BY <1>1, NamesAssumption DEF Submit, Ask, Write, Synced, Types, Files, Reads, Own, Steps, Registered, Referenced, Rows, Idle, Up, Collector, tasks, work, history
<1>2. ASSUME NEW t \in Task, Load(t) PROVE Reads'
  BY <1>2, NamesAssumption DEF Load, Types, Files, Reads, Own, Steps, Registered, Referenced, Rows, Idle, Up, Collector, tasks, work, history
<1>3. ASSUME NEW t \in Task, Save(t) PROVE Reads'
  BY <1>3, NamesAssumption DEF Save, Write, Synced, Types, Files, Reads, Own, Steps, Registered, Referenced, Rows, Idle, Up, Collector, tasks, work, history
<1>4. ASSUME NEW t \in Task, NEW f \in File, Make(t, f) PROVE Reads'
  BY <1>4, NamesAssumption DEF Make, Ask, Types, Files, Reads, Own, Steps, Registered, Referenced, Rows, Idle, Up, Collector, tasks, work, history
<1>5. ASSUME NEW t \in Task, NEW f \in File, Forget(t, f) PROVE Reads'
  BY <1>5, NamesAssumption DEF Forget, Ask, Types, Files, Reads, Own, Steps, Registered, Referenced, Rows, Idle, Up, Collector, tasks, work, history
<1>6. ASSUME NEW t \in Task, NEW f \in File, RegisterUpload(t, f) PROVE Reads'
  BY <1>6, NamesAssumption DEF RegisterUpload, Types, Files, Reads, Own, Steps, Registered, Referenced, Rows, Idle, Up, Collector, tasks, work, history
<1>7. ASSUME NEW f \in Upload, UploadFile(f) PROVE Reads'
  BY <1>7, NamesAssumption DEF UploadFile, Ask, Types, Files, Reads, Own, Steps, Registered, Referenced, Rows, Idle, Up, Collector, tasks, work, history
<1>8. ASSUME NEW d \in Deletion, NEW t \in Task, Delete(d, t) PROVE Reads'
  BY <1>8, NamesAssumption DEF Delete, Ask, Types, Files, Reads, Own, Steps, Registered, Referenced, Rows, Idle, Up, Collector, tasks, work, history
<1>9. ASSUME NEW d \in Deletion, RemoveTaskAssets(d) PROVE Reads'
  BY <1>9, NamesAssumption DEF RemoveTaskAssets, Types, Files, Reads, Own, Steps, Registered, Referenced, Rows, Idle, Up, Collector, tasks, work, history
<1>10. ASSUME NEW c \in Collector, Read(c) PROVE Reads'
  BY <1>10, NamesAssumption DEF Read, Types, Files, Reads, Own, Steps, Registered, Referenced, Rows, Idle, Up, Collector, tasks, work, history
<1>11. ASSUME NEW c \in Collector, SkipCollection(c) PROVE Reads'
  BY <1>11, NamesAssumption DEF SkipCollection, Ends, NothingRead, Types, Files, Reads, Own, Steps, Registered, Referenced, Rows, Idle, Up, Collector, tasks, work, history
<1>12. ASSUME NEW c \in Collector, Sweep(c) PROVE Reads'
  BY <1>12, NamesAssumption DEF Sweep, Orphans, Dangling, Types, Files, Reads, Own, Steps, Registered, Referenced, Rows, Idle, Up, Collector, tasks, work, history
<1>13. ASSUME NEW c \in Collector, CommitCollection(c) PROVE Reads'
  BY <1>13, NamesAssumption DEF CommitCollection, Ends, NothingRead, Types, Files, Reads, Own, Steps, Registered, Referenced, Rows, Idle, Up, Collector, tasks, work, history
<1>14. ASSUME Crash PROVE Reads'
  BY <1>14, NamesAssumption DEF Crash, NothingRead, Orphans, Types, Files, Reads, Own, Steps, Registered, Referenced, Rows, Idle, Up, Collector, tasks, work, history
<1>15. ASSUME Backfill PROVE Reads'
  BY <1>15, NamesAssumption DEF Backfill, Synced, Types, Files, Reads, Own, Steps, Registered, Referenced, Rows, Idle, Up, Collector, tasks, work, history
<1>16. ASSUME Count PROVE Reads'
  BY <1>16, NamesAssumption DEF Count, Types, Files, Reads, Own, Steps, Registered, Referenced, Rows, Idle, Up, Collector, tasks, work, history
<1>17. CASE UNCHANGED vars
  BY <1>17 DEF vars, tasks, work, history, Types, Files, Reads, Own, Steps, Registered, Referenced, Rows, Idle, Up, Collector
<1>. QED
  BY <1>1, <1>2, <1>3, <1>4, <1>5, <1>6, <1>7, <1>8, <1>9, <1>10, <1>11, <1>12, <1>13, <1>14, <1>15, <1>16, <1>17 DEF Next

\* What the startup has brought about so far; nobody else is at work.
Starting ==
  pc[Boot] # "idle" =>
    /\ pc[Boot] # "remove" /\ \A d \in Deletion : pc[d] = "idle"
    /\ pc[Boot] # "backfill" => Referenced \subseteq Registered
    /\ pc[Boot] \in {"read", "sweep", "commit"} =>
         \A f \in Registered : asset[f] = RefCount(f)
    /\ pc[Boot] = "sweep" => read[Boot].refs = Referenced /\ read[Boot].known = Registered
    /\ pc[Boot] = "commit" =>
         /\ gone[Boot] \cap Referenced = {}
         /\ Registered \subseteq gone[Boot] \cup Referenced \cup (disk \cap Upload)

IInv == Types /\ Files /\ Reads /\ Starting

\* What is computed from the rows, and from the registry, changes with them.
LEMMA RowsSame ==
  UNCHANGED row => /\ Rows' = Rows /\ Referenced' = Referenced
                   /\ \A f \in File : RefCount(f)' = RefCount(f)
<1>. SUFFICES ASSUME UNCHANGED row
     PROVE  Rows' = Rows /\ Referenced' = Referenced /\ \A f \in File : RefCount(f)' = RefCount(f)
  OBVIOUS
<1>1. Rows' = Rows
  BY DEF Rows
<1>. QED BY <1>1 DEF Referenced, RefCount

LEMMA RegisteredSame == UNCHANGED asset => Registered' = Registered
  BY DEF Registered

\* Requests are not served before the startup is over.
LEMMA ServingStep ==
  ASSUME Types, pc[Boot] = "idle", pc'[Boot] = "idle"
  PROVE  Starting'
  BY DEF Starting

LEMMA StartingStep == Types /\ Files /\ Reads /\ Starting /\ [Next]_vars => Starting'
<1>. SUFFICES ASSUME Types, Files, Reads, Starting, [Next]_vars PROVE Starting'
  OBVIOUS
<1>1. ASSUME NEW t \in Task, NEW p \in Task \cup {None}, Submit(t, p) PROVE Starting'
  BY <1>1, ServingStep DEF Submit, Ask, Up, work
<1>2. ASSUME NEW t \in Task, Load(t) \/ Save(t) PROVE Starting'
  BY <1>2, ServingStep DEF Load, Save, Up, work
<1>3. ASSUME NEW t \in Task, NEW f \in File, Make(t, f) \/ Forget(t, f) \/ RegisterUpload(t, f)
      PROVE  Starting'
  BY <1>3, ServingStep DEF Make, Forget, RegisterUpload, Ask, Up, work
<1>4. ASSUME NEW f \in Upload, UploadFile(f) PROVE Starting'
  BY <1>4, ServingStep DEF UploadFile, Ask, Up, work
<1>5. ASSUME NEW d \in Deletion, NEW t \in Task, Delete(d, t) PROVE Starting'
  <2>1. pc[Boot] = "idle" /\ pc'[Boot] = "idle"
    BY <1>5, NamesAssumption DEF Delete, Ask, Up, Types, Collector
  <2>. QED BY <2>1, ServingStep
<1>6. ASSUME NEW d \in Deletion, RemoveTaskAssets(d) PROVE Starting'
  <2>1. pc[Boot] = "idle" /\ pc'[Boot] = "idle"
    BY <1>6, NamesAssumption DEF RemoveTaskAssets, Starting, Types, Collector
  <2>. QED BY <2>1, ServingStep
<1>7. ASSUME NEW c \in Collector, c # Boot,
             Read(c) \/ SkipCollection(c) \/ Sweep(c) \/ CommitCollection(c)
      PROVE  Starting'
  <2>1. pc[Boot] = "idle" /\ pc'[Boot] = "idle"
    BY <1>7 DEF Read, SkipCollection, Sweep, CommitCollection, Ends, Starting, Types, Collector
  <2>. QED BY <2>1, ServingStep
<1>8. ASSUME Read(Boot) PROVE Starting'
  <2>1. /\ pc[Boot] = "read" /\ pc' = [pc EXCEPT ![Boot] = "sweep"]
        /\ read'[Boot].refs = Referenced /\ read'[Boot].known = Registered
        /\ UNCHANGED <<row, asset>>
    BY <1>8 DEF Read, Types, Collector, tasks
  <2>2. /\ Referenced' = Referenced /\ Registered' = Registered
        /\ \A f \in Registered' : asset'[f] = RefCount(f)'
    BY <2>1, RowsSame, RegisteredSame DEF Starting, Registered
  <2>. QED BY <2>1, <2>2, NamesAssumption DEF Starting, Types, Collector
<1>9. ASSUME SkipCollection(Boot) PROVE Starting'
  BY <1>9 DEF SkipCollection, Ends, Starting, Types, Collector
<1>10. ASSUME Sweep(Boot) PROVE Starting'
  <2>1. /\ pc[Boot] = "sweep" /\ pc' = [pc EXCEPT ![Boot] = "commit"]
        /\ gone'[Boot] = Dangling(Boot) /\ disk' = disk \ Orphans(Boot)
        /\ UNCHANGED <<row, asset>>
    BY <1>10 DEF Sweep, Types, Collector, tasks
  <2>2. /\ Referenced' = Referenced /\ Registered' = Registered
        /\ \A f \in Registered' : asset'[f] = RefCount(f)'
    BY <2>1, RowsSame, RegisteredSame DEF Starting, Registered
  <2>3. read[Boot].refs = Referenced /\ read[Boot].known = Registered
    BY <2>1 DEF Starting
  <2>4. /\ gone'[Boot] \cap Referenced = {}
        /\ Registered \subseteq gone'[Boot] \cup Referenced \cup (disk' \cap Upload)
    BY <2>1, <2>3 DEF Dangling, Orphans
  <2>. QED BY <2>1, <2>2, <2>4, NamesAssumption DEF Starting, Types, Collector
<1>11. ASSUME CommitCollection(Boot) PROVE Starting'
  BY <1>11 DEF CommitCollection, Ends, Starting, Types, Collector
<1>12. ASSUME Crash PROVE Starting'
  <2>1. pc' = [c \in Collector |-> IF c = Boot THEN "backfill" ELSE "idle"]
    BY <1>12 DEF Crash
  <2>. QED BY <2>1, NamesAssumption DEF Starting, Collector
<1>13. ASSUME Backfill PROVE Starting'
  <2>1. /\ pc[Boot] = "backfill" /\ pc' = [pc EXCEPT ![Boot] = "count"]
        /\ asset' = Synced(Referenced) /\ UNCHANGED row
    BY <1>13 DEF Backfill, tasks
  <2>2. Referenced' = Referenced
    BY <2>1, RowsSame
  <2>3. \A f \in Referenced : f \in File /\ asset'[f] # None
    BY <2>1, NamesAssumption DEF Types, Referenced, Rows, Synced
  <2>4. Referenced' \subseteq Registered'
    BY <2>2, <2>3 DEF Registered
  <2>. QED BY <2>1, <2>4, NamesAssumption DEF Starting, Types, Collector
<1>14. ASSUME Count PROVE Starting'
  <2>1. /\ pc[Boot] = "count" /\ pc' = [pc EXCEPT ![Boot] = "read"]
        /\ asset' = [f \in File |-> IF asset[f] = None THEN None ELSE RefCount(f)]
        /\ UNCHANGED row
    BY <1>14 DEF Count, tasks
  <2>2. /\ Referenced' = Referenced
        /\ \A f \in File : RefCount(f)' = RefCount(f)
    BY <2>1, RowsSame
  <2>3. \A f \in File : RefCount(f) \in Nat
    BY TaskAssumption, FS_Subset, FS_CardinalityType DEF RefCount, Rows
  <2>4. Registered' = Registered
    BY <2>1, <2>3, NamesAssumption DEF Registered
  <2>5. \A f \in Registered' : asset'[f] = RefCount(f)'
    BY <2>1, <2>2, <2>4 DEF Registered
  <2>. QED BY <2>1, <2>2, <2>4, <2>5, NamesAssumption DEF Starting, Types, Collector
<1>15. CASE UNCHANGED vars
  <2>1. UNCHANGED <<row, asset, pc, read, gone, disk>>
    BY <1>15 DEF vars, tasks, work
  <2>2. /\ Referenced' = Referenced /\ Registered' = Registered
        /\ \A f \in Registered' : asset'[f] = asset[f] /\ RefCount(f)' = RefCount(f)
    BY <2>1, RowsSame, RegisteredSame DEF Registered
  <2>. QED BY <2>1, <2>2 DEF Starting
<1>. QED
  BY <1>1, <1>2, <1>3, <1>4, <1>5, <1>6, <1>7, <1>8, <1>9, <1>10, <1>11, <1>12, <1>13, <1>14, <1>15
  DEF Next

LEMMA Invariance == Spec => []IInv
<1>1. Init => IInv
  <2>1. Init => Starting
    BY DEF Init, Starting, Collector
  <2>. QED BY <2>1, InitInv DEF IInv
<1>2. IInv /\ [Next]_vars => IInv'
  BY TypesStep, FilesStep, ReadsStep, StartingStep DEF IInv
<1>. QED BY <1>1, <1>2, PTL DEF Spec

-----------------------------------------------------------------------------
\* The files nobody has registered are never touched, only files that rows have
\* referred to and uploads are ever registered, and no collection gives up the
\* registration of a file it has seen referred to.
THEOREM TypeCorrect == Spec => []TypeOK
<1>1. Init => IInv /\ Foreign \subseteq disk
  <2>1. Init => Foreign \subseteq disk
    BY DEF Init
  <2>2. Init => Starting
    BY DEF Init, Starting, Collector
  <2>. QED BY <2>1, <2>2, InitInv DEF IInv
<1>2. IInv /\ Foreign \subseteq disk /\ [Next]_vars => IInv' /\ (Foreign \subseteq disk)'
  <2>. SUFFICES ASSUME IInv, Foreign \subseteq disk, [Next]_vars PROVE (Foreign \subseteq disk)'
    BY TypesStep, FilesStep, ReadsStep, StartingStep DEF IInv
  <2>1. \A c \in Collector : pc[c] = "sweep" => Orphans(c) \cap Foreign = {}
    BY FilesAssumption DEF IInv, Reads, Files, Orphans
  <2>2. CASE \E d \in Deletion : RemoveTaskAssets(d)
    <3>1. PICK d \in Deletion : RemoveTaskAssets(d)
      BY <2>2
    <3>2. target[d] \notin Foreign
      BY <3>1, FilesAssumption DEF RemoveTaskAssets, IInv, Reads, Types, Collector
    <3>. QED BY <3>1, <3>2 DEF RemoveTaskAssets
  <2>3. CASE \E c \in Collector : Sweep(c)
    BY <2>1, <2>3 DEF Sweep
  <2>4. CASE Crash
    BY <2>1, <2>4 DEF Crash
  <2>5. CASE disk \subseteq disk'
    BY <2>5
  <2>. QED
    BY <2>2, <2>3, <2>4, <2>5 DEF Next, vars, Submit, Load, Save, Make, Forget, RegisterUpload, UploadFile,
       Delete, Read, SkipCollection, CommitCollection, Backfill, Count
<1>3. IInv /\ Foreign \subseteq disk => TypeOK
  BY DEF IInv, Types, Files, Reads, TypeOK
<1>. QED BY <1>1, <1>2, <1>3, PTL DEF Spec

\* Only three actions remove files.
LEMMA Removals ==
  ASSUME [Next]_vars, NEW f \in disk \ disk'
  PROVE  \/ \E d \in Deletion : RemoveTaskAssets(d) /\ f = target[d]
         \/ /\ \E c \in Collector : pc[c] = "sweep" /\ f \in Orphans(c)
            /\ UNCHANGED <<row, deleted>>
<1>1. CASE \E c \in Collector : Sweep(c)
  BY <1>1 DEF Sweep, tasks, history
<1>2. CASE Crash
  BY <1>2 DEF Crash
<1>3. CASE \E d \in Deletion : RemoveTaskAssets(d)
  BY <1>3 DEF RemoveTaskAssets
<1>. QED
  BY <1>1, <1>2, <1>3 DEF Next, vars, Submit, Load, Save, Make, Forget, RegisterUpload, UploadFile,
     Delete, Read, SkipCollection, CommitCollection, Backfill, Count

\* However collections, deletions, saves and crashes interleave, no foreign file,
\* no upload, and no file that the collection could not have known disappears.
THEOREM NewAndForeignFilesAreSpared == Spec => NewAndForeignFilesStay
<1>1. ASSUME IInv, [Next]_vars, NEW f \in disk \ disk'
      PROVE  \/ f \in deleted
             \/ \E c \in Collector : pc[c] = "sweep" /\ f \in saved \ (Upload \cup fresh[c])
  <2>1. CASE \E d \in Deletion : RemoveTaskAssets(d) /\ f = target[d]
    BY <1>1, <2>1 DEF RemoveTaskAssets, IInv, Reads, Collector
  <2>2. CASE \E c \in Collector : pc[c] = "sweep" /\ f \in Orphans(c)
    BY <1>1, <2>2 DEF IInv, Reads, Orphans
  <2>. QED BY <1>1, <2>1, <2>2, Removals
<1>2. IInv /\ [Next]_vars =>
        [\A f \in disk \ disk' :
           \/ f \in deleted
           \/ \E c \in Collector : pc[c] = "sweep" /\ f \in saved \ (Upload \cup fresh[c])]_vars
  BY <1>1
<1>. QED BY <1>2, Invariance, PTL DEF Spec, NewAndForeignFilesStay

\* A task whose row rests while collections run keeps all of its files, also the
\* pictures it shares with tasks that are deleted.
THEOREM SettledFilesAreKept == Spec => SettledFilesStay
<1>1. ASSUME IInv, [Next]_vars, NEW t \in Rows \ written
      PROVE  row[t] \cap (disk \ disk') = {}
  <2>. SUFFICES ASSUME NEW f \in disk \ disk', f \in row[t] PROVE FALSE
    OBVIOUS
  <2>0. t \in Task /\ row[t] # None /\ t \notin written
    BY DEF Rows
  <2>1. ASSUME NEW d \in Deletion, RemoveTaskAssets(d), f = target[d] PROVE FALSE
    <3>1. f \in Task /\ (row[f] # None => f \in written)
      BY <1>1, <2>1 DEF RemoveTaskAssets, IInv, Reads, Types, Collector, Files
    <3>3. f # t
      BY <2>0, <3>1
    <3>. QED BY <1>1, <2>0, <3>1, <3>3, FilesAssumption DEF IInv, Files, Own
  <2>2. ASSUME NEW c \in Collector, pc[c] = "sweep", f \in Orphans(c) PROVE FALSE
    BY <1>1, <2>0, <2>2 DEF IInv, Reads, Orphans
  <2>. QED BY <1>1, <2>1, <2>2, Removals
<1>2. IInv /\ [Next]_vars => [\A t \in Rows \ written : row[t] \cap (disk \ disk') = {}]_vars
  BY <1>1
<1>. QED BY <1>2, Invariance, PTL DEF Spec, SettledFilesStay

\* Whatever the last process left behind, the rows, the registry and the disk
\* agree when the startup is over.
THEOREM StartsSettle == Spec => StartSettles
<1>. DEFINE Agree == /\ \A f \in Referenced' : asset'[f] # None
                     /\ \A f \in Registered' : asset'[f] = RefCount(f)'
                     /\ Referenced' # {} =>
                          \A f \in Registered' : f \in Referenced' \/ f \in disk' \cap Upload
<1>1. ASSUME IInv, [Next]_vars, pc[Boot] # "idle", pc'[Boot] = "idle" PROVE Agree
  <2>1. SkipCollection(Boot) \/ CommitCollection(Boot)
    BY <1>1, NamesAssumption DEF IInv, Types, Collector, Next, vars, work, Submit, Load, Save, Make, Forget,
       RegisterUpload, UploadFile, Delete, RemoveTaskAssets, Read, SkipCollection, Sweep,
       CommitCollection, Ends, Crash, Backfill, Count, Ask, Up
  <2>2. UNCHANGED <<row, disk>> /\ pc[Boot] \in {"read", "commit"}
    BY <2>1 DEF SkipCollection, CommitCollection, tasks
  <2>3. Referenced' = Referenced /\ \A f \in File : RefCount(f)' = RefCount(f)
    BY <2>2, RowsSame
  <2>4. Referenced \subseteq Registered /\ \A f \in Registered : asset[f] = RefCount(f)
    BY <1>1, <2>2 DEF IInv, Starting
  <2>5. CASE SkipCollection(Boot)
    <3>1. UNCHANGED asset /\ Referenced = {}
      BY <2>5 DEF SkipCollection
    <3>. QED BY <2>3, <2>4, <3>1, RegisteredSame DEF Registered
  <2>6. CASE CommitCollection(Boot)
    <3>1. /\ pc[Boot] = "commit"
          /\ asset' = [f \in File |-> IF f \in gone[Boot] THEN None ELSE asset[f]]
      BY <2>6 DEF CommitCollection
    <3>2. /\ gone[Boot] \cap Referenced = {}
          /\ Registered \subseteq gone[Boot] \cup Referenced \cup (disk \cap Upload)
      BY <1>1, <3>1 DEF IInv, Starting
    <3>3. Registered' = Registered \ gone[Boot] /\ \A f \in Registered' : asset'[f] = asset[f]
      BY <3>1 DEF Registered
    <3>. QED BY <2>2, <2>3, <2>4, <3>1, <3>2, <3>3 DEF Registered
  <2>. QED BY <2>1, <2>5, <2>6
<1>2. IInv /\ [Next]_vars => [pc[Boot] # "idle" /\ pc'[Boot] = "idle" => Agree]_vars
  BY <1>1
<1>. QED BY <1>2, Invariance, PTL DEF Spec, StartSettles

=============================================================================
