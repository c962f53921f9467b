------------------------- MODULE Engagement_proofs -------------------------
(***************************************************************************)
(* What module Engagement claims, for any number of invocations, configs,  *)
(* faults and losses of the database.                                      *)
(*                                                                         *)
(* Whoever creates the engagement is alone until it is done (Roles), since *)
(* nobody knows the id; a purge that nothing overlapped is alone as well.  *)
(* From then on a config read for a mirror or a recovery comes from the    *)
(* row or from the snapshot and is the original one (Carried); and once    *)
(* row and directory are both gone, every command stops before it makes    *)
(* either of them again (Gone).                                            *)
(***************************************************************************)
EXTENDS Engagement, TLAPS

Labels ==
  {"idle", "insert", "mkdir", "column", "undo", "unrow", "read", "write", "reset", "acquire",
   "begin", "save", "work", "row", "store", "load", "locate", "fallback", "rehydrate",
   "manifest", "probe", "restore", "look", "audit", "rmtree", "delete"}
Commands ==
  {"none", "create", "collect", "replay", "replay_later", "ingest", "repair", "purge"}
Kinds == {"collected", "ingested", "config_snapshot.json"}

CreateLabels == {"mkdir", "column", "undo", "unrow"}
PurgeLabels == {"look", "audit", "rmtree", "delete"}
\* Where a command can be when it finds neither a row nor a directory.
Harmless == {"idle", "reset", "load", "row", "manifest", "look", "delete"}

Jobs ==
  [cmd: Commands, config: Configs \cup {NoConfig}, listed: SUBSET Kinds, clean: BOOLEAN]

Raws == SUBSET {"collected", "ingested"}
Disks == [dir: BOOLEAN, snapshot: Configs \cup {NoConfig}, raw: Raws]

Types ==
  /\ pc \in [Procs -> Labels]
  /\ job \in [Procs -> Jobs]
  /\ disk \in Disks
  /\ row \in Configs \cup {NoConfig} /\ origin \in Configs \cup {NoConfig}
  /\ mirrored \in BOOLEAN /\ purging \in BOOLEAN /\ purged \in BOOLEAN
  /\ crowd \in BOOLEAN /\ unlisted \in BOOLEAN /\ undone \in BOOLEAN

Alone(p) == \A q \in Procs \ {p} : pc[q] = "idle"

\* Who is where: creation, with nobody else and before any mirror; purge.
Roles ==
  /\ \A p \in Procs :
       /\ pc[p] = "idle" <=> job[p].cmd = "none"
       /\ pc[p] = "insert" => origin = NoConfig /\ Alone(p) /\ job[p].config \in Configs
       /\ pc[p] \notin {"idle", "insert"} => origin # NoConfig
       /\ pc[p] \in CreateLabels => job[p].cmd = "create"
       /\ job[p].cmd = "create"
            => /\ pc[p] \in CreateLabels \cup {"insert", "read", "write"}
               /\ ~mirrored /\ Alone(p)
       /\ pc[p] \in PurgeLabels <=> job[p].cmd = "purge"
       /\ job[p].cmd = "purge" /\ ~crowd => Alone(p)
  /\ origin = NoConfig => ~mirrored /\ row = NoConfig /\ disk = NoDir

\* The config a process is about to write is the original one.
Carried ==
  \A p \in Procs :
    pc[p] \in {"write", "fallback", "rehydrate", "restore"} => job[p].config = origin

\* What is gone stays gone.
Gone ==
  undone \/ (purged /\ ~crowd) =>
    /\ origin # NoConfig /\ row = NoConfig /\ disk = NoDir
    /\ \A p \in Procs : pc[p] \in Harmless

\* How it comes to be gone.
Removal ==
  /\ ~disk.dir => disk = NoDir
  /\ \A p \in Procs :
       /\ pc[p] = "mkdir" => disk = NoDir
       /\ pc[p] = "unrow" /\ job[p].clean => disk = NoDir
       /\ pc[p] = "rmtree" /\ ~crowd => Files(disk) \subseteq job[p].listed
       /\ pc[p] = "delete" /\ ~crowd => disk = NoDir
  /\ ~crowd => ~unlisted

IInv == Types /\ Roles /\ Recoverable /\ Carried /\ Gone /\ Removal

\* What save_raw_outputs may change in the directory.
LEMMA SavedDisk ==
  ASSUME Types, NEW p \in Procs, Save(p)
  PROVE  /\ disk' \in Disks /\ disk'.snapshot = disk.snapshot /\ (disk.dir => disk'.dir)
         /\ disk' = disk \/ disk'.dir
<1>1. disk \in Disks
  BY DEF Types
<1>2. CASE disk' = [disk EXCEPT !.dir = TRUE]
  BY <1>1, <1>2 DEF Disks
<1>3. ASSUME NEW kept \in SUBSET (disk.raw \ {"collected"}),
             disk' = [disk EXCEPT !.dir = TRUE, !.raw = kept \cup {"collected"}]
      PROVE  /\ disk' \in Disks /\ disk'.snapshot = disk.snapshot /\ disk'.dir
  BY <1>1, <1>3 DEF Disks, Raws
<1>4. ASSUME NEW made \in BOOLEAN, disk' = [disk EXCEPT !.dir = @ \/ made]
      PROVE  /\ disk' \in Disks /\ disk'.snapshot = disk.snapshot /\ (disk.dir => disk'.dir)
             /\ disk' = disk \/ disk'.dir
  BY <1>1, <1>4 DEF Disks
<1> QED
  BY <1>2, <1>3, <1>4, <1>1 DEF Save, Disks

\* What rmtree may change, whole or in part.
LEMMA RemovedDisk ==
  ASSUME Types, NEW p \in Procs, Rmtree(p)
  PROVE  /\ disk' \in Disks /\ disk'.snapshot \in {disk.snapshot, NoConfig}
         /\ disk = NoDir => disk' = NoDir
         /\ disk' = NoDir \/ disk'.dir = disk.dir
         /\ (Moves(p, "delete") /\ disk' = NoDir) \/ Done(p)
         /\ Files(disk) \subseteq job[p].listed => unlisted' = unlisted
<1>1. disk \in Disks /\ unlisted \in BOOLEAN
  BY DEF Types
<1>2. CASE disk' = NoDir /\ Moves(p, "delete")
           /\ unlisted' = (unlisted \/ ~(Files(disk) \subseteq job[p].listed))
  BY <1>1, <1>2 DEF Disks, NoDir, Raws
<1>3. ASSUME NEW left \in SUBSET disk.raw, NEW snap \in {disk.snapshot, NoConfig}, Done(p),
             disk' = [disk EXCEPT !.raw = left, !.snapshot = snap],
             unlisted' = (unlisted \/ ~(Files(disk) \ Files(disk') \subseteq job[p].listed))
      PROVE  /\ disk' \in Disks /\ disk'.snapshot \in {disk.snapshot, NoConfig}
             /\ disk = NoDir => disk' = NoDir
             /\ disk' = NoDir \/ disk'.dir = disk.dir
             /\ Files(disk) \subseteq job[p].listed => unlisted' = unlisted
  <2>1. /\ disk' \in Disks /\ disk'.snapshot \in {disk.snapshot, NoConfig}
        /\ disk'.dir = disk.dir
    BY <1>1, <1>3 DEF Disks, Raws
  <2>2. ASSUME disk = NoDir PROVE disk' = NoDir
    <3>1. left = {} /\ snap = NoConfig
      BY <2>2 DEF NoDir
    <3>2. disk' = [NoDir EXCEPT !.raw = {}, !.snapshot = NoConfig]
      BY <3>1, <2>2, <1>3
    <3> QED
      BY <3>2 DEF NoDir
  <2>3. Files(disk) \subseteq job[p].listed => unlisted' = unlisted
    BY <1>1, <1>3
  <2> QED
    BY <2>1, <2>2, <2>3
<1> QED
  BY <1>2, <1>3 DEF Rmtree

\* Every process stays at a label.
LEMMA StepPc == IInv /\ [Next]_vars => pc' \in [Procs -> Labels]
<1> SUFFICES ASSUME IInv, [Next]_vars PROVE pc' \in [Procs -> Labels]
  OBVIOUS
<1> USE DEF IInv, Types, Goto, Done, Moves, Labels
<1>1. ASSUME NEW p \in Procs, Insert(p) PROVE pc' \in [Procs -> Labels]
  BY <1>1 DEF Insert
<1>2. ASSUME NEW p \in Procs, Mkdir(p) PROVE pc' \in [Procs -> Labels]
  BY <1>2 DEF Mkdir
<1>3. ASSUME NEW p \in Procs, Column(p) PROVE pc' \in [Procs -> Labels]
  BY <1>3 DEF Column
<1>4. ASSUME NEW p \in Procs, Undo(p) PROVE pc' \in [Procs -> Labels]
  BY <1>4 DEF Undo
<1>5. ASSUME NEW p \in Procs, UnRow(p) PROVE pc' \in [Procs -> Labels]
  BY <1>5 DEF UnRow
<1>6. ASSUME NEW p \in Procs, ReadRow(p) PROVE pc' \in [Procs -> Labels]
  BY <1>6 DEF ReadRow, AfterMirrorFails
<1>7. ASSUME NEW p \in Procs, Write(p) PROVE pc' \in [Procs -> Labels]
  BY <1>7 DEF Write, AfterMirrorFails
<1>8. ASSUME NEW p \in Procs, Reset(p) PROVE pc' \in [Procs -> Labels]
  BY <1>8 DEF Reset
<1>9. ASSUME NEW p \in Procs, Acquire(p) PROVE pc' \in [Procs -> Labels]
  BY <1>9 DEF Acquire, AfterAcquire, At, Roles, Jobs, Commands, CreateLabels, PurgeLabels
<1>10. ASSUME NEW p \in Procs, Begin(p) PROVE pc' \in [Procs -> Labels]
  BY <1>10 DEF Begin
<1>11. ASSUME NEW p \in Procs, Save(p) PROVE pc' \in [Procs -> Labels]
  BY <1>11 DEF Save
<1>12. ASSUME NEW p \in Procs, Work(p) PROVE pc' \in [Procs -> Labels]
  BY <1>12 DEF Work
<1>13. ASSUME NEW p \in Procs, IngestRow(p) PROVE pc' \in [Procs -> Labels]
  BY <1>13 DEF IngestRow
<1>14. ASSUME NEW p \in Procs, Store(p) PROVE pc' \in [Procs -> Labels]
  BY <1>14 DEF Store
<1>15. ASSUME NEW p \in Procs, Load(p) PROVE pc' \in [Procs -> Labels]
  BY <1>15 DEF Load
<1>16. ASSUME NEW p \in Procs, Locate(p) PROVE pc' \in [Procs -> Labels]
  BY <1>16 DEF Locate
<1>17. ASSUME NEW p \in Procs, Rehydrate(p) PROVE pc' \in [Procs -> Labels]
  BY <1>17 DEF Rehydrate
<1>18. ASSUME NEW p \in Procs, Manifest(p) PROVE pc' \in [Procs -> Labels]
  BY <1>18 DEF Manifest
<1>19. ASSUME NEW p \in Procs, Probe(p) PROVE pc' \in [Procs -> Labels]
  BY <1>19 DEF Probe
<1>20. ASSUME NEW p \in Procs, Restore(p) PROVE pc' \in [Procs -> Labels]
  BY <1>20 DEF Restore
<1>21. ASSUME NEW p \in Procs, Look(p) PROVE pc' \in [Procs -> Labels]
  BY <1>21 DEF Look
<1>22. ASSUME NEW p \in Procs, Audit(p) PROVE pc' \in [Procs -> Labels]
  BY <1>22 DEF Audit
<1>23. ASSUME NEW p \in Procs, Rmtree(p) PROVE pc' \in [Procs -> Labels]
  BY <1>23 DEF Rmtree
<1>24. ASSUME NEW p \in Procs, Delete(p) PROVE pc' \in [Procs -> Labels]
  BY <1>24 DEF Delete
<1>25. ASSUME NEW p \in Procs, Kill(p) PROVE pc' \in [Procs -> Labels]
  BY <1>25 DEF Kill
<1>26. ASSUME NEW p \in Procs, NEW config \in Created,
              NEW cmd \in {"create", "collect"}, Mint(p, cmd, config)
       PROVE  pc' \in [Procs -> Labels]
  BY <1>26 DEF Mint
<1>27. ASSUME NEW p \in Procs, NEW config \in Configs \cup {NoConfig},
              NEW cmd \in Commands \ {"none", "create"}, Start(p, cmd, config)
       PROVE  pc' \in [Procs -> Labels]
  BY <1>27 DEF Start, FirstStep, Commands
<1>28. CASE Wipe \/ UNCHANGED vars
  BY <1>28 DEF Wipe, vars
<1> QED
  BY <1>1, <1>2, <1>3, <1>4, <1>5, <1>6, <1>7, <1>8, <1>9, <1>10, <1>11, <1>12, <1>13, <1>14,
     <1>15, <1>16, <1>17, <1>18, <1>19, <1>20, <1>21, <1>22, <1>23, <1>24, <1>25, <1>26, <1>27,
     <1>28
  DEF Next, Step, Commands

\* The locals of a process keep their types.
LEMMA StepJob == IInv /\ [Next]_vars => job' \in [Procs -> Jobs]
<1> SUFFICES ASSUME IInv, [Next]_vars PROVE job' \in [Procs -> Jobs]
  OBVIOUS
<1>1. job \in [Procs -> Jobs] /\ row \in Configs \cup {NoConfig}
      /\ disk.snapshot \in Configs \cup {NoConfig} /\ disk.raw \in Raws /\ disk.dir \in BOOLEAN
  BY DEF IInv, Types, Disks
<1>2. \A p \in Procs, j \in Jobs : [job EXCEPT ![p] = j] \in [Procs -> Jobs]
  BY <1>1
<1>3. \A p \in Procs, c \in Configs \cup {NoConfig} :
        [job EXCEPT ![p].config = c] \in [Procs -> Jobs]
  BY <1>1 DEF Jobs
<1>4. \A p \in Procs, c \in BOOLEAN : [job EXCEPT ![p].clean = c] \in [Procs -> Jobs]
  BY <1>1 DEF Jobs
<1>5. \A p \in Procs, l \in SUBSET Kinds : [job EXCEPT ![p].listed = l] \in [Procs -> Jobs]
  BY <1>1 DEF Jobs
<1>6. \A p \in Procs : Done(p) => job' \in [Procs -> Jobs]
  <2>1. NoJob \in Jobs
    BY DEF NoJob, Jobs, Commands
  <2> QED
    BY <2>1, <1>2 DEF Done
<1>7. \A p \in Procs : Forget(p) => job' \in [Procs -> Jobs]
  BY <1>3 DEF Forget
<1>8. ASSUME NEW p \in Procs, Insert(p) PROVE job' \in [Procs -> Jobs]
  BY <1>8, <1>1, <1>6, <1>7 DEF Insert, Moves
<1>9. ASSUME NEW p \in Procs, Mkdir(p) PROVE job' \in [Procs -> Jobs]
  BY <1>9, <1>1, <1>4 DEF Mkdir, Moves
<1>10. ASSUME NEW p \in Procs, Column(p) PROVE job' \in [Procs -> Jobs]
  BY <1>10, <1>1, <1>6, <1>7 DEF Column, Moves
<1>11. ASSUME NEW p \in Procs, Undo(p) PROVE job' \in [Procs -> Jobs]
  BY <1>11, <1>1, <1>4 DEF Undo, Moves
<1>12. ASSUME NEW p \in Procs, UnRow(p) PROVE job' \in [Procs -> Jobs]
  BY <1>12, <1>1, <1>6, <1>7 DEF UnRow, Moves
<1>13. ASSUME NEW p \in Procs, ReadRow(p) PROVE job' \in [Procs -> Jobs]
  BY <1>13, <1>1, <1>3, <1>7 DEF ReadRow, Moves, SnapshotOf
<1>14. ASSUME NEW p \in Procs, Write(p) PROVE job' \in [Procs -> Jobs]
  BY <1>14, <1>1, <1>6, <1>7 DEF Write, Moves
<1>15. ASSUME NEW p \in Procs, Reset(p) PROVE job' \in [Procs -> Jobs]
  BY <1>15, <1>1, <1>6, <1>7 DEF Reset, Moves
<1>16. ASSUME NEW p \in Procs, Acquire(p) PROVE job' \in [Procs -> Jobs]
  BY <1>16, <1>1, <1>6, <1>7 DEF Acquire, Moves
<1>17. ASSUME NEW p \in Procs, Begin(p) PROVE job' \in [Procs -> Jobs]
  BY <1>17, <1>1, <1>6, <1>7 DEF Begin, Moves
<1>18. ASSUME NEW p \in Procs, Save(p) PROVE job' \in [Procs -> Jobs]
  BY <1>18, <1>1, <1>6, <1>7 DEF Save, Moves
<1>19. ASSUME NEW p \in Procs, Work(p) PROVE job' \in [Procs -> Jobs]
  BY <1>19, <1>1, <1>6, <1>7 DEF Work, Moves
<1>20. ASSUME NEW p \in Procs, IngestRow(p) PROVE job' \in [Procs -> Jobs]
  BY <1>20, <1>1, <1>6, <1>7 DEF IngestRow, Moves
<1>21. ASSUME NEW p \in Procs, Store(p) PROVE job' \in [Procs -> Jobs]
  BY <1>21, <1>1, <1>6, <1>7 DEF Store, Moves
<1>22. ASSUME NEW p \in Procs, Load(p) PROVE job' \in [Procs -> Jobs]
  BY <1>22, <1>1, <1>3, <1>6 DEF Load, Moves, ConfigOnDisk
<1>23. ASSUME NEW p \in Procs, Locate(p) PROVE job' \in [Procs -> Jobs]
  BY <1>23, <1>1, <1>6, <1>7 DEF Locate, Moves
<1>24. ASSUME NEW p \in Procs, Rehydrate(p) PROVE job' \in [Procs -> Jobs]
  BY <1>24, <1>1, <1>6, <1>7 DEF Rehydrate, Moves
<1>25. ASSUME NEW p \in Procs, Manifest(p) PROVE job' \in [Procs -> Jobs]
  BY <1>25, <1>1, <1>6, <1>7 DEF Manifest, Moves
<1>26. ASSUME NEW p \in Procs, Probe(p) PROVE job' \in [Procs -> Jobs]
  BY <1>26, <1>1, <1>3, <1>6 DEF Probe, Moves, ConfigOnDisk
<1>27. ASSUME NEW p \in Procs, Restore(p) PROVE job' \in [Procs -> Jobs]
  BY <1>27, <1>1, <1>6, <1>7 DEF Restore, Moves
<1>28. ASSUME NEW p \in Procs, Look(p) PROVE job' \in [Procs -> Jobs]
  BY <1>28, <1>1, <1>6, <1>7 DEF Look, Moves
<1>29. ASSUME NEW p \in Procs, Audit(p) PROVE job' \in [Procs -> Jobs]
  <2>1. Files(disk) \in SUBSET Kinds
    BY <1>1 DEF Files, Raws, Kinds
  <2>2. CASE job' = [job EXCEPT ![p].listed = Files(disk)]
    BY <2>1, <2>2, <1>5
  <2>3. CASE Done(p)
    BY <2>3, <1>6
  <2> QED
    BY <1>29, <2>2, <2>3 DEF Audit, Listed
<1>30. ASSUME NEW p \in Procs, Rmtree(p) PROVE job' \in [Procs -> Jobs]
  BY <1>30, <1>1, <1>6, <1>7 DEF Rmtree, Moves
<1>31. ASSUME NEW p \in Procs, Delete(p) PROVE job' \in [Procs -> Jobs]
  BY <1>31, <1>1, <1>6, <1>7 DEF Delete, Moves
<1>32. ASSUME NEW p \in Procs, Kill(p) PROVE job' \in [Procs -> Jobs]
  BY <1>32, <1>6 DEF Kill
<1>33. ASSUME NEW p \in Procs, NEW config \in Created,
              NEW cmd \in {"create", "collect"}, Mint(p, cmd, config)
       PROVE  job' \in [Procs -> Jobs]
  BY <1>33, <1>2, EngagementAssumption DEF Mint, NoJob, Jobs, Commands
<1>34. ASSUME NEW p \in Procs, NEW config \in Configs \cup {NoConfig},
              NEW cmd \in Commands \ {"none", "create"}, Start(p, cmd, config)
       PROVE  job' \in [Procs -> Jobs]
  BY <1>34, <1>2 DEF Start, NoJob, Jobs, Commands
<1>35. CASE Wipe \/ UNCHANGED vars
  BY <1>35, <1>1 DEF Wipe, vars
<1> QED
  BY <1>8, <1>9, <1>10, <1>11, <1>12, <1>13, <1>14, <1>15, <1>16, <1>17, <1>18, <1>19, <1>20,
     <1>21, <1>22, <1>23, <1>24, <1>25, <1>26, <1>27, <1>28, <1>29, <1>30, <1>31, <1>32, <1>33,
     <1>34, <1>35
  DEF Next, Step, Commands

\* So does the directory.
LEMMA StepDisk == IInv /\ [Next]_vars => disk' \in Disks
<1> SUFFICES ASSUME IInv, [Next]_vars PROVE disk' \in Disks
  OBVIOUS
<1> USE DEF Disks, Raws
<1>1. disk \in Disks
  BY DEF IInv, Types
<1>2. \A p \in Procs : job[p].config \in Configs \cup {NoConfig}
  BY DEF IInv, Types, Jobs
<1>3. NoDir \in Disks
  BY DEF NoDir
<1>4. ASSUME NEW p \in Procs, Mkdir(p) PROVE disk' \in Disks
  BY <1>4, <1>1 DEF Mkdir
<1>5. ASSUME NEW p \in Procs, Undo(p) PROVE disk' \in Disks
  BY <1>5, <1>1, <1>3 DEF Undo
<1>6. ASSUME NEW p \in Procs, Write(p) PROVE disk' \in Disks
  BY <1>6, <1>1, <1>2 DEF Write
<1>7. ASSUME NEW p \in Procs, Save(p) PROVE disk' \in Disks
  BY <1>7, SavedDisk DEF IInv
<1>8. ASSUME NEW p \in Procs, Store(p) PROVE disk' \in Disks
  BY <1>8, <1>1 DEF Store
<1>9. ASSUME NEW p \in Procs, Rmtree(p) PROVE disk' \in Disks
  BY <1>9, RemovedDisk DEF IInv
<1>10. ASSUME NEW p \in Procs,
              Insert(p) \/ Column(p) \/ UnRow(p) \/ ReadRow(p) \/ Reset(p) \/ Acquire(p) \/
              Begin(p) \/ Work(p) \/ IngestRow(p) \/ Load(p) \/ Locate(p) \/ Rehydrate(p) \/
              Manifest(p) \/ Probe(p) \/ Restore(p) \/ Look(p) \/ Audit(p) \/ Delete(p)
       PROVE  disk' \in Disks
  BY <1>10, <1>1
  DEF Insert, Column, UnRow, ReadRow, Reset, Acquire, Begin, Work, IngestRow, Load, Locate,
      Rehydrate, Manifest, Probe, Restore, Look, Audit, Delete, disks
<1>11. ASSUME NEW p \in Procs, NEW cmd, NEW config,
              Kill(p) \/ Mint(p, cmd, config) \/ Start(p, cmd, config)
       PROVE  disk' \in Disks
  BY <1>11, <1>1 DEF Kill, Mint, Start, disks
<1>12. CASE Wipe \/ UNCHANGED vars
  BY <1>12, <1>1 DEF Wipe, vars, disks
<1> QED
  BY <1>4, <1>5, <1>6, <1>7, <1>8, <1>9, <1>10, <1>11, <1>12
  DEF Next, Step, Commands

\* And the row and the histories.
LEMMA StepRest ==
  IInv /\ [Next]_vars =>
    /\ row' \in Configs \cup {NoConfig} /\ origin' \in Configs \cup {NoConfig}
    /\ mirrored' \in BOOLEAN /\ purging' \in BOOLEAN /\ purged' \in BOOLEAN
    /\ crowd' \in BOOLEAN /\ unlisted' \in BOOLEAN /\ undone' \in BOOLEAN
<1> DEFINE Rest ==
      /\ row \in Configs \cup {NoConfig} /\ origin \in Configs \cup {NoConfig}
      /\ mirrored \in BOOLEAN /\ purging \in BOOLEAN /\ purged \in BOOLEAN
      /\ crowd \in BOOLEAN /\ unlisted \in BOOLEAN /\ undone \in BOOLEAN
<1> SUFFICES ASSUME IInv, [Next]_vars PROVE Rest'
  OBVIOUS
<1>1. Rest
  BY DEF IInv, Types
<1>2. \A p \in Procs : job[p].config \in Configs \cup {NoConfig} /\ job[p].clean \in BOOLEAN
  BY DEF IInv, Types, Jobs
<1> USE <1>1, <1>2 DEF disks, histories, Fault, Calm
<1>3. ASSUME NEW p \in Procs, Insert(p) PROVE Rest'
  BY <1>3 DEF Insert
<1>4. ASSUME NEW p \in Procs, Mkdir(p) PROVE Rest'
  BY <1>4 DEF Mkdir
<1>5. ASSUME NEW p \in Procs, Column(p) PROVE Rest'
  BY <1>5 DEF Column
<1>6. ASSUME NEW p \in Procs, Undo(p) PROVE Rest'
  BY <1>6 DEF Undo
<1>7. ASSUME NEW p \in Procs, UnRow(p) PROVE Rest'
  BY <1>7 DEF UnRow
<1>8. ASSUME NEW p \in Procs, ReadRow(p) PROVE Rest'
  BY <1>8 DEF ReadRow
<1>9. ASSUME NEW p \in Procs, Write(p) PROVE Rest'
  BY <1>9 DEF Write
<1>10. ASSUME NEW p \in Procs, Reset(p) PROVE Rest'
  BY <1>10 DEF Reset
<1>11. ASSUME NEW p \in Procs, Acquire(p) PROVE Rest'
  BY <1>11 DEF Acquire
<1>12. ASSUME NEW p \in Procs, Begin(p) PROVE Rest'
  BY <1>12 DEF Begin
<1>13. ASSUME NEW p \in Procs, Save(p) PROVE Rest'
  BY <1>13 DEF Save
<1>14. ASSUME NEW p \in Procs, Work(p) PROVE Rest'
  BY <1>14 DEF Work
<1>15. ASSUME NEW p \in Procs, IngestRow(p) PROVE Rest'
  BY <1>15 DEF IngestRow
<1>16. ASSUME NEW p \in Procs, Store(p) PROVE Rest'
  BY <1>16 DEF Store
<1>17. ASSUME NEW p \in Procs, Load(p) PROVE Rest'
  BY <1>17 DEF Load
<1>18. ASSUME NEW p \in Procs, Locate(p) PROVE Rest'
  BY <1>18 DEF Locate
<1>19. ASSUME NEW p \in Procs, Rehydrate(p) PROVE Rest'
  BY <1>19 DEF Rehydrate, Restored
<1>20. ASSUME NEW p \in Procs, Manifest(p) PROVE Rest'
  BY <1>20 DEF Manifest
<1>21. ASSUME NEW p \in Procs, Probe(p) PROVE Rest'
  BY <1>21 DEF Probe
<1>22. ASSUME NEW p \in Procs, Restore(p) PROVE Rest'
  BY <1>22 DEF Restore, Restored
<1>23. ASSUME NEW p \in Procs, Look(p) PROVE Rest'
  BY <1>23 DEF Look
<1>24. ASSUME NEW p \in Procs, Audit(p) PROVE Rest'
  BY <1>24 DEF Audit
<1>25. ASSUME NEW p \in Procs, Rmtree(p) PROVE Rest'
  BY <1>25 DEF Rmtree
<1>26. ASSUME NEW p \in Procs, Delete(p) PROVE Rest'
  BY <1>26 DEF Delete
<1>27. ASSUME NEW p \in Procs, NEW cmd, NEW config,
              Kill(p) \/ Mint(p, cmd, config) \/ Start(p, cmd, config)
       PROVE  Rest'
  BY <1>27 DEF Kill, Mint, Start
<1>28. CASE Wipe \/ UNCHANGED vars
  BY <1>28 DEF Wipe, vars
<1> QED
  BY <1>3, <1>4, <1>5, <1>6, <1>7, <1>8, <1>9, <1>10, <1>11, <1>12, <1>13, <1>14, <1>15, <1>16,
     <1>17, <1>18, <1>19, <1>20, <1>21, <1>22, <1>23, <1>24, <1>25, <1>26, <1>27, <1>28
  DEF Next, Step, Commands

\* Every variable keeps its type.
LEMMA StepTypes == IInv /\ [Next]_vars => Types'
BY StepPc, StepJob, StepDisk, StepRest DEF Types

\* Creation stays alone, and so does a purge that nothing overlaps.
LEMMA StepRoles == IInv /\ [Next]_vars => Roles'
<1> SUFFICES ASSUME IInv, [Next]_vars PROVE Roles'
  OBVIOUS
<1> USE EngagementAssumption DEF IInv, Types, Roles, Alone, Carried, Gone, Removal, Recoverable,
        Labels, Commands, Kinds, Jobs, Disks, Raws, CreateLabels, PurgeLabels, Harmless,
        At, Goto, Done, Moves, Forget, Fault, Calm, NoDir, NoJob, HasRow, disks, histories
<1>1. ASSUME NEW p \in Procs, Insert(p) PROVE Roles'
  BY <1>1 DEF Insert
<1>2. ASSUME NEW p \in Procs, Mkdir(p) PROVE Roles'
  BY <1>2 DEF Mkdir
<1>3. ASSUME NEW p \in Procs, Column(p) PROVE Roles'
  BY <1>3 DEF Column
<1>4. ASSUME NEW p \in Procs, Undo(p) PROVE Roles'
  BY <1>4 DEF Undo
<1>5. ASSUME NEW p \in Procs, UnRow(p) PROVE Roles'
  BY <1>5 DEF UnRow
<1>6. ASSUME NEW p \in Procs, ReadRow(p) PROVE Roles'
  BY <1>6 DEF ReadRow, SnapshotOf, AfterMirrorFails
<1>7. ASSUME NEW p \in Procs, Write(p) PROVE Roles'
  BY <1>7 DEF Write, AfterMirrorFails
<1>8. ASSUME NEW p \in Procs, Reset(p) PROVE Roles'
  BY <1>8 DEF Reset
<1>9. ASSUME NEW p \in Procs, Acquire(p) PROVE Roles'
  BY <1>9 DEF Acquire, AfterAcquire
<1>10. ASSUME NEW p \in Procs, Begin(p) PROVE Roles'
  BY <1>10 DEF Begin
<1>11. ASSUME NEW p \in Procs, Save(p) PROVE Roles'
  <2>1. /\ disk' \in Disks /\ disk'.snapshot = disk.snapshot /\ (disk.dir => disk'.dir)
        /\ disk' = disk \/ disk'.dir
    BY <1>11, SavedDisk
  <2>2. pc[p] = "save" /\ (Moves(p, "read") \/ Done(p)) /\ UNCHANGED <<row, histories>>
    BY <1>11 DEF Save
  <2> QED
    BY <2>1, <2>2
<1>12. ASSUME NEW p \in Procs, Work(p) PROVE Roles'
  BY <1>12 DEF Work
<1>13. ASSUME NEW p \in Procs, IngestRow(p) PROVE Roles'
  BY <1>13 DEF IngestRow
<1>14. ASSUME NEW p \in Procs, Store(p) PROVE Roles'
  BY <1>14 DEF Store
<1>15. ASSUME NEW p \in Procs, Load(p) PROVE Roles'
  BY <1>15 DEF Load, ConfigOnDisk
<1>16. ASSUME NEW p \in Procs, Locate(p) PROVE Roles'
  BY <1>16 DEF Locate
<1>17. ASSUME NEW p \in Procs, Rehydrate(p) PROVE Roles'
  BY <1>17 DEF Rehydrate, Restored
<1>18. ASSUME NEW p \in Procs, Manifest(p) PROVE Roles'
  BY <1>18 DEF Manifest
<1>19. ASSUME NEW p \in Procs, Probe(p) PROVE Roles'
  BY <1>19 DEF Probe, ConfigOnDisk
<1>20. ASSUME NEW p \in Procs, Restore(p) PROVE Roles'
  BY <1>20 DEF Restore, Restored
<1>21. ASSUME NEW p \in Procs, Look(p) PROVE Roles'
  BY <1>21 DEF Look, Files
<1>22. ASSUME NEW p \in Procs, Audit(p) PROVE Roles'
  BY <1>22 DEF Audit, Listed, Files
<1>23. ASSUME NEW p \in Procs, Rmtree(p) PROVE Roles'
  <2>1. /\ disk' \in Disks /\ disk'.snapshot \in {disk.snapshot, NoConfig}
        /\ disk = NoDir => disk' = NoDir
        /\ disk' = NoDir \/ disk'.dir = disk.dir
        /\ (Moves(p, "delete") /\ disk' = NoDir) \/ Done(p)
        /\ Files(disk) \subseteq job[p].listed => unlisted' = unlisted
    BY <1>23, RemovedDisk
  <2>2. /\ pc[p] = "rmtree" /\ purging'
        /\ UNCHANGED <<row, origin, mirrored, purged, crowd, undone>>
    BY <1>23 DEF Rmtree
  <2> QED
    BY <2>1, <2>2
<1>24. ASSUME NEW p \in Procs, Delete(p) PROVE Roles'
  BY <1>24 DEF Delete
<1>25. ASSUME NEW p \in Procs, Kill(p) PROVE Roles'
  BY <1>25 DEF Kill
<1>26. ASSUME NEW p \in Procs, NEW config \in Created,
              NEW cmd \in {"create", "collect"}, Mint(p, cmd, config)
       PROVE  Roles'
  BY <1>26 DEF Mint
<1>27. ASSUME NEW p \in Procs, NEW config \in Configs \cup {NoConfig},
              NEW cmd \in Commands \ {"none", "create"}, Start(p, cmd, config)
       PROVE  Roles'
  <2>1. /\ pc[p] = "idle" /\ origin # NoConfig /\ \A q \in Procs : job[q].cmd # "create"
        /\ UNCHANGED <<row, disk, origin, mirrored>>
    BY <1>27 DEF Start
  <2>2. \A q \in Procs : /\ q # p => pc'[q] = pc[q] /\ job'[q] = job[q]
                         /\ q = p => pc'[q] = FirstStep[cmd] /\ job'[q].cmd = cmd
    BY <1>27 DEF Start
  <2>3. /\ FirstStep[cmd] \in {"reset", "load", "row", "manifest", "look"}
        /\ FirstStep[cmd] = "look" <=> cmd = "purge"
    BY DEF FirstStep
  <2>4. ~crowd' => /\ ~crowd
                   /\ \A q \in Procs \ {p} :
                        pc[q] = "idle" \/ ~("purge" \in {cmd, job[q].cmd})
    BY <1>27 DEF Start
  <2>5. \A q \in Procs : job'[q].cmd = "purge" /\ ~crowd' => Alone(q)'
    BY <2>1, <2>2, <2>4
  <2> QED
    BY <2>1, <2>2, <2>3, <2>5
<1>28. CASE Wipe
  BY <1>28 DEF Wipe
<1>29. CASE UNCHANGED vars
  BY <1>29 DEF vars
<1> QED
  BY <1>1, <1>2, <1>3, <1>4, <1>5, <1>6, <1>7, <1>8, <1>9, <1>10, <1>11, <1>12, <1>13, <1>14,
     <1>15, <1>16, <1>17, <1>18, <1>19, <1>20, <1>21, <1>22, <1>23, <1>24, <1>25, <1>26, <1>27,
     <1>28, <1>29
  DEF Next, Step, Commands

\* Nothing but a purge, or a creation before its mirror, removes the snapshot.
LEMMA StepRecoverable == IInv /\ [Next]_vars => Recoverable'
<1> SUFFICES ASSUME IInv, [Next]_vars PROVE Recoverable'
  OBVIOUS
<1> USE EngagementAssumption DEF IInv, Types, Roles, Alone, Carried, Gone, Removal, Recoverable,
        Labels, Commands, Kinds, Jobs, Disks, Raws, CreateLabels, PurgeLabels, Harmless,
        At, Goto, Done, Moves, Forget, Fault, Calm, NoDir, NoJob, HasRow, disks, histories
<1>1. ASSUME NEW p \in Procs, Insert(p) PROVE Recoverable'
  BY <1>1 DEF Insert
<1>2. ASSUME NEW p \in Procs, Mkdir(p) PROVE Recoverable'
  BY <1>2 DEF Mkdir
<1>3. ASSUME NEW p \in Procs, Column(p) PROVE Recoverable'
  BY <1>3 DEF Column
<1>4. ASSUME NEW p \in Procs, Undo(p) PROVE Recoverable'
  BY <1>4 DEF Undo
<1>5. ASSUME NEW p \in Procs, UnRow(p) PROVE Recoverable'
  BY <1>5 DEF UnRow
<1>6. ASSUME NEW p \in Procs, ReadRow(p) PROVE Recoverable'
  BY <1>6 DEF ReadRow, SnapshotOf, AfterMirrorFails
<1>7. ASSUME NEW p \in Procs, Write(p) PROVE Recoverable'
  BY <1>7 DEF Write, AfterMirrorFails
<1>8. ASSUME NEW p \in Procs, Reset(p) PROVE Recoverable'
  BY <1>8 DEF Reset
<1>9. ASSUME NEW p \in Procs, Acquire(p) PROVE Recoverable'
  BY <1>9 DEF Acquire, AfterAcquire
<1>10. ASSUME NEW p \in Procs, Begin(p) PROVE Recoverable'
  BY <1>10 DEF Begin
<1>11. ASSUME NEW p \in Procs, Save(p) PROVE Recoverable'
  <2>1. /\ disk' \in Disks /\ disk'.snapshot = disk.snapshot /\ (disk.dir => disk'.dir)
        /\ disk' = disk \/ disk'.dir
    BY <1>11, SavedDisk
  <2>2. pc[p] = "save" /\ (Moves(p, "read") \/ Done(p)) /\ UNCHANGED <<row, histories>>
    BY <1>11 DEF Save
  <2> QED
    BY <2>1, <2>2
<1>12. ASSUME NEW p \in Procs, Work(p) PROVE Recoverable'
  BY <1>12 DEF Work
<1>13. ASSUME NEW p \in Procs, IngestRow(p) PROVE Recoverable'
  BY <1>13 DEF IngestRow
<1>14. ASSUME NEW p \in Procs, Store(p) PROVE Recoverable'
  BY <1>14 DEF Store
<1>15. ASSUME NEW p \in Procs, Load(p) PROVE Recoverable'
  BY <1>15 DEF Load, ConfigOnDisk
<1>16. ASSUME NEW p \in Procs, Locate(p) PROVE Recoverable'
  BY <1>16 DEF Locate
<1>17. ASSUME NEW p \in Procs, Rehydrate(p) PROVE Recoverable'
  BY <1>17 DEF Rehydrate, Restored
<1>18. ASSUME NEW p \in Procs, Manifest(p) PROVE Recoverable'
  BY <1>18 DEF Manifest
<1>19. ASSUME NEW p \in Procs, Probe(p) PROVE Recoverable'
  BY <1>19 DEF Probe, ConfigOnDisk
<1>20. ASSUME NEW p \in Procs, Restore(p) PROVE Recoverable'
  BY <1>20 DEF Restore, Restored
<1>21. ASSUME NEW p \in Procs, Look(p) PROVE Recoverable'
  BY <1>21 DEF Look, Files
<1>22. ASSUME NEW p \in Procs, Audit(p) PROVE Recoverable'
  BY <1>22 DEF Audit, Listed, Files
<1>23. ASSUME NEW p \in Procs, Rmtree(p) PROVE Recoverable'
  <2>1. /\ disk' \in Disks /\ disk'.snapshot \in {disk.snapshot, NoConfig}
        /\ disk = NoDir => disk' = NoDir
        /\ disk' = NoDir \/ disk'.dir = disk.dir
        /\ (Moves(p, "delete") /\ disk' = NoDir) \/ Done(p)
        /\ Files(disk) \subseteq job[p].listed => unlisted' = unlisted
    BY <1>23, RemovedDisk
  <2>2. /\ pc[p] = "rmtree" /\ purging'
        /\ UNCHANGED <<row, origin, mirrored, purged, crowd, undone>>
    BY <1>23 DEF Rmtree
  <2> QED
    BY <2>1, <2>2
<1>24. ASSUME NEW p \in Procs, Delete(p) PROVE Recoverable'
  BY <1>24 DEF Delete
<1>25. ASSUME NEW p \in Procs, Kill(p) PROVE Recoverable'
  BY <1>25 DEF Kill
<1>26. ASSUME NEW p \in Procs, NEW config \in Created,
              NEW cmd \in {"create", "collect"}, Mint(p, cmd, config)
       PROVE  Recoverable'
  BY <1>26 DEF Mint
<1>27. ASSUME NEW p \in Procs, NEW config \in Configs \cup {NoConfig},
              NEW cmd \in Commands \ {"none", "create"}, Start(p, cmd, config)
       PROVE  Recoverable'
  BY <1>27 DEF Start, FirstStep
<1>28. CASE Wipe
  BY <1>28 DEF Wipe
<1>29. CASE UNCHANGED vars
  BY <1>29 DEF vars
<1> QED
  BY <1>1, <1>2, <1>3, <1>4, <1>5, <1>6, <1>7, <1>8, <1>9, <1>10, <1>11, <1>12, <1>13, <1>14,
     <1>15, <1>16, <1>17, <1>18, <1>19, <1>20, <1>21, <1>22, <1>23, <1>24, <1>25, <1>26, <1>27,
     <1>28, <1>29
  DEF Next, Step, Commands

\* A config is carried on from the row or the snapshot only.
LEMMA StepCarried == IInv /\ [Next]_vars => Carried'
<1> SUFFICES ASSUME IInv, [Next]_vars PROVE Carried'
  OBVIOUS
<1> USE EngagementAssumption DEF IInv, Types, Roles, Alone, Carried, Gone, Removal, Recoverable,
        Labels, Commands, Kinds, Jobs, Disks, Raws, CreateLabels, PurgeLabels, Harmless,
        At, Goto, Done, Moves, Forget, Fault, Calm, NoDir, NoJob, HasRow, disks, histories
<1>1. ASSUME NEW p \in Procs, Insert(p) PROVE Carried'
  BY <1>1 DEF Insert
<1>2. ASSUME NEW p \in Procs, Mkdir(p) PROVE Carried'
  BY <1>2 DEF Mkdir
<1>3. ASSUME NEW p \in Procs, Column(p) PROVE Carried'
  BY <1>3 DEF Column
<1>4. ASSUME NEW p \in Procs, Undo(p) PROVE Carried'
  BY <1>4 DEF Undo
<1>5. ASSUME NEW p \in Procs, UnRow(p) PROVE Carried'
  BY <1>5 DEF UnRow
<1>6. ASSUME NEW p \in Procs, ReadRow(p) PROVE Carried'
  BY <1>6 DEF ReadRow, SnapshotOf, AfterMirrorFails
<1>7. ASSUME NEW p \in Procs, Write(p) PROVE Carried'
  BY <1>7 DEF Write, AfterMirrorFails
<1>8. ASSUME NEW p \in Procs, Reset(p) PROVE Carried'
  BY <1>8 DEF Reset
<1>9. ASSUME NEW p \in Procs, Acquire(p) PROVE Carried'
  BY <1>9 DEF Acquire, AfterAcquire
<1>10. ASSUME NEW p \in Procs, Begin(p) PROVE Carried'
  BY <1>10 DEF Begin
<1>11. ASSUME NEW p \in Procs, Save(p) PROVE Carried'
  <2>1. /\ disk' \in Disks /\ disk'.snapshot = disk.snapshot /\ (disk.dir => disk'.dir)
        /\ disk' = disk \/ disk'.dir
    BY <1>11, SavedDisk
  <2>2. pc[p] = "save" /\ (Moves(p, "read") \/ Done(p)) /\ UNCHANGED <<row, histories>>
    BY <1>11 DEF Save
  <2> QED
    BY <2>1, <2>2
<1>12. ASSUME NEW p \in Procs, Work(p) PROVE Carried'
  BY <1>12 DEF Work
<1>13. ASSUME NEW p \in Procs, IngestRow(p) PROVE Carried'
  BY <1>13 DEF IngestRow
<1>14. ASSUME NEW p \in Procs, Store(p) PROVE Carried'
  BY <1>14 DEF Store
<1>15. ASSUME NEW p \in Procs, Load(p) PROVE Carried'
  BY <1>15 DEF Load, ConfigOnDisk
<1>16. ASSUME NEW p \in Procs, Locate(p) PROVE Carried'
  BY <1>16 DEF Locate
<1>17. ASSUME NEW p \in Procs, Rehydrate(p) PROVE Carried'
  BY <1>17 DEF Rehydrate, Restored
<1>18. ASSUME NEW p \in Procs, Manifest(p) PROVE Carried'
  BY <1>18 DEF Manifest
<1>19. ASSUME NEW p \in Procs, Probe(p) PROVE Carried'
  BY <1>19 DEF Probe, ConfigOnDisk
<1>20. ASSUME NEW p \in Procs, Restore(p) PROVE Carried'
  BY <1>20 DEF Restore, Restored
<1>21. ASSUME NEW p \in Procs, Look(p) PROVE Carried'
  BY <1>21 DEF Look, Files
<1>22. ASSUME NEW p \in Procs, Audit(p) PROVE Carried'
  BY <1>22 DEF Audit, Listed, Files
<1>23. ASSUME NEW p \in Procs, Rmtree(p) PROVE Carried'
  <2>1. /\ disk' \in Disks /\ disk'.snapshot \in {disk.snapshot, NoConfig}
        /\ disk = NoDir => disk' = NoDir
        /\ disk' = NoDir \/ disk'.dir = disk.dir
        /\ (Moves(p, "delete") /\ disk' = NoDir) \/ Done(p)
        /\ Files(disk) \subseteq job[p].listed => unlisted' = unlisted
    BY <1>23, RemovedDisk
  <2>2. /\ pc[p] = "rmtree" /\ purging'
        /\ UNCHANGED <<row, origin, mirrored, purged, crowd, undone>>
    BY <1>23 DEF Rmtree
  <2> QED
    BY <2>1, <2>2
<1>24. ASSUME NEW p \in Procs, Delete(p) PROVE Carried'
  BY <1>24 DEF Delete
<1>25. ASSUME NEW p \in Procs, Kill(p) PROVE Carried'
  BY <1>25 DEF Kill
<1>26. ASSUME NEW p \in Procs, NEW config \in Created,
              NEW cmd \in {"create", "collect"}, Mint(p, cmd, config)
       PROVE  Carried'
  BY <1>26 DEF Mint
<1>27. ASSUME NEW p \in Procs, NEW config \in Configs \cup {NoConfig},
              NEW cmd \in Commands \ {"none", "create"}, Start(p, cmd, config)
       PROVE  Carried'
  BY <1>27 DEF Start, FirstStep
<1>28. CASE Wipe
  BY <1>28 DEF Wipe
<1>29. CASE UNCHANGED vars
  BY <1>29 DEF vars
<1> QED
  BY <1>1, <1>2, <1>3, <1>4, <1>5, <1>6, <1>7, <1>8, <1>9, <1>10, <1>11, <1>12, <1>13, <1>14,
     <1>15, <1>16, <1>17, <1>18, <1>19, <1>20, <1>21, <1>22, <1>23, <1>24, <1>25, <1>26, <1>27,
     <1>28, <1>29
  DEF Next, Step, Commands

\* Without row and directory every command stops.
LEMMA StepGone == IInv /\ [Next]_vars => Gone'
<1> SUFFICES ASSUME IInv, [Next]_vars PROVE Gone'
  OBVIOUS
<1> USE EngagementAssumption DEF IInv, Types, Roles, Alone, Carried, Gone, Removal, Recoverable,
        Labels, Commands, Kinds, Jobs, Disks, Raws, CreateLabels, PurgeLabels, Harmless,
        At, Goto, Done, Moves, Forget, Fault, Calm, NoDir, NoJob, HasRow, disks, histories
<1>1. ASSUME NEW p \in Procs, Insert(p) PROVE Gone'
  BY <1>1 DEF Insert
<1>2. ASSUME NEW p \in Procs, Mkdir(p) PROVE Gone'
  BY <1>2 DEF Mkdir
<1>3. ASSUME NEW p \in Procs, Column(p) PROVE Gone'
  BY <1>3 DEF Column
<1>4. ASSUME NEW p \in Procs, Undo(p) PROVE Gone'
  BY <1>4 DEF Undo
<1>5. ASSUME NEW p \in Procs, UnRow(p) PROVE Gone'
  BY <1>5 DEF UnRow
<1>6. ASSUME NEW p \in Procs, ReadRow(p) PROVE Gone'
  BY <1>6 DEF ReadRow, SnapshotOf, AfterMirrorFails
<1>7. ASSUME NEW p \in Procs, Write(p) PROVE Gone'
  BY <1>7 DEF Write, AfterMirrorFails
<1>8. ASSUME NEW p \in Procs, Reset(p) PROVE Gone'
  BY <1>8 DEF Reset
<1>9. ASSUME NEW p \in Procs, Acquire(p) PROVE Gone'
  BY <1>9 DEF Acquire, AfterAcquire
<1>10. ASSUME NEW p \in Procs, Begin(p) PROVE Gone'
  BY <1>10 DEF Begin
<1>11. ASSUME NEW p \in Procs, Save(p) PROVE Gone'
  <2>1. /\ disk' \in Disks /\ disk'.snapshot = disk.snapshot /\ (disk.dir => disk'.dir)
        /\ disk' = disk \/ disk'.dir
    BY <1>11, SavedDisk
  <2>2. pc[p] = "save" /\ (Moves(p, "read") \/ Done(p)) /\ UNCHANGED <<row, histories>>
    BY <1>11 DEF Save
  <2> QED
    BY <2>1, <2>2
<1>12. ASSUME NEW p \in Procs, Work(p) PROVE Gone'
  BY <1>12 DEF Work
<1>13. ASSUME NEW p \in Procs, IngestRow(p) PROVE Gone'
  BY <1>13 DEF IngestRow
<1>14. ASSUME NEW p \in Procs, Store(p) PROVE Gone'
  BY <1>14 DEF Store
<1>15. ASSUME NEW p \in Procs, Load(p) PROVE Gone'
  BY <1>15 DEF Load, ConfigOnDisk
<1>16. ASSUME NEW p \in Procs, Locate(p) PROVE Gone'
  BY <1>16 DEF Locate
<1>17. ASSUME NEW p \in Procs, Rehydrate(p) PROVE Gone'
  BY <1>17 DEF Rehydrate, Restored
<1>18. ASSUME NEW p \in Procs, Manifest(p) PROVE Gone'
  BY <1>18 DEF Manifest
<1>19. ASSUME NEW p \in Procs, Probe(p) PROVE Gone'
  BY <1>19 DEF Probe, ConfigOnDisk
<1>20. ASSUME NEW p \in Procs, Restore(p) PROVE Gone'
  BY <1>20 DEF Restore, Restored
<1>21. ASSUME NEW p \in Procs, Look(p) PROVE Gone'
  BY <1>21 DEF Look, Files
<1>22. ASSUME NEW p \in Procs, Audit(p) PROVE Gone'
  BY <1>22 DEF Audit, Listed, Files
<1>23. ASSUME NEW p \in Procs, Rmtree(p) PROVE Gone'
  <2>1. /\ disk' \in Disks /\ disk'.snapshot \in {disk.snapshot, NoConfig}
        /\ disk = NoDir => disk' = NoDir
        /\ disk' = NoDir \/ disk'.dir = disk.dir
        /\ (Moves(p, "delete") /\ disk' = NoDir) \/ Done(p)
        /\ Files(disk) \subseteq job[p].listed => unlisted' = unlisted
    BY <1>23, RemovedDisk
  <2>2. /\ pc[p] = "rmtree" /\ purging'
        /\ UNCHANGED <<row, origin, mirrored, purged, crowd, undone>>
    BY <1>23 DEF Rmtree
  <2> QED
    BY <2>1, <2>2
<1>24. ASSUME NEW p \in Procs, Delete(p) PROVE Gone'
  BY <1>24 DEF Delete
<1>25. ASSUME NEW p \in Procs, Kill(p) PROVE Gone'
  BY <1>25 DEF Kill
<1>26. ASSUME NEW p \in Procs, NEW config \in Created,
              NEW cmd \in {"create", "collect"}, Mint(p, cmd, config)
       PROVE  Gone'
  BY <1>26 DEF Mint
<1>27. ASSUME NEW p \in Procs, NEW config \in Configs \cup {NoConfig},
              NEW cmd \in Commands \ {"none", "create"}, Start(p, cmd, config)
       PROVE  Gone'
  BY <1>27 DEF Start, FirstStep
<1>28. CASE Wipe
  BY <1>28 DEF Wipe
<1>29. CASE UNCHANGED vars
  BY <1>29 DEF vars
<1> QED
  BY <1>1, <1>2, <1>3, <1>4, <1>5, <1>6, <1>7, <1>8, <1>9, <1>10, <1>11, <1>12, <1>13, <1>14,
     <1>15, <1>16, <1>17, <1>18, <1>19, <1>20, <1>21, <1>22, <1>23, <1>24, <1>25, <1>26, <1>27,
     <1>28, <1>29
  DEF Next, Step, Commands

\* Files leave the directory after they are listed.
LEMMA StepRemoval == IInv /\ [Next]_vars => Removal'
<1> SUFFICES ASSUME IInv, [Next]_vars PROVE Removal'
  OBVIOUS
<1> USE EngagementAssumption DEF IInv, Types, Roles, Alone, Carried, Gone, Removal, Recoverable,
        Labels, Commands, Kinds, Jobs, Disks, Raws, CreateLabels, PurgeLabels, Harmless,
        At, Goto, Done, Moves, Forget, Fault, Calm, NoDir, NoJob, HasRow, disks, histories
<1>1. ASSUME NEW p \in Procs, Insert(p) PROVE Removal'
  BY <1>1 DEF Insert
<1>2. ASSUME NEW p \in Procs, Mkdir(p) PROVE Removal'
  BY <1>2 DEF Mkdir
<1>3. ASSUME NEW p \in Procs, Column(p) PROVE Removal'
  BY <1>3 DEF Column
<1>4. ASSUME NEW p \in Procs, Undo(p) PROVE Removal'
  BY <1>4 DEF Undo
<1>5. ASSUME NEW p \in Procs, UnRow(p) PROVE Removal'
  BY <1>5 DEF UnRow
<1>6. ASSUME NEW p \in Procs, ReadRow(p) PROVE Removal'
  BY <1>6 DEF ReadRow, SnapshotOf, AfterMirrorFails
<1>7. ASSUME NEW p \in Procs, Write(p) PROVE Removal'
  BY <1>7 DEF Write, AfterMirrorFails
<1>8. ASSUME NEW p \in Procs, Reset(p) PROVE Removal'
  BY <1>8 DEF Reset
<1>9. ASSUME NEW p \in Procs, Acquire(p) PROVE Removal'
  BY <1>9 DEF Acquire, AfterAcquire
<1>10. ASSUME NEW p \in Procs, Begin(p) PROVE Removal'
  BY <1>10 DEF Begin
<1>11. ASSUME NEW p \in Procs, Save(p) PROVE Removal'
  <2>1. /\ disk' \in Disks /\ disk'.snapshot = disk.snapshot /\ (disk.dir => disk'.dir)
        /\ disk' = disk \/ disk'.dir
    BY <1>11, SavedDisk
  <2>2. pc[p] = "save" /\ (Moves(p, "read") \/ Done(p)) /\ UNCHANGED <<row, histories>>
    BY <1>11 DEF Save
  <2> QED
    BY <2>1, <2>2
<1>12. ASSUME NEW p \in Procs, Work(p) PROVE Removal'
  BY <1>12 DEF Work
<1>13. ASSUME NEW p \in Procs, IngestRow(p) PROVE Removal'
  BY <1>13 DEF IngestRow
<1>14. ASSUME NEW p \in Procs, Store(p) PROVE Removal'
  BY <1>14 DEF Store
<1>15. ASSUME NEW p \in Procs, Load(p) PROVE Removal'
  BY <1>15 DEF Load, ConfigOnDisk
<1>16. ASSUME NEW p \in Procs, Locate(p) PROVE Removal'
  BY <1>16 DEF Locate
<1>17. ASSUME NEW p \in Procs, Rehydrate(p) PROVE Removal'
  BY <1>17 DEF Rehydrate, Restored
<1>18. ASSUME NEW p \in Procs, Manifest(p) PROVE Removal'
  BY <1>18 DEF Manifest
<1>19. ASSUME NEW p \in Procs, Probe(p) PROVE Removal'
  BY <1>19 DEF Probe, ConfigOnDisk
<1>20. ASSUME NEW p \in Procs, Restore(p) PROVE Removal'
  BY <1>20 DEF Restore, Restored
<1>21. ASSUME NEW p \in Procs, Look(p) PROVE Removal'
  BY <1>21 DEF Look, Files
<1>22. ASSUME NEW p \in Procs, Audit(p) PROVE Removal'
  BY <1>22 DEF Audit, Listed, Files
<1>23. ASSUME NEW p \in Procs, Rmtree(p) PROVE Removal'
  <2>1. /\ disk' \in Disks /\ disk'.snapshot \in {disk.snapshot, NoConfig}
        /\ disk = NoDir => disk' = NoDir
        /\ disk' = NoDir \/ disk'.dir = disk.dir
        /\ (Moves(p, "delete") /\ disk' = NoDir) \/ Done(p)
        /\ Files(disk) \subseteq job[p].listed => unlisted' = unlisted
    BY <1>23, RemovedDisk
  <2>2. /\ pc[p] = "rmtree" /\ purging'
        /\ UNCHANGED <<row, origin, mirrored, purged, crowd, undone>>
    BY <1>23 DEF Rmtree
  <2> QED
    BY <2>1, <2>2
<1>24. ASSUME NEW p \in Procs, Delete(p) PROVE Removal'
  BY <1>24 DEF Delete
<1>25. ASSUME NEW p \in Procs, Kill(p) PROVE Removal'
  BY <1>25 DEF Kill
<1>26. ASSUME NEW p \in Procs, NEW config \in Created,
              NEW cmd \in {"create", "collect"}, Mint(p, cmd, config)
       PROVE  Removal'
  BY <1>26 DEF Mint
<1>27. ASSUME NEW p \in Procs, NEW config \in Configs \cup {NoConfig},
              NEW cmd \in Commands \ {"none", "create"}, Start(p, cmd, config)
       PROVE  Removal'
  BY <1>27 DEF Start, FirstStep
<1>28. CASE Wipe
  BY <1>28 DEF Wipe
<1>29. CASE UNCHANGED vars
  BY <1>29 DEF vars
<1> QED
  BY <1>1, <1>2, <1>3, <1>4, <1>5, <1>6, <1>7, <1>8, <1>9, <1>10, <1>11, <1>12, <1>13, <1>14,
     <1>15, <1>16, <1>17, <1>18, <1>19, <1>20, <1>21, <1>22, <1>23, <1>24, <1>25, <1>26, <1>27,
     <1>28, <1>29
  DEF Next, Step, Commands

---------------------------------------------------------------------------
(* Theorems *)

LEMMA InitInv == Init => IInv
<1> SUFFICES ASSUME Init PROVE IInv
  OBVIOUS
<1>1. NoJob \in Jobs /\ NoDir \in Disks
  BY DEF NoJob, Jobs, NoDir, Disks, Raws, Commands
<1>2. Types
  BY <1>1 DEF Init, Types, Labels
<1>3. \A p \in Procs : pc[p] = "idle" /\ job[p].cmd = "none"
  BY DEF Init, NoJob
<1>4. Roles
  BY <1>3 DEF Init, Roles, CreateLabels, PurgeLabels
<1>5. Recoverable /\ Carried /\ Gone /\ Removal
  BY <1>3 DEF Init, Recoverable, Carried, Gone, Removal, NoDir
<1> QED
  BY <1>2, <1>4, <1>5 DEF IInv

LEMMA StepInv == IInv /\ [Next]_vars => IInv'
BY StepTypes, StepRoles, StepRecoverable, StepCarried, StepGone, StepRemoval DEF IInv

LEMMA Invariance == Spec => []IInv
<1>1. Init => IInv
  BY InitInv
<1>2. IInv /\ [Next]_vars => IInv'
  BY StepInv
<1> QED
  BY <1>1, <1>2, PTL DEF Spec

\* Whatever runs, fails or is lost, the row and the snapshot hold the config the
\* engagement was created with, and the snapshot stays until a purge.
THEOREM AlwaysRecoverable == Spec => []Recoverable
<1>1. IInv => Recoverable
  BY DEF IInv
<1> QED
  BY <1>1, Invariance, PTL

\* A rolled-back creation leaves nothing, and nothing ever comes back.
THEOREM AlwaysUndone == Spec => []CreateUndone
<1>1. IInv => CreateUndone
  BY DEF IInv, Gone, CreateUndone, HasRow, NoDir
<1> QED
  BY <1>1, Invariance, PTL

\* A purge alone removes what its manifest lists, all of it, and for good.
THEOREM AlwaysGone == Spec => []PurgedIsGone
<1>1. IInv => PurgedIsGone
  BY DEF IInv, Gone, Removal, PurgedIsGone, HasRow, NoDir
<1> QED
  BY <1>1, Invariance, PTL
=============================================================================
