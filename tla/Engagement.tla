----------------------------- MODULE Engagement -----------------------------
(***************************************************************************)
(* The life of one engagement: its database row, its directory and the     *)
(* copy of its config there.  Creation with its rollback                   *)
(* (cli/commands/engagement.py), the config mirror of COLLECT              *)
(* (pipeline/config_snapshot_mirror.py), recovery of a wiped database by   *)
(* "replay" and "ingest --repair-event", and "purge".  Creation, purge and *)
(* the rehydration of replay run without the engagement lock.              *)
(*                                                                         *)
(* Abstractions.  A config is a model value.  Of the directory the model   *)
(* keeps the mirrored config and which kinds of raw output it holds.  The  *)
(* stages a command executes are one step, "work": they fail without a row *)
(* and change nothing modelled here (module Pipeline has them).  A fault   *)
(* stands for any exception of a step, or for the death of its process,    *)
(* upon which the operating system releases the file lock.                 *)
(***************************************************************************)
EXTENDS Naturals

CONSTANTS
  Procs,      \* invocations of mseco that may be alive at the same time
  Configs,    \* the contents of config files
  Created,    \* those engagements are created with, a subset of Configs
  MaxFaults,  \* bound on failed steps and killed processes
  MaxWipes,   \* bound on losses of the database
  NoConfig, NoProc

ASSUME EngagementAssumption ==
  /\ Created \subseteq Configs
  /\ MaxFaults \in Nat /\ MaxWipes \in Nat
  /\ NoConfig \notin Configs /\ NoProc \notin Procs

VARIABLES
  row,        \* config_snapshot of the engagements row, NoConfig: there is no row
  disk,       \* the engagement directory
  lock,       \* holder of .locks/<id>.lock
  pc, job,    \* per process: next step, and its locals
  faults, wipes,
  origin,     \* history: the config the engagement was created with
  mirrored,   \* history: a mirror of the config succeeded
  purging,    \* history: a purge began to delete
  purged,     \* history: a purge reported success
  crowd,      \* history: a purge overlapped another invocation
  unlisted,   \* history: a purge removed files its audit manifest does not name
  undone      \* history: a failed create rolled every step of it back

disks == <<row, disk>>
histories == <<origin, mirrored, purging, purged, crowd, unlisted, undone>>
vars == <<row, disk, lock, pc, job, faults, wipes, histories>>

NoDir == [dir |-> FALSE, snapshot |-> NoConfig, raw |-> {}]
NoJob == [cmd |-> "none", config |-> NoConfig, listed |-> {}, clean |-> TRUE]

Init ==
  /\ row = NoConfig /\ disk = NoDir /\ lock = NoProc
  /\ pc = [p \in Procs |-> "idle"] /\ job = [p \in Procs |-> NoJob]
  /\ faults = 0 /\ wipes = 0
  /\ origin = NoConfig /\ mirrored = FALSE /\ purging = FALSE /\ purged = FALSE
  /\ crowd = FALSE /\ unlisted = FALSE /\ undone = FALSE

HasRow == row # NoConfig
\* The mirrored config and the raw output.
Files(d) == d.raw \cup (IF d.snapshot = NoConfig THEN {} ELSE {"config_snapshot.json"})

At(p, label) == pc[p] = label
Goto(p, label) == pc' = [pc EXCEPT ![p] = label]
\* p keeps no config any longer.
Forget(p) == job' = [job EXCEPT ![p].config = NoConfig]
\* The command ends, by success or by SystemExit; "with lock.hold" releases.
Done(p) ==
  /\ Goto(p, "idle") /\ job' = [job EXCEPT ![p] = NoJob]
  /\ lock' = IF lock = p THEN NoProc ELSE lock
Moves(p, label) == Goto(p, label) /\ UNCHANGED <<lock, job>>
Fault == faults < MaxFaults /\ faults' = faults + 1 /\ UNCHANGED wipes
Calm == UNCHANGED <<faults, wipes>>
---------------------------------------------------------------------------
(* Commands are issued. *)

\* "engagement create", and "run" or "collect" without --engagement-id: a
\* fresh UUID4, which nobody else can know yet.
Mint(p, cmd, config) ==
  /\ At(p, "idle") /\ origin = NoConfig /\ \A q \in Procs : At(q, "idle")
  /\ job' = [job EXCEPT ![p] = [NoJob EXCEPT !.cmd = cmd, !.config = config]]
  /\ Goto(p, "insert") /\ Calm
  /\ UNCHANGED <<disks, lock, histories>>

FirstStep ==
  [collect |-> "reset", replay |-> "load", replay_later |-> "load", ingest |-> "row",
   repair |-> "manifest", purge |-> "look"]

\* Commands on an existing engagement; its id is printed when create is done.
Start(p, cmd, config) ==
  /\ At(p, "idle") /\ origin # NoConfig /\ \A q \in Procs : job[q].cmd # "create"
  /\ job' = [job EXCEPT ![p] = [NoJob EXCEPT !.cmd = cmd, !.config = config]]
  /\ Goto(p, FirstStep[cmd])
  /\ crowd' = (crowd \/ \E q \in Procs \ {p} : /\ ~At(q, "idle")
                                               /\ "purge" \in {cmd, job[q].cmd})
  /\ Calm
  /\ UNCHANGED <<disks, lock, origin, mirrored, purging, purged, unlisted, undone>>
---------------------------------------------------------------------------
(* engagement create, and its rollback. *)

\* EngagementRepo.create, in one transaction.
Insert(p) ==
  /\ At(p, "insert")
  /\ \/ /\ row' = job[p].config /\ origin' = job[p].config /\ Calm /\ Forget(p)
        /\ Goto(p, IF job[p].cmd = "create" THEN "mkdir" ELSE "acquire") /\ UNCHANGED lock
     \/ /\ Fault /\ Done(p) /\ UNCHANGED <<row, origin>>
  /\ UNCHANGED <<disk, mirrored, purging, purged, crowd, unlisted, undone>>

\* Without a directory there is nothing to roll back but the row; what a
\* create_engagement_dir that fails halfway has made, stays.
Mkdir(p) ==
  /\ At(p, "mkdir")
  /\ \/ /\ disk' = [disk EXCEPT !.dir = TRUE] /\ Calm /\ Moves(p, "column")
     \/ /\ Fault
        /\ \E made \in BOOLEAN :
             /\ disk' = [disk EXCEPT !.dir = made]
             /\ job' = [job EXCEPT ![p].clean = ~made]
        /\ Goto(p, "unrow") /\ UNCHANGED lock
  /\ UNCHANGED <<row, histories>>

\* update_engagement_dir.
Column(p) ==
  /\ At(p, "column")
  /\ \/ HasRow /\ Calm /\ Moves(p, "read")
     \/ ~HasRow /\ Calm /\ Moves(p, "undo")
     \/ Fault /\ Moves(p, "undo")
  /\ UNCHANGED <<disks, histories>>

\* shutil.rmtree(eng_dir, ignore_errors=True).
Undo(p) ==
  /\ At(p, "undo")
  /\ \/ disk' = NoDir /\ Calm /\ UNCHANGED job
     \/ Fault /\ job' = [job EXCEPT ![p].clean = FALSE] /\ UNCHANGED disk
  /\ Goto(p, "unrow")
  /\ UNCHANGED <<row, lock, histories>>

\* repo.delete: any failure of it is logged only, a missing row included.
UnRow(p) ==
  /\ At(p, "unrow")
  /\ \/ row' = NoConfig /\ undone' = job[p].clean /\ Calm
     \/ Fault /\ UNCHANGED <<row, undone>>
  /\ Done(p)
  /\ UNCHANGED <<disk, origin, mirrored, purging, purged, crowd, unlisted>>
---------------------------------------------------------------------------
(* The mirror of the config: strict in create, fail-open after COLLECT. *)

\* Mutant: the handler of the mirror deletes the row and forgets the directory.
AfterMirrorFails_RowOnly(p) == IF job[p].cmd = "create" THEN "unrow" ELSE "work"

AfterMirrorFails(p) == IF job[p].cmd = "create" THEN "undo" ELSE "work"

\* Mutant: the config of the invocation is mirrored.
SnapshotOf_Invocation(p) == job[p].config

\* What _do_mirror decodes: the config in the row, whoever runs.
SnapshotOf(p) == row

\* The row is read, in a transaction of its own.
ReadRow(p) ==
  /\ At(p, "read")
  /\ \/ /\ HasRow /\ Calm /\ Goto(p, "write")
        /\ job' = [job EXCEPT ![p].config = SnapshotOf(p)] /\ UNCHANGED lock
     \/ /\ (~HasRow /\ Calm) \/ Fault
        /\ Goto(p, AfterMirrorFails(p)) /\ Forget(p) /\ UNCHANGED lock
  /\ UNCHANGED <<disks, histories>>

\* write_config_snapshot: a temporary file in the directory, then replace();
\* a failure before the replace leaves the old snapshot.
Write(p) ==
  /\ At(p, "write")
  /\ \/ /\ disk.dir /\ Calm
        /\ disk' = [disk EXCEPT !.snapshot = job[p].config] /\ mirrored' = TRUE
        /\ IF job[p].cmd = "create" THEN Done(p)
           ELSE Goto(p, "work") /\ Forget(p) /\ UNCHANGED lock
     \/ /\ (~disk.dir /\ Calm) \/ Fault
        /\ Goto(p, AfterMirrorFails(p)) /\ Forget(p) /\ UNCHANGED <<lock, disk, mirrored>>
  /\ UNCHANGED <<row, origin, purging, purged, crowd, unlisted, undone>>
---------------------------------------------------------------------------
(* collect and run, the stages, ingest. *)

\* reset_for_rerun, or the reading of the state to resume from.
Reset(p) ==
  /\ At(p, "reset")
  /\ \/ HasRow /\ Calm /\ Moves(p, "acquire")
     \/ ~HasRow /\ Calm /\ Done(p)
     \/ Fault /\ Done(p)
  /\ UNCHANGED <<disks, histories>>

AfterAcquire ==
  [collect |-> "begin", replay |-> "work", replay_later |-> "work", ingest |-> "store",
   repair |-> "probe"]

\* EngagementLock.hold, or LockTimeoutError.
Acquire(p) ==
  /\ At(p, "acquire")
  /\ \/ lock = NoProc /\ lock' = p /\ Goto(p, AfterAcquire[job[p].cmd]) /\ UNCHANGED job
     \/ lock # NoProc /\ Done(p)
  /\ Calm /\ UNCHANGED <<disks, histories>>

\* COLLECT begins with update_state.
Begin(p) ==
  /\ At(p, "begin")
  /\ \/ HasRow /\ Calm /\ Moves(p, "save")
     \/ ~HasRow /\ Calm /\ Done(p)
     \/ Fault /\ Done(p)
  /\ UNCHANGED <<disks, histories>>

\* save_raw_outputs finds or makes the directory, then stores the output of
\* the adapters that succeeded, if any; ingested manifests may be replaced.
Save(p) ==
  /\ At(p, "save")
  /\ \/ /\ \/ disk' = [disk EXCEPT !.dir = TRUE]
           \/ \E kept \in SUBSET (disk.raw \ {"collected"}) :
                disk' = [disk EXCEPT !.dir = TRUE, !.raw = kept \cup {"collected"}]
        /\ Calm /\ Moves(p, "read")
     \/ Fault /\ Done(p) /\ \E made \in BOOLEAN : disk' = [disk EXCEPT !.dir = @ \/ made]
  /\ UNCHANGED <<row, histories>>

\* The stages and events that follow: without a row they end the command.
Work(p) == At(p, "work") /\ Calm /\ Done(p) /\ UNCHANGED <<disks, histories>>

\* ingest looks the engagement up before it reads anything, without the lock.
IngestRow(p) ==
  /\ At(p, "row")
  /\ \/ HasRow /\ Calm /\ Moves(p, "acquire")
     \/ ~HasRow /\ Calm /\ Done(p)
     \/ Fault /\ Done(p)
  /\ UNCHANGED <<disks, histories>>

\* save_ingested_raw_output, which does not make the directory.
Store(p) ==
  /\ At(p, "store")
  /\ \/ /\ disk.dir /\ disk' = [disk EXCEPT !.raw = @ \cup {"ingested"}]
        /\ Calm /\ Moves(p, "work")
     \/ ~disk.dir /\ Calm /\ Done(p) /\ UNCHANGED disk
     \/ Fault /\ Done(p) /\ UNCHANGED disk
  /\ UNCHANGED <<row, histories>>
---------------------------------------------------------------------------
(* Recovery after the loss of the database. *)

\* What read_config_snapshot finds, whole or not at all; NoConfig is its error.
ConfigOnDisk == IF disk.dir THEN disk.snapshot ELSE NoConfig

\* _load_config_for_replay: the row, or else the snapshot, be the row missing
\* or the database in trouble.
Load(p) ==
  /\ At(p, "load")
  /\ LET Fallback ==
           IF ConfigOnDisk # NoConfig
           THEN /\ job' = [job EXCEPT ![p].config = ConfigOnDisk]
                /\ Goto(p, "fallback") /\ UNCHANGED lock
           ELSE Done(p)
     IN \/ HasRow /\ Calm /\ Moves(p, "locate")
        \/ ~HasRow /\ Calm /\ Fallback
        \/ Fault /\ Fallback
  /\ UNCHANGED <<disks, histories>>

\* get_engagement_dir; the fallback is refused from any stage but PARSE.
Locate(p) ==
  /\ pc[p] \in {"locate", "fallback"}
  /\ IF ~disk.dir \/ (At(p, "fallback") /\ job[p].cmd = "replay_later")
     THEN Done(p)
     ELSE Moves(p, IF At(p, "fallback") THEN "rehydrate" ELSE "reset")
  /\ Calm /\ UNCHANGED <<disks, histories>>

\* Mutant: the row is not inserted.
Restored_Never(config) == row

\* rehydrate_from_snapshot in one transaction; "row already exists" and the
\* duplicate-key race are tolerated.
Restored(config) == IF HasRow THEN row ELSE config

Rehydrate(p) ==
  /\ At(p, "rehydrate")
  /\ \/ /\ row' = Restored(job[p].config) /\ Calm
        /\ Goto(p, "reset") /\ Forget(p) /\ UNCHANGED lock
     \/ Fault /\ Done(p) /\ UNCHANGED row
  /\ UNCHANGED <<disk, histories>>

\* _repair_event: an ingested manifest, then the lock, then the row.
Manifest(p) ==
  /\ At(p, "manifest")
  /\ \/ "ingested" \in disk.raw /\ Moves(p, "acquire")
     \/ "ingested" \notin disk.raw /\ Done(p)
  /\ Calm /\ UNCHANGED <<disks, histories>>

\* On a database error the command goes straight on to the event.
Probe(p) ==
  /\ At(p, "probe")
  /\ \/ HasRow /\ Calm /\ Moves(p, "work")
     \/ /\ ~HasRow /\ Calm
        /\ IF ConfigOnDisk = NoConfig THEN Done(p)
           ELSE /\ job' = [job EXCEPT ![p].config = ConfigOnDisk]
                /\ Goto(p, "restore") /\ UNCHANGED lock
     \/ Fault /\ Moves(p, "work")
  /\ UNCHANGED <<disks, histories>>

Restore(p) ==
  /\ At(p, "restore")
  /\ \/ /\ row' = Restored(job[p].config) /\ Calm
        /\ Goto(p, "work") /\ Forget(p) /\ UNCHANGED lock
     \/ Fault /\ Done(p) /\ UNCHANGED row
  /\ UNCHANGED <<disk, histories>>
---------------------------------------------------------------------------
(* engagement purge. *)

\* A directory without files is refused; without a directory only the row goes.
Look(p) ==
  /\ At(p, "look")
  /\ \/ ~disk.dir /\ Moves(p, "delete")
     \/ disk.dir /\ Files(disk) # {} /\ Moves(p, "audit")
     \/ disk.dir /\ Files(disk) = {} /\ Done(p)
  /\ Calm /\ UNCHANGED <<disks, histories>>

\* Mutant: only what lies under raw-output is listed.
Listed_RawOnly == disk.raw

\* Every file rglob finds.
Listed == Files(disk)

\* The manifest that names them is written.
Audit(p) ==
  /\ At(p, "audit")
  /\ \/ /\ job' = [job EXCEPT ![p].listed = Listed]
        /\ Calm /\ Goto(p, "rmtree") /\ UNCHANGED lock
     \/ Fault /\ Done(p)
  /\ UNCHANGED <<disks, histories>>

\* shutil.rmtree may fail, or be killed, with any part of the tree gone.
Rmtree(p) ==
  /\ At(p, "rmtree") /\ purging' = TRUE
  /\ \/ /\ disk' = NoDir /\ Calm /\ Moves(p, "delete")
        /\ unlisted' = (unlisted \/ ~(Files(disk) \subseteq job[p].listed))
     \/ /\ Fault /\ Done(p)
        /\ \E left \in SUBSET disk.raw, snap \in {disk.snapshot, NoConfig} :
             LET rest == [disk EXCEPT !.raw = left, !.snapshot = snap]
             IN  /\ disk' = rest
                 /\ unlisted' = (unlisted \/ ~(Files(disk) \ Files(rest) \subseteq job[p].listed))
  /\ UNCHANGED <<row, origin, mirrored, purged, crowd, undone>>

\* repo.delete: the row and every child row, or an error when there is no row.
Delete(p) ==
  /\ At(p, "delete") /\ purging' = TRUE
  /\ \/ HasRow /\ row' = NoConfig /\ purged' = TRUE /\ Calm
     \/ ~HasRow /\ Calm /\ UNCHANGED <<row, purged>>
     \/ Fault /\ UNCHANGED <<row, purged>>
  /\ Done(p)
  /\ UNCHANGED <<disk, origin, mirrored, crowd, unlisted, undone>>
---------------------------------------------------------------------------
(* The environment. *)

\* The process is killed between two steps.
Kill(p) == ~At(p, "idle") /\ Fault /\ Done(p) /\ UNCHANGED <<disks, histories>>

\* The database file is lost; init_schema makes an empty one.
Wipe ==
  /\ HasRow /\ wipes < MaxWipes /\ wipes' = wipes + 1 /\ row' = NoConfig
  /\ UNCHANGED <<disk, lock, pc, job, faults, histories>>

Step(p) ==
  \/ Insert(p) \/ Mkdir(p) \/ Column(p) \/ Undo(p) \/ UnRow(p) \/ ReadRow(p) \/ Write(p)
  \/ Reset(p) \/ Acquire(p) \/ Begin(p) \/ Save(p) \/ Work(p) \/ IngestRow(p) \/ Store(p)
  \/ Load(p) \/ Locate(p) \/ Rehydrate(p) \/ Manifest(p) \/ Probe(p) \/ Restore(p)
  \/ Look(p) \/ Audit(p) \/ Rmtree(p) \/ Delete(p)

Next ==
  \/ \E p \in Procs, config \in Created, cmd \in {"create", "collect"} : Mint(p, cmd, config)
  \/ \E p \in Procs, config \in Configs : Start(p, "collect", config)
  \/ \E p \in Procs :
       \/ \E cmd \in {"replay", "replay_later", "ingest", "repair", "purge"} :
            Start(p, cmd, NoConfig)
       \/ Step(p) \/ Kill(p)
  \/ Wipe

Spec == Init /\ [][Next]_vars

\* A live invocation goes on, and an operator who misses the engagement keeps
\* issuing "mseco replay <id> --from parse" (docs/runbook.md).
FairSpec ==
  /\ Spec
  /\ \A p \in Procs : WF_vars(Step(p))
  /\ \A p \in Procs : SF_vars(Start(p, "replay", NoConfig))
---------------------------------------------------------------------------
(* Properties *)

\* Once a config was mirrored it stays recoverable until a purge: whatever
\* configs later invocations bring, and however replay, repair, a re-collection
\* and the loss of the database interleave, the row and the snapshot hold the
\* config the engagement was created with (_do_mirror, rehydrate_from_snapshot).
Recoverable ==
  /\ row \in {NoConfig, origin} /\ disk.snapshot \in {NoConfig, origin}
  /\ mirrored /\ ~purging => disk.snapshot = origin

\* A failed "engagement create" whose rollback met no second failure leaves
\* neither a row nor a directory, for good (the except branches of create_cmd).
CreateUndone == undone => ~HasRow /\ ~disk.dir

\* A purge that reported success, and that no other invocation overlapped, has
\* removed the row and every file, nothing brings them back, and every file any
\* attempt removed is named in the manifest written before (purge, delete).
PurgedIsGone == ~crowd => ~unlisted /\ (purged => ~HasRow /\ ~disk.dir)

\* After the loss of the database an engagement whose config was mirrored gets
\* its row back, unless somebody purges it (replay's filesystem fallback).
WipedComesBack == mirrored /\ ~HasRow /\ ~purging ~> HasRow \/ purging
=============================================================================
