------------------------------ MODULE RawStore ------------------------------
(***************************************************************************)
(* raw-output/ of one engagement and the audit trail of what was ingested  *)
(* into it: persistence/artifacts.py and cli/commands/ingest.py.  A        *)
(* collection replaces the whole directory, an ingest the files of one     *)
(* tool; both stage their files first and then commit with four renames,   *)
(* artifacts before manifests, under the engagement lock.  archive and     *)
(* restore take no lock.  ingest --repair-event reads the manifest before  *)
(* it takes the lock.                                                      *)
(*                                                                         *)
(* Abstractions.  The files of one tool are named by the generation that   *)
(* wrote them; a manifest and artifacts of the same generation match, and  *)
(* nothing else does (the loader verifies hashes).  Staging directories    *)
(* are invisible to the loader and appear only as "staged"; what a killed  *)
(* command leaves of them is left out.  Ingests come from one source path. *)
(* At most one writer holds the lock (theorem LockExclusive), one archive  *)
(* or restore and one repair run beside it.  A collection is its commit;   *)
(* the stages after it touch nothing here.  The renames of a rollback      *)
(* succeed.  The engagement row exists, and the engagement is not purged.  *)
(***************************************************************************)
EXTENDS Naturals, FiniteSets

CONSTANTS
  Slugs,      \* the tools of the engagement
  MaxGen,     \* bound on the collections and ingests
  MaxFaults   \* bound on kills and failed file or database operations

ASSUME RawStoreAssumption == MaxGen \in Nat /\ MaxFaults \in Nat

VARIABLES
  tree,      \* artifacts/ and manifests/: the generation of each tool, 0 for none
  tarball,   \* the archive: absent, torn by a kill, or the tree it holds
  lock,      \* "free", "writer" or "repair"
  w,         \* the collection or ingest in progress
  m,         \* the archive or restore in progress
  r,         \* the ingest --repair-event in progress
  prov,      \* ingest_provenance of every generation
  rows,      \* raw_output_ingested rows of every generation
  used,      \* generations so far
  faults,
  views,     \* history: the manifests of every committed state of the directory
  blind,     \* history: repairs that could not read the journal
  overlap    \* history: maintenance ran beside a writer

fileVars == <<tree, tarball>>
auditVars == <<prov, rows, used, blind>>
vars == <<tree, tarball, lock, w, m, r, prov, rows, used, faults, views, blind, overlap>>

Gens == 0..MaxGen
Files == [Slugs -> Gens]
Trees == [arts: Files, mans: Files]
NoFiles == [s \in Slugs |-> 0]
NoTree == [arts |-> NoFiles, mans |-> NoFiles]

Tarballs == [kind: {"absent", "torn", "whole"}, held: Trees]
NoTarball == [kind |-> "absent", held |-> NoTree]

Collected == [mode |-> "collected", slug |-> "none", replaced |-> FALSE]
Ingested(s, replaced) == [mode |-> "ingested", slug |-> s, replaced |-> replaced]
Provenances == {Collected} \cup {Ingested(s, b) : s \in Slugs, b \in BOOLEAN}

WriterLabels == {"idle", "aside_arts", "aside_mans", "place_arts", "place_mans", "event",
                 "undo_arts", "back_arts", "back_mans", "rolled"}
\* scope: the tools whose files are moved aside; batch: those written anew.
Writers == [pc: WriterLabels, ingest: BOOLEAN, scope: SUBSET Slugs, batch: SUBSET Slugs,
            gen: Gens, staged: BOOLEAN, placed: BOOLEAN, aside: Trees, before: Trees]
NoWriter == [pc |-> "idle", ingest |-> FALSE, scope |-> {}, batch |-> {}, gen |-> 0,
             staged |-> FALSE, placed |-> FALSE, aside |-> NoTree, before |-> NoTree]

MaintenanceLabels == {"idle", "tar_arts", "tar_mans", "tar_remove",
                      "restore_remove", "restore_swap", "restore_refused"}
Maintenance == [pc: MaintenanceLabels, snap: Trees]
NoMaintenance == [pc |-> "idle", snap |-> NoTree]

Repairs == [pc: {"idle", "lock", "check", "emit"}, gen: Gens]
NoRepair == [pc |-> "idle", gen |-> 0]

Init ==
  /\ tree = NoTree /\ tarball = NoTarball /\ lock = "free"
  /\ w = NoWriter /\ m = NoMaintenance /\ r = NoRepair
  /\ prov = [g \in 1..MaxGen |-> Collected] /\ rows = [g \in 1..MaxGen |-> 0]
  /\ used = 0 /\ faults = 0 /\ views = {NoFiles} /\ blind = 0 /\ overlap = FALSE

\* In f, the files of the tools in S become those of f2.
With(f, S, f2) == [s \in Slugs |-> IF s \in S THEN f2[s] ELSE f[s]]

Has(s) == tree.arts[s] # 0 \/ tree.mans[s] # 0

---------------------------------------------------------------------------
(* save_raw_outputs and save_ingested_raw_output *)

\* The staging directory is made with its parents, which a restore that has
\* removed raw-output/ does not expect to find again.
StartWriter(scope, batch, ingest) ==
  /\ w.pc = "idle" /\ lock = "free" /\ used < MaxGen
  /\ lock' = "writer" /\ used' = used + 1
  /\ w' = [NoWriter EXCEPT !.pc = "aside_arts", !.ingest = ingest, !.scope = scope,
             !.batch = batch, !.gen = used + 1, !.staged = TRUE, !.before = tree]
  /\ m' = IF m.pc = "restore_swap" THEN [m EXCEPT !.pc = "restore_refused"] ELSE m
  /\ overlap' = (overlap \/ m.pc # "idle")
  /\ UNCHANGED <<tree, tarball, r, rows, faults, views, blind>>

\* Mutant: a collection replaces only the files of the tools that succeeded.
Collect_PerTool(batch) ==
  /\ batch # {}
  /\ StartWriter(batch, batch, FALSE)
  /\ UNCHANGED prov

\* A collection in which the tools of batch succeeded. With none, the directory
\* is left alone, which is a stutter here.
Collect(batch) ==
  /\ batch # {}
  /\ StartWriter(Slugs, batch, FALSE)
  /\ UNCHANGED prov

Ingest(s, replace) ==
  /\ replace \/ ~Has(s)
  /\ StartWriter({s}, {s}, TRUE)
  /\ prov' = [prov EXCEPT ![used + 1] = Ingested(s, Has(s))]

AsideArtifacts ==
  /\ w.pc = "aside_arts"
  /\ w' = [w EXCEPT !.pc = "aside_mans", !.aside.arts = tree.arts]
  /\ tree' = [tree EXCEPT !.arts = With(@, w.scope, NoFiles)]
  /\ UNCHANGED <<tarball, lock, m, r, auditVars, faults, views, overlap>>

\* Mutant: the old manifests stay in place until the new ones overwrite them.
AsideManifests_Skipped ==
  /\ w.pc = "aside_mans"
  /\ w' = [w EXCEPT !.pc = "place_arts"]
  /\ UNCHANGED <<tree, tarball, lock, m, r, auditVars, faults, views, overlap>>

AsideManifests ==
  /\ w.pc = "aside_mans"
  /\ w' = [w EXCEPT !.pc = "place_arts", !.aside.mans = tree.mans]
  /\ tree' = [tree EXCEPT !.mans = With(@, w.scope, NoFiles)]
  /\ UNCHANGED <<tarball, lock, m, r, auditVars, faults, views, overlap>>

Written == [s \in Slugs |-> IF s \in w.batch THEN w.gen ELSE 0]

PlaceArtifacts ==
  /\ w.pc = "place_arts" /\ w.staged
  /\ w' = [w EXCEPT !.pc = "place_mans", !.placed = TRUE]
  /\ tree' = [tree EXCEPT !.arts = With(@, w.scope, Written)]
  /\ UNCHANGED <<tarball, lock, m, r, auditVars, faults, views, overlap>>

Release == w' = NoWriter /\ lock' = "free"

\* What the manifests are to be once the command has committed.
Goal == IF w.ingest THEN With(w.before.mans, w.scope, Written) ELSE Written

\* The manifest is the commit signal. A collection has nothing to record.
PlaceManifests ==
  /\ w.pc = "place_mans" /\ w.staged
  /\ tree' = [tree EXCEPT !.mans = With(@, w.scope, Written)]
  /\ views' = views \cup {Goal}
  /\ IF w.ingest THEN w' = [w EXCEPT !.pc = "event"] /\ UNCHANGED lock ELSE Release
  /\ UNCHANGED <<tarball, m, r, auditVars, faults, overlap>>

\* record_raw_output_ingested, under the same lock.
RecordIngest ==
  /\ w.pc = "event"
  /\ rows' = [rows EXCEPT ![w.gen] = @ + 1]
  /\ Release
  /\ UNCHANGED <<fileVars, m, r, prov, used, faults, views, blind, overlap>>

CommitLabels == {"aside_arts", "aside_mans", "place_arts", "place_mans"}

\* A rename of the commit fails: an ingest rolls back, a collection does not.
AfterFailedRename ==
  /\ IF w.ingest THEN w' = [w EXCEPT !.pc = "undo_arts"] /\ UNCHANGED lock ELSE Release
  /\ UNCHANGED <<fileVars, m, r, auditVars, views, overlap>>

\* An archive or restore has removed the staging directory.
StagingGone ==
  /\ w.pc \in {"place_arts", "place_mans"} /\ ~w.staged
  /\ AfterFailedRename
  /\ UNCHANGED faults

\* Mutant: artifacts that already reached their final place stay there, and the
\* old ones cannot be renamed over them.
UndoArtifacts_Kept ==
  /\ w.pc = "undo_arts"
  /\ w' = [w EXCEPT !.pc = IF w.placed THEN "back_mans" ELSE "back_arts"]
  /\ UNCHANGED <<fileVars, lock, m, r, auditVars, faults, views, overlap>>

UndoArtifacts ==
  /\ w.pc = "undo_arts"
  /\ tree' = IF w.placed THEN [tree EXCEPT !.arts = With(@, w.scope, NoFiles)] ELSE tree
  /\ w' = [w EXCEPT !.pc = "back_arts"]
  /\ UNCHANGED <<tarball, lock, m, r, auditVars, faults, views, overlap>>

\* What was moved aside, of the tools that had something to move.
Asided(f) == {s \in w.scope : f[s] # 0}

BackArtifacts ==
  /\ w.pc = "back_arts"
  /\ tree' = [tree EXCEPT !.arts = With(@, Asided(w.aside.arts), w.aside.arts)]
  /\ w' = [w EXCEPT !.pc = "back_mans"]
  /\ UNCHANGED <<tarball, lock, m, r, auditVars, faults, views, overlap>>

BackManifests ==
  /\ w.pc = "back_mans"
  /\ tree' = [tree EXCEPT !.mans = With(@, Asided(w.aside.mans), w.aside.mans)]
  /\ w' = [w EXCEPT !.pc = "rolled"]
  /\ UNCHANGED <<tarball, lock, m, r, auditVars, faults, views, overlap>>

RolledBack ==
  /\ w.pc = "rolled"
  /\ Release
  /\ UNCHANGED <<fileVars, m, r, auditVars, faults, views, overlap>>

WriterStep ==
  \/ AsideArtifacts \/ AsideManifests \/ PlaceArtifacts \/ PlaceManifests \/ RecordIngest
  \/ StagingGone \/ UndoArtifacts \/ BackArtifacts \/ BackManifests \/ RolledBack

---------------------------------------------------------------------------
(* archive and restore: no lock *)

Maintain(label) ==
  /\ m.pc = "idle"
  /\ m' = [NoMaintenance EXCEPT !.pc = label]
  /\ overlap' = (overlap \/ w.pc # "idle")
  /\ UNCHANGED <<fileVars, lock, w, r, auditVars, faults, views>>

Archive == tree # NoTree /\ tarball.kind = "absent" /\ Maintain("tar_arts")
Restore == tarball.kind = "whole" /\ Maintain("restore_remove")

\* tar.add walks the directory in the order of names.
TarArtifacts ==
  /\ m.pc = "tar_arts"
  /\ m' = [m EXCEPT !.pc = "tar_mans", !.snap.arts = tree.arts]
  /\ UNCHANGED <<fileVars, lock, w, r, auditVars, faults, views, overlap>>

TarManifests ==
  /\ m.pc = "tar_mans"
  /\ LET held == [m.snap EXCEPT !.mans = tree.mans] IN
       /\ m' = [m EXCEPT !.pc = "tar_remove", !.snap = held]
       /\ tarball' = [kind |-> "whole", held |-> held]
  /\ UNCHANGED <<tree, lock, w, r, auditVars, faults, views, overlap>>

\* shutil.rmtree of raw-output/, with the staging and the asides of a writer.
RemoveTree(label) ==
  /\ tree' = NoTree
  /\ w' = [w EXCEPT !.staged = FALSE, !.aside = NoTree]
  /\ m' = IF label = "idle" THEN NoMaintenance ELSE [m EXCEPT !.pc = label]
  /\ UNCHANGED <<lock, r, auditVars, faults, views, overlap>>

ArchiveRemove == m.pc = "tar_remove" /\ RemoveTree("idle") /\ UNCHANGED tarball

RestoreRemove == m.pc = "restore_remove" /\ RemoveTree("restore_swap") /\ UNCHANGED tarball

\* Mutant: the staging directory itself is renamed into place.
RestoreSwap_Staging ==
  /\ m.pc = "restore_swap"
  /\ tree' = tarball
  /\ m' = NoMaintenance
  /\ UNCHANGED <<tarball, lock, w, r, auditVars, faults, views, overlap>>

\* The extracted tree is renamed into place. The archive file is kept.
RestoreSwap ==
  /\ m.pc = "restore_swap"
  /\ tree' = tarball.held
  /\ m' = NoMaintenance
  /\ UNCHANGED <<tarball, lock, w, r, auditVars, faults, views, overlap>>

\* A directory that is not empty is not replaced.
RestoreRefused ==
  /\ m.pc = "restore_refused"
  /\ m' = NoMaintenance
  /\ UNCHANGED <<fileVars, lock, w, r, auditVars, faults, views, overlap>>

MaintenanceStep ==
  TarArtifacts \/ TarManifests \/ ArchiveRemove \/ RestoreRemove \/ RestoreSwap \/ RestoreRefused

---------------------------------------------------------------------------
(* ingest --repair-event *)

IsIngested(g) == g # 0 /\ prov[g].mode = "ingested"

\* The manifest is read, and its provenance kept, before the lock is held.
RepairRead(s) ==
  /\ r.pc = "idle" /\ IsIngested(tree.mans[s])
  /\ r' = [pc |-> "lock", gen |-> tree.mans[s]]
  /\ UNCHANGED <<fileVars, lock, w, m, auditVars, faults, views, overlap>>

\* Mutant: the journal is consulted without the lock.
RepairLock_Outside ==
  /\ r.pc = "lock"
  /\ r' = [r EXCEPT !.pc = "check"]
  /\ UNCHANGED <<fileVars, lock, w, m, auditVars, faults, views, overlap>>

RepairLock ==
  /\ r.pc = "lock" /\ lock = "free"
  /\ lock' = "repair" /\ r' = [r EXCEPT !.pc = "check"]
  /\ UNCHANGED <<fileVars, w, m, auditVars, faults, views, overlap>>

RepairTimeout ==
  /\ r.pc = "lock" /\ lock # "free"
  /\ r' = NoRepair
  /\ UNCHANGED <<fileVars, lock, w, m, auditVars, faults, views, overlap>>

\* Mutant: ingested_at is not compared, so an older ingest masks this one.
HasEvent_SameSource(g) == \E h \in 1..MaxGen : rows[h] > 0 /\ prov[h] = prov[g]

\* has_raw_output_ingested_event: tool, source, replaced and ingested_at match.
HasEvent(g) == \E h \in 1..MaxGen : rows[h] > 0 /\ prov[h] = prov[g] /\ h = g

EndRepair == r' = NoRepair /\ lock' = "free"

NothingToRepair ==
  /\ r.pc = "check" /\ HasEvent(r.gen)
  /\ EndRepair
  /\ UNCHANGED <<fileVars, w, m, auditVars, faults, views, overlap>>

EventMissing ==
  /\ r.pc = "check" /\ ~HasEvent(r.gen)
  /\ r' = [r EXCEPT !.pc = "emit"]
  /\ UNCHANGED <<fileVars, lock, w, m, auditVars, faults, views, overlap>>

RepairEmit ==
  /\ r.pc = "emit"
  /\ rows' = [rows EXCEPT ![r.gen] = @ + 1]
  /\ EndRepair
  /\ UNCHANGED <<fileVars, w, m, prov, used, blind, faults, views, overlap>>

RepairStep == RepairLock \/ RepairTimeout \/ NothingToRepair \/ EventMissing \/ RepairEmit

---------------------------------------------------------------------------
(* Faults *)

Fault == faults < MaxFaults /\ faults' = faults + 1

RenameFails == w.pc \in CommitLabels /\ Fault /\ AfterFailedRename

\* The data is committed, the event is not: a warning names --repair-event.
RecordFails ==
  /\ w.pc = "event" /\ Fault
  /\ Release
  /\ UNCHANGED <<fileVars, m, r, auditVars, views, overlap>>

WriterKilled ==
  /\ w.pc # "idle" /\ Fault
  /\ Release
  /\ UNCHANGED <<fileVars, m, r, auditVars, views, overlap>>

\* A tarball cut short stays under its final name.
ArchiveKilled ==
  /\ m.pc \in {"tar_arts", "tar_mans"} /\ Fault
  /\ tarball' = [NoTarball EXCEPT !.kind = "torn"]
  /\ m' = NoMaintenance
  /\ UNCHANGED <<tree, lock, w, r, auditVars, views, overlap>>

\* A removal that is cut short has removed any part of the tree.
RemovalKilled ==
  /\ m.pc \in {"tar_remove", "restore_remove"} /\ Fault
  /\ \E A, B \in SUBSET Slugs :
       tree' = [arts |-> With(tree.arts, A, NoFiles), mans |-> With(tree.mans, B, NoFiles)]
  /\ m' = NoMaintenance
  /\ UNCHANGED <<tarball, lock, w, r, auditVars, views, overlap>>

RestoreKilled ==
  /\ m.pc = "restore_swap" /\ Fault
  /\ m' = NoMaintenance
  /\ UNCHANGED <<fileVars, lock, w, r, auditVars, views, overlap>>

\* The journal cannot be read: "a duplicate may be emitted".
RepairBlind ==
  /\ r.pc = "check" /\ Fault
  /\ r' = [r EXCEPT !.pc = "emit"] /\ blind' = blind + 1
  /\ UNCHANGED <<fileVars, lock, w, m, prov, rows, used, views, overlap>>

RepairKilled ==
  /\ r.pc \in {"check", "emit"} /\ Fault
  /\ EndRepair
  /\ UNCHANGED <<fileVars, w, m, auditVars, views, overlap>>

FaultStep ==
  \/ RenameFails \/ RecordFails \/ WriterKilled
  \/ ArchiveKilled \/ RemovalKilled \/ RestoreKilled
  \/ RepairBlind \/ RepairKilled

---------------------------------------------------------------------------
Next ==
  \/ \E batch \in SUBSET Slugs : Collect(batch)
  \/ \E s \in Slugs : (\E replace \in BOOLEAN : Ingest(s, replace)) \/ RepairRead(s)
  \/ Archive \/ Restore
  \/ WriterStep \/ MaintenanceStep \/ RepairStep
  \/ FaultStep

Spec == Init /\ [][Next]_vars

\* Commands that were started run until they end or are killed, and an operator
\* keeps asking for the repair of every tool.
FairSpec ==
  /\ Spec
  /\ WF_vars(WriterStep) /\ WF_vars(MaintenanceStep) /\ WF_vars(RepairStep)
  /\ \A s \in Slugs : SF_vars(RepairRead(s))
---------------------------------------------------------------------------
(* Properties *)

TypeOK ==
  /\ tree \in Trees /\ tarball \in Tarballs /\ lock \in {"free", "writer", "repair"}
  /\ w \in Writers /\ m \in Maintenance /\ r \in Repairs
  /\ prov \in [1..MaxGen -> Provenances] /\ rows \in [1..MaxGen -> Nat]
  /\ used \in Gens /\ faults \in 0..MaxFaults /\ views \in SUBSET Files
  /\ blind \in Nat /\ overlap \in BOOLEAN

Consistent(t) == \A s \in Slugs : t.mans[s] # 0 /\ t.arts[s] # 0 => t.arts[s] = t.mans[s]

\* A manifest is never found beside the artifacts of another run, wherever a
\* commit, a rollback, an archive or a restore is killed: a manifest goes
\* before new artifacts come and returns after they are gone.
ManifestsMatch == ~overlap => Consistent(tree)

\* Every manifest finds its artifacts: what load_raw_outputs and
\* confine_and_resolve accept.
Loadable(t) == \A s \in Slugs : t.mans[s] # 0 => t.arts[s] = t.mans[s]

\* What a replay accepts never combines outputs of tools that were not on disk
\* together after some commit; an interrupted command can only make tools
\* disappear from it.
LoadsCommitted ==
  ~overlap /\ Loadable(tree) =>
    \E v \in views : \A s \in Slugs : tree.mans[s] \in {0, v[s]}

\* An ingest whose commit fails leaves the directory as it found it.
RollbackRestores == w.pc = "rolled" /\ ~overlap => tree = w.before

\* No ingest is journaled twice, except by a repair that could not read the
\* journal: normal recording, repairs of a manifest read before the lock, and
\* their failures in any order.
RecordedOnce == \A g \in 1..MaxGen : rows[g] <= 1 + blind

\* Whoever keeps repairing gets the event of every ingested manifest, even
\* where earlier ingests of the same tool left theirs.
RepairCompletes ==
  \A s \in Slugs, g \in 1..MaxGen :
    (tree.mans[s] = g /\ IsIngested(g)) ~> (rows[g] > 0 \/ tree.mans[s] # g)

---------------------------------------------------------------------------
(* The inductive invariant *)

\* Where the files of a tool in the scope of the writer are: in the directory
\* (a, b for artifacts and manifest), moved aside (c, d), or written anew.
ScopeState(s) ==
  LET a == tree.arts[s]
      b == tree.mans[s]
      c == w.aside.arts[s]
      d == w.aside.mans[s]
      oldA == w.before.arts[s]
      oldB == w.before.mans[s]
      new == Written[s]
      Untouched == ~w.placed /\ a = oldA /\ b = oldB /\ c = 0 /\ d = 0
      OneAside  == ~w.placed /\ a = 0 /\ b = oldB /\ c = oldA /\ d = 0
      BothAside == ~w.placed /\ a = 0 /\ b = 0 /\ c = oldA /\ d = oldB
      Placed    == w.placed /\ a = new /\ b = 0 /\ c = oldA /\ d = oldB
  IN
  /\ w.pc = "aside_arts" => Untouched
  /\ w.pc = "aside_mans" => OneAside
  /\ w.pc = "place_arts" => BothAside
  /\ w.pc = "place_mans" => Placed
  /\ w.pc = "event"      => a = new /\ b = new
  /\ w.pc = "undo_arts"  => Untouched \/ OneAside \/ BothAside \/ Placed
  /\ w.pc = "back_arts"  =>
       /\ (a = oldA /\ c = 0) \/ (a = 0 /\ c = oldA)
       /\ (b = oldB /\ d = 0) \/ (b = 0 /\ d = oldB)
  /\ w.pc = "back_mans"  => a = oldA /\ ((b = oldB /\ d = 0) \/ (b = 0 /\ d = oldB))
  /\ w.pc = "rolled"     => a = oldA /\ b = oldB

WriterInv ==
  w.pc # "idle" =>
    /\ Consistent(w.before)
    /\ \A s \in w.scope : ScopeState(s)
    /\ \A s \in Slugs \ w.scope :
         tree.arts[s] = w.before.arts[s] /\ tree.mans[s] = w.before.mans[s]

MaintenanceInv ==
  /\ Consistent(tarball.held)
  /\ w.pc = "idle" \/ m.pc = "idle"
  /\ m.pc = "tar_mans" => m.snap.arts = tree.arts

IndInv == TypeOK /\ (~overlap => Consistent(tree) /\ WriterInv /\ MaintenanceInv)
=============================================================================
