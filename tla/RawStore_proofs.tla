--------------------------- MODULE RawStore_proofs ---------------------------
(***************************************************************************)
(* Manifests match their artifacts and a failed ingest is undone, for any  *)
(* set of tools and any number of kills and failed renames.  WriterInv     *)
(* says, for each label of a commit or rollback, where every file of the   *)
(* tools in its scope is.                                                  *)
(***************************************************************************)
EXTENDS RawStore, TLAPS

\* The file maps are functions from tools to generations.
LEMMA FileMaps ==
  /\ NoFiles \in Files /\ NoTree \in Trees
  /\ \A f, f2 \in Files : \A S : With(f, S, f2) \in Files
  /\ \A f, f2, S : \A s \in Slugs : With(f, S, f2)[s] = IF s \in S THEN f2[s] ELSE f[s]
  /\ \A s \in Slugs : NoFiles[s] = 0
BY RawStoreAssumption DEF NoFiles, NoTree, Files, Trees, Gens, With

\* What a writer puts into the directory has the type of files.
LEMMA WrittenType == TypeOK => Written \in Files /\ Goal \in Files
<1> SUFFICES ASSUME TypeOK PROVE Written \in Files /\ Goal \in Files
  OBVIOUS
<1>1. Written \in Files
  BY RawStoreAssumption DEF TypeOK, Written, Files, Gens, Writers
<1>2. w.before.mans \in Files
  BY DEF TypeOK, Writers, Trees
<1> QED
  BY <1>1, <1>2, FileMaps DEF Goal

\* The records without a command in progress.
LEMMA IdleTypes ==
  /\ NoWriter \in Writers /\ NoMaintenance \in Maintenance /\ NoRepair \in Repairs
  /\ NoTarball \in Tarballs
BY FileMaps, RawStoreAssumption
   DEF NoWriter, Writers, WriterLabels, NoMaintenance, Maintenance, MaintenanceLabels,
       NoRepair, Repairs, NoTarball, Tarballs, Gens

\* Journaling an event keeps the counts natural numbers.
LEMMA RowsType ==
  TypeOK => \A g : [rows EXCEPT ![g] = @ + 1] \in [1..MaxGen -> Nat]
<1> SUFFICES ASSUME TypeOK, NEW g PROVE [rows EXCEPT ![g] = @ + 1] \in [1..MaxGen -> Nat]
  OBVIOUS
<1>1. rows \in [1..MaxGen -> Nat]
  BY DEF TypeOK
<1>2. CASE g \in 1..MaxGen
  BY <1>1, <1>2
<1>3. CASE g \notin 1..MaxGen
  BY <1>1, <1>3
<1> QED
  BY <1>2, <1>3

\* The empty directory satisfies the invariant.
LEMMA InitInv == Init => IndInv
<1> SUFFICES ASSUME Init PROVE IndInv
  OBVIOUS
<1>1. TypeOK
  <2>1. /\ prov \in [1..MaxGen -> Provenances] /\ rows \in [1..MaxGen -> Nat]
        /\ used \in Gens /\ faults \in 0..MaxFaults /\ blind \in Nat
    BY RawStoreAssumption DEF Init, Provenances, Gens
  <2> QED
    BY <2>1, FileMaps, IdleTypes DEF Init, TypeOK
<1>2. Consistent(NoTree)
  BY FileMaps DEF Consistent, NoTree
<1> QED
  BY <1>1, <1>2 DEF Init, IndInv, WriterInv, MaintenanceInv, NoWriter, NoMaintenance,
     NoTarball

\* Starting a writer keeps the types.
LEMMA StartType ==
  ASSUME TypeOK, NEW scope \in SUBSET Slugs, NEW batch \in SUBSET Slugs,
         NEW ingest \in BOOLEAN,
         StartWriter(scope, batch, ingest)
  PROVE  /\ w' \in Writers /\ used' \in Gens /\ used + 1 \in 1..MaxGen
         /\ lock' \in {"free", "writer", "repair"} /\ overlap' \in BOOLEAN
         /\ m' \in Maintenance
         /\ UNCHANGED <<tree, tarball, r, rows, faults, views, blind>>
<1>1. used + 1 \in 1..MaxGen /\ used + 1 \in Gens
  BY RawStoreAssumption DEF TypeOK, StartWriter, Gens
<1>2. w' \in Writers
  BY <1>1, FileMaps DEF StartWriter, TypeOK, Writers, WriterLabels, NoWriter
<1>3. m' \in Maintenance
  BY DEF StartWriter, TypeOK, Maintenance, MaintenanceLabels
<1> QED
  BY <1>1, <1>2, <1>3 DEF StartWriter, TypeOK

\* Every step of the writer keeps the types.
LEMMA WriterType == TypeOK /\ WriterStep => TypeOK'
<1> SUFFICES ASSUME TypeOK, WriterStep PROVE TypeOK'
  OBVIOUS
<1>0. /\ tree.arts \in Files /\ tree.mans \in Files
      /\ tree = [arts |-> tree.arts, mans |-> tree.mans]
      /\ w.aside \in Trees /\ w.aside.arts \in Files /\ w.aside.mans \in Files
  BY DEF TypeOK, Trees, Writers
<1>a. /\ \A f \in Files : [tree EXCEPT !.arts = f] \in Trees /\ [tree EXCEPT !.mans = f] \in Trees
      /\ \A f \in Files : [w EXCEPT !.aside.arts = f] \in Writers
      /\ \A f \in Files : [w EXCEPT !.aside.mans = f] \in Writers
  BY <1>0 DEF TypeOK, Trees, Writers
<1>b. \A l \in WriterLabels, x \in Writers : [x EXCEPT !.pc = l] \in Writers
  BY DEF Writers
<1>1. CASE AsideArtifacts
  <2>1. w' \in Writers
    BY <1>0, <1>1 DEF AsideArtifacts, TypeOK, Writers, WriterLabels, Trees
  <2> QED
    BY <1>0, <1>a, <1>1, <2>1, FileMaps DEF AsideArtifacts, TypeOK, auditVars
<1>2. CASE AsideManifests
  <2>1. w' \in Writers
    BY <1>0, <1>2 DEF AsideManifests, TypeOK, Writers, WriterLabels, Trees
  <2> QED
    BY <1>0, <1>a, <1>2, <2>1, FileMaps DEF AsideManifests, TypeOK, auditVars
<1>3. CASE PlaceArtifacts
  <2>1. w' \in Writers
    BY <1>3 DEF PlaceArtifacts, TypeOK, Writers, WriterLabels
  <2> QED
    BY <1>0, <1>a, <1>3, <2>1, FileMaps, WrittenType DEF PlaceArtifacts, TypeOK, auditVars
<1>4. CASE PlaceManifests
  <2>1. w' \in Writers /\ lock' \in {"free", "writer", "repair"}
    BY <1>4, IdleTypes DEF PlaceManifests, Release, TypeOK, Writers, WriterLabels
  <2>2. tree' \in Trees /\ views' \in SUBSET Files
    BY <1>0, <1>a, <1>4, FileMaps, WrittenType DEF PlaceManifests, TypeOK
  <2> QED
    BY <1>4, <2>1, <2>2 DEF PlaceManifests, TypeOK, auditVars
<1>5. CASE RecordIngest
  BY <1>5, RowsType, IdleTypes DEF RecordIngest, Release, TypeOK, fileVars
<1>6. CASE StagingGone
  <2>1. w' \in Writers /\ lock' \in {"free", "writer", "repair"}
    BY <1>6, <1>b, IdleTypes DEF StagingGone, AfterFailedRename, Release, TypeOK,
       WriterLabels
  <2> QED
    BY <1>6, <2>1 DEF StagingGone, AfterFailedRename, TypeOK, fileVars, auditVars
<1>7. CASE UndoArtifacts
  BY <1>0, <1>a, <1>b, <1>7, FileMaps DEF UndoArtifacts, TypeOK, auditVars, WriterLabels
<1>8. CASE BackArtifacts
  BY <1>0, <1>a, <1>b, <1>8, FileMaps DEF BackArtifacts, TypeOK, auditVars, WriterLabels
<1>9. CASE BackManifests
  BY <1>0, <1>a, <1>b, <1>9, FileMaps DEF BackManifests, TypeOK, auditVars, WriterLabels
<1>10. CASE RolledBack
  BY <1>10, IdleTypes DEF RolledBack, Release, TypeOK, fileVars, auditVars
<1> QED
  BY <1>1, <1>2, <1>3, <1>4, <1>5, <1>6, <1>7, <1>8, <1>9, <1>10 DEF WriterStep

\* Every step of a maintenance command keeps the types.
LEMMA MaintenanceType == TypeOK /\ (MaintenanceStep \/ Archive \/ Restore) => TypeOK'
<1> SUFFICES ASSUME TypeOK, MaintenanceStep \/ Archive \/ Restore PROVE TypeOK'
  OBVIOUS
<1>0. /\ tree.arts \in Files /\ tree.mans \in Files /\ tarball.held \in Trees
      /\ m.snap \in Trees
      /\ \A f \in Files : /\ [m.snap EXCEPT !.arts = f] \in Trees
                          /\ [m.snap EXCEPT !.mans = f] \in Trees
  BY DEF TypeOK, Trees, Tarballs, Maintenance
<1>1. ASSUME NEW l \in MaintenanceLabels, Maintain(l) PROVE TypeOK'
  BY <1>1, IdleTypes DEF Maintain, TypeOK, Maintenance, fileVars, auditVars
<1>2. ASSUME NEW l \in MaintenanceLabels, RemoveTree(l), tarball' \in Tarballs PROVE TypeOK'
  <2>1. w' \in Writers
    BY <1>2, FileMaps DEF RemoveTree, TypeOK, Writers
  <2>2. m' \in Maintenance
    BY <1>2, IdleTypes DEF RemoveTree, TypeOK, Maintenance
  <2> QED
    BY <1>2, <2>1, <2>2, FileMaps DEF RemoveTree, TypeOK, auditVars
<1>3. CASE Archive \/ Restore
  BY <1>1, <1>3 DEF Archive, Restore, MaintenanceLabels
<1>4. CASE TarArtifacts
  <2>1. m' \in Maintenance
    BY <1>0, <1>4 DEF TarArtifacts, TypeOK, Maintenance, MaintenanceLabels, Trees
  <2> QED
    BY <1>4, <2>1 DEF TarArtifacts, TypeOK, fileVars, auditVars
<1>5. CASE TarManifests
  <2> DEFINE held == [m.snap EXCEPT !.mans = tree.mans]
  <2>1. held \in Trees
    BY <1>0
  <2>2. /\ m' = [m EXCEPT !.pc = "tar_remove", !.snap = held]
        /\ tarball' = [kind |-> "whole", held |-> held]
    BY <1>5 DEF TarManifests
  <2> HIDE DEF held
  <2>3. m' \in Maintenance /\ tarball' \in Tarballs
    BY <2>1, <2>2 DEF TypeOK, Maintenance, MaintenanceLabels, Tarballs
  <2> QED
    BY <1>5, <2>3 DEF TarManifests, TypeOK, auditVars
<1>6. CASE ArchiveRemove
  BY <1>2, <1>6 DEF ArchiveRemove, MaintenanceLabels, TypeOK
<1>7. CASE RestoreRemove
  BY <1>2, <1>7 DEF RestoreRemove, MaintenanceLabels, TypeOK
<1>8. CASE RestoreSwap
  BY <1>0, <1>8, IdleTypes DEF RestoreSwap, TypeOK, auditVars
<1>9. CASE RestoreRefused
  BY <1>9, IdleTypes DEF RestoreRefused, TypeOK, fileVars, auditVars
<1> QED
  BY <1>3, <1>4, <1>5, <1>6, <1>7, <1>8, <1>9 DEF MaintenanceStep

\* Every step of a repair keeps the types.
LEMMA RepairType ==
  TypeOK /\ (RepairStep \/ \E s \in Slugs : RepairRead(s)) => TypeOK'
<1> SUFFICES ASSUME TypeOK, RepairStep \/ \E s \in Slugs : RepairRead(s) PROVE TypeOK'
  OBVIOUS
<1>1. ASSUME NEW s \in Slugs, RepairRead(s) PROVE TypeOK'
  <2>1. tree.mans[s] \in Gens
    BY DEF TypeOK, Trees, Files
  <2> QED
    BY <1>1, <2>1 DEF RepairRead, TypeOK, Repairs, fileVars, auditVars
<1>2. CASE RepairLock
  BY <1>2 DEF RepairLock, TypeOK, Repairs, fileVars, auditVars
<1>3. CASE RepairTimeout
  BY <1>3, IdleTypes DEF RepairTimeout, TypeOK, fileVars, auditVars
<1>4. CASE NothingToRepair
  BY <1>4, IdleTypes DEF NothingToRepair, EndRepair, TypeOK, fileVars, auditVars
<1>5. CASE EventMissing
  BY <1>5 DEF EventMissing, TypeOK, Repairs, fileVars, auditVars
<1>6. CASE RepairEmit
  BY <1>6, RowsType, IdleTypes DEF RepairEmit, EndRepair, TypeOK, fileVars
<1> QED
  BY <1>1, <1>2, <1>3, <1>4, <1>5, <1>6 DEF RepairStep

\* Every fault keeps the types.
LEMMA FaultType == TypeOK /\ FaultStep => TypeOK'
<1> SUFFICES ASSUME TypeOK, FaultStep PROVE TypeOK'
  OBVIOUS
<1>0. faults' \in 0..MaxFaults
  BY RawStoreAssumption DEF TypeOK, FaultStep, RenameFails, RecordFails, WriterKilled,
     ArchiveKilled, RemovalKilled, RestoreKilled, RepairBlind, RepairKilled, Fault
<1>1. CASE RenameFails
  <2>1. w' \in Writers /\ lock' \in {"free", "writer", "repair"}
    BY <1>1, IdleTypes DEF RenameFails, AfterFailedRename, Release, TypeOK, Writers,
       WriterLabels
  <2> QED
    BY <1>0, <1>1, <2>1 DEF RenameFails, AfterFailedRename, TypeOK, fileVars, auditVars
<1>2. CASE RecordFails
  BY <1>0, <1>2, IdleTypes DEF RecordFails, Release, TypeOK, fileVars, auditVars
<1>3. CASE WriterKilled
  BY <1>0, <1>3, IdleTypes DEF WriterKilled, Release, TypeOK, fileVars, auditVars
<1>4. CASE ArchiveKilled
  BY <1>0, <1>4, IdleTypes, FileMaps DEF ArchiveKilled, TypeOK, auditVars, NoTarball,
     Tarballs
<1>5. CASE RemovalKilled
  <2>1. tree.arts \in Files /\ tree.mans \in Files
    BY DEF TypeOK, Trees
  <2>2. tree' \in Trees
    BY <1>5, <2>1, FileMaps DEF RemovalKilled, Trees
  <2> QED
    BY <1>0, <1>5, <2>2, IdleTypes DEF RemovalKilled, TypeOK, auditVars
<1>6. CASE RestoreKilled
  BY <1>0, <1>6, IdleTypes DEF RestoreKilled, TypeOK, fileVars, auditVars
<1>7. CASE RepairBlind
  BY <1>0, <1>7 DEF RepairBlind, TypeOK, Repairs, fileVars
<1>8. CASE RepairKilled
  BY <1>0, <1>8, IdleTypes DEF RepairKilled, EndRepair, TypeOK, fileVars, auditVars
<1> QED
  BY <1>1, <1>2, <1>3, <1>4, <1>5, <1>6, <1>7, <1>8 DEF FaultStep

\* Every step keeps the types.
LEMMA TypeStep == TypeOK /\ [Next]_vars => TypeOK'
<1> SUFFICES ASSUME TypeOK, [Next]_vars PROVE TypeOK'
  OBVIOUS
<1>1. ASSUME NEW batch \in SUBSET Slugs, Collect(batch) PROVE TypeOK'
  <2>1. StartWriter(Slugs, batch, FALSE) /\ UNCHANGED prov
    BY <1>1 DEF Collect
  <2> QED
    BY <2>1, StartType DEF TypeOK
<1>2. ASSUME NEW s \in Slugs, NEW replace \in BOOLEAN, Ingest(s, replace) PROVE TypeOK'
  <2>1. StartWriter({s}, {s}, TRUE) /\ prov' = [prov EXCEPT ![used + 1] = Ingested(s, Has(s))]
    BY <1>2 DEF Ingest
  <2>2. Ingested(s, Has(s)) \in Provenances
    <3>1. Has(s) \in BOOLEAN
      BY DEF Has
    <3> QED
      BY <3>1 DEF Provenances
  <2>3. prov' \in [1..MaxGen -> Provenances]
    BY <2>1, <2>2 DEF TypeOK
  <2> QED
    BY <2>1, <2>3, StartType DEF TypeOK
<1>3. CASE UNCHANGED vars
  BY <1>3 DEF vars, TypeOK
<1> QED
  BY <1>1, <1>2, <1>3, WriterType, MaintenanceType, RepairType, FaultType DEF Next

\* The repair of the audit trail leaves files, writers and maintenance alone.
LEMMA Untouched ==
  ASSUME IndInv, TypeOK', UNCHANGED <<tree, tarball, w, m, overlap>>
  PROVE  IndInv'
BY DEF IndInv, Consistent, WriterInv, ScopeState, Written, MaintenanceInv

\* A writer starts from the directory as it is.
LEMMA StartStep ==
  ASSUME IndInv, TypeOK', NEW scope \in SUBSET Slugs, NEW batch \in SUBSET Slugs,
         NEW ingest \in BOOLEAN, StartWriter(scope, batch, ingest)
  PROVE  IndInv'
<1>1. /\ UNCHANGED <<tree, tarball>>
      /\ ~overlap' => ~overlap /\ m.pc = "idle" /\ m' = m
      /\ w'.pc = "aside_arts" /\ w'.scope = scope /\ w'.before = tree
      /\ w'.aside = NoTree /\ ~w'.placed
  BY DEF StartWriter, NoWriter, IndInv, TypeOK
<1> SUFFICES ASSUME ~overlap' PROVE (Consistent(tree) /\ WriterInv /\ MaintenanceInv)'
  BY DEF IndInv
<1>2. Consistent(tree)' /\ Consistent(w'.before)
  BY <1>1 DEF IndInv, Consistent
<1>3. WriterInv'
  BY <1>1, <1>2, FileMaps DEF WriterInv, ScopeState, NoTree
<1>4. MaintenanceInv'
  BY <1>1 DEF IndInv, MaintenanceInv, Consistent
<1> QED
  BY <1>2, <1>3, <1>4

\* A maintenance command that starts beside a writer is an overlap.
LEMMA MaintainStep ==
  ASSUME IndInv, TypeOK', NEW l \in {"tar_arts", "restore_remove"}, Maintain(l)
  PROVE  IndInv'
BY DEF Maintain, IndInv, Consistent, WriterInv, ScopeState, Written, MaintenanceInv,
   fileVars, NoMaintenance

\* A maintenance step removes files, or restores a consistent tree.
LEMMA MaintenanceStepInv ==
  ASSUME IndInv, TypeOK',
         MaintenanceStep \/ ArchiveKilled \/ RemovalKilled \/ RestoreKilled
  PROVE  IndInv'
<1>0. /\ overlap' = overlap /\ w'.pc = w.pc /\ m.pc # "idle"
  BY DEF MaintenanceStep, TarArtifacts, TarManifests, ArchiveRemove, RestoreRemove, RestoreSwap,
     RestoreRefused, RemoveTree, ArchiveKilled, RemovalKilled, RestoreKilled, IndInv, TypeOK,
     Writers
<1> SUFFICES ASSUME ~overlap PROVE (Consistent(tree) /\ WriterInv /\ MaintenanceInv)'
  BY <1>0 DEF IndInv
<1>1. w.pc = "idle" /\ WriterInv'
  BY <1>0 DEF IndInv, MaintenanceInv, WriterInv
<1>2. Consistent(tree) /\ Consistent(tarball.held) /\ Consistent(NoTree)
  BY FileMaps DEF IndInv, MaintenanceInv, Consistent, NoTree
<1>3. Consistent(tree')
  <2>1. CASE RemovalKilled
    <3>1. PICK A, B \in SUBSET Slugs :
            tree' = [arts |-> With(tree.arts, A, NoFiles), mans |-> With(tree.mans, B, NoFiles)]
      BY <2>1 DEF RemovalKilled
    <3> QED
      BY <1>2, <3>1, FileMaps DEF Consistent
  <2>2. CASE tree' \in {tree, NoTree, tarball.held}
    BY <1>2, <2>2
  <2> QED
    BY <2>1, <2>2 DEF MaintenanceStep, TarArtifacts, TarManifests, ArchiveRemove, RestoreRemove,
       RestoreSwap, RestoreRefused, RemoveTree, ArchiveKilled, RestoreKilled, fileVars
<1>4. MaintenanceInv'
  <2>1. Consistent(tarball'.held)
    <3>1. CASE TarManifests
      <4>1. m.snap.arts = tree.arts /\ m.snap \in Trees
        BY <3>1 DEF TarManifests, IndInv, MaintenanceInv, TypeOK, Maintenance
      <4>2. tarball'.held.arts = tree.arts /\ tarball'.held.mans = tree.mans
        BY <3>1, <4>1 DEF TarManifests, Trees
      <4> QED
        BY <1>2, <4>2 DEF Consistent
    <3>2. CASE tarball'.held \in {tarball.held, NoTree}
      BY <1>2, <3>2
    <3> QED
      BY <3>1, <3>2 DEF MaintenanceStep, TarArtifacts, ArchiveRemove, RestoreRemove,
         RestoreSwap, RestoreRefused, RemoveTree, ArchiveKilled, RemovalKilled, RestoreKilled,
         fileVars, NoTarball
  <2>2. m'.pc = "tar_mans" => m'.snap.arts = tree'.arts
    <3>1. CASE TarArtifacts
      BY <3>1 DEF TarArtifacts, fileVars, IndInv, TypeOK, Maintenance, MaintenanceLabels,
         Trees
    <3>2. CASE TarManifests
      BY <3>2 DEF TarManifests, IndInv, TypeOK, Maintenance
    <3>3. CASE ArchiveRemove \/ RestoreRemove
      BY <3>3 DEF ArchiveRemove, RestoreRemove, RemoveTree, NoMaintenance,
         IndInv, TypeOK, Maintenance
    <3>4. CASE RestoreSwap \/ RestoreRefused \/ ArchiveKilled \/ RemovalKilled \/ RestoreKilled
      BY <3>4 DEF RestoreSwap, RestoreRefused, ArchiveKilled, RemovalKilled, RestoreKilled,
         NoMaintenance
    <3> QED
      BY <3>1, <3>2, <3>3, <3>4 DEF MaintenanceStep
  <2> QED
    BY <1>0, <1>1, <2>1, <2>2 DEF MaintenanceInv
<1> QED
  BY <1>1, <1>3, <1>4 DEF Consistent

\* A step of a writer that ends its command, by success or by death, leaves a
\* consistent directory.
LEMMA ReleaseStep ==
  ASSUME IndInv, TypeOK', w.pc # "idle", Release, UNCHANGED <<tarball, m, overlap>>,
         ~overlap => Consistent(tree')
  PROVE  IndInv'
<1> SUFFICES ASSUME ~overlap PROVE (Consistent(tree) /\ WriterInv /\ MaintenanceInv)'
  BY DEF IndInv
<1>1. w'.pc = "idle"
  BY DEF Release, NoWriter
<1>2. Consistent(tree)'
  BY DEF Consistent
<1>3. WriterInv'
  BY <1>1 DEF WriterInv
<1>4. MaintenanceInv'
  <2>1. Consistent(tarball.held)'
    BY DEF IndInv, MaintenanceInv, Consistent
  <2>2. m'.pc = "idle"
    BY DEF IndInv, MaintenanceInv
  <2> QED
    BY <1>1, <2>1, <2>2 DEF MaintenanceInv
<1> QED
  BY <1>2, <1>3, <1>4

\* Wherever a writer is in its commit or rollback, the directory is consistent.
LEMMA WriterConsistent ==
  ASSUME TypeOK', WriterInv', w'.pc # "idle"
  PROVE  Consistent(tree)'
<1>1. w'.pc \in WriterLabels \ {"idle"} /\ w'.scope \subseteq Slugs
  BY DEF TypeOK, Writers
<1>2. Consistent(w.before)' /\ \A s \in w'.scope : ScopeState(s)'
  BY DEF WriterInv
<1> SUFFICES ASSUME NEW s \in Slugs, tree'.mans[s] # 0, tree'.arts[s] # 0
             PROVE  tree'.arts[s] = tree'.mans[s]
  BY DEF Consistent
<1>3. CASE s \in w'.scope
  BY <1>1, <1>2, <1>3 DEF ScopeState, WriterLabels, Consistent
<1>4. CASE s \notin w'.scope
  BY <1>2, <1>4 DEF WriterInv, Consistent
<1> QED
  BY <1>3, <1>4

\* A step of a writer that goes on leaves the tools outside its scope alone.
LEMMA WriterGoesOn ==
  ASSUME IndInv, TypeOK', ~overlap, w.pc # "idle", w'.pc # "idle",
         UNCHANGED <<tarball, m, overlap>>, w'.scope = w.scope, w'.before = w.before,
         \A s \in w.scope : ScopeState(s)',
         \A s \in Slugs \ w.scope :
           tree'.arts[s] = tree.arts[s] /\ tree'.mans[s] = tree.mans[s]
  PROVE  IndInv'
<1>1. WriterInv'
  <2>1. Consistent(w.before)'
    BY DEF IndInv, WriterInv, Consistent
  <2> QED
    BY <2>1 DEF IndInv, WriterInv
<1>2. Consistent(tree)'
  BY <1>1, WriterConsistent
<1>3. MaintenanceInv'
  <2>1. Consistent(tarball.held)'
    BY DEF IndInv, MaintenanceInv, Consistent
  <2> QED
    BY <2>1 DEF IndInv, MaintenanceInv
<1> QED
  BY <1>1, <1>2, <1>3 DEF IndInv

\* The steps of a commit.
LEMMA CommitStep ==
  ASSUME IndInv, TypeOK', AsideArtifacts \/ AsideManifests \/ PlaceArtifacts
  PROVE  IndInv'
<1>0. /\ tree.arts \in Files /\ tree.mans \in Files /\ w.aside \in Trees /\ w \in Writers
      /\ tree \in Trees /\ w.scope \subseteq Slugs
  BY DEF IndInv, TypeOK, Trees, Writers
<1>a. /\ UNCHANGED <<tarball, m, overlap>> /\ w.pc # "idle" /\ w'.pc # "idle"
      /\ w'.scope = w.scope /\ w'.before = w.before /\ w'.batch = w.batch /\ w'.gen = w.gen
  BY <1>0 DEF AsideArtifacts, AsideManifests, PlaceArtifacts, Writers
<1>b. Written' = Written
  BY <1>a DEF Written
<1> SUFFICES ASSUME ~overlap
             PROVE  /\ \A s \in w.scope : ScopeState(s)'
                    /\ \A s \in Slugs \ w.scope :
                         tree'.arts[s] = tree.arts[s] /\ tree'.mans[s] = tree.mans[s]
  BY <1>a, WriterGoesOn DEF IndInv
<1>c. \A s \in w.scope : ScopeState(s)
  BY <1>a DEF IndInv, WriterInv
<1>1. CASE AsideArtifacts
  <2>1. /\ tree'.arts = With(tree.arts, w.scope, NoFiles) /\ tree'.mans = tree.mans
        /\ w'.pc = "aside_mans" /\ w'.placed = w.placed
        /\ w'.aside.arts = tree.arts /\ w'.aside.mans = w.aside.mans
    BY <1>0, <1>1 DEF AsideArtifacts, Trees, Writers
  <2> QED
    BY <1>0, <1>1, <1>a, <1>b, <1>c, <2>1, FileMaps DEF ScopeState, AsideArtifacts
<1>2. CASE AsideManifests
  <2>1. /\ tree'.mans = With(tree.mans, w.scope, NoFiles) /\ tree'.arts = tree.arts
        /\ w'.pc = "place_arts" /\ w'.placed = w.placed
        /\ w'.aside.mans = tree.mans /\ w'.aside.arts = w.aside.arts
    BY <1>0, <1>2 DEF AsideManifests, Trees, Writers
  <2> QED
    BY <1>0, <1>2, <1>a, <1>b, <1>c, <2>1, FileMaps DEF ScopeState, AsideManifests
<1>3. CASE PlaceArtifacts
  <2>1. /\ tree'.arts = With(tree.arts, w.scope, Written) /\ tree'.mans = tree.mans
        /\ w'.pc = "place_mans" /\ w'.placed /\ w'.aside = w.aside
    BY <1>0, <1>3 DEF PlaceArtifacts, Trees, Writers
  <2> QED
    BY <1>0, <1>3, <1>a, <1>b, <1>c, <2>1, FileMaps DEF ScopeState, PlaceArtifacts
<1> QED
  BY <1>1, <1>2, <1>3

\* The manifests close a commit; the journal row of an ingest follows.
LEMMA ManifestStep ==
  ASSUME IndInv, TypeOK', PlaceManifests \/ RecordIngest
  PROVE  IndInv'
<1>0. /\ tree \in Trees /\ tree.mans \in Files /\ w \in Writers /\ w.scope \subseteq Slugs
  BY DEF IndInv, TypeOK, Trees, Writers
<1>1. CASE RecordIngest
  <2>1. ~overlap => Consistent(tree')
    BY <1>1 DEF RecordIngest, IndInv, fileVars
  <2> QED
    BY <1>1, <2>1, ReleaseStep DEF RecordIngest, fileVars
<1>2. CASE PlaceManifests
  <2>0. /\ tree'.mans = With(tree.mans, w.scope, Written) /\ tree'.arts = tree.arts
        /\ w.pc = "place_mans" /\ UNCHANGED <<tarball, m, overlap>>
    BY <1>0, <1>2 DEF PlaceManifests, Trees
  <2>1. ASSUME ~overlap, NEW s \in w.scope
        PROVE  tree'.arts[s] = Written[s] /\ tree'.mans[s] = Written[s]
    BY <1>0, <2>0, <2>1, FileMaps DEF IndInv, WriterInv, ScopeState
  <2>2. ASSUME NEW s \in Slugs \ w.scope
        PROVE  tree'.arts[s] = tree.arts[s] /\ tree'.mans[s] = tree.mans[s]
    BY <1>0, <2>0, FileMaps
  <2>3. CASE w.ingest
    <3>1. w' = [w EXCEPT !.pc = "event"]
      BY <1>2, <2>3 DEF PlaceManifests
    <3>2. /\ w'.pc = "event" /\ w'.scope = w.scope /\ w'.before = w.before
          /\ w'.batch = w.batch /\ w'.gen = w.gen
      BY <1>0, <3>1 DEF Writers
    <3>3. Written' = Written
      BY <3>2 DEF Written
    <3>4. ASSUME ~overlap, NEW s \in w.scope PROVE ScopeState(s)'
      BY <2>1, <3>2, <3>3, <3>4 DEF ScopeState
    <3> QED
      BY <1>0, <2>0, <2>2, <3>2, <3>4, WriterGoesOn DEF IndInv, Consistent, WriterInv
  <2>4. CASE ~w.ingest
    <3>1. Release
      BY <1>2, <2>4 DEF PlaceManifests
    <3>2. ASSUME ~overlap PROVE Consistent(tree')
      <4>1. Consistent(tree)
        BY <3>2 DEF IndInv
      <4> QED
        BY <2>1, <2>2, <3>2, <4>1 DEF Consistent
    <3> QED
      BY <2>0, <3>1, <3>2, ReleaseStep
  <2> QED
    BY <2>3, <2>4
<1> QED
  BY <1>1, <1>2

\* A commit that fails half-way is rolled back from where it got to; a
\* collection ends there.
LEMMA FailedRenameStep ==
  ASSUME IndInv, TypeOK', w.pc \in CommitLabels, AfterFailedRename
  PROVE  IndInv'
<1>0. /\ w \in Writers /\ w.scope \subseteq Slugs /\ w.pc # "idle"
      /\ UNCHANGED <<tree, tarball, m, overlap>>
  BY DEF IndInv, TypeOK, Writers, AfterFailedRename, CommitLabels, fileVars
<1>1. CASE w.ingest
  <2>1. w' = [w EXCEPT !.pc = "undo_arts"]
    BY <1>1 DEF AfterFailedRename
  <2>2. /\ w'.pc = "undo_arts" /\ w'.scope = w.scope /\ w'.before = w.before /\ w'.batch = w.batch
        /\ w'.gen = w.gen /\ w'.placed = w.placed /\ w'.aside = w.aside
    BY <1>0, <2>1 DEF Writers
  <2>3. Written' = Written
    BY <2>2 DEF Written
  <2>4. ASSUME ~overlap, NEW s \in w.scope PROVE ScopeState(s)'
    <3>1. ScopeState(s)
      BY <1>0, <2>4 DEF IndInv, WriterInv
    <3> QED
      BY <1>0, <2>2, <2>3, <3>1 DEF ScopeState, CommitLabels
  <2>5. CASE overlap
    BY <1>0, <2>5 DEF IndInv
  <2>6. CASE ~overlap
    BY <1>0, <2>2, <2>4, <2>6, WriterGoesOn
  <2> QED
    BY <2>5, <2>6
<1>2. CASE ~w.ingest
  <2>1. Release
    BY <1>2 DEF AfterFailedRename
  <2>2. ~overlap => Consistent(tree')
    BY <1>0 DEF IndInv
  <2> QED
    BY <1>0, <2>1, <2>2, ReleaseStep
<1> QED
  BY <1>1, <1>2

\* The steps of a rollback: every file is either still in place or moved
\* aside, and goes back.
LEMMA RollbackStep ==
  ASSUME IndInv, TypeOK', UndoArtifacts \/ BackArtifacts \/ BackManifests
  PROVE  IndInv'
<1>0. /\ tree.arts \in Files /\ tree.mans \in Files /\ tree \in Trees
      /\ w.aside \in Trees /\ w \in Writers /\ w.scope \subseteq Slugs
  BY DEF IndInv, TypeOK, Trees, Writers
<1>a. /\ UNCHANGED <<tarball, m, overlap>> /\ w.pc # "idle" /\ w'.pc # "idle"
      /\ w'.scope = w.scope /\ w'.before = w.before /\ w'.aside = w.aside
  BY <1>0 DEF UndoArtifacts, BackArtifacts, BackManifests, Writers
<1> SUFFICES ASSUME ~overlap
             PROVE  /\ \A s \in w.scope : ScopeState(s)'
                    /\ \A s \in Slugs \ w.scope :
                         tree'.arts[s] = tree.arts[s] /\ tree'.mans[s] = tree.mans[s]
  BY <1>a, WriterGoesOn DEF IndInv
<1>c. \A s \in w.scope : ScopeState(s)
  BY <1>a DEF IndInv, WriterInv
<1>1. CASE UndoArtifacts
  <2>1. /\ tree'.arts = (IF w.placed THEN With(tree.arts, w.scope, NoFiles) ELSE tree.arts)
        /\ tree'.mans = tree.mans /\ w.pc = "undo_arts" /\ w'.pc = "back_arts"
    BY <1>0, <1>1 DEF UndoArtifacts, Trees, Writers
  <2> QED
    BY <1>0, <1>a, <1>c, <2>1, FileMaps DEF ScopeState
<1>2. CASE BackArtifacts
  <2>1. /\ tree'.arts = With(tree.arts, Asided(w.aside.arts), w.aside.arts)
        /\ tree'.mans = tree.mans /\ w.pc = "back_arts" /\ w'.pc = "back_mans"
    BY <1>0, <1>2 DEF BackArtifacts, Trees, Writers
  <2> QED
    BY <1>0, <1>a, <1>c, <2>1, FileMaps DEF ScopeState, Asided
<1>3. CASE BackManifests
  <2>1. /\ tree'.mans = With(tree.mans, Asided(w.aside.mans), w.aside.mans)
        /\ tree'.arts = tree.arts /\ w.pc = "back_mans" /\ w'.pc = "rolled"
    BY <1>0, <1>3 DEF BackManifests, Trees, Writers
  <2> QED
    BY <1>0, <1>a, <1>c, <2>1, FileMaps DEF ScopeState, Asided
<1> QED
  BY <1>1, <1>2, <1>3

\* Every step keeps the invariant.
LEMMA NextInv == IndInv /\ [Next]_vars => IndInv'
<1> SUFFICES ASSUME IndInv, [Next]_vars PROVE IndInv'
  OBVIOUS
<1>0. TypeOK'
  BY TypeStep DEF IndInv
<1>1. ASSUME NEW batch \in SUBSET Slugs, Collect(batch) PROVE IndInv'
  BY <1>0, <1>1, StartStep DEF Collect
<1>2. ASSUME NEW s \in Slugs, NEW replace \in BOOLEAN, Ingest(s, replace) PROVE IndInv'
  BY <1>0, <1>2, StartStep DEF Ingest
<1>3. ASSUME NEW s \in Slugs, RepairRead(s) PROVE IndInv'
  BY <1>0, <1>3, Untouched DEF RepairRead, fileVars
<1>4. CASE Archive \/ Restore
  BY <1>0, <1>4, MaintainStep DEF Archive, Restore
<1>5. CASE WriterStep
  <2>1. CASE StagingGone
    BY <1>0, <2>1, FailedRenameStep DEF StagingGone, CommitLabels
  <2>2. CASE RolledBack
    <3>1. w.pc # "idle" /\ Release /\ UNCHANGED <<tree, tarball, m, overlap>>
      BY <2>2 DEF RolledBack, fileVars
    <3>2. ~overlap => Consistent(tree')
      BY <3>1 DEF IndInv
    <3> QED
      BY <1>0, <3>1, <3>2, ReleaseStep
  <2> QED
    BY <1>0, <1>5, <2>1, <2>2, CommitStep, ManifestStep, RollbackStep DEF WriterStep
<1>6. CASE MaintenanceStep
  BY <1>0, <1>6, MaintenanceStepInv
<1>7. CASE RepairStep
  BY <1>0, <1>7, Untouched DEF RepairStep, RepairLock, RepairTimeout, NothingToRepair,
     EventMissing, RepairEmit, EndRepair, fileVars
<1>8. CASE FaultStep
  <2>1. CASE RenameFails
    BY <1>0, <2>1, FailedRenameStep DEF RenameFails
  <2>2. CASE RecordFails \/ WriterKilled
    <3>1. w.pc # "idle" /\ Release /\ UNCHANGED <<tree, tarball, m, overlap>>
      BY <2>2 DEF RecordFails, WriterKilled, fileVars
    <3>2. ~overlap => Consistent(tree')
      BY <3>1 DEF IndInv
    <3> QED
      BY <1>0, <3>1, <3>2, ReleaseStep
  <2>3. CASE ArchiveKilled \/ RemovalKilled \/ RestoreKilled
    BY <1>0, <2>3, MaintenanceStepInv
  <2>4. CASE RepairBlind \/ RepairKilled
    BY <1>0, <2>4, Untouched DEF RepairBlind, RepairKilled, EndRepair, fileVars
  <2> QED
    BY <1>8, <2>1, <2>2, <2>3, <2>4 DEF FaultStep
<1>9. CASE UNCHANGED vars
  BY <1>0, <1>9, Untouched DEF vars
<1> QED
  BY <1>1, <1>2, <1>3, <1>4, <1>5, <1>6, <1>7, <1>8, <1>9 DEF Next

\* The invariant is inductive.
LEMMA Invariant == Spec => []IndInv
BY InitInv, NextInv, PTL DEF Spec
---------------------------------------------------------------------------
\* The state of the raw-output store always has its type.
THEOREM RawTypes == Spec => []TypeOK
<1>1. IndInv => TypeOK
  BY DEF IndInv
<1> QED
  BY <1>1, Invariant, PTL

\* No manifest is ever found beside the artifacts of another run, wherever the
\* renames of save_raw_outputs and save_ingested_raw_output, their rollback,
\* an archive or a restore are cut short.
THEOREM ManifestsAlwaysMatch == Spec => []ManifestsMatch
<1>1. IndInv => ManifestsMatch
  BY DEF IndInv, ManifestsMatch
<1> QED
  BY <1>1, Invariant, PTL

\* The rollback of save_ingested_raw_output restores the directory it found.
THEOREM FailedIngestUndone == Spec => []RollbackRestores
<1>1. IndInv => RollbackRestores
  <2> SUFFICES ASSUME IndInv, w.pc = "rolled", ~overlap PROVE tree = w.before
    BY DEF RollbackRestores
  <2>1. tree \in Trees /\ w.before \in Trees /\ w.scope \subseteq Slugs
    BY DEF IndInv, TypeOK, Writers
  <2>2. \A s \in Slugs : tree.arts[s] = w.before.arts[s] /\ tree.mans[s] = w.before.mans[s]
    BY DEF IndInv, WriterInv, ScopeState
  <2>3. tree.arts = w.before.arts /\ tree.mans = w.before.mans
    BY <2>1, <2>2 DEF Trees, Files
  <2> QED
    BY <2>1, <2>3 DEF Trees
<1> QED
  BY <1>1, Invariant, PTL

---------------------------------------------------------------------------
(* What the manifests on disk combine *)

\* All manifests of f were there together after one commit.
Covered(f) == \E v \in views : \A s \in Slugs : f[s] \in {0, v[s]}

\* So are those in place, in the archive and in what a writer started from.
CoverInv ==
  ~overlap =>
    /\ Covered(tree.mans) /\ Covered(tarball.held.mans)
    /\ w.pc # "idle" => Covered(w.before.mans) /\ (w.ingest \/ w.scope = Slugs)

\* Until its manifests are in place, a writer has only taken manifests away
\* from those it found, and put them back.
LEMMA OnlyTakenAway ==
  IndInv /\ ~overlap /\ w.pc \notin {"idle", "event"}
    => \A s \in Slugs : tree.mans[s] \in {0, w.before.mans[s]}
<1> SUFFICES ASSUME IndInv, ~overlap, w.pc \notin {"idle", "event"}, NEW s \in Slugs
             PROVE  tree.mans[s] \in {0, w.before.mans[s]}
  OBVIOUS
<1>1. w.pc \in WriterLabels \ {"idle", "event"}
  BY DEF IndInv, TypeOK, Writers
<1>2. CASE s \in w.scope
  BY <1>1, <1>2 DEF IndInv, WriterInv, ScopeState, WriterLabels
<1>3. CASE s \notin w.scope
  BY <1>1, <1>3 DEF IndInv, WriterInv
<1> QED
  BY <1>2, <1>3

\* A step that changes neither the manifests nor what a writer started from.
LEMMA CoverKept ==
  ASSUME CoverInv, UNCHANGED <<tree.mans, tarball.held.mans, views>>, overlap => overlap',
         w'.pc # "idle" => /\ w.pc # "idle" /\ w'.before = w.before
                           /\ w'.ingest = w.ingest /\ w'.scope = w.scope
  PROVE  CoverInv'
BY DEF CoverInv, Covered

\* A writer starts from the manifests as they are.
LEMMA CoverStart ==
  ASSUME IndInv, CoverInv, NEW scope \in SUBSET Slugs, NEW batch \in SUBSET Slugs,
         NEW ingest \in BOOLEAN,
         ingest \/ scope = Slugs, StartWriter(scope, batch, ingest)
  PROVE  CoverInv'
<1>1. /\ UNCHANGED <<tree, tarball, views>> /\ (~overlap' => ~overlap)
      /\ w'.before = tree /\ w'.ingest = ingest /\ w'.scope = scope
  BY DEF StartWriter, NoWriter
<1> QED
  BY <1>1 DEF CoverInv, Covered

\* The step that puts the manifests in place reaches the goal of its command.
LEMMA CoverCommit ==
  ASSUME IndInv, CoverInv, PlaceManifests
  PROVE  CoverInv'
<1>0. /\ tree \in Trees /\ tree.mans \in Files /\ w \in Writers /\ w.scope \subseteq Slugs
      /\ w.before.mans \in Files /\ Written \in Files
  BY WrittenType DEF IndInv, TypeOK, Trees, Writers
<1>1. /\ tree'.mans = With(tree.mans, w.scope, Written) /\ views' = views \cup {Goal}
      /\ UNCHANGED <<tarball, overlap>> /\ w.pc = "place_mans"
      /\ w'.pc # "idle" => w'.before = w.before /\ w'.ingest = w.ingest /\ w'.scope = w.scope
  BY <1>0 DEF PlaceManifests, Release, NoWriter, Trees, Writers
<1> SUFFICES ASSUME ~overlap PROVE CoverInv'
  BY <1>1 DEF CoverInv
<1>2. \A s \in Slugs : tree'.mans[s] = Goal[s]
  <2> SUFFICES ASSUME NEW s \in Slugs PROVE tree'.mans[s] = Goal[s]
    OBVIOUS
  <2>1. s \notin w.scope => w.ingest /\ tree.mans[s] = w.before.mans[s]
    BY <1>1 DEF CoverInv, IndInv, WriterInv
  <2> QED
    BY <1>0, <1>1, <2>1, FileMaps DEF Goal
<1>3. Covered(tree.mans)'
  BY <1>1, <1>2 DEF Covered
<1> QED
  BY <1>1, <1>3 DEF CoverInv, Covered

\* Moving manifests aside, or back, ends in what the writer found or less.
LEMMA CoverMoved ==
  ASSUME IndInv, CoverInv, IndInv', AsideManifests \/ BackManifests
  PROVE  CoverInv'
<1>1. /\ UNCHANGED <<tarball, overlap, views>>
      /\ w.pc # "idle" /\ w'.pc \notin {"idle", "event"}
      /\ w'.before = w.before /\ w'.ingest = w.ingest /\ w'.scope = w.scope
  BY DEF AsideManifests, BackManifests, IndInv, TypeOK, Writers
<1>2. ~overlap' => \A s \in Slugs : tree'.mans[s] \in {0, w.before.mans[s]}
  <2>1. IndInv /\ ~overlap /\ w.pc \notin {"idle", "event"}
           => \A s \in Slugs : tree.mans[s] \in {0, w.before.mans[s]}
    BY OnlyTakenAway
  <2>2. (IndInv /\ ~overlap /\ w.pc \notin {"idle", "event"}
           => \A s \in Slugs : tree.mans[s] \in {0, w.before.mans[s]})'
    BY OnlyTakenAway, PTL
  <2> QED
    BY <1>1, <2>2
<1> QED
  BY <1>1, <1>2 DEF CoverInv, Covered

\* Archives hold the manifests that are there; removals only take some away.
LEMMA CoverMaintenance ==
  ASSUME IndInv, CoverInv,
  MaintenanceStep \/ ArchiveKilled \/ RemovalKilled \/ RestoreKilled
  PROVE  CoverInv'
<1>0. /\ UNCHANGED <<overlap, views>> /\ m.pc # "idle" /\ (w.pc = "idle" => w'.pc = "idle")
  BY DEF MaintenanceStep, TarArtifacts, TarManifests, ArchiveRemove, RestoreRemove, RestoreSwap,
     RestoreRefused, RemoveTree, ArchiveKilled, RemovalKilled, RestoreKilled, IndInv, TypeOK,
     Writers
<1> SUFFICES ASSUME ~overlap PROVE CoverInv'
  BY <1>0 DEF CoverInv
<1>1. w'.pc = "idle" /\ Covered(tree.mans) /\ Covered(tarball.held.mans)
  BY <1>0 DEF IndInv, MaintenanceInv, CoverInv
<1>2. Covered(NoFiles)
  BY <1>1, FileMaps DEF Covered
<1>3. Covered(tree.mans)'
  <2>1. CASE RemovalKilled
    <3>1. PICK A, B \in SUBSET Slugs :
            tree' = [arts |-> With(tree.arts, A, NoFiles), mans |-> With(tree.mans, B, NoFiles)]
      BY <2>1 DEF RemovalKilled
    <3>2. \A s \in Slugs : tree'.mans[s] \in {0, tree.mans[s]}
      BY <3>1, FileMaps
    <3> QED
      BY <1>0, <1>1, <3>2 DEF Covered
  <2>2. CASE tree' \in {tree, NoTree, tarball.held}
    BY <1>0, <1>1, <1>2, <2>2 DEF Covered, NoTree
  <2> QED
    BY <2>1, <2>2 DEF MaintenanceStep, TarArtifacts, TarManifests, ArchiveRemove, RestoreRemove,
       RestoreSwap, RestoreRefused, RemoveTree, ArchiveKilled, RestoreKilled, fileVars
<1>4. Covered(tarball.held.mans)'
  <2>1. CASE TarManifests
    <3>1. tarball'.held.mans = tree.mans
      BY <2>1 DEF TarManifests, IndInv, TypeOK, Maintenance, Trees
    <3> QED
      BY <1>0, <1>1, <3>1 DEF Covered
  <2>2. CASE tarball'.held \in {tarball.held, NoTree}
    BY <1>0, <1>1, <1>2, <2>2 DEF Covered, NoTree
  <2> QED
    BY <2>1, <2>2 DEF MaintenanceStep, TarArtifacts, ArchiveRemove, RestoreRemove, RestoreSwap,
       RestoreRefused, RemoveTree, ArchiveKilled, RemovalKilled, RestoreKilled, fileVars,
       NoTarball
<1> QED
  BY <1>0, <1>1, <1>3, <1>4 DEF CoverInv

\* Every step keeps what the manifests combine.
LEMMA CoverNext == IndInv /\ IndInv' /\ CoverInv /\ [Next]_vars => CoverInv'
<1> SUFFICES ASSUME IndInv, IndInv', CoverInv, [Next]_vars PROVE CoverInv'
  OBVIOUS
<1>a. ASSUME Release PROVE w'.pc = "idle"
  BY <1>a DEF Release, NoWriter
<1>b. tree \in Trees /\ w \in Writers
  BY DEF IndInv, TypeOK
<1>1. ASSUME NEW batch \in SUBSET Slugs, Collect(batch) PROVE CoverInv'
  BY <1>1, CoverStart DEF Collect
<1>2. ASSUME NEW s \in Slugs, NEW replace \in BOOLEAN, Ingest(s, replace) PROVE CoverInv'
  BY <1>2, CoverStart DEF Ingest
<1>3. CASE (\E s \in Slugs : RepairRead(s)) \/ RepairStep \/ RepairBlind \/ RepairKilled
  BY <1>3, CoverKept DEF RepairRead, RepairStep, RepairLock, RepairTimeout, NothingToRepair,
     EventMissing, RepairEmit, EndRepair, RepairBlind, RepairKilled, fileVars
<1>4. CASE Archive \/ Restore
  BY <1>4, CoverKept DEF Archive, Restore, Maintain, fileVars
<1>5. CASE AsideArtifacts \/ PlaceArtifacts \/ UndoArtifacts \/ BackArtifacts
  <2>1. UNCHANGED <<tree.mans, tarball, views, overlap>>
    BY <1>5, <1>b DEF AsideArtifacts, PlaceArtifacts, UndoArtifacts, BackArtifacts, Trees
  <2>2. w.pc # "idle" /\ w'.before = w.before /\ w'.ingest = w.ingest /\ w'.scope = w.scope
    BY <1>5, <1>b DEF AsideArtifacts, PlaceArtifacts, UndoArtifacts, BackArtifacts, Writers
  <2> QED
    BY <2>1, <2>2, CoverKept
<1>6. CASE RecordIngest \/ RolledBack \/ RecordFails \/ WriterKilled
  BY <1>6, <1>a, CoverKept DEF RecordIngest, RolledBack, RecordFails, WriterKilled, fileVars
<1>7. CASE StagingGone \/ RenameFails
  <2>1. w.pc # "idle" /\ AfterFailedRename
    BY <1>7 DEF StagingGone, RenameFails, CommitLabels
  <2>2. w'.pc # "idle" => w'.before = w.before /\ w'.ingest = w.ingest /\ w'.scope = w.scope
    BY <1>a, <1>b, <2>1 DEF AfterFailedRename, Writers
  <2> QED
    BY <2>1, <2>2, CoverKept DEF AfterFailedRename, fileVars
<1>8. CASE UNCHANGED vars
  BY <1>8, CoverKept DEF vars
<1> QED
  BY <1>1, <1>2, <1>3, <1>4, <1>5, <1>6, <1>7, <1>8, CoverCommit, CoverMoved, CoverMaintenance
     DEF Next, WriterStep, FaultStep

\* The manifests on disk never combine outputs of tools that were not there
\* together after some commit, whether a replay would load them or not, for
\* any tools and wherever commands are cut short.
THEOREM ReplaysCommitted == Spec => []LoadsCommitted
<1>1. Init => CoverInv
  BY FileMaps DEF Init, CoverInv, Covered, NoTree, NoTarball, NoWriter
<1>2. CoverInv => LoadsCommitted
  BY DEF CoverInv, Covered, LoadsCommitted
<1> QED
  BY <1>1, <1>2, CoverNext, Invariant, PTL DEF Spec

---------------------------------------------------------------------------
(* Who journals an ingest *)

\* A writer has not recorded its generation, nor has anybody recorded one that
\* is yet to come; a repair that is about to record has looked, or was blind.
RecordInv ==
  /\ lock = "writer" <=> w.pc # "idle"
  /\ lock = "repair" <=> r.pc \in {"check", "emit"}
  /\ \A g \in 1..MaxGen : prov[g].mode = "ingested" => g <= used
  /\ \A g \in 1..MaxGen : g > used => rows[g] = 0
  /\ w.pc # "idle" => w.gen = used /\ used > 0 /\ rows[used] = 0
  /\ r.pc # "idle" => r.gen \in 1..used
  /\ r.pc = "emit" => rows[r.gen] <= blind
  /\ RecordedOnce

\* The steps that neither start a writer nor concern the journal.
LEMMA RecordKept ==
  ASSUME TypeOK, RecordInv, UNCHANGED <<prov, rows, used, blind, r>>,
         \/ UNCHANGED lock /\ (w'.pc = "idle" <=> w.pc = "idle") /\ w'.gen = w.gen
         \/ w.pc # "idle" /\ Release
  PROVE  RecordInv'
BY DEF TypeOK, RecordInv, RecordedOnce, Release, NoWriter

\* A new writer takes a generation that nobody has recorded.
LEMMA RecordStart ==
  ASSUME TypeOK, RecordInv, NEW scope \in SUBSET Slugs, NEW batch \in SUBSET Slugs,
         NEW ingest \in BOOLEAN,
         StartWriter(scope, batch, ingest),
         \/ UNCHANGED prov
         \/ \E x : prov' = [prov EXCEPT ![used + 1] = x]
  PROVE  RecordInv'
<1>1. /\ used \in Nat /\ used' = used + 1 /\ used + 1 \in 1..MaxGen
      /\ w'.gen = used + 1 /\ w'.pc # "idle" /\ lock = "free" /\ lock' = "writer"
      /\ UNCHANGED <<r, rows, blind>>
  BY RawStoreAssumption DEF StartWriter, NoWriter, TypeOK, Gens
<1>2. \A g \in 1..MaxGen : prov'[g].mode = "ingested" => g <= used + 1
  <2>1. prov \in [1..MaxGen -> Provenances]
    BY DEF TypeOK
  <2>2. \A g \in 1..MaxGen : g # used + 1 => prov'[g] = prov[g]
    BY <2>1
  <2> QED
    BY <1>1, <2>2 DEF RecordInv
<1>3. rows'[used'] = 0
  BY <1>1 DEF RecordInv
<1> QED
  BY <1>1, <1>2, <1>3 DEF RecordInv, RecordedOnce

\* The steps of a repair, and its faults.
LEMMA RecordRepair ==
  ASSUME TypeOK, RecordInv,
         RepairStep \/ RepairBlind \/ RepairKilled \/ \E s \in Slugs : RepairRead(s)
  PROVE  RecordInv'
<1>0. /\ rows \in [1..MaxGen -> Nat] /\ blind \in Nat /\ used \in Nat /\ used <= MaxGen
      /\ r \in Repairs
      /\ MaxGen \in Nat
  BY RawStoreAssumption DEF TypeOK, Gens
<1>1. ASSUME NEW s \in Slugs, RepairRead(s) PROVE RecordInv'
  <2>1. tree.mans[s] \in 1..MaxGen /\ prov[tree.mans[s]].mode = "ingested"
    BY <1>1, <1>0 DEF RepairRead, IsIngested, TypeOK, Trees, Files, Gens
  <2> QED
    BY <1>0, <1>1, <2>1 DEF RepairRead, RecordInv, RecordedOnce, auditVars
<1>2. CASE RepairLock \/ RepairTimeout \/ NothingToRepair \/ RepairKilled
  BY <1>0, <1>2 DEF RepairLock, RepairTimeout, NothingToRepair, RepairKilled, EndRepair,
     NoRepair, Repairs, RecordInv, RecordedOnce, auditVars
<1>3. CASE EventMissing
  <2>1. rows[r.gen] = 0
    BY <1>0, <1>3 DEF EventMissing, HasEvent, RecordInv
  <2> QED
    BY <1>0, <1>3, <2>1 DEF EventMissing, Repairs, RecordInv, RecordedOnce, auditVars
<1>4. CASE RepairBlind
  <2>1. r.gen \in 1..MaxGen /\ rows[r.gen] <= 1 + blind
    BY <1>0, <1>4 DEF RepairBlind, RecordInv, RecordedOnce
  <2> QED
    BY <1>0, <1>4, <2>1 DEF RepairBlind, Repairs, RecordInv, RecordedOnce
<1>5. CASE RepairEmit
  <2>1. r.gen \in 1..used /\ rows[r.gen] <= blind /\ rows' = [rows EXCEPT ![r.gen] = @ + 1]
        /\ UNCHANGED <<prov, used, blind, w>> /\ r'.pc = "idle" /\ lock' = "free" /\ lock = "repair"
    BY <1>5 DEF RepairEmit, EndRepair, NoRepair, RecordInv
  <2>2. w.pc = "idle"
    BY <2>1 DEF RecordInv
  <2>3. \A g \in 1..MaxGen : rows'[g] = IF g = r.gen THEN rows[g] + 1 ELSE rows[g]
    BY <1>0, <2>1
  <2> QED
    BY <1>0, <2>1, <2>2, <2>3 DEF RecordInv, RecordedOnce
<1> QED
  BY <1>1, <1>2, <1>3, <1>4, <1>5 DEF RepairStep

\* A writer that records is the first to do so.
LEMMA RecordWriter ==
  ASSUME TypeOK, RecordInv, RecordIngest
  PROVE  RecordInv'
<1>1. /\ rows \in [1..MaxGen -> Nat] /\ blind \in Nat /\ used \in 1..MaxGen
      /\ w.gen = used /\ rows[used] = 0
  BY RawStoreAssumption DEF TypeOK, Gens, RecordInv, RecordIngest
<1>2. /\ rows' = [rows EXCEPT ![used] = @ + 1] /\ UNCHANGED <<r, prov, used, blind>>
      /\ w'.pc = "idle" /\ lock = "writer" /\ lock' = "free"
  BY <1>1 DEF RecordIngest, Release, NoWriter, RecordInv
<1>3. \A g \in 1..MaxGen : rows'[g] = IF g = used THEN 1 ELSE rows[g]
  BY <1>1, <1>2
<1> QED
  BY <1>1, <1>2, <1>3 DEF RecordInv, RecordedOnce

\* Every step keeps the account of who recorded what.
LEMMA RecordNext == TypeOK /\ RecordInv /\ [Next]_vars => RecordInv'
<1> SUFFICES ASSUME TypeOK, RecordInv, [Next]_vars PROVE RecordInv'
  OBVIOUS
<1>b. w \in Writers
  BY DEF TypeOK
<1>1. ASSUME NEW batch \in SUBSET Slugs, Collect(batch) PROVE RecordInv'
  BY <1>1, RecordStart DEF Collect
<1>2. ASSUME NEW s \in Slugs, NEW replace \in BOOLEAN, Ingest(s, replace) PROVE RecordInv'
  BY <1>2, RecordStart DEF Ingest
<1>3. CASE AsideArtifacts \/ AsideManifests \/ PlaceArtifacts \/ UndoArtifacts \/ BackArtifacts
           \/ BackManifests
  BY <1>3, <1>b, RecordKept DEF AsideArtifacts, AsideManifests, PlaceArtifacts, UndoArtifacts,
     BackArtifacts, BackManifests, auditVars, Writers
<1>4. CASE PlaceManifests
  BY <1>4, <1>b, RecordKept DEF PlaceManifests, auditVars, Writers
<1>5. CASE StagingGone \/ RenameFails
  BY <1>5, <1>b, RecordKept DEF StagingGone, RenameFails, CommitLabels, AfterFailedRename,
     auditVars, Writers
<1>6. CASE RolledBack \/ RecordFails \/ WriterKilled
  BY <1>6, RecordKept DEF RolledBack, RecordFails, WriterKilled, auditVars
<1>7. CASE Archive \/ Restore \/ MaintenanceStep \/ ArchiveKilled \/ RemovalKilled \/ RestoreKilled
  BY <1>7, <1>b, RecordKept DEF Archive, Restore, Maintain, MaintenanceStep, TarArtifacts,
     TarManifests, ArchiveRemove, RestoreRemove, RemoveTree, RestoreSwap, RestoreRefused,
     ArchiveKilled, RemovalKilled, RestoreKilled, auditVars, Writers
<1>8. CASE UNCHANGED vars
  BY <1>8, RecordKept DEF vars
<1> QED
  BY <1>1, <1>2, <1>3, <1>4, <1>5, <1>6, <1>7, <1>8, RecordRepair, RecordWriter
     DEF Next, WriterStep, FaultStep

\* No ingest is journaled twice, for any number of ingests and repairs, unless
\* a repair could not read the journal, and then at most once more for each
\* such repair (record_raw_output_ingested and --repair-event share the lock).
THEOREM IngestRecordedOnce == Spec => []RecordedOnce
<1>1. Init => RecordInv
  BY RawStoreAssumption DEF Init, RecordInv, RecordedOnce, NoWriter, NoRepair, Collected
<1>2. RecordInv => RecordedOnce
  BY DEF RecordInv
<1> QED
  BY <1>1, <1>2, RecordNext, RawTypes, PTL DEF Spec
=============================================================================
