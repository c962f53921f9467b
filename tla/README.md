# Verification of gxassessms

TLA+ models of the assessment pipeline (`src/gxassessms`), the TLC configurations
that check them, and TLAPS proofs of the invariants that hold for every value of
the constants. Paths below are relative to `src/gxassessms/` of the repository.

## 1. The system

`mseco` drives *engagements*. An engagement is a row of a SQLite database, a
directory of files, a lock file, and an append-only journal of events. Each CLI
command is a process; several may run at once against one engagement. A run
takes the engagement through six stages (collect, parse, normalize, consolidate,
QA review, render), each of which moves the state column forward by two
transitions and appends an event for each.

| Component | State it keeps | Operations | Interaction | What makes it correct |
|---|---|---|---|---|
| State machine (`core/domain/enums.py`, `pipeline/stages.py`) | none: the tables of states, stages and transitions | `can_transition_to`, `get_stages_from`, `STAGE_STATE_MAP` | consulted by orchestrator and repository, separately | the tables agree with each other: a stage starts from its entry state, ends in the next one's |
| Stage loop (`pipeline/_runner.py`) | `StageContext` of one run, in memory | `run_stages`, stale recovery, rehydration, six handlers | under the lock; state through the repository, events through the orchestrator | no stage without inputs; failures leave a state a later run can resume |
| Orchestrator (`pipeline/orchestrator.py`) | none of its own | `run_from`, `reset_for_rerun`, `determine_resume_stage`, `_transition_state`, `_verify_qa_for_render`, overrides, manual findings, ingest events | called by every command | state column and journal tell the same story; no report of unsigned findings |
| Engagement lock (`pipeline/state.py`) | `.locks/<id>.lock` | `acquire` with timeout, `hold` | wraps `run_from`, ingest, repair; not `reset_for_rerun`, create, the rehydration of replay, archive, restore, purge | at most one holder; always released |
| Event journal (`persistence/event_repo.py`) | `pipeline_events` | `append`, `get_events_by_type` | three scans read it back: was a state reached, is the approval newer than every upstream rerun, which stage failed last | scans find what happened last |
| Engagement repository (`persistence/engagement_repo.py`) | `engagements` | `create`, `update_state`, `force_update_state`, `rehydrate_from_snapshot`, `delete` | one transaction per call | transitions are checked against the stored state |
| Engagement creation and disaster recovery (`cli/commands/engagement.py`, `replay.py`, `ingest.py`, `pipeline/config_snapshot_mirror.py`) | row, directory, config snapshot | create with rollback, mirror, rehydrate, purge | several stores without a common transaction, mostly without the lock | a failed creation is undone; the config outlives the database; a purge removes everything |
| Raw output store (`persistence/artifacts.py`) | `raw-output/`, the archive | `save_raw_outputs`, `save_ingested_raw_output`, `archive`, `restore`, `purge` | collection and ingest under the lock, the others without; read back by `pipeline/replay.py` and `pipeline/confinement.py` | a manifest is never beside artifacts of another run |
| Ingest (`cli/commands/ingest.py`) | provenance in the manifest | normal ingest, `--repair-event` | store, then journal, under one lock | each ingest journaled, once |
| Collection pool (`pipeline/stages.py`) | futures of one stage | `collect`, `_resolve_future` | a thread per adapter | a result for every adapter, whatever the others do; kept except for exceptions of classes that `_resolve_future` does not name |
| Adapters (`adapters/`) | none; the tools keep `output_dir` | `authenticate`, `collect`, `ingest_from_directory` | a subprocess or a REST API; hashes now, copies by `save_raw_outputs` later | what is stored is the output of this run, whole |
| Module verification (`core/contracts/verification.py`, `adapters/_verification.py`) | none | `build_input_blob`, `verify_module` | before each PowerShell tool | configuration only narrows what may run |
| Coverage (`persistence/coverage_repo.py`) | `coverage_records` | `delete_for_engagement`, `save` | replaced by PARSE, read by RENDER | the report's coverage belongs to its findings |
| Findings (`persistence/finding_repo.py`) | parsed, consolidated and manual findings, overrides | save, load, override, add | replaced by each consolidation, ids carried over by key | an override stays with its finding, the report shows what is stored |
| Deduplication (`consolidation/dedup.py`) | union-find over one list | grouping | pure | groups are the chains of shared keys |
| Policies (`policy/`, `consolidation/rules.py`) | none | normalization, merging, severity suggestions, roadmap, audience filters | pure, under YAML rules | results do not depend on who reports first, and agree with each other |
| Reporting (`reporting/`) | report files | payload, renderers | one Node subprocess per renderer | documents: not modelled |
| Configuration, preflight, analytics | none that evolves | | | not modelled |

What is hard here: **commits in several transactions** (state, then event; four
renames of a raw-output commit; row, directory and snapshot of a creation), **kills**
between any two of them and the **tools that outlive them**, **operations that skip the
lock**, **directories shared** by tools of different runs, **scans of a journal** whose answers
depend on the order of rows, and **long sequences of legal commands** (reruns,
resumes, failures, approvals, losses of the database) that must not add up to an
illegal state. The hazards, each at its line, are in `PROJECT.json`.

## 2. Modules

    Lifecycle  <-  EventSummary  <-  Pipeline  <-  MCPipeline  <-  MCShared; Pipeline_proofs
                        ^  ^--- AuditTrail  <=  Pipeline
                        '------ Journal  <-  MCJournal, Journal_proofs
    Engagement  <-  MCEngagement, Engagement_proofs
    RawStore    <-  MCRawStore, RawStore_proofs
    Collection  <=  Collect     <-  MCCollect, Collect_proofs      (<= : is implemented by)
    Provenance  <-  ToolOutput  <-  MCToolOutput, ToolOutput_proofs
    Policies, Dedup  <-  Consolidation  <-  MCConsolidation, Consolidation_proofs
    Findings    <-  MCFindings, Findings_proofs

**Lifecycle** holds the tables: stages in order, the running, completed and entry
state of each, the transition relation, where a resume continues.

**EventSummary** is the journal as far as the program ever asks about it: which
states were reached, whether the last QA approval is older than an upstream rerun,
from which stage the engagement last failed, which state the last event names.
`Record` folds one event into it. It replaces an unbounded list by a finite record;
module Journal justifies that.

**Pipeline** is the engagement driven by concurrent invocations. A process
has a program counter (`pc`) and the locals of its invocation (`job`). One action is one
database transaction or one lock operation, so a second process, a kill or a failed
append fits between any two.

| Labels | Code |
|---|---|
| `resume`, `reset`, `force`, `rerun_event` | `determine_resume_stage` and `reset_for_rerun`, outside the lock |
| `acquire` | `EngagementLock.acquire`, `LockTimeoutError` |
| `enter`, `recover`, `recover_event`, `reread`, `rehydrate` | head of `run_stages`: `_detect_stale_running`, `_recover_stale_state`, `_rehydrate_upstream_state` |
| `begin`, `begin_event`, `work`, `finish`, `finish_event` | one turn of the loop: transition, handler, transition |
| `fail`, `fail_event` | the except clauses, which drop a failure of their own |
| `approve`, `approve_event` | the approval of a parked engagement, by a UI outside the repository that uses the same lock and orchestrator |

What a stage computes is reduced to what control depends on: the in-memory inputs
it needs and leaves (`Needs`, `Produces`), whether any raw output is on disk. Two
history variables, `signed` and `failedAt`, remember what the properties are about.

**Journal** keeps the rows themselves with their timestamps, and the three scans as the code
runs them. Rows are selected `ORDER BY timestamp`, a *text*: `format_utc`
writes a whole second as `...05Z`, which sorts after every `...05.ffffffZ` of the same second.
The module runs rows and summary side by side, and lets appends be lost.

**AuditTrail** is the promise of both, without processes, lock and memory: the state moves only together with the event
that says so, one event per move, forward, into a failure, back for a rerun, or back from a stale running state
(`Advance`, `Abandon`, `StartOver`, `RecoverStale`); nothing is rendered that the journal does not show approved. Pipeline
implements it with one invocation at a time (`Trail`): between a state update and its event the abstract state is still the one the last event
names, and the event makes the abstract move. The documents promise this without condition (`docs/architecture.md:258`);
once a fault has cost an event (`lost`), AuditTrail promises nothing any more.

**Engagement** is what one engagement consists of besides its state: the row, the directory, the
copy of its config in both. Each command is its sequence of transactions and file operations, and
any of them may fail (an exception) or be the last one (a kill).

| Labels | Code |
|---|---|
| `insert`, `mkdir`, `column`, `read`, `write` | `create_cmd`: row, directory, `update_engagement_dir`, the mirror |
| `undo`, `unrow` | its rollback |
| `reset`, `acquire`, `begin`, `save`, `read`, `write`, `work` | `run` and `collect`; the mirror after COLLECT swallows its errors |
| `load`, `locate`, `fallback`, `rehydrate` | `replay`: config from the row, or from the snapshot; `rehydrate_from_snapshot` |
| `row`, `acquire`, `store` | `ingest` |
| `manifest`, `acquire`, `probe`, `restore` | `ingest --repair-event`, which rehydrates under the lock |
| `look`, `audit`, `rmtree`, `delete` | `purge` |

The stages that a command goes on to execute are one step here (`Work`), which fails without a row and touches
nothing this module has. `Wipe` is the loss of the database file.

**RawStore** is `raw-output/` of one engagement. The files of a tool are named by the
*generation* (the collection or ingest) that wrote them; artifacts and manifest match when they
carry the same generation, since the loader verifies hashes. A writer (collection: all tools,
no rollback; ingest: one tool, with rollback) performs the four renames of the commit one by
one under the lock; `archive` and `restore` walk and swap the directory with no lock and remove
a writer's staging area with it; `--repair-event` reads the manifest before it takes the lock.
An ingest's journal rows are counted per generation.

**Collection** is the promise of `stages.collect`, in a page: every adapter runs once and the stage returns the outcome
of each; only a killed process returns nothing. **Collect** has the pool: a queue, `max_parallel` workers, futures resolved in any
order, the `with` block that waits for the queue, and the exception of a class that `_resolve_future` does not name, which leaves
the loop and takes every result with it (label `raised`). Its `Promise` is the instance of Collection with the refinement
mapping, in which an adapter that raised has failed, whatever it raised. `IsolatesAdapters` is that promise as it is documented, which the code
does not keep (`MCUnforeseen`); `IsolatesForeseen` is the promise with that one departure, the step `LosesAll`. The same module follows the output of a collection
to the report: raw output on disk, confinement and parsing, coverage and findings in their tables, reparse, and
what a stop between any two of these leaves. What an adapter produced is named by its collection.

**ToolOutput** is below that: how one adapter comes to its output. For each of the seven adapters it has the discipline
by which the adapter tells its own files from others in `output_dir`:

| Adapter | `Found` |
|---|---|
| ScubaGear | the newest directory, if it was not there before |
| Monkey365 | names that were not there before |
| Maester | the directory made for this run |
| M365-Assess | new names, and old ones with another time or size |
| Prowler | every file with the name it was given |
| Azure Advisor, Secure Score | the files the adapter itself wrote from the pages it fetched (`fetch_paginated_json`) |

An API adapter writes whatever was fetched, and takes its files without a look at them: a file is `open` while it is filled, and then `whole`
or `partial` by what the page loop gave it (`Complete`). Runs of other engagements may use the directory at the same time, a killed run leaves its tool alive (`alive`), files
are checked by hash when they are copied (`Save`). **Provenance** has the decision which PowerShell module runs.

**Policies** are the pure functions of `policy/` and `consolidation/rules.py` with the tables of the shipped rules:
normalization, merging of a group, confidence, severity suggestions, roadmap, audience filters. **Dedup** is the union-find
structure, one `union` per step in any order; `Connected` says what grouping is for without it. **Consolidation** runs NORMALIZE and
CONSOLIDATE with both, from every list of observations or of stored findings.

**Findings** is the tables of findings, consolidated findings and overrides of one engagement,
with the runs that replace them and the analysts who change them. A finding is its key, its dedup keys and
its severity. A run holds its findings in memory from handler to handler; `Consolidate` is the transaction
that carries over instance ids by key, and `WithStoredIds` leaves open which row's id is taken when several
rows have the key. What a merged finding's UUID stands for is its name here: the consolidation and the group.

Simplifications, each stated at the head of its module:

- Pipeline orders events by their append (module Journal says what the text order changes); its `Crash` also stands for
  exceptions nothing catches (they leave the running state and release the lock).
- RawStore has one writer at a time, which theorem `LockExclusive` of Pipeline_proofs justifies, one archive or restore and one repair
  beside it, and rollback renames that succeed; leftovers of killed commands (`.old-*`, `.staging-*`) are invisible to the loader and left out.
- Engagement: the id of an engagement is a fresh UUID that the operator sees when `create` is done, so others use it only
  then; the operating system releases the lock of a dead process.
- Collect: runs follow one another (the lock), `save_raw_outputs` is one step (RawStore takes it apart).
- ToolOutput: a tool that exits with a success code has finished its files; M365-Assess's files change their time or size
  when they are rewritten; `output_dir` is absolute.

## 3. What is checked

Properties are stated, with the code they are about, in the last section of each module.

| Run | Instance | What it shows |
|---|---|---|
| `MCSequential` | one process, every command, both QA strategies, collections with and without success, 2 faults at any label | while no event was lost: Pipeline implements AuditTrail, so the journal tells every move of the engagement and each is one the life cycle allows (`JournalTellsLife`; that the state column is a projection of the journal, `JournalProjects`, follows), and a resume after any number of failures continues at the last failed stage (`ResumeKnowsFailure`); while no rerun event was lost: RENDER only works on consolidated findings that QA signed last (`RenderOnlySigned`), no stage runs without its inputs (`InputsPresent`); types (`TypeOK`) |
| `MCShared` | an operator who issues `run`, and at the same time one of: a reviewer who approves, with 3 faults outside the gap; a reporter who issues `report`, with a stage that fails or a process killed in a stage or before its last event; a colleague who issues `run` too, without faults | who executes is who holds the lock (`LockHolderAlone`); only an operator's reset takes an engagement out of COMPLETE, neither a late failure handler nor a stale recovery does (`CompleteIsFinal`); operator and reviewer who keep coming back complete the engagement (`TeamCompletes`) |
| `MCJournal` | five rows over two seconds of three microseconds, two lost | rows and summary agree on completed states (`CompletedAgrees`); the gate never opens on a stale approval even where text order misplaces rows (`GateNeverOpensStale`); without whole seconds every scan is exact (`ScansExact`) |
| `MCEngagement` | two invocations, two configs, one fault or kill at any step, one loss of the database | row and snapshot only ever hold the config the engagement was created with, and once mirrored it is there until a purge (`Recoverable`); a rolled-back creation leaves nothing (`CreateUndone`); a purge without an overlap removes everything, all of it listed, for good (`PurgedIsGone`); after a wipe an operator who keeps issuing `replay --from parse` gets the row back (`WipedComesBack`) |
| `MCRawStore` | two tools, two generations, one fault | no manifest beside foreign artifacts (`ManifestsMatch`), no replay of a mixture (`LoadsCommitted`), rollbacks restore (`RollbackRestores`), no ingest journaled twice (`RecordedOnce`), whoever keeps repairing gets the event of the manifest on disk (`RepairCompletes`); types (`TypeOK`) |
| `MCCollect` | three adapters (two with coverage), two workers, two collections, every end an adapter can have, stops anywhere | the pool implements Collection but for exceptions of unnamed classes, after which all results are lost and none is wrong (`IsolatesForeseen`), and ends (`CollectionEnds`); a run that collected never works on older output, even when every adapter failed (`FreshRunHoldsFresh`); coverage and findings of a report are of the same outputs, once per tool (`ReportCoherent`) |
| `MCToolOutput` | each of the seven adapters, two runs after an earlier one, overlapping or not, orphans, five page chains (complete, cyclic, longer than the limit of the first or of the second fetch, leading elsewhere), six module copies, four overrides | a collection stores its own output, whole (`OwnOutput`); what an undisturbed adapter found is accepted (`QuietIsSaved`); only approved modules run (`RunsApproved`); collections end (`CollectReturns`) |
| `MCConsolidation` | every list of up to three observations of two tools, and of up to four stored findings with two keys and a blank one | `find` ends (`RanksGrow`), groups are what the unions so far connect (`GroupsSoFar`); what passed is INFO (`PassIsInfo`); the order of reporting changes neither findings, roadmap nor a capped report (`OrderFree`); the two halves of the severity policy agree (`AdviceAgrees`) |
| `MCFindings` | three tool findings on two controls, two manual findings (one joins the controls, one repeats a key and has no usable dedup key), three consolidations, one override | key and severity of a merged finding come from one source (`KeyCarriesSeverity`), what a run carries is what is stored (`HeldIsStored`), a save never breaks the primary key (`SavesSucceed`), overrides stay linked (`OverridesLinked`) |

Three runs check a statement of the repository's documents or docstrings that the code does not keep; TLC
finds the counterexample (`findings` in `PROJECT.json` quotes the lines).

| Run | Disagreement |
|---|---|
| `MCCrashRetry` | a kill between `update_state` and its event: the plain run is refused forever, though the documents call the two atomic |
| `MCUnlockedReset` | `reset_for_rerun` moves an engagement while another invocation executes a stage under the lock |
| `MCUnforeseen` | an adapter raises an exception that `_resolve_future` does not name: the stage ends without a result for any adapter, though its docstring says that failures are captured and do not abort, and returns one result per adapter (`IsolatesAdapters`) |

### Bounds

- *Faults* (`MaxFaults`) count failed steps, failed appends and kills together. In Pipeline two give
  failures at two stages, or one and a kill in the recovery from it; the reviewer's part of `MCShared` has three. The number of commands is not
  bounded: the states of Pipeline and Engagement are finite because the journal is a summary and the directory a few flags.
- *Two processes* suffice for lock, reset, recovery and purge races, which are pairwise; `LockExclusive`,
  `CompleteStays` and the theorems of Engagement_proofs cover any number, and the latter any number of faults and wipes.
  Each of the three who join the operator in `MCShared` brings the faults that matter beside them. Completion is claimed for operator and reviewer only:
  who resets in the middle of another's stage (`MCUnlockedReset`) can spoil a run for good, and reports without end can keep one from completing.
- *Five rows* hold two approvals of one second with an upstream rerun between them (two rows of
  such a history may be lost); the theorems of Journal_proofs cover any length.
- *Two generations and two tools* give an old and a new run, and a collection that names one of two
  tools. The safety properties also hold with three generations, and with two faults (checked without
  `RepairCompletes`); the theorems of RawStore_proofs cover any number.
- *Three adapters on two workers* leave one in the queue while two run, and one that raises beside a slow and a queued one; `MCUnforeseen` needs a single collection;
  two collections give old output beside new. The theorems of Collect_proofs cover any number of each.
- *Two runs after an earlier one* give stale files, an overlap and an orphan of a killed run. Page limit three and four pages
  let a chain be complete, cyclic, one page too long or pointing elsewhere.
- *Consolidation.* Four findings are the least with a tree of rank two, two keys the least with a chain; three
  observations of two tools have ties of severity within and across tools.
- *Findings.* Three consolidations let a key be dropped and come back, or be given to two rows and then to one;
  five findings give groups of one to four members, with ties of severity, and two groups with one key.
- *Fault points.* Faults may hit every label; `faults.torn` remembers which events they cost, and the properties
  of `MCSequential` say which losses they tolerate. The reviewer's part of `MCShared` leaves out the labels between a state update
  and its event. What is excluded is what `MCCrashRetry` and the consequences below show: there the properties fail.
- `LoadsCommitted`, `ManifestsMatch` and `RollbackRestores` are stated for histories in which no archive or restore
  overlapped a writer (`overlap`), `PurgedIsGone` for those in which no purge overlapped anything (`crowd`), `OwnOutput` for runs that had
  `output_dir` to themselves (`alone`; Maester needs no such thing): nothing in the code protects these
  pairs. The overlapping steps are in the models, and the other properties hold across them.

Deadlock checking is off where the system may stop: at the end of the bounded histories of Journal, RawStore and ToolOutput, and when a
consolidation is done.

### Fairness

- `WF(Step(p))` in Pipeline (in `MCShared` for operator and reviewer) and Engagement: a started process runs until it ends or is killed; every wait in the code has a
  timeout (lock, adapters, renderer).
- `SF(Start(p, cmd))` for operator and reviewer in `MCShared`: the operator retries, and the reviewer approves what is parked; `NobodyStarves`:
  whoever comes back for the lock forever gets it at some time (waiters poll until their timeout, and an approval holds the lock for two
  transactions). `MCCrashRetry` has one process that does both. Both runs
  assume that a collection has at least one successful adapter; one that never
  has leaves nothing to parse and cannot complete.
- `SF(Start(p, "replay", ...))` in `MCEngagement`: the operator of the runbook repeats `replay --from parse`. Strong, because the
  process slots are taken and freed by other commands meanwhile.
- `WF` of writer, maintenance and repair steps and `SF(RepairRead(s))` in `MCRawStore`: an operator repeats
  `--repair-event`. Strong fairness is needed because manifests come and go while others collect.
- `WF(Stage)` and `WF(Work(a))` in `MCCollect`: the thread of the stage runs, and each adapter ends, since each of its external calls has a timeout.
- `WF(Step(r))` in `MCToolOutput`: every subprocess and every request has a timeout. That the tool writes anything is not assumed.

### Consequences worth knowing

Of the journal and the pipeline:

- *Whole seconds.* `ScansExact` needs rows that do not fall on a whole second. With one, the scan for
  the last failure may return the older of two failures of that second and a resume starts at the wrong stage; the gate may
  refuse a fresh approval. It never opens on a stale one, since the comparison parses the
  timestamps (`RerunAfter`).
- *A lost rerun event* (a kill between `force_update_state` and the event, `pipeline/orchestrator.py:441`): the next reset is a no-op, the
  rerun is never journaled, and an old approval opens RENDER for new findings. A later stale recovery can
  start the loop at a stage whose inputs were not rehydrated, which then fails. Hence the conditions of `RenderOnlySigned` and `InputsPresent`.
- *A command too early.* `consolidate` or `qa` on an engagement that never reached the stage resets it to an entry state
  first (`pipeline/orchestrator.py:434`); `_verify_stage_completed` then refuses that run and every later plain one, until
  somebody collects again.
- *Report after a rerun of QA.* A reset to QA_REVIEW leaves the earlier approval fresh, since QA is not upstream of itself. If that rerun
  stops at CONSOLIDATED, a `report` passes the gate, is refused the transition to RENDERING, and its failure handler takes the
  engagement to FAILED with an event that says it left RENDERING, where it never was. Hence the exception in `Abandon`.
- *Report after a failed renderer.* `mseco report` does not reset, so it is refused on an engagement that failed in RENDER, for which
  `docs/runbook.md:446` suggests it; `run` resumes there.
- *A stop between PARSE and NORMALIZE* leaves new coverage beside old findings; a later `consolidate` reports that pair
  (`torn` in `ReportCoherent`).
- *A collection without success* completes with empty findings while the earlier raw output stays; a later `consolidate --reparse` reports that again.
- The report lists the tools that are enabled (`_runner.py:710`), not those that contributed (`docs/runbook.md:337`).

Of tools and their output:

- *A relative `output_dir`*, as in `docs/quickstart.md:34`, makes adapters return relative paths, and `save_raw_outputs` refuses those
  (`persistence/artifacts.py:514`).
- *Prowler* does not tell an old file of its fixed name from a new one; *engagements that share an `output_dir`* can take each other's
  output, except with Maester; the *tool of a killed run* goes on writing where the next run looks.
- *An exception of another class* than those `_resolve_future` names (`pipeline/stages.py:143`), such as a `KeyError` in an adapter or the
  `httpx.InvalidURL` of a malformed nextLink, which `fetch_paginated_json` passes on too, loses the output of every adapter, after all of them have run.
- An adapter that raises `TimeoutError` is TIMEOUT, but subprocess timeouts arrive as adapter errors and are FAILED.

Of raw output and recovery:

- *A killed collection or replace.* The old files were moved aside and nothing moves them
  back: the tool is missing from the next replay. It never mixes with another run.
- *Purge* is refused forever when only empty directories are left (a killed rmtree), and reports an error after a loss of the
  database, although it has deleted the files. A `create` whose `mkdir` fails half-way leaves the directory.
- *`run --engagement-id` with another config* runs with that config; a later replay uses the original one.
- *`--repair-event` on a database error* goes straight on to the event, which then fails for want of a row.

Of findings:

- *Manual findings* survive a new parse in the table, but a run that comes through NORMALIZE consolidates the
  tool findings it holds in memory. They reach a report only through a run that starts at CONSOLIDATE.
- *Manual findings that do not list their own key* among their dedup keys can repeat the key of a tool finding without
  joining its group. Two rows then share a key; the next consolidation gives both one id and fails on the primary
  key (`ConsolidateFails`). `SavesSucceed` is stated for findings that do list it, as normalization makes them. An
  override of one of two such rows may afterwards point to the other; `OverridesLinked` excludes those keys.
- *Instance ids.* After a re-consolidation, QA and the report of the same run get ids that the database replaced by the stored
  ones (`persistence/finding_repo.py:209`).
- *Corroboration* counts the tools of a group, also those that disagree: one FAIL beside three PASS has the confidence of four tools
  that agree.

## 4. What is proved

All proofs are checked by TLAPS with no unproved step. The only assumptions are those on the
constants, named in each module (`PipelineAssumption`, `JournalAssumption`, `RawStoreAssumption`, `CollectAssumption`,
`EngagementAssumption`, `ToolOutputAssumption`, `FindingsAssumption`, `PoliciesAssumption`, `ConsolidationAssumption`), which TLC evaluates in every
run, and three hypotheses of single theorems, `Alone`, `StoredByPolicy` and `StoredKeysShared`. Three assumptions deserve a word. `FindingsAssumption` has a finite
set of findings: any history of an engagement touches finitely many, and only a finite group need have a greatest key; it also
says that the text order of keys (`TextRank`) tells different keys apart. `PoliciesAssumption` says the same of all texts that are
compared, as the order of Python's strings does. `ConsolidationAssumption` says that severities, statuses and categories
are members of the enums `Severity`, `FindingStatus` and `Category`, which the data classes of `core/domain` enforce, and that every text that
is compared has a rank.

| Theorem | Statement | For every |
|---|---|---|
| `Pipeline_proofs!TypeCorrect` | `Spec => []TypeOK` | number of processes, choice of commands and of fault points |
| `Pipeline_proofs!LockExclusive` | `Spec => []LockHolderAlone` | same |
| `Pipeline_proofs!CompleteStays` | `Spec => CompleteIsFinal` | same |
| `Pipeline_proofs!ResumeFindsFailure` | `Spec => []ResumeKnowsFailure` | same |
| `Pipeline_proofs!StateIsJournaled` | `Alone => (Spec => []JournalProjects)` | commands and fault points, one invocation at a time |
| `Pipeline_proofs!JournalsTheLife` | `Alone => (Spec => JournalTellsLife)`: Pipeline implements AuditTrail | same |
| `Pipeline_proofs!StageOwnsStateAlone` | `Alone => (Spec => []StageOwnsState)` | same |
| `Pipeline_proofs!ReportsAreSigned` | `Alone => (Spec => []RenderOnlySigned)` | same |
| `Pipeline_proofs!InputsAreThere` | `Alone => (Spec => []InputsPresent)` | same |
| `Journal_proofs!CompletedSummarised` | `Spec => []CompletedAgrees` | length of the journal, range of the clock |
| `Journal_proofs!GateSafe` | `Spec => []GateNeverOpensStale` | same |
| `Journal_proofs!ScansAreExact` | `Spec => []ScansExact` | same |
| `Engagement_proofs!AlwaysRecoverable` | `Spec => []Recoverable` | number of invocations, configs, faults and wipes |
| `Engagement_proofs!AlwaysUndone` | `Spec => []CreateUndone` | same |
| `Engagement_proofs!AlwaysGone` | `Spec => []PurgedIsGone` | same |
| `RawStore_proofs!RawTypes` | `Spec => []TypeOK` | set of tools, number of generations and faults |
| `RawStore_proofs!ManifestsAlwaysMatch` | `Spec => []ManifestsMatch` | same |
| `RawStore_proofs!FailedIngestUndone` | `Spec => []RollbackRestores` | same |
| `RawStore_proofs!ReplaysCommitted` | `Spec => []LoadsCommitted` | same |
| `RawStore_proofs!IngestRecordedOnce` | `Spec => []RecordedOnce` | same, any number of repairs |
| `Collect_proofs!CollectImplementsForeseen` | `Spec => IsolatesForeseen`: Collect implements Collection up to `LosesAll` | number of adapters, workers and collections |
| `Collect_proofs!ReportsCohere` | `Spec => []ReportCoherent` | same |
| `Collect_proofs!CollectedIsFresh` | `Spec => []FreshRunHoldsFresh` | same |
| `ToolOutput_proofs!AlwaysApproved` | `Spec => []RunsApproved` | policy, overrides, installed copies, number of runs |
| `ToolOutput_proofs!StoresOwnOutput` | `Spec => []OwnOutput` | of the seven adapters, page limit and API, number of runs |
| `ToolOutput_proofs!QuietOutputSaved` | `Spec => []QuietIsSaved` | same |
| `Findings_proofs!KeyAndSeverityAgree` | `Spec => []KeyCarriesSeverity` | finite set of findings, number of consolidations and overrides |
| `Findings_proofs!ReportsTheStored` | `Spec => []HeldIsStored` | same |
| `Findings_proofs!ConsolidationSaves` | `Spec => []SavesSucceed` | same |
| `Findings_proofs!OverridesStayLinked` | `Spec => []OverridesLinked` | same |
| `Consolidation_proofs!RanksAlwaysGrow` | `Spec => []RanksGrow` | list of findings, order of unions |
| `Consolidation_proofs!GroupsAreChains` | `Spec => []GroupsSoFar` | same |
| `Consolidation_proofs!AdviceNeverContradicts` | `Spec => []AdviceAgrees` | list of findings, severity rules |
| `Consolidation_proofs!PassedIsInfo` | `StoredByPolicy => (Spec => []PassIsInfo)` | lists of observations, adapter tables, stored findings |
| `Consolidation_proofs!OrderDecidesNothing` | `StoredKeysShared => (Spec => []OrderFree)` | the same, audiences, order of unions |
| `Consolidation_proofs!ResultsPartition` | `Spec => []Partitioned` | list of findings, order of unions |

*Pipeline, any number of processes.* `CompleteIsFinal` is not inductive: a stale recovery writes a state chosen from a read two steps
earlier. The invariant adds that a process at `recover` has read a stale state and that the engagement is not
COMPLETE since (`JobKnown`); it is kept because the process holds the lock (`LockHolderAlone`)
and only lock holders complete an engagement. Resets are outside the lock and do disturb the read
state, but only to entry states. `ResumeKnowsFailure` holds across processes for the same reason: whoever writes FAILED holds the
lock until the event is appended, so no other failure comes between the halves of one (`FailureKnown`), and a reset never writes FAILED.

*Pipeline, one invocation at a time.* The other five need `Alone`, a single process, and are false without: with two, TLC finds that the
reset outside the lock moves the state under a running stage (`MCUnlockedReset`), whereupon state and journal, signature and gate, memory and stage
part. `Alone` does not mean one command: invocations follow each other, with kills, failures and resets between them, without bound. The
invariant `SeqInv` has four parts per label. `InStep`: which state the engagement is in, as the reset and the loop left it. `Told`: the last
event tells that state, once the event due is appended. `Gated`: from QA_APPROVED on, and whenever the journal calls an approval fresh, the
stored findings are the signed ones; before QA nothing counts as fresh, since every way back there appends a rerun event. `Supplied`: the
loop starts where it was asked to, or rehydration refuses, and what a stage produces and the next one needs is in memory.

*Pipeline implements AuditTrail.* A state update is a stutter, for the abstract state is the one the journal names until the event is there; the
append is the move. It makes a lawful one only if state and journal are still those that the check was made on, some steps earlier.
`Lawful` says so per label, while no event was lost: what a reset is about to journal as left is what the journal says last, a stage begins
from its entry state, ends in its running state, fails in that or, for RENDER, under a fresh approval. `TrailInv` joins it to `SeqInv`. A fault
that costs an event is the one step in which `lost` changes; every other fault is a stutter or lets the next event be a lawful one.

*Journal.* The invariant gives every answer of the summary the row that justifies it: a fresh approval
has an approval row after every upstream rerun, a stale one a rerun row after every approval, the failure
a last failed row; rows are in the order of time (`Ordered`). From a stale approval's
rerun row the scan cannot miss, whichever approval it picks as the last.

*Engagement.* `Recoverable` is kept by a rehydration only if the config a process carries from the snapshot is the original one
(`Carried`), however long it waits. A rollback is safe because the creating process is alone and nothing was mirrored yet
(`Roles`): nobody else knows the id. `PurgedIsGone` needs two more: where files can be on the way to a removal (`Removal`: what is
there at `rmtree` is what was listed, since a purge without an overlap is alone), and that whoever finds neither row nor directory stops
before making either again (`Gone`: the labels a command can then be at are all of its first look).

*RawStore.* `ManifestsMatch` alone is not inductive: a rollback is safe only because of what was moved aside.
`WriterInv` says for each label of a commit or rollback where every file of the tools in scope is: in place, aside,
or new (`ScopeState`), and that everything else is as before. `MaintenanceInv` says what a tarball holds is
consistent and that, without overlap, a half-walked tree has not changed since. For `LoadsCommitted` it is not enough that each manifest
matches: all of them must have been on disk together. `CoverInv` keeps, for the tree, for the archive and for what a writer started from, one
committed view that covers them; until its new manifests are in place, a writer has only taken away (`OnlyTakenAway`). `RecordedOnce` follows from
`RecordInv`: an ingest that still holds the lock has no row yet, and a repair about to append has looked under that lock, or was blind.

*Collect.* `PoolInv` ties the list of results to the ends of the futures: a result is there only for an ended future and is its status, and a
pool that raises has met an unforeseen exception. That is what makes each step of the pool a step of Collection, none, or `LosesAll` under the
mapping. `CoverageInv` says, label by label, where the coverage records stand relative to the findings of the table and in memory;
`FreshInv` that a fresh run has begun without memory.

*ToolOutput.* The override was judged when the run began and cannot change afterwards; whatever copy verification chooses is judged by
the narrowed policy, and an approval by the narrowed policy is one by the policy (`NarrowedApproved`). For the output: while a run has
`output_dir` to itself, all that lies there was there before or is its own, and all that it wrote is there (`Undisturbed`). From that, one case
per adapter shows that its way of telling files apart finds its own and no other (`FoundOwn`): by name, by the directory's being new, or by a time that is
later than everything it saw (`RunInv`). A step of another run cannot disturb it, because the other run would be a second user (`Others`).
That an API adapter's files are whole is a matter of the page loop alone (`PagesInv`): a list of pages starts at the first one and goes on from link to
link (`Linked`), the next page to fetch is the one the last link names (`Underway`), and the loop is left without an error only at a page
with no link (`FetchingThen`). So whatever the adapter writes afterwards is complete (`CompleteThen`), and a loop that returned
what it had at the page limit would break the invariant.

*Findings.* Grouping is described by its result here, the least set of findings that shared keys close, so that two groups with a key in common
are one (`ClusterClosed`, `GroupsDisjoint`). A group has a member of highest severity and, among those, one of greatest key (`HighestExists`): severity and key of a merged
finding are that member's. `OverridesLinked` needs `OneRowPerKey`: a key that was never dropped or repeated has had one row ever since it
has one, so the id carried over by key is the id the override names.

*Consolidation.* That `find` ends is a pigeonhole argument: ranks grow along a walk and a list has only so many positions (`WalkEnds`); the position
where it ends is the root (`RootIs`). Compression moves pointers within a tree, attaching by rank joins two trees, so a union merges two
sets of positions or none (`UnionMerges`). `Connected` is shown to be the least set closed under the links followed so far
(`ConnectedIsLeast`), and following a link turns that set into the union of two, exactly as the union does to the trees (`SoundUnion`). For
`AdviceAgrees` and `PassIsInfo` it must also be known that groups are not empty and that what is merged is typed. Sorting is written as counting
(`InOrder` in Policies: the k-th element is the one with k - 1 above it), about which the provers can reason, unlike a choice among all permutations.
`PassedIsInfo` supposes of the *stored* findings that those which passed are INFO (`StoredByPolicy`); of what a run normalizes itself it is proved.

*What Findings takes for granted.* `Partitioned` says of a consolidation that is done, in terms of findings and no longer of positions, that each
merged group is the `Cluster` of any of its members: no larger, because the positions whose findings lie in a set closed under shared keys are
closed under the links (`LinksShareKeys`), and no smaller, because two findings that share a key are in one tree (`SharedKeyOneRoot`). This is the
definition by which Findings groups, so what is proved there rests on what the union-find structure does. TLC has checked it on the
instance of `MCConsolidation`.

*Order decides nothing.* A list and its reverse hold each element equally often (`ReverseCounts`), and so do the parts that a filter keeps
(`ThoseCounts`); again counting stands for permutations. The element at place k of a sorted list is one with at most k - 1 above
it and at least k not below it (`DescendingPlace`): two such have equal keys. Hence two lists of the same counts sort to the same list as soon
as elements with equal keys are equal (`DescendingSame`). Within a group each merged field is the first greatest by a key that
determines it (`EssenceSame`). Among results, the sort keys of the roadmap and of a report end with the finding key, so a key must name one
result (`KeyNamesResult`): two results of one key would come from groups with a member of that key each; those two share a usable dedup
key, so they are in one group (`SharedKeyOneRoot`), or are the same blank finding twice. This is where `StoredKeysShared` is needed: what a run normalizes
lists its key, and so does what a parse stored. Manual findings need not (see the consequences): two of one key and no common dedup key become
two results of one key, which a report that sorts by that key shows in the order of the list.

Only model-checked: the liveness properties `TeamCompletes`, `WipedComesBack`, `RepairCompletes`, `CollectionEnds`, `CollectReturns`: fairness and
ENABLED are beyond the prover. Every other property of a passing run is a theorem.

## 5. Plan

Done, in this order: Lifecycle, EventSummary, Pipeline; Journal, which justifies the summary; RawStore; Findings; Collection and Collect;
Provenance and ToolOutput; Policies, Dedup and Consolidation; Engagement; AuditTrail; proofs of every safety property of a passing run and of both refinements, that of Collection with its one departure.

Left for later is rendering: several renderers in turn, of which one fails, and the report files that earlier runs left.

## 6. Not modelled, and why

- *Parsers and mappings of native formats, credentials, renderers*: external formats and processes. The models take what they return
  as values.
- *Registry, configuration, preflight*: validated once, at start. *Permissions*: file modes, with no state that evolves.
  *Analytics, explanation, `engagement list`, `status`, `export`*: read-only.
- *Schema and migrations*: run before anything else touches the database.
- *Texts*: descriptions, evidence and benchmark references of merged findings, the wording of payloads and reports.
- The file lock itself, SQLite's transactions and the operating system's atomic rename are taken as the code uses them.

## 7. Running

    tlc -workers 2 -config MCSequential.cfg MCPipeline.tla     # and MCCrashRetry, MCUnlockedReset
    tlc -workers 2 -config MCShared.cfg MCShared.tla           # about two minutes
    tlc -workers 2 -config MCEngagement.cfg MCEngagement.tla   # a minute or two
    tlc -workers 2 -config MCCollect.cfg MCCollect.tla         # and MCUnforeseen; likewise MCJournal, MCRawStore, MCToolOutput,
                                                               # MCConsolidation, MCFindings
    tlapm Pipeline_proofs.tla                                  # and the other *_proofs modules
