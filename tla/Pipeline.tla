------------------------------ MODULE Pipeline ------------------------------
(***************************************************************************)
(* One engagement driven by CLI invocations: pipeline/orchestrator.py,     *)
(* pipeline/_runner.py, the lock of pipeline/state.py and the commands of  *)
(* cli/commands.  An invocation is a process; each of its steps is one     *)
(* database transaction (the state column and the journal are written in   *)
(* separate transactions) or one lock operation.  Only the stage loop runs *)
(* under the engagement lock: the rerun reset does not.                    *)
(*                                                                         *)
(* Abstractions.  The journal is the summary of module EventSummary.  What *)
(* the stages compute is reduced to what the control flow tests: which     *)
(* in-memory inputs a run holds, whether raw output is on disk, and the    *)
(* history variables signed and failedAt.  Crash also stands for an        *)
(* exception run_stages does not catch (sqlite3.Error, KeyError): the lock *)
(* is released, the state column keeps its running state.                  *)
(***************************************************************************)
EXTENDS EventSummary

CONSTANTS
  Procs,            \* invocations that may be alive at the same time
  Commands,         \* the commands operators issue, a subset of AllCommands
  Strategies,       \* values of is_noop of the QA strategy: subset of BOOLEAN
  CollectOutcomes,  \* {"some", "none"}: did any adapter succeed
  FaultPoints,      \* the labels at which a process may be killed or fail to append
  MaxFaults,        \* bound on crashes, failed stages and failed appends together
  NoProc

Labels ==
  {"idle", "resume", "reset", "force", "rerun_event", "acquire", "enter", "recover",
   "recover_event", "reread", "rehydrate", "begin", "begin_event", "work", "finish",
   "finish_event", "fail", "fail_event", "approve", "approve_event"}

\* The labels at which the state column is written and its event is not yet.
EventLabels == {"rerun_event", "recover_event", "begin_event", "finish_event",
                "fail_event", "approve_event"}

Inputs == {"loaded_manifests", "observations", "findings", "consolidated_findings"}

\* run [--engagement-id], --rerun / --force-stage / replay --from, collect,
\* consolidate [--reparse], report, and the approval of an external review UI.
ForceCommands == {"COLLECT", "PARSE", "NORMALIZE", "CONSOLIDATE", "QA_REVIEW", "RENDER"}
AllCommands ==
  {"run", "collect", "consolidate", "reparse", "report", "approve"} \cup ForceCommands

ASSUME PipelineAssumption ==
  /\ Commands \subseteq AllCommands
  /\ Strategies \subseteq BOOLEAN
  /\ CollectOutcomes \subseteq {"some", "none"}
  /\ FaultPoints \subseteq Labels
  /\ MaxFaults \in Nat
  /\ NoProc \notin Procs

VARIABLES
  dbState,    \* engagements.state
  journal,    \* pipeline_events, as a summary
  rawOnDisk,  \* raw-output/manifests is not empty
  lock,       \* holder of <engagements_root>/.locks/<id>.lock
  pc, job,    \* per process: next step, and the locals of the invocation
  faults,     \* their number, at most MaxFaults, and which events they cost
  signed,     \* history: the stored consolidated findings passed QA
  failedAt    \* history: the stage of the last transition to FAILED

dataVars == <<dbState, journal, rawOnDisk, signed, failedAt>>
vars == <<dbState, journal, rawOnDisk, lock, pc, job, faults, signed, failedAt>>

NoJob == [cmd |-> "none", start |-> "END", stop |-> "END", noop |-> FALSE,
          stage |-> "END", cur |-> "CREATED", ctx |-> {}]
Jobs == [cmd: AllCommands \cup {"none"}, start: Stages \cup {"END"},
         stop: Stages \cup {"END"}, noop: BOOLEAN, stage: Stages \cup {"END"},
         cur: States, ctx: SUBSET Inputs]

Init ==
  /\ dbState = "CREATED" /\ journal = EmptyJournal /\ rawOnDisk = FALSE
  /\ lock = NoProc /\ faults = [n |-> 0, torn |-> {}]
  /\ pc = [p \in Procs |-> "idle"] /\ job = [p \in Procs |-> NoJob]
  /\ signed = FALSE /\ failedAt = "END"

Goto(p, label) == pc' = [pc EXCEPT ![p] = label]
At(p, label) == pc[p] = label

\* The invocation ends; EngagementLock.hold releases in its finally block.
Leave(p) ==
  /\ Goto(p, "idle")
  /\ job' = [job EXCEPT ![p] = NoJob]
  /\ lock' = IF lock = p THEN NoProc ELSE lock

Emit(e) == journal' = Record(journal, e)

---------------------------------------------------------------------------
(* The command line *)

StartStage(cmd) ==
  CASE cmd \in ForceCommands -> cmd
    [] cmd = "collect"       -> "COLLECT"
    [] cmd = "consolidate"   -> "CONSOLIDATE"
    [] cmd = "reparse"       -> "PARSE"
    [] cmd = "report"        -> "RENDER"
    [] OTHER                 -> "END"

StopStage(cmd) ==
  CASE cmd = "collect"                    -> "COLLECT"
    [] cmd \in {"consolidate", "reparse"} -> "CONSOLIDATE"
    [] OTHER                              -> "END"

\* What a command does first: report goes straight to run_from, without a reset.
FirstLabel(cmd) ==
  CASE cmd = "run"                   -> "resume"
    [] cmd \in {"report", "approve"} -> "acquire"
    [] OTHER                         -> "reset"

Start(p, cmd) ==
  /\ At(p, "idle")
  /\ \E noop \in IF cmd \in ForceCommands \cup {"run"} THEN Strategies ELSE {FALSE} :
       job' = [job EXCEPT ![p] = [NoJob EXCEPT !.cmd = cmd, !.noop = noop,
                                    !.start = StartStage(cmd), !.stop = StopStage(cmd)]]
  /\ Goto(p, FirstLabel(cmd))
  /\ UNCHANGED <<dataVars, lock, faults>>

\* determine_resume_stage, as a set: empty when it returns None (COMPLETE,
\* QA_REVIEW) and when it raises (FAILED with no stage to be found).
ResumeStage(st, j) ==
  IF st \in DOMAIN ResumeFrom THEN {ResumeFrom[st]}
  ELSE IF st \in StaleStates THEN {OwningStage(st)}
  ELSE IF st = "FAILED" /\ j.failedFrom \in RunningStates THEN {OwningStage(j.failedFrom)}
  ELSE {}

Resume(p) ==
  /\ At(p, "resume")
  /\ \E s \in ResumeStage(dbState, journal) : job' = [job EXCEPT ![p].start = s]
  /\ Goto(p, "reset")
  /\ UNCHANGED <<dataVars, lock, faults>>

NothingToResume(p) ==
  /\ At(p, "resume")
  /\ ResumeStage(dbState, journal) = {}
  /\ Leave(p)
  /\ UNCHANGED <<dataVars, faults>>

---------------------------------------------------------------------------
(* reset_for_rerun: outside the lock, in three steps *)

ResetNotNeeded(p) ==
  /\ At(p, "reset")
  /\ dbState = EntryState[job[p].start]
  /\ Goto(p, "acquire")
  /\ UNCHANGED <<dataVars, lock, job, faults>>

\* Mutant: RENDER needs no approval.
ResetAllowed_Ungated(start) == TRUE

ResetAllowed(start) == start = "RENDER" => QAVerified(journal)

ResetNeeded(p) ==
  /\ At(p, "reset")
  /\ dbState # EntryState[job[p].start]
  /\ ResetAllowed(job[p].start)
  /\ job' = [job EXCEPT ![p].cur = dbState]
  /\ Goto(p, "force")
  /\ UNCHANGED <<dataVars, lock, faults>>

ResetRefused(p) ==
  /\ At(p, "reset")
  /\ dbState # EntryState[job[p].start]
  /\ ~ResetAllowed(job[p].start)
  /\ Leave(p)
  /\ UNCHANGED <<dataVars, faults>>

\* Mutant: the stage is written where its entry state belongs.
ForceState_WritesStage(p) ==
  /\ At(p, "force")
  /\ dbState' = job[p].start
  /\ Goto(p, "rerun_event")
  /\ UNCHANGED <<journal, rawOnDisk, signed, failedAt, lock, job, faults>>

\* force_update_state: no transition check.
ForceState(p) ==
  /\ At(p, "force")
  /\ dbState' = EntryState[job[p].start]
  /\ Goto(p, "rerun_event")
  /\ UNCHANGED <<journal, rawOnDisk, signed, failedAt, lock, job, faults>>

RerunEvent(p) ==
  /\ At(p, "rerun_event")
  /\ Emit(Rerun(job[p].cur, job[p].start))
  /\ Goto(p, "acquire")
  /\ UNCHANGED <<dbState, rawOnDisk, signed, failedAt, lock, job, faults>>

---------------------------------------------------------------------------
(* EngagementLock.acquire, stale recovery and rehydration *)

\* Mutant: the lock file is overwritten instead of waited for.
Acquire_Steals(p) ==
  /\ At(p, "acquire")
  /\ lock' = p
  /\ Goto(p, IF job[p].cmd = "approve" THEN "approve" ELSE "enter")
  /\ UNCHANGED <<dataVars, job, faults>>

Acquire(p) ==
  /\ At(p, "acquire")
  /\ lock = NoProc
  /\ lock' = p
  /\ Goto(p, IF job[p].cmd = "approve" THEN "approve" ELSE "enter")
  /\ UNCHANGED <<dataVars, job, faults>>

LockTimeout(p) ==
  /\ At(p, "acquire")
  /\ lock # NoProc
  /\ Leave(p)
  /\ UNCHANGED <<dataVars, faults>>

Enter(p) ==
  /\ At(p, "enter")
  /\ job' = [job EXCEPT ![p].cur = dbState, ![p].stage = job[p].start]
  /\ Goto(p, IF dbState \in StaleStates THEN "recover" ELSE "rehydrate")
  /\ UNCHANGED <<dataVars, lock, faults>>

\* _recover_stale_state: back to the entry state of the stage found running.
\* From here the loop starts at that stage; start keeps its value.
Recover(p) ==
  /\ At(p, "recover")
  /\ LET s == OwningStage(job[p].cur) IN
       /\ dbState' = EntryState[s]
       /\ job' = [job EXCEPT ![p].stage = s]
  /\ Goto(p, "recover_event")
  /\ UNCHANGED <<journal, rawOnDisk, signed, failedAt, lock, faults>>

RecoverEvent(p) ==
  /\ At(p, "recover_event")
  /\ Emit(StaleRecovery(job[p].cur, EntryState[job[p].stage]))
  /\ Goto(p, "reread")
  /\ UNCHANGED <<dbState, rawOnDisk, signed, failedAt, lock, job, faults>>

Reread(p) ==
  /\ At(p, "reread")
  /\ job' = [job EXCEPT ![p].cur = dbState]
  /\ Goto(p, "rehydrate")
  /\ UNCHANGED <<dataVars, lock, faults>>

\* Mutant: RENDER is rehydrated without _verify_qa_for_render.
CanRehydrate_NoQA(start) ==
  CASE start \in {"COLLECT", "RENDER"} -> TRUE
    [] start = "PARSE"       -> rawOnDisk
    [] start = "CONSOLIDATE" -> StageCompleted(journal, "NORMALIZED")
    [] start = "QA_REVIEW"   -> StageCompleted(journal, "CONSOLIDATED")
    [] OTHER                 -> FALSE

\* _rehydrate_upstream_state, by the stage asked for: may it load, and what.
CanRehydrate(start) ==
  CASE start = "COLLECT"     -> TRUE
    [] start = "PARSE"       -> rawOnDisk
    [] start = "CONSOLIDATE" -> StageCompleted(journal, "NORMALIZED")
    [] start = "QA_REVIEW"   -> StageCompleted(journal, "CONSOLIDATED")
    [] start = "RENDER"      -> QAVerified(journal)
    [] OTHER                 -> FALSE

Rehydrated(start) ==
  CASE start = "PARSE"                 -> {"loaded_manifests"}
    [] start = "CONSOLIDATE"           -> {"findings"}
    [] start \in {"QA_REVIEW", "RENDER"} -> {"consolidated_findings"}
    [] OTHER                           -> {}

Rehydrate(p) ==
  /\ At(p, "rehydrate")
  /\ CanRehydrate(job[p].start)
  /\ job' = [job EXCEPT ![p].ctx = Rehydrated(job[p].start)]
  /\ Goto(p, "begin")
  /\ UNCHANGED <<dataVars, lock, faults>>

\* Raised before the loop's try block: no transition to FAILED.
RehydrateRefused(p) ==
  /\ At(p, "rehydrate")
  /\ ~CanRehydrate(job[p].start)
  /\ Leave(p)
  /\ UNCHANGED <<dataVars, faults>>

---------------------------------------------------------------------------
(* The stage loop: _transition_state, dispatch, _transition_state *)

\* The program checks the transition against the state it remembers, the
\* repository against the one in the database.
BeginAllowed(p) ==
  LET running == RunningState[job[p].stage] IN
    CanTransition(job[p].cur, running) /\ CanTransition(dbState, running)

Begin(p) ==
  /\ At(p, "begin")
  /\ BeginAllowed(p)
  /\ dbState' = RunningState[job[p].stage]
  /\ Goto(p, "begin_event")
  /\ UNCHANGED <<journal, rawOnDisk, signed, failedAt, lock, job, faults>>

BeginRefused(p) ==
  /\ At(p, "begin")
  /\ ~BeginAllowed(p)
  /\ Goto(p, "fail")
  /\ UNCHANGED <<dataVars, lock, job, faults>>

BeginEvent(p) ==
  /\ At(p, "begin_event")
  /\ Emit(Transition(job[p].cur, RunningState[job[p].stage]))
  /\ Goto(p, "work")
  /\ UNCHANGED <<dbState, rawOnDisk, signed, failedAt, lock, job, faults>>

\* _require_in_memory, and what each handler leaves in the StageContext.
Needs(stage) ==
  CASE stage = "PARSE"                 -> {"loaded_manifests"}
    [] stage = "NORMALIZE"             -> {"observations"}
    [] stage = "CONSOLIDATE"           -> {"findings"}
    [] stage \in {"QA_REVIEW", "RENDER"} -> {"consolidated_findings"}
    [] OTHER                           -> {}

Produces(stage) ==
  CASE stage = "COLLECT"     -> {"loaded_manifests"}
    [] stage = "PARSE"       -> {"observations"}
    [] stage = "NORMALIZE"   -> {"findings"}
    [] stage = "CONSOLIDATE" -> {"consolidated_findings"}
    [] OTHER                 -> {}

\* collect and report pass None for the rule and the strategy.
HasPlugin(p) ==
  job[p].stage \in {"CONSOLIDATE", "QA_REVIEW"} => job[p].cmd \notin {"collect", "report"}

CanWork(p) == Needs(job[p].stage) \subseteq job[p].ctx /\ HasPlugin(p)

\* save_raw_outputs keeps what is on disk when no adapter succeeded;
\* save_consolidated_findings replaces what QA may have signed.
Effects(stage) ==
  /\ IF stage = "COLLECT"
     THEN \E outcome \in CollectOutcomes : rawOnDisk' = (outcome = "some" \/ rawOnDisk)
     ELSE UNCHANGED rawOnDisk
  /\ signed' = (stage # "CONSOLIDATE" /\ signed)

Work(p) ==
  /\ At(p, "work")
  /\ CanWork(p)
  /\ Effects(job[p].stage)
  /\ job' = [job EXCEPT ![p].ctx = @ \cup Produces(job[p].stage)]
  /\ Goto(p, "finish")
  /\ UNCHANGED <<dbState, journal, failedAt, lock, faults>>

WorkRefused(p) ==
  /\ At(p, "work")
  /\ ~CanWork(p)
  /\ Goto(p, "fail")
  /\ UNCHANGED <<dataVars, lock, job, faults>>

\* A human-gated review leaves the engagement parked at QA_REVIEW.
Parks(p) == job[p].stage = "QA_REVIEW" /\ ~job[p].noop

Park(p) ==
  /\ At(p, "finish")
  /\ Parks(p)
  /\ Leave(p)
  /\ UNCHANGED <<dataVars, faults>>

Finish(p) ==
  /\ At(p, "finish")
  /\ ~Parks(p)
  /\ CanTransition(dbState, CompletedState[job[p].stage])
  /\ dbState' = CompletedState[job[p].stage]
  /\ signed' = (signed \/ job[p].stage = "QA_REVIEW")
  /\ Goto(p, "finish_event")
  /\ UNCHANGED <<journal, rawOnDisk, failedAt, lock, job, faults>>

FinishRefused(p) ==
  /\ At(p, "finish")
  /\ ~Parks(p)
  /\ ~CanTransition(dbState, CompletedState[job[p].stage])
  /\ Goto(p, "fail")
  /\ UNCHANGED <<dataVars, lock, job, faults>>

\* The loop goes on with the next stage, or ends after stop_stage or RENDER.
FinishEvent(p) ==
  LET stage == job[p].stage
      done  == CompletedState[stage]
  IN
  /\ At(p, "finish_event")
  /\ Emit(Transition(RunningState[stage], done))
  /\ IF stage \in {job[p].stop, "RENDER"}
     THEN Leave(p)
     ELSE /\ job' = [job EXCEPT ![p].stage = NextStage[stage], ![p].cur = done]
          /\ Goto(p, "begin")
          /\ UNCHANGED lock
  /\ UNCHANGED <<dbState, rawOnDisk, signed, failedAt, faults>>

\* Mutant: the failure is written with force_update_state.
Fail_Forced(p) ==
  /\ At(p, "fail")
  /\ dbState' = "FAILED"
  /\ failedAt' = job[p].stage
  /\ Goto(p, "fail_event")
  /\ UNCHANGED <<journal, rawOnDisk, signed, lock, job, faults>>

\* The except clauses: running -> FAILED, their own failure logged and dropped.
Fail(p) ==
  /\ At(p, "fail")
  /\ CanTransition(dbState, "FAILED")
  /\ dbState' = "FAILED"
  /\ failedAt' = job[p].stage
  /\ Goto(p, "fail_event")
  /\ UNCHANGED <<journal, rawOnDisk, signed, lock, job, faults>>

FailSwallowed(p) ==
  /\ At(p, "fail")
  /\ ~CanTransition(dbState, "FAILED")
  /\ Leave(p)
  /\ UNCHANGED <<dataVars, faults>>

FailEvent(p) ==
  /\ At(p, "fail_event")
  /\ Emit(Transition(RunningState[job[p].stage], "FAILED"))
  /\ Leave(p)
  /\ UNCHANGED <<dbState, rawOnDisk, signed, failedAt, faults>>

---------------------------------------------------------------------------
(* The human approval, by a review UI that shares lock and orchestrator *)

Approve(p) ==
  /\ At(p, "approve")
  /\ CanTransition(dbState, "QA_APPROVED")
  /\ dbState' = "QA_APPROVED"
  /\ signed' = TRUE
  /\ Goto(p, "approve_event")
  /\ UNCHANGED <<journal, rawOnDisk, failedAt, lock, job, faults>>

ApproveRefused(p) ==
  /\ At(p, "approve")
  /\ ~CanTransition(dbState, "QA_APPROVED")
  /\ Leave(p)
  /\ UNCHANGED <<dataVars, faults>>

ApproveEvent(p) ==
  /\ At(p, "approve_event")
  /\ Emit(Transition("QA_REVIEW", "QA_APPROVED"))
  /\ Leave(p)
  /\ UNCHANGED <<dbState, rawOnDisk, signed, failedAt, faults>>

---------------------------------------------------------------------------
(* Faults *)

Fault(p) ==
  /\ faults.n < MaxFaults
  /\ faults' = [n |-> faults.n + 1, torn |-> faults.torn \cup ({pc[p]} \cap EventLabels)]

\* A caught exception inside a handler, before or after what it writes.
WorkFails(p) ==
  /\ Fault(p)
  /\ At(p, "work")
  /\ Effects(job[p].stage) \/ UNCHANGED <<rawOnDisk, signed>>
  /\ Goto(p, "fail")
  /\ UNCHANGED <<dbState, journal, failedAt, lock, job>>

\* EventRepo.append raises PersistenceError: caught by the loop for the two
\* events of a stage, fatal to the invocation for the others.
EmitFails(p) ==
  /\ Fault(p)
  /\ pc[p] \in EventLabels \cap FaultPoints
  /\ IF pc[p] \in {"begin_event", "finish_event"}
     THEN Goto(p, "fail") /\ UNCHANGED <<lock, job>>
     ELSE Leave(p)
  /\ UNCHANGED dataVars

\* SIGKILL, power loss, or an exception nothing catches. The operating system
\* releases the file lock with the process.
Crash(p) ==
  /\ Fault(p)
  /\ pc[p] \in FaultPoints \ {"idle"}
  /\ Leave(p)
  /\ UNCHANGED dataVars

---------------------------------------------------------------------------

Step(p) ==
  \/ Resume(p) \/ NothingToResume(p)
  \/ ResetNotNeeded(p) \/ ResetNeeded(p) \/ ResetRefused(p) \/ ForceState(p) \/ RerunEvent(p)
  \/ Acquire(p) \/ LockTimeout(p) \/ Enter(p)
  \/ Recover(p) \/ RecoverEvent(p) \/ Reread(p) \/ Rehydrate(p) \/ RehydrateRefused(p)
  \/ Begin(p) \/ BeginRefused(p) \/ BeginEvent(p)
  \/ Work(p) \/ WorkRefused(p)
  \/ Park(p) \/ Finish(p) \/ FinishRefused(p) \/ FinishEvent(p)
  \/ Fail(p) \/ FailSwallowed(p) \/ FailEvent(p)
  \/ Approve(p) \/ ApproveRefused(p) \/ ApproveEvent(p)

FaultStep(p) == WorkFails(p) \/ EmitFails(p) \/ Crash(p)

Next == \E p \in Procs :
  \/ \E cmd \in Commands : Start(p, cmd)
  \/ Step(p)
  \/ FaultStep(p)

Spec == Init /\ [][Next]_vars

\* A started invocation keeps running until it ends or is killed.
Fairness == \A p \in Procs : WF_vars(Step(p))
FairSpec == Spec /\ Fairness

\* Operators who come back: each command is issued again and again.
Persistence == \A p \in Procs : \A cmd \in Commands : SF_vars(Start(p, cmd))
PersistentSpec == FairSpec /\ Persistence
---------------------------------------------------------------------------
(* Properties *)

TypeOK ==
  /\ dbState \in States /\ journal \in Summaries /\ rawOnDisk \in BOOLEAN
  /\ lock \in Procs \cup {NoProc} /\ faults \in [n: 0..MaxFaults, torn: SUBSET EventLabels]
  /\ pc \in [Procs -> Labels] /\ job \in [Procs -> Jobs]
  /\ signed \in BOOLEAN /\ failedAt \in Stages \cup {"END"}

\* The labels inside "with orchestrator._lock.hold(engagement_id)".
Critical == Labels \ {"idle", "resume", "reset", "force", "rerun_event", "acquire"}

\* Whatever is killed, times out or fails, a process that executes the stage
\* loop, a stale recovery or an approval is the one the lock file names, so
\* no two of them ever do (EngagementLock.hold around run_stages).
LockHolderAlone == \A p \in Procs : pc[p] \in Critical <=> lock = p

\* What an invocation knows once it is past the command line, by its label.
StageLabels == {"recover_event", "reread", "rehydrate", "begin", "begin_event", "work",
                "finish", "finish_event", "fail", "fail_event"}
JobKnown ==
  \A p \in Procs :
    /\ pc[p] \in {"reset", "force", "rerun_event", "enter", "recover"} \cup StageLabels
         => job[p].start \in Stages
    /\ pc[p] = "acquire" /\ job[p].cmd # "approve" => job[p].start \in Stages
    /\ pc[p] \in StageLabels => job[p].stage \in Stages
    /\ pc[p] = "recover" => job[p].cur \in StaleStates /\ dbState # "COMPLETE"

\* The inductive invariant: a process about to recover a stale state holds the
\* lock, so nobody can have completed the engagement since it read the state.
IndInv == TypeOK /\ LockHolderAlone /\ JobKnown

\* A finished engagement stays COMPLETE until an operator resets it: neither a
\* failure handler, nor a stale recovery that read the state earlier, nor a
\* second invocation ever takes a COMPLETE engagement elsewhere.
CompleteIsFinal ==
  [][dbState = "COMPLETE" /\ dbState' # "COMPLETE"
       => \E p \in Procs : pc[p] = "force" /\ pc'[p] = "rerun_event"]_vars

\* What RENDER puts into a report is what QA signed: the consolidated findings
\* stored now are the ones approved last (_verify_qa_for_render, rerun events),
\* whatever other events a kill cost the journal, as long as the rerun event of
\* every reset was appended (reset_for_rerun).
RenderOnlySigned ==
  "rerun_event" \notin faults.torn =>
    \A p \in Procs : pc[p] = "finish" /\ job[p].stage = "RENDER" => signed

\* No event is due, and none was lost between a state update and its append.
JournalWhole == faults.torn = {} /\ \A p \in Procs : pc[p] \notin EventLabels

\* The state column is a projection of the journal whenever no event is due.
JournalProjects == JournalWhole => journal.lastTo = dbState

\* One invocation at a time, and until a fault costs an event, the two
\* transactions of every move are as good as one: the journal tells the life of
\* the engagement, move by move, and every move is one the life cycle allows
\* (_transition_state, reset_for_rerun, _recover_stale_state).
Trail ==
  INSTANCE AuditTrail WITH
    state <- IF \E p \in Procs : pc[p] \in EventLabels THEN journal.lastTo ELSE dbState,
    lost  <- faults.torn # {}
JournalTellsLife == Trail!TrailSpec

\* A FAILED engagement is resumed at the stage that failed, not at an older
\* failure the journal still holds (determine_resume_stage).
ResumeKnowsFailure ==
  dbState = "FAILED" /\ JournalWhole
    => failedAt \in Stages /\ ResumeStage(dbState, journal) = {failedAt}

\* No stage is started without the in-memory data it works on: what is
\* rehydrated always matches the stage the loop starts at (_require_in_memory),
\* unless the rerun event of some reset was lost.
InputsPresent ==
  "rerun_event" \notin faults.torn =>
    \A p \in Procs : pc[p] = "work" => Needs(job[p].stage) \subseteq job[p].ctx

\* While a stage executes under the lock nobody else moves the engagement.
StageOwnsState ==
  \A p \in Procs : pc[p] \in {"work", "finish"} => dbState = RunningState[job[p].stage]

\* An operator who keeps issuing the plain "mseco run" gets the engagement to
\* COMPLETE, whichever stages failed and wherever processes were killed.
RetriesComplete == <>(dbState = "COMPLETE")
=============================================================================
