-------------------------- MODULE Pipeline_proofs --------------------------
(***************************************************************************)
(* Type correctness, the exclusion of the engagement lock, the finality of *)
(* COMPLETE and what a resume knows of the last failure, for any set of    *)
(* processes, commands and fault points; then, for one invocation at a     *)
(* time, what the state column, the QA gate and the inputs of the stages   *)
(* are worth.  The inductive invariants are Pipeline!IndInv, FailureKnown  *)
(* and SeqInv; a lemma takes each of their parts through every action.     *)
(* Last, with TrailInv, that Pipeline implements AuditTrail.               *)
(***************************************************************************)
EXTENDS Pipeline, TLAPS

-----------------------------------------------------------------------------
(* What the stage and state tables contain, and what Record preserves      *)

\* The columns of STAGE_STATE_MAP and _STAGE_ENTRY_STATE, and STAGE_ORDER.
LEMMA StageMaps ==
  /\ RunningState \in [Stages -> RunningStates]
  /\ CompletedState \in [Stages -> CompletedStates]
  /\ EntryState \in [Stages -> EntryStates]
  /\ NextStage \in [Stages -> Stages \cup {"END"}]
  /\ \A s \in Stages : s # "RENDER" => NextStage[s] \in Stages
  /\ \A s \in Stages : CompletedState[s] = "COMPLETE" => s = "RENDER"
BY DEF RunningState, CompletedState, EntryState, NextStage, Stages, RunningStates,
       CompletedStates, EntryStates

\* How the sets of states lie in each other.
LEMMA StateSets ==
  /\ RunningStates \subseteq States /\ CompletedStates \subseteq States
  /\ EntryStates \subseteq States /\ StaleStates \subseteq RunningStates
  /\ EntryStates \cap {"COMPLETE"} = {} /\ StaleStates \cap {"COMPLETE"} = {}
  /\ {"CREATED", "FAILED", "QA_REVIEW", "QA_APPROVED", "COMPLETE"} \subseteq States
BY DEF States, RunningStates, CompletedStates, EntryStates, StaleStates

\* Every running state belongs to a stage.
LEMMA OwningStageType ==
  \A st \in RunningStates : OwningStage(st) \in Stages /\ RunningState[OwningStage(st)] = st
<1> SUFFICES ASSUME NEW st \in RunningStates
             PROVE  \E s \in Stages : RunningState[s] = st
  BY DEF OwningStage
<1> QED
  BY DEF RunningState, Stages, RunningStates

\* Record keeps the type of a summary.
LEMMA RecordType ==
  ASSUME NEW j \in Summaries, NEW e, e.from \in States, e.to \in States
  PROVE  Record(j, e) \in Summaries
<1>1. ReachedAfter(j, e) \in SUBSET Witnesses
  BY DEF ReachedAfter, Summaries
<1>2. ApprovalAfter(j, e) \in {"none", "fresh", "stale"}
  BY DEF ApprovalAfter, Summaries
<1>3. FailedFromAfter(j, e) \in States \cup {NoState}
  BY DEF FailedFromAfter, Summaries
<1> QED
  BY <1>1, <1>2, <1>3 DEF Record, Summaries

-----------------------------------------------------------------------------
(* Types                                                                    *)

\* _COMPLETED_TO_NEXT maps states to stages.
LEMMA ResumeFromType ==
  /\ DOMAIN ResumeFrom \subseteq States
  /\ \A st \in DOMAIN ResumeFrom : ResumeFrom[st] \in Stages
BY DEF ResumeFrom, Stages, States, RunningStates, CompletedStates

\* determine_resume_stage returns a stage, if anything.
LEMMA ResumeStageType ==
  ASSUME NEW st \in States, NEW j \in Summaries, NEW s \in ResumeStage(st, j)
  PROVE  s \in Stages
BY OwningStageType, ResumeFromType, StateSets DEF ResumeStage

\* Assignments to the locals of an invocation keep their types.
LEMMA JobFields ==
  ASSUME NEW r \in Jobs
  PROVE  /\ r.cur \in States /\ r.ctx \in SUBSET Inputs
         /\ \A c \in States : [r EXCEPT !.cur = c] \in Jobs
         /\ \A s \in Stages : [r EXCEPT !.start = s] \in Jobs
         /\ \A s \in Stages : [r EXCEPT !.stage = s] \in Jobs
         /\ \A s \in Stages \cup {"END"}, c \in States :
              /\ [r EXCEPT !.cur = c, !.stage = s] \in Jobs
              /\ [r EXCEPT !.stage = s, !.cur = c] \in Jobs
         /\ \A c \in SUBSET Inputs : [r EXCEPT !.ctx = c] \in Jobs
BY DEF Jobs

\* A process without an invocation has well-typed locals.
LEMMA NoJobType == NoJob \in Jobs
BY StateSets DEF NoJob, Jobs

\* The fault counter stays within its bound.
LEMMA FaultType ==
  ASSUME TypeOK, NEW p \in Procs, Fault(p)
  PROVE  faults' \in [n: 0..MaxFaults, torn: SUBSET EventLabels]
BY PipelineAssumption DEF TypeOK, Fault

\* No step puts a process into the locked region without the lock file
\* naming it, nor takes it out of there with the file still naming it.
LEMMA LockStep ==
  ASSUME IndInv, NEW p \in Procs, Step(p) \/ FaultStep(p)
  PROVE  LockHolderAlone'
<1> USE PipelineAssumption DEF IndInv, TypeOK, LockHolderAlone, Critical, Labels,
   EventLabels, Goto, At, Leave
<1>1. CASE Resume(p)
  BY <1>1 DEF Resume
<1>2. CASE NothingToResume(p)
  BY <1>2 DEF NothingToResume
<1>3. CASE ResetNotNeeded(p)
  BY <1>3 DEF ResetNotNeeded
<1>4. CASE ResetNeeded(p)
  BY <1>4 DEF ResetNeeded
<1>5. CASE ResetRefused(p)
  BY <1>5 DEF ResetRefused
<1>6. CASE ForceState(p)
  BY <1>6 DEF ForceState
<1>7. CASE RerunEvent(p)
  BY <1>7 DEF RerunEvent
<1>8. CASE Acquire(p)
  BY <1>8 DEF Acquire
<1>9. CASE LockTimeout(p)
  BY <1>9 DEF LockTimeout
<1>10. CASE Enter(p)
  BY <1>10 DEF Enter
<1>11. CASE Recover(p)
  BY <1>11 DEF Recover
<1>12. CASE RecoverEvent(p)
  BY <1>12 DEF RecoverEvent
<1>13. CASE Reread(p)
  BY <1>13 DEF Reread
<1>14. CASE Rehydrate(p)
  BY <1>14 DEF Rehydrate
<1>15. CASE RehydrateRefused(p)
  BY <1>15 DEF RehydrateRefused
<1>16. CASE Begin(p)
  BY <1>16 DEF Begin
<1>17. CASE BeginRefused(p)
  BY <1>17 DEF BeginRefused
<1>18. CASE BeginEvent(p)
  BY <1>18 DEF BeginEvent
<1>19. CASE Work(p)
  BY <1>19 DEF Work
<1>20. CASE WorkRefused(p)
  BY <1>20 DEF WorkRefused
<1>21. CASE Park(p)
  BY <1>21 DEF Park
<1>22. CASE Finish(p)
  BY <1>22 DEF Finish
<1>23. CASE FinishRefused(p)
  BY <1>23 DEF FinishRefused
<1>24. CASE FinishEvent(p)
  BY <1>24 DEF FinishEvent
<1>25. CASE Fail(p)
  BY <1>25 DEF Fail
<1>26. CASE FailSwallowed(p)
  BY <1>26 DEF FailSwallowed
<1>27. CASE FailEvent(p)
  BY <1>27 DEF FailEvent
<1>28. CASE Approve(p)
  BY <1>28 DEF Approve
<1>29. CASE ApproveRefused(p)
  BY <1>29 DEF ApproveRefused
<1>30. CASE ApproveEvent(p)
  BY <1>30 DEF ApproveEvent
<1>31. CASE WorkFails(p)
  BY <1>31 DEF WorkFails
<1>32. CASE EmitFails(p)
  BY <1>32 DEF EmitFails
<1>33. CASE Crash(p)
  BY <1>33 DEF Crash
<1> QED
  BY <1>1, <1>2, <1>3, <1>4, <1>5, <1>6, <1>7, <1>8, <1>9, <1>10, <1>11, <1>12, <1>13,
     <1>14, <1>15, <1>16, <1>17, <1>18, <1>19, <1>20, <1>21, <1>22, <1>23, <1>24, <1>25,
     <1>26, <1>27, <1>28, <1>29, <1>30, <1>31, <1>32, <1>33 DEF Step, FaultStep

\* Every step of an invocation keeps the types of all variables.
LEMMA TypeStep ==
  ASSUME IndInv, NEW p \in Procs, Step(p) \/ FaultStep(p)
  PROVE  TypeOK'
<1> USE DEF IndInv, TypeOK, JobKnown, StageLabels, Labels, Goto, At, Leave, dataVars
<1>1. CASE Resume(p)
  <2>1. PICK s \in ResumeStage(dbState, journal) : job' = [job EXCEPT ![p].start = s]
    BY <1>1 DEF Resume
  <2>2. s \in Stages
    BY <2>1, ResumeStageType
  <2> QED
    BY <1>1, <2>1, <2>2, JobFields DEF Resume
<1>2. CASE NothingToResume(p)
  BY <1>2, NoJobType DEF NothingToResume
<1>3. CASE ResetNotNeeded(p)
  BY <1>3 DEF ResetNotNeeded
<1>4. CASE ResetNeeded(p)
  BY <1>4, JobFields DEF ResetNeeded
<1>5. CASE ResetRefused(p)
  BY <1>5, NoJobType DEF ResetRefused
<1>6. CASE ForceState(p)
  BY <1>6, StageMaps, StateSets DEF ForceState
<1>7. CASE RerunEvent(p)
  BY <1>7, StageMaps, StateSets, RecordType, JobFields DEF RerunEvent, Rerun, Emit
<1>8. CASE Acquire(p)
  BY <1>8 DEF Acquire
<1>9. CASE LockTimeout(p)
  BY <1>9, NoJobType DEF LockTimeout
<1>10. CASE Enter(p)
  BY <1>10, JobFields DEF Enter
<1>11. CASE Recover(p)
  BY <1>11, StageMaps, StateSets, OwningStageType, JobFields DEF Recover
<1>12. CASE RecoverEvent(p)
  BY <1>12, StageMaps, StateSets, RecordType, JobFields DEF RecoverEvent, StaleRecovery,
     Emit
<1>13. CASE Reread(p)
  BY <1>13, JobFields DEF Reread
<1>14. CASE Rehydrate(p)
  BY <1>14, JobFields DEF Rehydrate, Rehydrated, Inputs
<1>15. CASE RehydrateRefused(p)
  BY <1>15, NoJobType DEF RehydrateRefused
<1>16. CASE Begin(p)
  BY <1>16, StageMaps, StateSets DEF Begin
<1>17. CASE BeginRefused(p)
  BY <1>17 DEF BeginRefused
<1>18. CASE BeginEvent(p)
  BY <1>18, StageMaps, StateSets, RecordType, JobFields DEF BeginEvent, Transition, Emit
<1>19. CASE Work(p)
  BY <1>19, JobFields DEF Work, Effects, Inputs, Produces
<1>20. CASE WorkRefused(p)
  BY <1>20 DEF WorkRefused
<1>21. CASE Park(p)
  BY <1>21, NoJobType DEF Park
<1>22. CASE Finish(p)
  BY <1>22, StageMaps, StateSets DEF Finish
<1>23. CASE FinishRefused(p)
  BY <1>23 DEF FinishRefused
<1>24. CASE FinishEvent(p)
  <2>1. /\ RunningState[job[p].stage] \in States /\ CompletedState[job[p].stage] \in States
        /\ job[p].stage \in Stages
    BY <1>24, StageMaps, StateSets DEF FinishEvent
  <2>2. journal' \in Summaries
    BY <1>24, <2>1, RecordType DEF FinishEvent, Transition, Emit
  <2>3. CASE job[p].stage \in {job[p].stop, "RENDER"}
    BY <1>24, <2>2, <2>3, NoJobType DEF FinishEvent
  <2>4. CASE job[p].stage \notin {job[p].stop, "RENDER"}
    <3>1. NextStage[job[p].stage] \in Stages
      BY <2>1, <2>4, StageMaps
    <3>2. job' = [job EXCEPT ![p] = [job[p] EXCEPT !.stage = NextStage[job[p].stage],
                                        !.cur = CompletedState[job[p].stage]]]
      BY <1>24, <2>4 DEF FinishEvent
    <3> QED
      BY <1>24, <2>1, <2>2, <2>4, <3>1, <3>2, JobFields DEF FinishEvent
  <2> QED
    BY <2>3, <2>4
<1>25. CASE Fail(p)
  BY <1>25, StateSets DEF Fail
<1>26. CASE FailSwallowed(p)
  BY <1>26, NoJobType DEF FailSwallowed
<1>27. CASE FailEvent(p)
  BY <1>27, StageMaps, StateSets, RecordType, NoJobType DEF FailEvent, Transition, Emit
<1>28. CASE Approve(p)
  BY <1>28, StateSets DEF Approve
<1>29. CASE ApproveRefused(p)
  BY <1>29, NoJobType DEF ApproveRefused
<1>30. CASE ApproveEvent(p)
  BY <1>30, StateSets, RecordType, NoJobType DEF ApproveEvent, Transition, Emit
<1>31. CASE WorkFails(p)
  BY <1>31, FaultType DEF WorkFails, Effects
<1>32. CASE EmitFails(p)
  BY <1>32, FaultType, NoJobType DEF EmitFails, EventLabels
<1>33. CASE Crash(p)
  BY <1>33, FaultType, NoJobType DEF Crash
<1> QED
  BY <1>1, <1>2, <1>3, <1>4, <1>5, <1>6, <1>7, <1>8, <1>9, <1>10, <1>11, <1>12, <1>13,
     <1>14, <1>15, <1>16, <1>17, <1>18, <1>19, <1>20, <1>21, <1>22, <1>23, <1>24, <1>25,
     <1>26, <1>27, <1>28, <1>29, <1>30, <1>31, <1>32, <1>33 DEF Step, FaultStep

\* Every step keeps what an invocation knows at each label; in particular a
\* process that is about to recover a stale state excludes COMPLETE.
LEMMA JobStep ==
  ASSUME IndInv, NEW p \in Procs, Step(p) \/ FaultStep(p)
  PROVE  JobKnown'
<1> USE PipelineAssumption DEF IndInv, TypeOK, LockHolderAlone, JobKnown, Critical, StageLabels,
   Labels, EventLabels, Goto, At, Leave, dataVars, NoJob, Jobs
<1>1. CASE Resume(p)
  BY <1>1, ResumeStageType DEF Resume
<1>2. CASE NothingToResume(p)
  BY <1>2 DEF NothingToResume
<1>3. CASE ResetNotNeeded(p)
  BY <1>3 DEF ResetNotNeeded
<1>4. CASE ResetNeeded(p)
  BY <1>4 DEF ResetNeeded
<1>5. CASE ResetRefused(p)
  BY <1>5 DEF ResetRefused
<1>6. CASE ForceState(p)
  BY <1>6, StageMaps, StateSets DEF ForceState
<1>7. CASE RerunEvent(p)
  BY <1>7 DEF RerunEvent
<1>8. CASE Acquire(p)
  BY <1>8 DEF Acquire
<1>9. CASE LockTimeout(p)
  BY <1>9 DEF LockTimeout
<1>10. CASE Enter(p)
  BY <1>10, StateSets DEF Enter
<1>11. CASE Recover(p)
  BY <1>11, StageMaps, OwningStageType, StateSets DEF Recover
<1>12. CASE RecoverEvent(p)
  BY <1>12 DEF RecoverEvent
<1>13. CASE Reread(p)
  BY <1>13 DEF Reread
<1>14. CASE Rehydrate(p)
  BY <1>14 DEF Rehydrate
<1>15. CASE RehydrateRefused(p)
  BY <1>15 DEF RehydrateRefused
<1>16. CASE Begin(p)
  BY <1>16, StageMaps, StateSets DEF Begin
<1>17. CASE BeginRefused(p)
  BY <1>17 DEF BeginRefused
<1>18. CASE BeginEvent(p)
  BY <1>18 DEF BeginEvent
<1>19. CASE Work(p)
  BY <1>19 DEF Work
<1>20. CASE WorkRefused(p)
  BY <1>20 DEF WorkRefused
<1>21. CASE Park(p)
  BY <1>21 DEF Park
<1>22. CASE Finish(p)
  BY <1>22, StageMaps DEF Finish
<1>23. CASE FinishRefused(p)
  BY <1>23 DEF FinishRefused
<1>24. CASE FinishEvent(p)
  BY <1>24, StageMaps DEF FinishEvent
<1>25. CASE Fail(p)
  BY <1>25 DEF Fail
<1>26. CASE FailSwallowed(p)
  BY <1>26 DEF FailSwallowed
<1>27. CASE FailEvent(p)
  BY <1>27 DEF FailEvent
<1>28. CASE Approve(p)
  BY <1>28 DEF Approve
<1>29. CASE ApproveRefused(p)
  BY <1>29 DEF ApproveRefused
<1>30. CASE ApproveEvent(p)
  BY <1>30 DEF ApproveEvent
<1>31. CASE WorkFails(p)
  BY <1>31 DEF WorkFails
<1>32. CASE EmitFails(p)
  BY <1>32 DEF EmitFails
<1>33. CASE Crash(p)
  BY <1>33 DEF Crash
<1> QED
  BY <1>1, <1>2, <1>3, <1>4, <1>5, <1>6, <1>7, <1>8, <1>9, <1>10, <1>11, <1>12, <1>13,
     <1>14, <1>15, <1>16, <1>17, <1>18, <1>19, <1>20, <1>21, <1>22, <1>23, <1>24, <1>25,
     <1>26, <1>27, <1>28, <1>29, <1>30, <1>31, <1>32, <1>33 DEF Step, FaultStep

---------------------------------------------------------------------------
(* The remaining action, a command line that is typed *)

\* Every command but run and approve names the stage it starts at.
LEMMA CommandLine ==
  ASSUME NEW cmd \in Commands
  PROVE  /\ StartStage(cmd) \in Stages \cup {"END"} /\ StopStage(cmd) \in Stages \cup {"END"}
         /\ FirstLabel(cmd) \in {"resume", "reset", "acquire"}
         /\ FirstLabel(cmd) = "reset" => StartStage(cmd) \in Stages
         /\ FirstLabel(cmd) = "acquire" /\ cmd # "approve" => StartStage(cmd) \in Stages
<1> USE PipelineAssumption DEF AllCommands, ForceCommands, Stages
<1>1. CASE cmd \in ForceCommands
  BY <1>1 DEF StartStage, StopStage, FirstLabel
<1>2. CASE cmd \in {"run", "collect", "consolidate", "reparse", "report", "approve"}
  BY <1>2 DEF StartStage, StopStage, FirstLabel
<1> QED
  BY <1>1, <1>2

\* A command that is issued starts outside the locked region.
LEMMA StartStep ==
  ASSUME IndInv, NEW p \in Procs, NEW cmd \in Commands, Start(p, cmd)
  PROVE  IndInv'
<1> DEFINE Typed(noop) == [NoJob EXCEPT !.cmd = cmd, !.noop = noop,
                             !.start = StartStage(cmd), !.stop = StopStage(cmd)]
<1>1. PICK noop \in BOOLEAN : job' = [job EXCEPT ![p] = Typed(noop)]
  BY PipelineAssumption DEF Start
<1>2. /\ Typed(noop) \in Jobs
      /\ Typed(noop).start = StartStage(cmd) /\ Typed(noop).cmd = cmd
  BY CommandLine, PipelineAssumption, StateSets DEF NoJob, Jobs
<1> HIDE DEF Typed
<1>3. TypeOK'
  BY <1>1, <1>2, CommandLine DEF IndInv, TypeOK, Start, At, Goto, Labels, dataVars
<1>4. LockHolderAlone'
  BY CommandLine DEF IndInv, TypeOK, LockHolderAlone, Critical, Labels, Start, At, Goto
<1>5. JobKnown'
  BY <1>1, <1>2, CommandLine
     DEF IndInv, TypeOK, JobKnown, StageLabels, Labels, Start, At, Goto, dataVars
<1> QED
  BY <1>3, <1>4, <1>5 DEF IndInv

---------------------------------------------------------------------------

\* The freshly created engagement satisfies the invariant.
LEMMA InitInv == Init => IndInv
<1> SUFFICES ASSUME Init PROVE IndInv
  OBVIOUS
<1>1. TypeOK
  <2>1. EmptyJournal \in Summaries
    BY StateSets DEF EmptyJournal, Summaries
  <2>2. pc \in [Procs -> Labels] /\ job \in [Procs -> Jobs]
    BY NoJobType DEF Init, Labels
  <2>3. faults \in [n: 0..MaxFaults, torn: SUBSET EventLabels]
    BY PipelineAssumption DEF Init
  <2> QED
    BY <2>1, <2>2, <2>3, StateSets DEF Init, TypeOK
<1>2. LockHolderAlone
  BY PipelineAssumption DEF Init, LockHolderAlone, Critical
<1>3. JobKnown
  BY DEF Init, JobKnown, StageLabels
<1> QED
  BY <1>1, <1>2, <1>3 DEF IndInv

\* Every step keeps the inductive invariant.
LEMMA NextInv == IndInv /\ [Next]_vars => IndInv'
<1> SUFFICES ASSUME IndInv, [Next]_vars PROVE IndInv'
  OBVIOUS
<1>1. CASE UNCHANGED vars
  BY <1>1 DEF vars, IndInv, TypeOK, LockHolderAlone, JobKnown
<1>2. ASSUME NEW p \in Procs, NEW cmd \in Commands, Start(p, cmd)
      PROVE  IndInv'
  BY <1>2, StartStep
<1>3. ASSUME NEW p \in Procs, Step(p) \/ FaultStep(p)
      PROVE  IndInv'
  BY <1>3, TypeStep, LockStep, JobStep DEF IndInv
<1> QED
  BY <1>1, <1>2, <1>3 DEF Next

\* For any number of concurrent invocations, any commands and any placement of
\* kills and failed appends, every variable keeps its type.
THEOREM TypeCorrect == Spec => []TypeOK
<1>1. IndInv => TypeOK
  BY DEF IndInv
<1> QED
  BY <1>1, InitInv, NextInv, PTL DEF Spec

\* The process that executes stages, recovers a stale state or approves is the
\* one that holds the engagement lock.
THEOREM LockExclusive == Spec => []LockHolderAlone
<1>1. IndInv => LockHolderAlone
  BY DEF IndInv
<1> QED
  BY <1>1, InitInv, NextInv, PTL DEF Spec

\* In a state of the invariant, only force_update_state leaves COMPLETE.
LEMMA OnlyForceLeavesComplete ==
  ASSUME IndInv, [Next]_vars, dbState = "COMPLETE", dbState' # "COMPLETE"
  PROVE  \E p \in Procs : pc[p] = "force" /\ pc'[p] = "rerun_event"
<1>1. PICK p \in Procs : Step(p) \/ FaultStep(p) \/ \E cmd \in Commands : Start(p, cmd)
  BY DEF Next, vars
<1>2. ~CanTransition(dbState, RunningState[job[p].stage])
      /\ ~CanTransition(dbState, CompletedState[job[p].stage])
      /\ ~CanTransition(dbState, "FAILED") /\ ~CanTransition(dbState, "QA_APPROVED")
  BY DEF CanTransition, Terminal
<1>3. Step(p)
  BY <1>1 DEF FaultStep, WorkFails, EmitFails, Crash, Start, dataVars
<1>4. ForceState(p) \/ Recover(p) \/ Begin(p) \/ Finish(p) \/ Fail(p) \/ Approve(p)
  BY <1>3 DEF Step, dataVars, Resume, NothingToResume, ResetNotNeeded, ResetNeeded,
     ResetRefused, RerunEvent, Acquire, LockTimeout, Enter, RecoverEvent, Reread,
     Rehydrate, RehydrateRefused, BeginRefused, BeginEvent, Work, WorkRefused, Park,
     FinishRefused, FinishEvent, FailSwallowed, FailEvent, ApproveRefused, ApproveEvent
<1>5. ~Recover(p)
  BY DEF IndInv, JobKnown, Recover, At
<1>6. ForceState(p)
  BY <1>2, <1>4, <1>5 DEF Begin, BeginAllowed, Finish, Fail, Approve
<1> QED
  BY <1>6 DEF ForceState, At, Goto, IndInv, TypeOK

\* A COMPLETE engagement is left only by an operator's reset. The step that
\* needs the invariant is the stale recovery, which writes a state chosen from
\* an earlier read: the lock it holds since then keeps others from completing.
THEOREM CompleteStays == Spec => CompleteIsFinal
<1>1. IndInv /\ [Next]_vars
        => [dbState = "COMPLETE" /\ dbState' # "COMPLETE"
              => \E p \in Procs : pc[p] = "force" /\ pc'[p] = "rerun_event"]_vars
  BY OnlyForceLeavesComplete
<1> QED
  BY <1>1, InitInv, NextInv, PTL DEF Spec, CompleteIsFinal

---------------------------------------------------------------------------
(* Failures *)

\* The last failure: who writes FAILED holds the lock until the event is
\* appended, so no two failures get between each other's halves.
FailureKnown ==
  "fail_event" \notin faults.torn =>
    /\ dbState = "FAILED" => failedAt \in Stages
    /\ \A p \in Procs : pc[p] = "fail_event" => failedAt = job[p].stage
    /\ failedAt # "END" /\ (\A p \in Procs : pc[p] # "fail_event")
         => journal.failedFrom = RunningState[failedAt]

\* No stage starts from, runs in or ends in FAILED, nor starts from a stale state.
LEMMA StageTables ==
  /\ \A s \in Stages : EntryState[s] \notin StaleStates \cup {"FAILED"}
  /\ \A s \in Stages : RunningState[s] # "FAILED" /\ CompletedState[s] # "FAILED"
BY DEF Stages, EntryState, RunningState, CompletedState, StaleStates, RunningStates

\* A stale state is the running state of the stage that is recovered, which
\* then starts over.
LEMMA RecoverEntry ==
  \A st \in StaleStates :
    /\ OwningStage(st) \in Stages /\ RunningState[OwningStage(st)] = st
    /\ EntryState[OwningStage(st)] \notin StaleStates \cup {"FAILED"}
BY OwningStageType, StateSets, StageTables

\* No step loses sight of the last failure.
LEMMA FailureStep ==
  ASSUME IndInv, FailureKnown, NEW p \in Procs, Step(p) \/ FaultStep(p)
  PROVE  FailureKnown'
<1> USE DEF IndInv, TypeOK, LockHolderAlone, Critical, JobKnown, StageLabels, FailureKnown,
            EventLabels, Goto, At, Leave, dataVars, Fault, Jobs
<1>1. CASE Resume(p)
  BY <1>1 DEF Resume
<1>2. CASE NothingToResume(p)
  BY <1>2 DEF NothingToResume
<1>3. CASE ResetNotNeeded(p)
  BY <1>3 DEF ResetNotNeeded
<1>4. CASE ResetNeeded(p)
  BY <1>4 DEF ResetNeeded
<1>5. CASE ResetRefused(p)
  BY <1>5 DEF ResetRefused
<1>6. CASE ForceState(p)
  BY <1>6, StageTables DEF ForceState
<1>7. CASE RerunEvent(p)
  BY <1>7, StageTables DEF RerunEvent, Emit, Record, FailedFromAfter, Rerun
<1>8. CASE Acquire(p)
  BY <1>8 DEF Acquire
<1>9. CASE LockTimeout(p)
  BY <1>9 DEF LockTimeout
<1>10. CASE Enter(p)
  BY <1>10 DEF Enter
<1>11. CASE Recover(p)
  BY <1>11, RecoverEntry DEF Recover
<1>12. CASE RecoverEvent(p)
  BY <1>12, StageTables DEF RecoverEvent, Emit, Record, FailedFromAfter, StaleRecovery
<1>13. CASE Reread(p)
  BY <1>13 DEF Reread
<1>14. CASE Rehydrate(p)
  BY <1>14 DEF Rehydrate
<1>15. CASE RehydrateRefused(p)
  BY <1>15 DEF RehydrateRefused
<1>16. CASE Begin(p)
  BY <1>16, StageTables DEF Begin
<1>17. CASE BeginRefused(p)
  BY <1>17 DEF BeginRefused
<1>18. CASE BeginEvent(p)
  BY <1>18, StageTables DEF BeginEvent, Emit, Record, FailedFromAfter, Transition
<1>19. CASE Work(p)
  BY <1>19 DEF Work, Effects
<1>20. CASE WorkRefused(p)
  BY <1>20 DEF WorkRefused
<1>21. CASE Park(p)
  BY <1>21 DEF Park
<1>22. CASE Finish(p)
  BY <1>22, StageTables DEF Finish
<1>23. CASE FinishRefused(p)
  BY <1>23 DEF FinishRefused
<1>24. CASE FinishEvent(p)
  BY <1>24, StageTables DEF FinishEvent, Emit, Record, FailedFromAfter, Transition
<1>25. CASE Fail(p)
  BY <1>25 DEF Fail
<1>26. CASE FailSwallowed(p)
  BY <1>26 DEF FailSwallowed
<1>27. CASE FailEvent(p)
  BY <1>27 DEF FailEvent, Emit, Record, FailedFromAfter, Transition
<1>28. CASE Approve(p)
  BY <1>28 DEF Approve
<1>29. CASE ApproveRefused(p)
  BY <1>29 DEF ApproveRefused
<1>30. CASE ApproveEvent(p)
  BY <1>30 DEF ApproveEvent, Emit, Record, FailedFromAfter, Transition
<1>31. CASE WorkFails(p)
  BY <1>31 DEF WorkFails, Effects
<1>32. CASE EmitFails(p)
  BY <1>32 DEF EmitFails
<1>33. CASE Crash(p)
  BY <1>33 DEF Crash
<1> QED
  BY <1>1, <1>2, <1>3, <1>4, <1>5, <1>6, <1>7, <1>8, <1>9, <1>10, <1>11, <1>12, <1>13,
     <1>14, <1>15, <1>16, <1>17, <1>18, <1>19, <1>20, <1>21, <1>22, <1>23, <1>24, <1>25,
     <1>26, <1>27, <1>28, <1>29, <1>30, <1>31, <1>32, <1>33 DEF Step, FaultStep

\* No two stages share a running state.
LEMMA OwningStageInverse == \A s \in Stages : OwningStage(RunningState[s]) = s
<1> SUFFICES ASSUME NEW s \in Stages PROVE OwningStage(RunningState[s]) = s
  OBVIOUS
<1>1. \A t \in Stages : RunningState[t] = RunningState[s] <=> t = s
  BY DEF Stages, RunningState
<1> QED
  BY <1>1 DEF OwningStage

\* A FAILED engagement resumes at the stage that failed last, however many
\* failures the journal holds and however many invocations run and reset
\* meanwhile (determine_resume_stage).
THEOREM ResumeFindsFailure == Spec => []ResumeKnowsFailure
<1>1. Init => IndInv /\ FailureKnown
  BY InitInv DEF Init, FailureKnown
<1>2. IndInv /\ FailureKnown /\ [Next]_vars => IndInv' /\ FailureKnown'
  <2> SUFFICES ASSUME IndInv, FailureKnown, [Next]_vars PROVE FailureKnown'
    BY NextInv
  <2>1. CASE UNCHANGED vars
    BY <2>1 DEF vars, FailureKnown
  <2>2. ASSUME NEW p \in Procs, NEW cmd \in Commands, Start(p, cmd) PROVE FailureKnown'
    BY <2>2, CommandLine DEF IndInv, TypeOK, FailureKnown, Start, At, Goto, dataVars
  <2>3. ASSUME NEW p \in Procs, Step(p) \/ FaultStep(p) PROVE FailureKnown'
    BY <2>3, FailureStep
  <2> QED
    BY <2>1, <2>2, <2>3 DEF Next
<1>3. IndInv /\ FailureKnown => ResumeKnowsFailure
  <2> SUFFICES ASSUME FailureKnown, dbState = "FAILED", JournalWhole
               PROVE  failedAt \in Stages /\ ResumeStage(dbState, journal) = {failedAt}
    BY DEF ResumeKnowsFailure
  <2>1. failedAt \in Stages /\ journal.failedFrom = RunningState[failedAt]
    BY DEF FailureKnown, JournalWhole, EventLabels, Stages
  <2>2. journal.failedFrom \in RunningStates
    BY <2>1, StageMaps
  <2>3. dbState \notin DOMAIN ResumeFrom /\ dbState \notin StaleStates
    BY DEF ResumeFrom, StaleStates, RunningStates
  <2> QED
    BY <2>1, <2>2, <2>3, OwningStageInverse DEF ResumeStage
<1> QED
  BY <1>1, <1>2, <1>3, PTL DEF Spec

---------------------------------------------------------------------------
(* One invocation at a time *)

\* One invocation is alive at a time. Resets take no lock, and with two of them
\* the theorems below fail: a reset moves the engagement while a stage runs
\* (MCUnlockedReset).
Alone == \E p \in Procs : Procs = {p}

\* The states in which QA has nothing to sign yet.
Unsigned == {"CREATED", "COLLECTING", "COLLECTED", "PARSING", "PARSED", "NORMALIZING",
             "NORMALIZED", "CONSOLIDATING"}

\* Where an invocation is, and the state it has brought the engagement to.
InStep(p) ==
  /\ job[p].cmd = "report" => job[p].start = "RENDER"
  /\ pc[p] = "resume" => job[p].cmd = "run"
  /\ pc[p] \in {"acquire", "enter"} /\ job[p].cmd \notin {"report", "approve"}
       => dbState = EntryState[job[p].start]
  /\ pc[p] \in {"recover", "recover_event"} => job[p].cmd = "report"
  /\ pc[p] = "enter" => job[p].cmd # "approve"
  /\ pc[p] = "recover" => job[p].cur = dbState
  /\ pc[p] = "rerun_event" => dbState = EntryState[job[p].start]
  /\ pc[p] = "recover_event" => dbState = EntryState[job[p].stage]
  /\ pc[p] \in {"begin_event", "work", "finish"} => dbState = RunningState[job[p].stage]
  /\ pc[p] = "finish_event" => dbState = CompletedState[job[p].stage]
  /\ pc[p] = "fail_event" => dbState = "FAILED"
  /\ pc[p] = "approve_event" => dbState = "QA_APPROVED"

\* The last event tells the state.
Told(p) == faults.torn = {} /\ pc[p] \notin EventLabels => journal.lastTo = dbState

\* The states of an engagement that QA has approved.
Reviewed == {"QA_APPROVED", "RENDERING", "COMPLETE"}

\* What the QA gate relies on.
Gated(p) ==
  "rerun_event" \notin faults.torn =>
    /\ journal.approval = "fresh" => signed
    /\ dbState \in Reviewed => signed
    /\ dbState \in Unsigned /\ pc[p] # "rerun_event" => journal.approval # "fresh"
    /\ pc[p] = "force" /\ job[p].start = "RENDER" => journal.approval = "fresh"

\* The loop starts at the stage that was asked for, or rehydration refuses;
\* then each stage leaves what the next one needs.
Supplied(p) ==
  "rerun_event" \notin faults.torn =>
    /\ pc[p] \in {"recover_event", "reread", "rehydrate"} =>
         job[p].stage = job[p].start \/ (job[p].start = "RENDER" /\ dbState \in Unsigned)
    /\ pc[p] \in {"begin", "begin_event", "work", "finish", "finish_event"} =>
         Needs(job[p].stage) \subseteq job[p].ctx
    /\ pc[p] \in {"finish", "finish_event"} => Produces(job[p].stage) \subseteq job[p].ctx

\* The inductive invariant of one invocation at a time.
SeqInv == IndInv /\ \A p \in Procs : InStep(p) /\ Told(p) /\ Gated(p) /\ Supplied(p)

\* A stale state is recovered before QA or in RENDER.
LEMMA RecoverTables ==
  \A st \in StaleStates : OwningStage(st) \in QAUpstream \cup {"RENDER"}
<1> SUFFICES ASSUME NEW st \in StaleStates PROVE OwningStage(st) \in QAUpstream \cup {"RENDER"}
  OBVIOUS
<1>1. OwningStage(st) \in Stages /\ RunningState[OwningStage(st)] = st
  BY RecoverEntry
<1> QED
  BY <1>1 DEF Stages, RunningState, StaleStates, QAUpstream

\* Where QA stands in the life cycle: what comes before it and what after.
LEMMA SignedTables ==
  /\ "FAILED" \notin Unsigned \cup Reviewed
  /\ "QA_APPROVED" \in Reviewed \ Unsigned
  /\ \A s \in Stages :
       /\ EntryState[s] \in Unsigned <=> s \in QAUpstream
       /\ RunningState[s] \in Unsigned <=> s \in QAUpstream
       /\ CompletedState[s] \in Unsigned => s \in QAUpstream
       /\ EntryState[s] \in Reviewed <=> s = "RENDER"
       /\ RunningState[s] \in Reviewed <=> s = "RENDER"
       /\ CompletedState[s] \in Reviewed <=> s \in {"QA_REVIEW", "RENDER"}
       /\ CompletedState[s] = "QA_APPROVED" <=> s = "QA_REVIEW"
       /\ RunningState[s] # "QA_APPROVED"
  /\ \A st \in States, s \in Stages : CanTransition(st, RunningState[s]) => st = EntryState[s]
  /\ {"QA_REVIEW", "RENDER"} \cap QAUpstream = {} /\ "CONSOLIDATE" \in QAUpstream
BY DEF Reviewed, Stages, EntryState, RunningState, CompletedState, StaleStates,
   RunningStates, Unsigned, QAUpstream, States, CompletedStates, CanTransition, Terminal,
   Successor

\* What a stage needs is what the one before it needed or produced.
LEMMA InputTables ==
  /\ \A s \in Stages : s # "RENDER" => Needs(NextStage[s]) \subseteq Needs(s) \cup Produces(s)
  /\ \A s \in Stages : CanRehydrate(s) => Needs(s) \subseteq Rehydrated(s)
BY DEF Stages, NextStage, Needs, Produces, CanRehydrate, Rehydrated

\* An invocation stays in step with the engagement.
LEMMA InStepStep ==
  ASSUME IndInv, NEW p \in Procs, InStep(p), Step(p) \/ FaultStep(p)
  PROVE  InStep(p)'
<1> USE DEF IndInv, TypeOK, JobKnown, StageLabels, InStep, Goto, At, Leave, NoJob, Jobs,
   dataVars
<1>1. CASE Resume(p)
  BY <1>1 DEF Resume
<1>2. CASE NothingToResume(p)
  BY <1>2 DEF NothingToResume
<1>3. CASE ResetNotNeeded(p)
  BY <1>3 DEF ResetNotNeeded
<1>4. CASE ResetNeeded(p)
  BY <1>4 DEF ResetNeeded
<1>5. CASE ResetRefused(p)
  BY <1>5 DEF ResetRefused
<1>6. CASE ForceState(p)
  BY <1>6 DEF ForceState
<1>7. CASE RerunEvent(p)
  BY <1>7 DEF RerunEvent
<1>8. CASE Acquire(p)
  BY <1>8 DEF Acquire
<1>9. CASE LockTimeout(p)
  BY <1>9 DEF LockTimeout
<1>10. CASE Enter(p)
  BY <1>10, StageTables DEF Enter
<1>11. CASE Recover(p)
  BY <1>11 DEF Recover
<1>12. CASE RecoverEvent(p)
  BY <1>12 DEF RecoverEvent
<1>13. CASE Reread(p)
  BY <1>13 DEF Reread
<1>14. CASE Rehydrate(p)
  BY <1>14 DEF Rehydrate
<1>15. CASE RehydrateRefused(p)
  BY <1>15 DEF RehydrateRefused
<1>16. CASE Begin(p)
  BY <1>16 DEF Begin
<1>17. CASE BeginRefused(p)
  BY <1>17 DEF BeginRefused
<1>18. CASE BeginEvent(p)
  BY <1>18 DEF BeginEvent
<1>19. CASE Work(p)
  BY <1>19 DEF Work, Effects
<1>20. CASE WorkRefused(p)
  BY <1>20 DEF WorkRefused
<1>21. CASE Park(p)
  BY <1>21 DEF Park
<1>22. CASE Finish(p)
  BY <1>22 DEF Finish
<1>23. CASE FinishRefused(p)
  BY <1>23 DEF FinishRefused
<1>24. CASE FinishEvent(p)
  BY <1>24 DEF FinishEvent
<1>25. CASE Fail(p)
  BY <1>25 DEF Fail
<1>26. CASE FailSwallowed(p)
  BY <1>26 DEF FailSwallowed
<1>27. CASE FailEvent(p)
  BY <1>27 DEF FailEvent
<1>28. CASE Approve(p)
  BY <1>28 DEF Approve
<1>29. CASE ApproveRefused(p)
  BY <1>29 DEF ApproveRefused
<1>30. CASE ApproveEvent(p)
  BY <1>30 DEF ApproveEvent
<1>31. CASE WorkFails(p)
  BY <1>31 DEF WorkFails, Effects
<1>32. CASE EmitFails(p)
  BY <1>32 DEF EmitFails, EventLabels
<1>33. CASE Crash(p)
  BY <1>33 DEF Crash
<1> QED
  BY <1>1, <1>2, <1>3, <1>4, <1>5, <1>6, <1>7, <1>8, <1>9, <1>10, <1>11, <1>12, <1>13,
     <1>14, <1>15, <1>16, <1>17, <1>18, <1>19, <1>20, <1>21, <1>22, <1>23, <1>24, <1>25,
     <1>26, <1>27, <1>28, <1>29, <1>30, <1>31, <1>32, <1>33 DEF Step, FaultStep

\* The journal tells the state, unless an event was lost.
LEMMA ToldStep ==
  ASSUME IndInv, NEW p \in Procs, InStep(p), Told(p), Step(p) \/ FaultStep(p)
  PROVE  Told(p)'
<1> USE StageTables DEF IndInv, TypeOK, JobKnown, StageLabels, InStep, Told, EventLabels,
   Goto, At, Leave, dataVars, Fault
<1>1. CASE Resume(p)
  BY <1>1 DEF Resume
<1>2. CASE NothingToResume(p)
  BY <1>2 DEF NothingToResume
<1>3. CASE ResetNotNeeded(p)
  BY <1>3 DEF ResetNotNeeded
<1>4. CASE ResetNeeded(p)
  BY <1>4 DEF ResetNeeded
<1>5. CASE ResetRefused(p)
  BY <1>5 DEF ResetRefused
<1>6. CASE ForceState(p)
  BY <1>6 DEF ForceState
<1>7. CASE RerunEvent(p)
  BY <1>7 DEF RerunEvent, Emit, Record, Rerun
<1>8. CASE Acquire(p)
  BY <1>8 DEF Acquire
<1>9. CASE LockTimeout(p)
  BY <1>9 DEF LockTimeout
<1>10. CASE Enter(p)
  BY <1>10 DEF Enter
<1>11. CASE Recover(p)
  BY <1>11, RecoverEntry, RecoverTables DEF Recover
<1>12. CASE RecoverEvent(p)
  BY <1>12 DEF RecoverEvent, Emit, Record, StaleRecovery
<1>13. CASE Reread(p)
  BY <1>13 DEF Reread
<1>14. CASE Rehydrate(p)
  BY <1>14 DEF Rehydrate
<1>15. CASE RehydrateRefused(p)
  BY <1>15 DEF RehydrateRefused
<1>16. CASE Begin(p)
  BY <1>16 DEF Begin
<1>17. CASE BeginRefused(p)
  BY <1>17 DEF BeginRefused
<1>18. CASE BeginEvent(p)
  BY <1>18 DEF BeginEvent, Emit, Record, Transition
<1>19. CASE Work(p)
  BY <1>19 DEF Work, Effects
<1>20. CASE WorkRefused(p)
  BY <1>20 DEF WorkRefused
<1>21. CASE Park(p)
  BY <1>21 DEF Park
<1>22. CASE Finish(p)
  BY <1>22 DEF Finish
<1>23. CASE FinishRefused(p)
  BY <1>23 DEF FinishRefused
<1>24. CASE FinishEvent(p)
  BY <1>24 DEF FinishEvent, Emit, Record, Transition
<1>25. CASE Fail(p)
  BY <1>25 DEF Fail
<1>26. CASE FailSwallowed(p)
  BY <1>26 DEF FailSwallowed
<1>27. CASE FailEvent(p)
  BY <1>27 DEF FailEvent, Emit, Record, Transition
<1>28. CASE Approve(p)
  BY <1>28 DEF Approve
<1>29. CASE ApproveRefused(p)
  BY <1>29 DEF ApproveRefused
<1>30. CASE ApproveEvent(p)
  BY <1>30 DEF ApproveEvent, Emit, Record, Transition
<1>31. CASE WorkFails(p)
  BY <1>31 DEF WorkFails, Effects
<1>32. CASE EmitFails(p)
  BY <1>32 DEF EmitFails
<1>33. CASE Crash(p)
  BY <1>33 DEF Crash
<1> QED
  BY <1>1, <1>2, <1>3, <1>4, <1>5, <1>6, <1>7, <1>8, <1>9, <1>10, <1>11, <1>12, <1>13,
     <1>14, <1>15, <1>16, <1>17, <1>18, <1>19, <1>20, <1>21, <1>22, <1>23, <1>24, <1>25,
     <1>26, <1>27, <1>28, <1>29, <1>30, <1>31, <1>32, <1>33 DEF Step, FaultStep

\* The gate opens only on signed findings, unless a rerun was not journaled.
LEMMA GatedStep ==
  ASSUME IndInv, NEW p \in Procs, InStep(p), Gated(p), Step(p) \/ FaultStep(p)
  PROVE  Gated(p)'
<1> USE SignedTables DEF IndInv, TypeOK, JobKnown, StageLabels, InStep, Gated, EventLabels,
   Goto, At, Leave, dataVars, Fault
<1>1. CASE Resume(p)
  BY <1>1 DEF Resume
<1>2. CASE NothingToResume(p)
  BY <1>2 DEF NothingToResume
<1>3. CASE ResetNotNeeded(p)
  BY <1>3 DEF ResetNotNeeded
<1>4. CASE ResetNeeded(p)
  BY <1>4 DEF ResetNeeded, ResetAllowed, QAVerified
<1>5. CASE ResetRefused(p)
  BY <1>5 DEF ResetRefused
<1>6. CASE ForceState(p)
  BY <1>6 DEF ForceState
<1>7. CASE RerunEvent(p)
  BY <1>7 DEF RerunEvent, Emit, Record, ApprovalAfter, Rerun
<1>8. CASE Acquire(p)
  BY <1>8 DEF Acquire
<1>9. CASE LockTimeout(p)
  BY <1>9 DEF LockTimeout
<1>10. CASE Enter(p)
  BY <1>10 DEF Enter
<1>11. CASE Recover(p)
  BY <1>11, RecoverEntry, RecoverTables DEF Recover
<1>12. CASE RecoverEvent(p)
  BY <1>12 DEF RecoverEvent, Emit, Record, ApprovalAfter, StaleRecovery
<1>13. CASE Reread(p)
  BY <1>13 DEF Reread
<1>14. CASE Rehydrate(p)
  BY <1>14 DEF Rehydrate
<1>15. CASE RehydrateRefused(p)
  BY <1>15 DEF RehydrateRefused
<1>16. CASE Begin(p)
  BY <1>16 DEF Begin, BeginAllowed
<1>17. CASE BeginRefused(p)
  BY <1>17 DEF BeginRefused
<1>18. CASE BeginEvent(p)
  BY <1>18 DEF BeginEvent, Emit, Record, ApprovalAfter, Transition
<1>19. CASE Work(p)
  BY <1>19 DEF Work, Effects
<1>20. CASE WorkRefused(p)
  BY <1>20 DEF WorkRefused
<1>21. CASE Park(p)
  BY <1>21 DEF Park
<1>22. CASE Finish(p)
  <2>1. /\ job[p].stage \in Stages /\ dbState = RunningState[job[p].stage]
        /\ dbState' = CompletedState[job[p].stage] /\ pc' = [pc EXCEPT ![p] = "finish_event"]
        /\ signed' = (signed \/ job[p].stage = "QA_REVIEW") /\ UNCHANGED <<journal, faults>>
    BY <1>22 DEF Finish
  <2>2. dbState' \in Reviewed => dbState \in Reviewed \/ job[p].stage = "QA_REVIEW"
    BY <2>1
  <2>3. dbState' \in Unsigned => dbState \in Unsigned
    BY <2>1
  <2>4. pc[p] = "finish" /\ pc'[p] = "finish_event"
    BY <1>22, <2>1 DEF Finish
  <2> QED
    BY <2>1, <2>2, <2>3, <2>4
<1>23. CASE FinishRefused(p)
  BY <1>23 DEF FinishRefused
<1>24. CASE FinishEvent(p)
  BY <1>24 DEF FinishEvent, Emit, Record, ApprovalAfter, Transition
<1>25. CASE Fail(p)
  BY <1>25 DEF Fail
<1>26. CASE FailSwallowed(p)
  BY <1>26 DEF FailSwallowed
<1>27. CASE FailEvent(p)
  BY <1>27 DEF FailEvent, Emit, Record, ApprovalAfter, Transition
<1>28. CASE Approve(p)
  BY <1>28 DEF Approve
<1>29. CASE ApproveRefused(p)
  BY <1>29 DEF ApproveRefused
<1>30. CASE ApproveEvent(p)
  BY <1>30 DEF ApproveEvent, Emit, Record, ApprovalAfter, Transition
<1>31. CASE WorkFails(p)
  BY <1>31 DEF WorkFails, Effects
<1>32. CASE EmitFails(p)
  BY <1>32 DEF EmitFails
<1>33. CASE Crash(p)
  BY <1>33 DEF Crash
<1> QED
  BY <1>1, <1>2, <1>3, <1>4, <1>5, <1>6, <1>7, <1>8, <1>9, <1>10, <1>11, <1>12, <1>13,
     <1>14, <1>15, <1>16, <1>17, <1>18, <1>19, <1>20, <1>21, <1>22, <1>23, <1>24, <1>25,
     <1>26, <1>27, <1>28, <1>29, <1>30, <1>31, <1>32, <1>33 DEF Step, FaultStep

\* Every stage that starts has the inputs that it needs.
LEMMA SuppliedStep ==
  ASSUME IndInv, NEW p \in Procs, InStep(p), Gated(p), Supplied(p), Step(p) \/ FaultStep(p)
  PROVE  Supplied(p)'
<1> USE InputTables DEF IndInv, TypeOK, JobKnown, StageLabels, InStep, Supplied,
   EventLabels, Goto, At, Leave, dataVars, Fault, Jobs
<1>1. CASE Resume(p)
  BY <1>1 DEF Resume
<1>2. CASE NothingToResume(p)
  BY <1>2 DEF NothingToResume
<1>3. CASE ResetNotNeeded(p)
  BY <1>3 DEF ResetNotNeeded
<1>4. CASE ResetNeeded(p)
  BY <1>4 DEF ResetNeeded
<1>5. CASE ResetRefused(p)
  BY <1>5 DEF ResetRefused
<1>6. CASE ForceState(p)
  BY <1>6 DEF ForceState
<1>7. CASE RerunEvent(p)
  BY <1>7 DEF RerunEvent
<1>8. CASE Acquire(p)
  BY <1>8 DEF Acquire
<1>9. CASE LockTimeout(p)
  BY <1>9 DEF LockTimeout
<1>10. CASE Enter(p)
  BY <1>10 DEF Enter
<1>11. CASE Recover(p)
  <2>1. /\ job[p].start = "RENDER" /\ dbState \in StaleStates
        /\ pc' = [pc EXCEPT ![p] = "recover_event"]
        /\ dbState' = EntryState[OwningStage(dbState)]
        /\ job' = [job EXCEPT ![p].stage = OwningStage(dbState)]
    BY <1>11 DEF Recover
  <2>2. OwningStage(dbState) = "RENDER" \/ dbState' \in Unsigned
    BY <2>1, RecoverEntry, RecoverTables, SignedTables
  <2> QED
    BY <2>1, <2>2
<1>12. CASE RecoverEvent(p)
  BY <1>12 DEF RecoverEvent
<1>13. CASE Reread(p)
  BY <1>13 DEF Reread
<1>14. CASE Rehydrate(p)
  BY <1>14 DEF Rehydrate, Gated, CanRehydrate, QAVerified
<1>15. CASE RehydrateRefused(p)
  BY <1>15 DEF RehydrateRefused
<1>16. CASE Begin(p)
  BY <1>16 DEF Begin
<1>17. CASE BeginRefused(p)
  BY <1>17 DEF BeginRefused
<1>18. CASE BeginEvent(p)
  BY <1>18 DEF BeginEvent
<1>19. CASE Work(p)
  BY <1>19 DEF Work
<1>20. CASE WorkRefused(p)
  BY <1>20 DEF WorkRefused
<1>21. CASE Park(p)
  BY <1>21 DEF Park
<1>22. CASE Finish(p)
  BY <1>22 DEF Finish
<1>23. CASE FinishRefused(p)
  BY <1>23 DEF FinishRefused
<1>24. CASE FinishEvent(p)
  BY <1>24 DEF FinishEvent
<1>25. CASE Fail(p)
  BY <1>25 DEF Fail
<1>26. CASE FailSwallowed(p)
  BY <1>26 DEF FailSwallowed
<1>27. CASE FailEvent(p)
  BY <1>27 DEF FailEvent
<1>28. CASE Approve(p)
  BY <1>28 DEF Approve
<1>29. CASE ApproveRefused(p)
  BY <1>29 DEF ApproveRefused
<1>30. CASE ApproveEvent(p)
  BY <1>30 DEF ApproveEvent
<1>31. CASE WorkFails(p)
  BY <1>31 DEF WorkFails
<1>32. CASE EmitFails(p)
  BY <1>32 DEF EmitFails
<1>33. CASE Crash(p)
  BY <1>33 DEF Crash
<1> QED
  BY <1>1, <1>2, <1>3, <1>4, <1>5, <1>6, <1>7, <1>8, <1>9, <1>10, <1>11, <1>12, <1>13,
     <1>14, <1>15, <1>16, <1>17, <1>18, <1>19, <1>20, <1>21, <1>22, <1>23, <1>24, <1>25,
     <1>26, <1>27, <1>28, <1>29, <1>30, <1>31, <1>32, <1>33 DEF Step, FaultStep

\* The freshly created engagement.
LEMMA SeqInit == Init => SeqInv
<1> SUFFICES ASSUME Init PROVE SeqInv
  OBVIOUS
<1>1. \A p \in Procs : pc[p] = "idle" /\ job[p].cmd = "none"
  BY DEF Init, NoJob
<1>2. \A p \in Procs : InStep(p) /\ Supplied(p)
  BY <1>1 DEF InStep, Supplied
<1>3. \A p \in Procs : Told(p) /\ Gated(p)
  BY <1>1 DEF Init, Told, Gated, EmptyJournal, Reviewed
<1> QED
  BY <1>2, <1>3, InitInv DEF SeqInv

\* A command that is issued.
LEMMA SeqStart ==
  ASSUME SeqInv, NEW p \in Procs, NEW cmd \in Commands, Start(p, cmd)
  PROVE  (InStep(p) /\ Told(p) /\ Gated(p) /\ Supplied(p))'
<1>1. /\ job'[p].cmd = cmd /\ job'[p].start = StartStage(cmd)
      /\ pc[p] = "idle" /\ pc'[p] = FirstLabel(cmd)
      /\ UNCHANGED <<dbState, journal, signed, failedAt, faults>>
  BY DEF Start, SeqInv, IndInv, TypeOK, At, Goto, NoJob, dataVars
<1>2. /\ cmd = "report" => StartStage(cmd) = "RENDER"
      /\ FirstLabel(cmd) \in {"resume", "reset", "acquire"}
      /\ FirstLabel(cmd) = "resume" => cmd = "run"
      /\ FirstLabel(cmd) = "acquire" => cmd \in {"report", "approve"}
  BY DEF StartStage, FirstLabel, ForceCommands
<1>3. InStep(p) /\ Told(p) /\ Gated(p) /\ Supplied(p)
  BY DEF SeqInv
<1> QED
  BY <1>1, <1>2, <1>3 DEF InStep, Told, Gated, Supplied, EventLabels

\* Every step keeps the invariant of one invocation at a time.
LEMMA SeqNext == ASSUME Alone PROVE SeqInv /\ [Next]_vars => SeqInv'
<1> SUFFICES ASSUME SeqInv, [Next]_vars PROVE SeqInv'
  OBVIOUS
<1>1. IndInv'
  BY NextInv DEF SeqInv
<1>2. CASE UNCHANGED vars
  BY <1>1, <1>2 DEF vars, SeqInv, InStep, Told, Gated, Supplied
<1>3. ASSUME NEW p \in Procs, (InStep(p) /\ Told(p) /\ Gated(p) /\ Supplied(p))'
      PROVE  SeqInv'
  BY <1>1, <1>3 DEF Alone, SeqInv
<1>4. ASSUME NEW p \in Procs, NEW cmd \in Commands, Start(p, cmd)
      PROVE  SeqInv'
  BY <1>3, <1>4, SeqStart
<1>5. ASSUME NEW p \in Procs, Step(p) \/ FaultStep(p)
      PROVE  SeqInv'
  BY <1>3, <1>5, InStepStep, ToldStep, GatedStep, SuppliedStep DEF SeqInv
<1> QED
  BY <1>2, <1>4, <1>5 DEF Next

\* With one invocation at a time the state column is what the last event says,
\* whatever is killed, as long as no event was lost (_transition_state,
\* _recover_stale_state, reset_for_rerun: state first, event second).
THEOREM StateIsJournaled == ASSUME Alone PROVE Spec => []JournalProjects
<1>1. SeqInv => JournalProjects
  <2> SUFFICES ASSUME SeqInv, JournalWhole PROVE journal.lastTo = dbState
    BY DEF JournalProjects
  <2> QED
    BY DEF Alone, SeqInv, Told, JournalWhole
<1> QED
  BY <1>1, SeqInit, SeqNext, PTL DEF Spec

\* While a stage of the only invocation executes, the engagement is in the
\* running state of that stage. The finding of MCUnlockedReset is thus a matter
\* of concurrent invocations only.
THEOREM StageOwnsStateAlone == ASSUME Alone PROVE Spec => []StageOwnsState
<1>1. SeqInv => StageOwnsState
  BY DEF SeqInv, InStep, StageOwnsState
<1> QED
  BY <1>1, SeqInit, SeqNext, PTL DEF Spec

\* With one invocation at a time every report holds findings that QA signed,
\* through any kills, failures, reruns and approvals, unless the event of a
\* reset was lost (_verify_qa_for_render).
THEOREM ReportsAreSigned == ASSUME Alone PROVE Spec => []RenderOnlySigned
<1>1. SeqInv => RenderOnlySigned
  <2> SUFFICES ASSUME SeqInv, "rerun_event" \notin faults.torn, NEW p \in Procs,
                      pc[p] = "finish", job[p].stage = "RENDER"
               PROVE  signed
    BY DEF RenderOnlySigned
  <2>1. dbState = "RENDERING"
    BY DEF SeqInv, InStep, RunningState
  <2> QED
    BY <2>1 DEF SeqInv, Gated, Reviewed
<1> QED
  BY <1>1, SeqInit, SeqNext, PTL DEF Spec

\* With one invocation at a time no stage is ever dispatched without the inputs
\* it works on, whatever a run resumes or recovers from (_require_in_memory).
THEOREM InputsAreThere == ASSUME Alone PROVE Spec => []InputsPresent
<1>1. SeqInv => InputsPresent
  BY DEF SeqInv, Supplied, InputsPresent
<1> QED
  BY <1>1, SeqInit, SeqNext, PTL DEF Spec

---------------------------------------------------------------------------
(* The life the journal tells *)

\* The move that an invocation is about to journal, or to make, is one the life
\* cycle allows; and nothing is rendered that the journal does not show approved.
Lawful(p) ==
  faults.torn = {} =>
    /\ journal.lastTo \in Reviewed => QAVerified(journal)
    /\ pc[p] \in {"force", "rerun_event"} =>
         /\ job[p].cur = journal.lastTo
         /\ job[p].cur # EntryState[job[p].start]
         /\ job[p].start = "RENDER" => QAVerified(journal)
    /\ pc[p] = "recover_event" =>
         /\ journal.lastTo = job[p].cur /\ job[p].cur \in StaleStates
         /\ job[p].stage = OwningStage(job[p].cur)
    /\ pc[p] \in {"rehydrate", "begin", "begin_event"} => job[p].cur = journal.lastTo
    /\ pc[p] \in {"reread", "rehydrate"} =>
         \/ dbState = EntryState[job[p].stage]
         \/ job[p].stage = "RENDER" /\ job[p].start = "RENDER"
    /\ pc[p] = "begin" =>
         \/ dbState = EntryState[job[p].stage]
         \/ job[p].stage = "RENDER" /\ QAVerified(journal)
    /\ pc[p] = "begin_event" => journal.lastTo = EntryState[job[p].stage]
    /\ pc[p] = "finish_event" => journal.lastTo = RunningState[job[p].stage]
    /\ pc[p] \in {"fail", "fail_event"} =>
         \/ journal.lastTo = RunningState[job[p].stage]
         \/ job[p].stage = "RENDER" /\ QAVerified(journal)
    /\ pc[p] = "fail_event" => journal.lastTo \notin Terminal
    /\ pc[p] = "approve_event" => journal.lastTo = "QA_REVIEW"

\* The inductive invariant behind the refinement of AuditTrail.
TrailInv == SeqInv /\ \A p \in Procs : Lawful(p)

\* From where a stage begins, and from where a human approves.
LEMMA LawTables ==
  /\ \A s \in Stages : EntryState[s] # RunningState[s] /\ EntryState[s] \notin StaleStates
  /\ \A st \in States : CanTransition(st, "QA_APPROVED") => st = "QA_REVIEW"
  /\ \A s \in Stages : RunningState[s] \notin Terminal
  /\ \A s \in Stages : CanTransition(EntryState[s], RunningState[s])
  /\ \A s \in Stages : s # "RENDER" =>
       NextStage[s] \in Stages /\ EntryState[NextStage[s]] = CompletedState[s]
BY DEF Stages, EntryState, RunningState, StaleStates, RunningStates, States,
   NextStage, CompletedState, CompletedStates, CanTransition, Terminal, Successor

\* Every step leaves the next move lawful.
LEMMA LawfulStep ==
  ASSUME IndInv, NEW p \in Procs, InStep(p), Told(p), Lawful(p), Step(p) \/ FaultStep(p)
  PROVE  Lawful(p)'
<1> USE SignedTables, LawTables DEF IndInv, TypeOK, JobKnown, StageLabels, InStep, Told,
   Lawful, EventLabels, Goto, At, Leave, dataVars, Fault
<1>1. CASE Resume(p)
  BY <1>1 DEF Resume
<1>2. CASE NothingToResume(p)
  BY <1>2 DEF NothingToResume
<1>3. CASE ResetNotNeeded(p)
  BY <1>3 DEF ResetNotNeeded
<1>4. CASE ResetNeeded(p)
  BY <1>4 DEF ResetNeeded, ResetAllowed
<1>5. CASE ResetRefused(p)
  BY <1>5 DEF ResetRefused
<1>6. CASE ForceState(p)
  BY <1>6 DEF ForceState
<1>7. CASE RerunEvent(p)
  BY <1>7 DEF RerunEvent, Emit, Record, ApprovalAfter, QAVerified, Rerun
<1>8. CASE Acquire(p)
  BY <1>8 DEF Acquire
<1>9. CASE LockTimeout(p)
  BY <1>9 DEF LockTimeout
<1>10. CASE Enter(p)
  BY <1>10 DEF Enter
<1>11. CASE Recover(p)
  BY <1>11, RecoverEntry DEF Recover
<1>12. CASE RecoverEvent(p)
  BY <1>12, RecoverEntry DEF RecoverEvent, Emit, Record, ApprovalAfter, QAVerified,
     StaleRecovery
<1>13. CASE Reread(p)
  BY <1>13 DEF Reread
<1>14. CASE Rehydrate(p)
  BY <1>14 DEF Rehydrate, CanRehydrate
<1>15. CASE RehydrateRefused(p)
  BY <1>15 DEF RehydrateRefused
<1>16. CASE Begin(p)
  BY <1>16 DEF Begin, BeginAllowed
<1>17. CASE BeginRefused(p)
  BY <1>17 DEF BeginRefused, BeginAllowed
<1>18. CASE BeginEvent(p)
  BY <1>18 DEF BeginEvent, Emit, Record, ApprovalAfter, QAVerified, Transition
<1>19. CASE Work(p)
  BY <1>19 DEF Work, Effects
<1>20. CASE WorkRefused(p)
  BY <1>20 DEF WorkRefused
<1>21. CASE Park(p)
  BY <1>21 DEF Park
<1>22. CASE Finish(p)
  BY <1>22 DEF Finish
<1>23. CASE FinishRefused(p)
  BY <1>23 DEF FinishRefused
<1>24. CASE FinishEvent(p)
  <2> DEFINE stage == job[p].stage
  <2>1. /\ stage \in Stages /\ pc[p] = "finish_event" /\ dbState = CompletedState[stage]
        /\ journal' = Record(journal, Transition(RunningState[stage], CompletedState[stage]))
        /\ UNCHANGED <<dbState, faults>>
    BY <1>24 DEF FinishEvent, Emit
  <2>2. journal'.lastTo = dbState' /\ (journal.approval = "fresh" => journal'.approval = "fresh")
    BY <2>1 DEF Record, ApprovalAfter, Transition
  <2>3. faults.torn = {} /\ journal'.lastTo \in Reviewed => QAVerified(journal')
    <3>1. CASE stage = "RENDER"
      BY <2>1, <2>2, <3>1 DEF QAVerified
    <3>2. CASE stage = "QA_REVIEW"
      BY <2>1, <3>2 DEF QAVerified, Record, ApprovalAfter, Transition
    <3> QED
      BY <2>1, <2>2, <3>1, <3>2
  <2>4. CASE stage \in {job[p].stop, "RENDER"}
    <3>1. pc'[p] = "idle"
      BY <1>24, <2>4 DEF FinishEvent
    <3> QED
      BY <2>1, <2>3, <3>1
  <2>5. CASE stage \notin {job[p].stop, "RENDER"}
    <3>1. /\ pc'[p] = "begin" /\ job'[p].cur = CompletedState[stage]
          /\ job'[p].stage = NextStage[stage]
      BY <1>24, <2>1, <2>5 DEF FinishEvent, Jobs
    <3>2. stage # "RENDER" /\ dbState' = EntryState[job'[p].stage]
      BY <2>1, <2>5, <3>1
    <3>3. job'[p].cur = journal'.lastTo
      BY <2>1, <2>2, <3>1
    <3> HIDE DEF stage
    <3> QED
      BY <2>1, <2>3, <3>1, <3>2, <3>3
  <2> QED
    BY <2>4, <2>5
<1>25. CASE Fail(p)
  BY <1>25 DEF Fail, CanTransition
<1>26. CASE FailSwallowed(p)
  BY <1>26 DEF FailSwallowed
<1>27. CASE FailEvent(p)
  BY <1>27 DEF FailEvent, Emit, Record, ApprovalAfter, QAVerified, Transition
<1>28. CASE Approve(p)
  BY <1>28 DEF Approve, CanTransition
<1>29. CASE ApproveRefused(p)
  BY <1>29 DEF ApproveRefused
<1>30. CASE ApproveEvent(p)
  BY <1>30 DEF ApproveEvent, Emit, Record, ApprovalAfter, QAVerified, Transition
<1>31. CASE WorkFails(p)
  BY <1>31 DEF WorkFails, Effects
<1>32. CASE EmitFails(p)
  BY <1>32 DEF EmitFails
<1>33. CASE Crash(p)
  BY <1>33 DEF Crash
<1> QED
  BY <1>1, <1>2, <1>3, <1>4, <1>5, <1>6, <1>7, <1>8, <1>9, <1>10, <1>11, <1>12, <1>13,
     <1>14, <1>15, <1>16, <1>17, <1>18, <1>19, <1>20, <1>21, <1>22, <1>23, <1>24, <1>25,
     <1>26, <1>27, <1>28, <1>29, <1>30, <1>31, <1>32, <1>33 DEF Step, FaultStep

\* The invariant of the refinement.
LEMMA LawInit == Init => TrailInv
<1> SUFFICES ASSUME Init PROVE TrailInv
  OBVIOUS
<1>1. \A p \in Procs : pc[p] = "idle"
  BY DEF Init
<1> QED
  BY <1>1, SeqInit DEF TrailInv, Lawful, Init, EmptyJournal, Reviewed

LEMMA LawNext == ASSUME Alone PROVE TrailInv /\ [Next]_vars => TrailInv'
<1> SUFFICES ASSUME TrailInv, [Next]_vars PROVE TrailInv'
  OBVIOUS
<1>1. SeqInv'
  BY SeqNext DEF TrailInv
<1>2. CASE UNCHANGED vars
  BY <1>1, <1>2 DEF vars, TrailInv, Lawful
<1>3. ASSUME NEW p \in Procs, Lawful(p)' PROVE TrailInv'
  BY <1>1, <1>3 DEF Alone, TrailInv
<1>4. ASSUME NEW p \in Procs, NEW cmd \in Commands, Start(p, cmd) PROVE TrailInv'
  <2>1. pc'[p] \in {"resume", "reset", "acquire"} /\ UNCHANGED <<journal, faults>>
    BY <1>4 DEF Start, TrailInv, SeqInv, IndInv, TypeOK, Goto, FirstLabel, dataVars
  <2>2. Lawful(p)
    BY DEF TrailInv
  <2> QED
    BY <1>3, <2>1, <2>2 DEF Lawful
<1>5. ASSUME NEW p \in Procs, Step(p) \/ FaultStep(p) PROVE TrailInv'
  BY <1>3, <1>5, LawfulStep DEF TrailInv, SeqInv
<1> QED
  BY <1>2, <1>4, <1>5 DEF Next

\* Where no event was lost, the state that AuditTrail speaks of is the one the
\* last event names.
TrailState == IF \E p \in Procs : pc[p] \in EventLabels THEN journal.lastTo ELSE dbState

LEMMA TrailNamed ==
  ASSUME Alone
  PROVE  /\ SeqInv /\ faults.torn = {} => TrailState = journal.lastTo
         /\ SeqInv' /\ faults'.torn = {} => TrailState' = journal'.lastTo
BY DEF Alone, SeqInv, Told, TrailState

\* A step that journals nothing changes nothing the journal tells of.
LEMMA QuietSteps ==
  ASSUME NEW p \in Procs, Step(p) \/ FaultStep(p)
  PROVE  \/ UNCHANGED journal
         \/ RerunEvent(p) \/ RecoverEvent(p) \/ BeginEvent(p) \/ FinishEvent(p)
         \/ FailEvent(p) \/ ApproveEvent(p)
BY DEF Step, FaultStep, Resume, NothingToResume, ResetNotNeeded, ResetNeeded, ResetRefused,
   ForceState, Acquire, LockTimeout, Enter, Recover, Reread, Rehydrate, RehydrateRefused,
   Begin, BeginRefused, Work, WorkRefused, Park, Finish, FinishRefused, Fail,
   FailSwallowed, Approve, ApproveRefused, WorkFails, EmitFails, Crash, dataVars

\* Each stage takes its entry state to its running state, and that one to its
\* completed state.
LEMMA StageSteps ==
  /\ \A s \in Stages : /\ {EntryState[s], RunningState[s]} \cap Terminal = {}
                       /\ Successor[EntryState[s]] = RunningState[s]
                       /\ Successor[RunningState[s]] = CompletedState[s]
                       /\ CompletedState[s] # "RENDERING"
                       /\ RunningState[s] = "RENDERING" => EntryState[s] \in Reviewed
  /\ "QA_REVIEW" \notin Terminal /\ Successor["QA_REVIEW"] = "QA_APPROVED"
BY DEF Stages, EntryState, RunningState, CompletedState, Terminal, Successor, Reviewed

\* A lost event stays lost.
LEMMA TornGrows ==
  ASSUME NEW p \in Procs, Step(p) \/ FaultStep(p), faults'.torn = {}
  PROVE  faults.torn = {}
BY DEF Step, FaultStep, Resume, NothingToResume, ResetNotNeeded, ResetNeeded, ResetRefused,
   ForceState, Acquire, LockTimeout, Enter, Recover, Reread, Rehydrate, RehydrateRefused,
   Begin, BeginRefused, Work, WorkRefused, Park, Finish, FinishRefused, Fail,
   FailSwallowed, Approve, ApproveRefused, WorkFails, EmitFails, Crash, RerunEvent,
   RecoverEvent, BeginEvent, FinishEvent, FailEvent, ApproveEvent, Fault, dataVars

\* AuditTrail speaks of the same states, stages and events.
LEMMA TrailWords ==
  /\ Trail!Stages = Stages /\ Trail!RunningState = RunningState /\ Trail!EntryState = EntryState
  /\ Trail!Successor = Successor /\ Trail!Terminal = Terminal /\ Trail!StaleStates = StaleStates
  /\ Trail!EmptyJournal = EmptyJournal
  /\ \A st : Trail!OwningStage(st) = OwningStage(st)
  /\ \A j : Trail!QAVerified(j) = QAVerified(j)
  /\ \A from, to : /\ Trail!Transition(from, to) = Transition(from, to)
                   /\ Trail!StaleRecovery(from, to) = StaleRecovery(from, to)
                   /\ Trail!Rerun(from, to) = Rerun(from, to)
  /\ \A j, e : Trail!Record(j, e) = Record(j, e)
<1>1. /\ Trail!Stages = Stages /\ Trail!RunningState = RunningState
      /\ Trail!EntryState = EntryState /\ Trail!Successor = Successor
      /\ Trail!Terminal = Terminal /\ Trail!RunningStates = RunningStates
      /\ Trail!QAUpstream = QAUpstream /\ Trail!Witnesses = Witnesses
      /\ Trail!NoState = NoState
  BY DEF Trail!Stages, Stages, Trail!RunningState, RunningState, Trail!EntryState, EntryState,
     Trail!Successor, Successor, Trail!Terminal, Terminal, Trail!RunningStates, RunningStates,
     Trail!QAUpstream, QAUpstream, Trail!Witnesses, Witnesses, Trail!NoState, NoState
<1>2. \A st : Trail!OwningStage(st) = OwningStage(st)
  BY <1>1, Zenon DEF Trail!OwningStage, OwningStage
<1>3. \A j, e : /\ Trail!ReachedAfter(j, e) = ReachedAfter(j, e)
                /\ Trail!ApprovalAfter(j, e) = ApprovalAfter(j, e)
                /\ Trail!FailedFromAfter(j, e) = FailedFromAfter(j, e)
  BY <1>1 DEF Trail!ReachedAfter, ReachedAfter, Trail!ApprovalAfter, ApprovalAfter,
     Trail!FailedFromAfter, FailedFromAfter
<1>4. \A j, e : Trail!Record(j, e) = Record(j, e)
  BY <1>3 DEF Trail!Record, Record
<1>5. \A from, to : /\ Trail!Transition(from, to) = Transition(from, to)
                    /\ Trail!StaleRecovery(from, to) = StaleRecovery(from, to)
                    /\ Trail!Rerun(from, to) = Rerun(from, to)
  BY <1>1 DEF Trail!Transition, Transition, Trail!StaleRecovery, StaleRecovery,
     Trail!Rerun, Rerun
<1>6. Trail!StaleStates = StaleStates /\ Trail!EmptyJournal = EmptyJournal
  BY <1>1 DEF Trail!StaleStates, StaleStates, Trail!EmptyJournal, EmptyJournal
<1>7. \A j : Trail!QAVerified(j) = QAVerified(j)
  BY DEF Trail!QAVerified, QAVerified
<1> QED
  BY <1>1, <1>2, <1>4, <1>5, <1>6, <1>7

\* Every event that is appended makes a move of AuditTrail.
LEMMA EventMoves ==
  ASSUME Alone, TrailInv, TrailInv', NEW p \in Procs, faults.torn = {}, faults'.torn = {},
         RerunEvent(p) \/ RecoverEvent(p) \/ BeginEvent(p) \/ FinishEvent(p)
           \/ FailEvent(p) \/ ApproveEvent(p)
  PROVE  Trail!Move
<1>1. TrailState = journal.lastTo /\ TrailState' = journal'.lastTo
  BY TrailNamed DEF TrailInv
<1>2. InStep(p) /\ Lawful(p) /\ IndInv
  BY DEF TrailInv, SeqInv
<1>3. /\ \A from, stage : Record(journal, Rerun(from, stage)).lastTo = EntryState[stage]
      /\ \A from, to : /\ Record(journal, Transition(from, to)).lastTo = to
                       /\ Record(journal, StaleRecovery(from, to)).lastTo = to
      /\ \A from, to : /\ Transition(from, to).to = to /\ StaleRecovery(from, to).to = to
                       /\ Rerun(from, to).to = EntryState[to]
  BY DEF Record, Rerun, Transition, StaleRecovery
<1>4. CASE RerunEvent(p)
  <2>1. journal' = Record(journal, Rerun(journal.lastTo, job[p].start)) /\ job[p].start \in Stages
    BY <1>2, <1>4 DEF RerunEvent, Emit, At, Lawful, IndInv, JobKnown
  <2>2. /\ journal.lastTo # EntryState[job[p].start]
        /\ job[p].start = "RENDER" => QAVerified(journal)
    BY <1>2, <1>4 DEF RerunEvent, At, Lawful
  <2>3. Trail!StartOver(job[p].start)
    BY <1>1, <1>3, <2>1, <2>2, TrailWords DEF Trail!StartOver, Trail!Journaled, TrailState
  <2> QED
    BY <2>1, <2>3, TrailWords DEF Trail!Move
<1>5. CASE RecoverEvent(p)
  <2>1. /\ journal.lastTo \in StaleStates
        /\ journal' = Record(journal, StaleRecovery(journal.lastTo,
                                        EntryState[OwningStage(journal.lastTo)]))
    BY <1>2, <1>5 DEF RecoverEvent, Emit, At, Lawful
  <2>2. Trail!RecoverStale
    BY <1>1, <1>3, <2>1, TrailWords DEF Trail!RecoverStale, Trail!Journaled, TrailState
  <2> QED
    BY <2>2 DEF Trail!Move
<1>6. ASSUME journal.lastTo \notin Terminal,
             Successor[journal.lastTo] = "RENDERING" => QAVerified(journal),
             journal' = Record(journal, Transition(journal.lastTo, Successor[journal.lastTo]))
      PROVE  Trail!Move
  <2>1. Trail!Advance
    BY <1>1, <1>3, <1>6, TrailWords DEF Trail!Advance, Trail!Journaled, TrailState
  <2> QED
    BY <2>1 DEF Trail!Move
<1>7. CASE BeginEvent(p)
  BY <1>2, <1>6, <1>7, StageSteps, SignedTables DEF BeginEvent, Emit, At, Lawful, IndInv,
     JobKnown, StageLabels
<1>8. CASE FinishEvent(p)
  BY <1>2, <1>6, <1>8, StageSteps DEF FinishEvent, Emit, At, Lawful, IndInv, JobKnown,
     StageLabels
<1>9. CASE ApproveEvent(p)
  BY <1>2, <1>6, <1>9, StageSteps DEF ApproveEvent, Emit, At, Lawful
<1>10. CASE FailEvent(p)
  <2>1. /\ job[p].stage \in Stages /\ journal.lastTo \notin Terminal
        /\ \/ journal.lastTo = RunningState[job[p].stage]
           \/ job[p].stage = "RENDER" /\ QAVerified(journal)
        /\ journal' = Record(journal, Transition(RunningState[job[p].stage], "FAILED"))
    BY <1>2, <1>10 DEF FailEvent, Emit, At, Lawful, IndInv, JobKnown, StageLabels
  <2>2. Trail!Abandon(job[p].stage)
    BY <1>1, <1>3, <2>1, TrailWords DEF Trail!Abandon, Trail!Journaled, TrailState
  <2> QED
    BY <2>1, <2>2, TrailWords DEF Trail!Move
<1> QED
  BY <1>4, <1>5, <1>7, <1>8, <1>9, <1>10

\* One invocation at a time starts as AuditTrail does.
LEMMA TrailBegins == Init => Trail!TrailInit
BY TrailWords DEF Init, Trail!TrailInit, EventLabels

\* Each of its steps journals a move, or nothing, or loses an event.
LEMMA TrailMoves ==
  ASSUME Alone
  PROVE  TrailInv /\ [Next]_vars => [Trail!TrailNext]_(Trail!trailVars)
<1> SUFFICES ASSUME TrailInv, [Next]_vars
             PROVE  Trail!TrailNext \/ UNCHANGED Trail!trailVars
  OBVIOUS
<1>1. TrailInv'
  BY LawNext
<1>2. CASE UNCHANGED vars
  BY <1>2 DEF vars, Trail!trailVars
<1>3. CASE faults'.torn # {}
  BY <1>3 DEF Trail!TrailNext
<1>4. ASSUME faults'.torn = {}, faults.torn = {}, UNCHANGED journal
      PROVE  UNCHANGED Trail!trailVars
  <2>1. TrailState' = TrailState
    BY <1>1, <1>4, TrailNamed DEF TrailInv
  <2> QED
    BY <1>4, <2>1 DEF Trail!trailVars, TrailState
<1>5. ASSUME NEW p \in Procs, NEW cmd \in Commands, Start(p, cmd), faults'.torn = {}
      PROVE  UNCHANGED Trail!trailVars
  BY <1>4, <1>5 DEF Start, dataVars
<1>6. ASSUME NEW p \in Procs, Step(p) \/ FaultStep(p), faults'.torn = {}
      PROVE  Trail!TrailNext \/ UNCHANGED Trail!trailVars
  <2>1. faults.torn = {}
    BY <1>6, TornGrows
  <2> QED
    BY <1>1, <1>4, <1>6, <2>1, QuietSteps, EventMoves DEF Trail!TrailNext
<1> QED
  BY <1>2, <1>3, <1>5, <1>6 DEF Next

\* With one invocation at a time the program refines AuditTrail: whatever is
\* issued, resumed, failed or killed, the journal tells the life of the
\* engagement move by move, every move is one the life cycle allows, and nothing
\* is rendered unapproved, until an event is lost (_transition_state,
\* reset_for_rerun, _recover_stale_state).
THEOREM JournalsTheLife == ASSUME Alone PROVE Spec => JournalTellsLife
<1> QED
  BY LawInit, LawNext, TrailBegins, TrailMoves, PTL DEF Spec, JournalTellsLife,
     Trail!TrailSpec
=============================================================================
