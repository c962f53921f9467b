------------------------------ MODULE Lifecycle ------------------------------
(***************************************************************************)
(* The engagement state machine as data: core/domain/enums.py (the states  *)
(* and their valid transitions) and pipeline/stages.py (the six stages and *)
(* the states each one runs through).                                      *)
(***************************************************************************)
EXTENDS Naturals

\* Stage(StrEnum), in execution order.
Stages == {"COLLECT", "PARSE", "NORMALIZE", "CONSOLIDATE", "QA_REVIEW", "RENDER"}

\* STAGE_ORDER: the stage that follows each one, "END" after the last.
\* get_stages_from(s) is the walk along NextStage that starts at s.
NextStage ==
  [COLLECT     |-> "PARSE",       PARSE     |-> "NORMALIZE",
   NORMALIZE   |-> "CONSOLIDATE", CONSOLIDATE |-> "QA_REVIEW",
   QA_REVIEW   |-> "RENDER",      RENDER    |-> "END"]

\* STAGE_STATE_MAP, first component.
RunningState ==
  [COLLECT     |-> "COLLECTING",    PARSE     |-> "PARSING",
   NORMALIZE   |-> "NORMALIZING",   CONSOLIDATE |-> "CONSOLIDATING",
   QA_REVIEW   |-> "QA_REVIEW",     RENDER    |-> "RENDERING"]

\* STAGE_STATE_MAP, second component.
CompletedState ==
  [COLLECT     |-> "COLLECTED",     PARSE     |-> "PARSED",
   NORMALIZE   |-> "NORMALIZED",    CONSOLIDATE |-> "CONSOLIDATED",
   QA_REVIEW   |-> "QA_APPROVED",   RENDER    |-> "COMPLETE"]

\* _STAGE_ENTRY_STATE.
EntryState ==
  [COLLECT     |-> "CREATED",       PARSE     |-> "COLLECTED",
   NORMALIZE   |-> "PARSED",        CONSOLIDATE |-> "NORMALIZED",
   QA_REVIEW   |-> "CONSOLIDATED",  RENDER    |-> "QA_APPROVED"]

RunningStates   == {"COLLECTING", "PARSING", "NORMALIZING", "CONSOLIDATING",
                    "QA_REVIEW", "RENDERING"}
CompletedStates == {"COLLECTED", "PARSED", "NORMALIZED", "CONSOLIDATED",
                    "QA_APPROVED", "COMPLETE"}
EntryStates     == {"CREATED", "COLLECTED", "PARSED", "NORMALIZED",
                    "CONSOLIDATED", "QA_APPROVED"}

\* EngagementState.
States == RunningStates \cup CompletedStates \cup {"CREATED", "FAILED"}

\* The one forward successor of every state that has one.
Successor ==
  [CREATED      |-> "COLLECTING",    COLLECTING    |-> "COLLECTED",
   COLLECTED    |-> "PARSING",       PARSING       |-> "PARSED",
   PARSED       |-> "NORMALIZING",   NORMALIZING   |-> "NORMALIZED",
   NORMALIZED   |-> "CONSOLIDATING", CONSOLIDATING |-> "CONSOLIDATED",
   CONSOLIDATED |-> "QA_REVIEW",     QA_REVIEW     |-> "QA_APPROVED",
   QA_APPROVED  |-> "RENDERING",     RENDERING     |-> "COMPLETE"]

\* is_terminal: no valid outgoing transition.
Terminal == {"COMPLETE", "FAILED"}

\* can_transition_to over _VALID_TRANSITIONS: one step forward, or to FAILED.
CanTransition(from, to) ==
  /\ from \notin Terminal
  /\ to \in {Successor[from], "FAILED"}

\* The stage whose running state is st (st must be a running state).
OwningStage(st) == CHOOSE s \in Stages : RunningState[s] = st

\* _detect_stale_running: a running state nobody parks in. QA_REVIEW is the
\* state in which an engagement waits for a human.
StaleStates == RunningStates \ {"QA_REVIEW"}

\* Mutant: an engagement with parsed observations resumes at NORMALIZE.
ResumeFrom_Normalize ==
  [CREATED      |-> "COLLECT",      COLLECTED    |-> "PARSE",
   PARSED       |-> "NORMALIZE",    NORMALIZED   |-> "CONSOLIDATE",
   CONSOLIDATED |-> "QA_REVIEW",    QA_APPROVED  |-> "RENDER"]

\* _COMPLETED_TO_NEXT: where a resume continues. PARSED goes back to PARSE
\* because observations live only in memory.
ResumeFrom ==
  [CREATED      |-> "COLLECT",      COLLECTED    |-> "PARSE",
   PARSED       |-> "PARSE",        NORMALIZED   |-> "CONSOLIDATE",
   CONSOLIDATED |-> "QA_REVIEW",    QA_APPROVED  |-> "RENDER"]

\* _QA_UPSTREAM_STAGES: re-running one of these makes a QA approval stale.
QAUpstream == {"COLLECT", "PARSE", "NORMALIZE", "CONSOLIDATE"}
=============================================================================
