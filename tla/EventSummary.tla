---------------------------- MODULE EventSummary ----------------------------
(***************************************************************************)
(* The event journal of one engagement, as far as the program ever asks    *)
(* about it.  Three queries walk the journal: _verify_stage_completed (was *)
(* a state ever reached), _verify_qa_for_render (is the last approval      *)
(* newer than every upstream rerun) and determine_resume_stage (from which *)
(* stage did the engagement last fail).  A summary holds their answers and *)
(* the state the last event names; Record folds one more event into it.    *)
(* Module Journal keeps the log itself and shows that the summary agrees   *)
(* with the queries the code runs over it.                                 *)
(***************************************************************************)
EXTENDS Lifecycle

NoState == "NONE"

\* The events that carry a state, with the payload keys the queries read.
Transition(from, to) ==
  [type |-> "state_transition", from |-> from, to |-> to, stage |-> "NONE"]
Rerun(from, stage) ==
  [type |-> "rerun", from |-> from, to |-> EntryState[stage], stage |-> stage]
StaleRecovery(from, to) ==
  [type |-> "stale_recovery", from |-> from, to |-> to, stage |-> "NONE"]

Events ==
  [type: {"state_transition", "stale_recovery"}, from: States, to: States, stage: {"NONE"}]
    \cup [type: {"rerun"}, from: States, to: EntryStates, stage: Stages]

\* The states a resume looks for in the journal.
Witnesses == {"NORMALIZED", "CONSOLIDATED"}

Summaries ==
  [reached: SUBSET Witnesses, approval: {"none", "fresh", "stale"},
   failedFrom: States \cup {NoState}, lastTo: States]

EmptyJournal ==
  [reached |-> {}, approval |-> "none", failedFrom |-> NoState, lastTo |-> "CREATED"]

ReachedAfter(j, e) ==
  IF e.type = "state_transition" THEN j.reached \cup ({e.to} \cap Witnesses) ELSE j.reached

\* Mutant: a rerun leaves the approval fresh.
ApprovalAfter_NeverStale(j, e) ==
  IF e.type = "state_transition" /\ e.to = "QA_APPROVED" THEN "fresh" ELSE j.approval

ApprovalAfter(j, e) ==
  IF e.type = "state_transition" /\ e.to = "QA_APPROVED" THEN "fresh"
  ELSE IF e.type = "rerun" /\ e.stage \in QAUpstream /\ j.approval = "fresh" THEN "stale"
  ELSE j.approval

\* Mutant: the scan stops at the first failure of the journal, not at the last.
FailedFromAfter_First(j, e) ==
  IF e.type = "state_transition" /\ e.to = "FAILED" /\ j.failedFrom = NoState
  THEN e.from ELSE j.failedFrom

FailedFromAfter(j, e) ==
  IF e.type = "state_transition" /\ e.to = "FAILED" THEN e.from ELSE j.failedFrom

\* _emit_event followed by EventRepo.append.
Record(j, e) ==
  [reached    |-> ReachedAfter(j, e),   approval |-> ApprovalAfter(j, e),
   failedFrom |-> FailedFromAfter(j, e), lastTo  |-> e.to]

\* _verify_stage_completed
StageCompleted(j, state) == state \in j.reached
\* _verify_qa_for_render
QAVerified(j) == j.approval = "fresh"
=============================================================================
