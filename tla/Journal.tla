------------------------------- MODULE Journal -------------------------------
(***************************************************************************)
(* The pipeline_events table of one engagement, row by row, and the three  *)
(* queries the program runs over it: persistence/event_repo.py and the     *)
(* scans of pipeline/orchestrator.py and pipeline/_runner.py.  Module      *)
(* Pipeline keeps a summary instead of the rows; here both are kept, and   *)
(* the properties relate them.                                             *)
(*                                                                         *)
(* Rows are selected ORDER BY timestamp, rowid, and a timestamp is text:   *)
(* format_utc drops the fraction of a whole second, and "05Z" sorts after  *)
(* every "05.ffffffZ" of its second.  So the order of the rows is not the  *)
(* order of time, which the scans for the last row of a kind rely on.      *)
(*                                                                         *)
(* Abstractions.  One writer at a time; every event is stamped later than  *)
(* the one before it (two stamps are a commit apart, the clock counts      *)
(* microseconds).                                                          *)
(***************************************************************************)
EXTENDS EventSummary, Sequences

CONSTANTS
  Targets,     \* stages that are rerun and that fail, a subset of Stages
  MaxEvents,   \* bound on the rows of the journal
  MaxLost,     \* bound on the rows that are lost
  MaxSecond,   \* bound on the clock
  MaxMicro     \* last microsecond of a second

ASSUME JournalAssumption ==
  /\ Targets \subseteq Stages /\ MaxEvents \in Nat /\ MaxLost \in Nat
  /\ MaxSecond \in Nat /\ MaxMicro \in Nat

VARIABLES
  state,    \* engagements.state
  due,      \* the event _emit_event is about to append, if any
  log,      \* rows of pipeline_events in the order they were inserted
  summary,  \* the summary module Pipeline keeps
  clock,    \* the last timestamp given
  lost      \* events lost so far, at most MaxLost

vars == <<state, due, log, summary, clock, lost>>

Timestamps == [second: 0..MaxSecond, micro: 0..MaxMicro]
Rows == [event: Events, time: Timestamps]

Later(t, u) == t.second > u.second \/ (t.second = u.second /\ t.micro > u.micro)

\* format_utc: the text of t sorts before the text of u.
SortsBefore(t, u) ==
  \/ t.second < u.second
  \/ /\ t.second = u.second
     /\ t.micro # 0
     /\ u.micro = 0 \/ t.micro < u.micro

---------------------------------------------------------------------------
(* get_events_by_type, and the scans over its result *)

\* Mutant: rows in the order they were inserted, newest first.
RowBefore_Newest(l, i, k) == i > k

\* Row i is listed before row k: ORDER BY timestamp, rowid.
RowBefore(l, i, k) ==
  \/ SortsBefore(l[i].time, l[k].time)
  \/ l[i].time = l[k].time /\ i < k

LastOf(l, rows, i) == i \in rows /\ \A k \in rows \ {i} : RowBefore(l, k, i)

Reaching(l, st) ==
  {i \in 1..Len(l) : l[i].event.type = "state_transition" /\ l[i].event.to = st}
UpstreamReruns(l) ==
  {i \in 1..Len(l) : l[i].event.type = "rerun" /\ l[i].event.stage \in QAUpstream}

\* Mutant: only the newest transition is looked at.
ScanCompleted_Newest(l, st) == Reaching(l, st) \cap {Len(l)} # {}

\* _verify_stage_completed: the set of every state ever reached.
ScanCompleted(l, st) == Reaching(l, st) # {}

\* Mutant: the two timestamps are compared as the text they are stored as.
RerunAfter_Text(l, r, a) == SortsBefore(l[a].time, l[r].time)

\* rerun_ts > qa_approved_ts, on parsed timestamps.
RerunAfter(l, r, a) == Later(l[r].time, l[a].time)

\* _verify_qa_for_render: the last approval, and no upstream rerun after it.
ScanVerified(l) ==
  \E a \in Reaching(l, "QA_APPROVED") :
    /\ LastOf(l, Reaching(l, "QA_APPROVED"), a)
    /\ \A r \in UpstreamReruns(l) : ~RerunAfter(l, r, a)

\* determine_resume_stage on a FAILED engagement: v is the state the scan for
\* the last failure finds, NoState when there is none.
ScanFailedFrom(l, v) ==
  IF Reaching(l, "FAILED") = {} THEN v = NoState
  ELSE \E i \in Reaching(l, "FAILED") :
         LastOf(l, Reaching(l, "FAILED"), i) /\ v = l[i].event.from

---------------------------------------------------------------------------
Init ==
  /\ state = "CREATED" /\ due = {} /\ log = <<>>
  /\ summary = EmptyJournal /\ clock = [second |-> 0, micro |-> 0]
  /\ lost = 0

\* The state column is committed; the event that tells of it is due.
Commit(e) ==
  /\ due = {} /\ Len(log) < MaxEvents
  /\ state' = e.to /\ due' = {e}
  /\ UNCHANGED <<log, summary, clock, lost>>

\* _transition_state, forward.
Advance ==
  /\ state \notin Terminal
  /\ Commit(Transition(state, Successor[state]))

\* _transition_state in the except clauses of run_stages: the stage is running,
\* or "mseco report" was refused RENDERING.
FailStage(s) ==
  /\ CanTransition(state, "FAILED")
  /\ state = RunningState[s] \/ (s = "RENDER" /\ ScanVerified(log))
  /\ Commit(Transition(RunningState[s], "FAILED"))

\* reset_for_rerun
Reset(s) ==
  /\ state # EntryState[s]
  /\ s = "RENDER" => ScanVerified(log)
  /\ Commit(Rerun(state, s))

\* _recover_stale_state
RecoverStale ==
  /\ state \in StaleStates
  /\ Commit(StaleRecovery(state, EntryState[OwningStage(state)]))

\* _emit_event stamps the event, EventRepo.append inserts the row.
AppendRow ==
  \E e \in due, t \in Timestamps :
    /\ Later(t, clock)
    /\ log' = Append(log, [event |-> e, time |-> t])
    /\ summary' = Record(summary, e)
    /\ clock' = t /\ due' = {}
    /\ UNCHANGED <<state, lost>>

Lose == due # {} /\ lost < MaxLost /\ lost' = lost + 1

\* The append fails, or the process is killed before it.
LoseRow ==
  /\ Lose
  /\ due' = {}
  /\ UNCHANGED <<state, log, summary, clock>>

\* The append that tells of a completed stage fails inside the loop, whose
\* except clause takes the stage to FAILED.
LoseRowAndFail ==
  /\ Lose
  /\ CanTransition(state, "FAILED")
  /\ \E e \in due :
       /\ e.type = "state_transition" /\ e.to \in CompletedStates
       /\ due' = {Transition(e.from, "FAILED")}
  /\ state' = "FAILED"
  /\ UNCHANGED <<log, summary, clock>>

Next ==
  \/ Advance \/ RecoverStale
  \/ \E s \in Targets : FailStage(s) \/ Reset(s)
  \/ AppendRow \/ LoseRow \/ LoseRowAndFail

Spec == Init /\ [][Next]_vars
---------------------------------------------------------------------------
(* Properties *)

TypeOK ==
  /\ state \in States /\ due \in SUBSET Events
  /\ log \in Seq(Rows) /\ summary \in Summaries /\ clock \in Timestamps
  /\ lost \in 0..MaxLost

\* "Was it ever completed" is answered alike by the rows and the summary,
\* however often the stage was rerun and recovered since.
CompletedAgrees == \A st \in Witnesses : ScanCompleted(log, st) <=> StageCompleted(summary, st)

\* The gate of RENDER never opens on a stale approval: even where the text
\* order of the rows picks an older approval as the last one, the comparison
\* of parsed timestamps errs on the side of refusing.
GateNeverOpensStale == ScanVerified(log) => QAVerified(summary)

\* No row was stamped on a whole second.
Fractional == \A i \in 1..Len(log) : log[i].time.micro # 0

\* Without whole seconds the scans find what a reader who knows the true order
\* of events would: the gate is exact and a resume knows the last failure.
ScansExact ==
  Fractional =>
    /\ ScanVerified(log) <=> QAVerified(summary)
    /\ ScanFailedFrom(log, summary.failedFrom)

---------------------------------------------------------------------------
(* The inductive invariant *)

Ordered ==
  /\ \A i, k \in 1..Len(log) : i < k => Later(log[k].time, log[i].time)
  /\ \A i \in 1..Len(log) : log[i].time = clock \/ Later(clock, log[i].time)

ApprovalWitnessed ==
  /\ summary.approval = "none" => Reaching(log, "QA_APPROVED") = {}
  /\ summary.approval = "stale" =>
       \E r \in UpstreamReruns(log) : \A a \in Reaching(log, "QA_APPROVED") : a < r
  /\ summary.approval = "fresh" =>
       \E a \in Reaching(log, "QA_APPROVED") :
         /\ \A k \in Reaching(log, "QA_APPROVED") : k <= a
         /\ \A r \in UpstreamReruns(log) : r < a

FailureWitnessed ==
  IF summary.failedFrom = NoState THEN Reaching(log, "FAILED") = {}
  ELSE \E i \in Reaching(log, "FAILED") :
         /\ \A k \in Reaching(log, "FAILED") : k <= i
         /\ summary.failedFrom = log[i].event.from

\* The rows are in the order of time, and each answer of the summary has the
\* row that justifies it.
IndInv == TypeOK /\ Ordered /\ CompletedAgrees /\ ApprovalWitnessed /\ FailureWitnessed
=============================================================================
