---------------------------- MODULE Journal_proofs ----------------------------
(***************************************************************************)
(* The summary of the journal stands for its rows, for every set of        *)
(* stages, length of the journal and range of the clock.                   *)
(***************************************************************************)
EXTENDS Journal, TLAPS

-----------------------------------------------------------------------------
(* What the stage and state tables contain, and what Record preserves      *)

\* The columns of STAGE_STATE_MAP and _STAGE_ENTRY_STATE, and STAGE_ORDER.
LEMMA StageMaps ==
  /\ RunningState \in [Stages -> RunningStates]
  /\ CompletedState \in [Stages -> CompletedStates]
  /\ EntryState \in [Stages -> EntryStates]
  /\ NextStage \in [Stages -> Stages \cup {"END"}]
  /\ \A s \in Stages : s # "RENDER" => NextStage[s] \in Stages
  /\ \A s \in Stages : CompletedState[s] = "COMPLETE" => s = "RENDER"
BY DEF RunningState, CompletedState, EntryState, NextStage, Stages, RunningStates,
       CompletedStates, EntryStates

\* How the sets of states lie in each other.
LEMMA StateSets ==
  /\ RunningStates \subseteq States /\ CompletedStates \subseteq States
  /\ EntryStates \subseteq States /\ StaleStates \subseteq RunningStates
  /\ EntryStates \cap {"COMPLETE"} = {} /\ StaleStates \cap {"COMPLETE"} = {}
  /\ {"CREATED", "FAILED", "QA_REVIEW", "QA_APPROVED", "COMPLETE"} \subseteq States
BY DEF States, RunningStates, CompletedStates, EntryStates, StaleStates

\* Every running state belongs to a stage.
LEMMA OwningStageType ==
  \A st \in RunningStates : OwningStage(st) \in Stages /\ RunningState[OwningStage(st)] = st
<1> SUFFICES ASSUME NEW st \in RunningStates
             PROVE  \E s \in Stages : RunningState[s] = st
  BY DEF OwningStage
<1> QED
  BY DEF RunningState, Stages, RunningStates

\* Record keeps the type of a summary.
LEMMA RecordType ==
  ASSUME NEW j \in Summaries, NEW e, e.from \in States, e.to \in States
  PROVE  Record(j, e) \in Summaries
<1>1. ReachedAfter(j, e) \in SUBSET Witnesses
  BY DEF ReachedAfter, Summaries
<1>2. ApprovalAfter(j, e) \in {"none", "fresh", "stale"}
  BY DEF ApprovalAfter, Summaries
<1>3. FailedFromAfter(j, e) \in States \cup {NoState}
  BY DEF FailedFromAfter, Summaries
<1> QED
  BY <1>1, <1>2, <1>3 DEF Record, Summaries

\* A state that is not terminal has a forward transition.
LEMMA SuccessorType ==
  \A st \in States \ Terminal : st \in DOMAIN Successor /\ Successor[st] \in States
BY DEF States, Terminal, Successor, RunningStates, CompletedStates

\* The events the orchestrator builds are events of the journal.
LEMMA EventTypes ==
  /\ \A from, to \in States : Transition(from, to) \in Events
  /\ \A from, to \in States : StaleRecovery(from, to) \in Events
  /\ \A from \in States, s \in Stages : Rerun(from, s) \in Events
BY StageMaps DEF Transition, StaleRecovery, Rerun, Events

-----------------------------------------------------------------------------
(* Timestamps and rows                                                      *)

\* Timestamps are totally ordered by Later.
LEMMA LaterOrder ==
  /\ \A t, u \in Timestamps : ~(Later(t, u) /\ Later(u, t)) /\ ~Later(t, t)
  /\ \A t, u, v \in Timestamps : Later(t, u) /\ Later(u, v) => Later(t, v)
BY JournalAssumption DEF Timestamps, Later

\* Between timestamps with a fraction the text order is the order of time.
LEMMA TextOrder ==
  \A t, u \in Timestamps : t.micro # 0 /\ Later(u, t) => SortsBefore(t, u)
BY JournalAssumption DEF Timestamps, Later, SortsBefore

\* What appending a row does to the sets of rows the scans look at.
LEMMA AppendedRow ==
  ASSUME NEW l \in Seq(Rows), NEW e \in Events, NEW t \in Timestamps
  PROVE  LET m == Append(l, [event |-> e, time |-> t]) IN
         /\ m \in Seq(Rows) /\ Len(m) = Len(l) + 1 /\ Len(l) \in Nat
         /\ \A i \in 1..Len(l) : m[i] = l[i]
         /\ m[Len(m)] = [event |-> e, time |-> t]
         /\ \A st : Reaching(m, st) =
              Reaching(l, st) \cup
                (IF e.type = "state_transition" /\ e.to = st THEN {Len(m)} ELSE {})
         /\ UpstreamReruns(m) =
              UpstreamReruns(l) \cup
                (IF e.type = "rerun" /\ e.stage \in QAUpstream THEN {Len(m)} ELSE {})
<1> DEFINE m == Append(l, [event |-> e, time |-> t])
<1>1. /\ m \in Seq(Rows) /\ Len(m) = Len(l) + 1 /\ Len(l) \in Nat
      /\ \A i \in 1..Len(l) : m[i] = l[i]
      /\ m[Len(m)] = [event |-> e, time |-> t]
  BY DEF Rows
<1> HIDE DEF m
<1>2. ASSUME NEW st
      PROVE  Reaching(m, st) =
              Reaching(l, st) \cup
                (IF e.type = "state_transition" /\ e.to = st THEN {Len(m)} ELSE {})
  BY <1>1 DEF Reaching
<1>3. UpstreamReruns(m) =
        UpstreamReruns(l) \cup
          (IF e.type = "rerun" /\ e.stage \in QAUpstream THEN {Len(m)} ELSE {})
  BY <1>1 DEF UpstreamReruns
<1> QED
  BY <1>1, <1>2, <1>3 DEF m

\* The empty journal satisfies the invariant.
LEMMA InitInv == Init => IndInv
<1> SUFFICES ASSUME Init PROVE IndInv
  OBVIOUS
<1>1. TypeOK
  BY JournalAssumption, StateSets
     DEF Init, TypeOK, EmptyJournal, Summaries, Timestamps, Rows, NoState
<1>2. /\ \A st : Reaching(log, st) = {}
      /\ UpstreamReruns(log) = {}
  BY DEF Init, Reaching, UpstreamReruns
<1>3. Ordered
  BY DEF Init, Ordered
<1>4. CompletedAgrees /\ ApprovalWitnessed /\ FailureWitnessed
  BY <1>2 DEF Init, CompletedAgrees, ApprovalWitnessed, FailureWitnessed, ScanCompleted,
              StageCompleted, EmptyJournal
<1> QED
  BY <1>1, <1>3, <1>4 DEF IndInv

\* Every step keeps the types of the variables.
LEMMA TypeStep == TypeOK /\ [Next]_vars => TypeOK'
<1> SUFFICES ASSUME TypeOK, [Next]_vars PROVE TypeOK'
  OBVIOUS
<1> USE JournalAssumption DEF TypeOK, Commit, Lose
<1>1. CASE Advance
  BY <1>1, SuccessorType, EventTypes DEF Advance, Transition
<1>2. CASE RecoverStale
  <2>1. EntryState[OwningStage(state)] \in States
    BY <1>2, StageMaps, StateSets, OwningStageType DEF RecoverStale
  <2> QED
    BY <1>2, <2>1, EventTypes DEF RecoverStale, StaleRecovery
<1>3. ASSUME NEW s \in Targets, FailStage(s) PROVE TypeOK'
  <2>1. RunningState[s] \in States
    BY StageMaps, StateSets
  <2> QED
    BY <1>3, <2>1, StateSets, EventTypes DEF FailStage, Transition
<1>4. ASSUME NEW s \in Targets, Reset(s) PROVE TypeOK'
  <2>1. s \in Stages /\ EntryState[s] \in States
    BY StageMaps, StateSets
  <2> QED
    BY <1>4, <2>1, EventTypes DEF Reset, Rerun
<1>5. CASE AppendRow
  <2>1. PICK e \in due, t \in Timestamps :
          /\ log' = Append(log, [event |-> e, time |-> t])
          /\ summary' = Record(summary, e) /\ clock' = t /\ due' = {}
          /\ UNCHANGED <<state, lost>>
    BY <1>5 DEF AppendRow
  <2>2. e \in Events /\ e.from \in States /\ e.to \in States
    BY <2>1, StateSets DEF Events
  <2>3. log' \in Seq(Rows)
    BY <2>1, <2>2, AppendedRow
  <2>4. summary' \in Summaries
    BY <2>1, <2>2, RecordType
  <2> QED
    BY <2>1, <2>3, <2>4
<1>6. CASE LoseRow
  BY <1>6 DEF LoseRow
<1>7. CASE LoseRowAndFail
  <2>1. PICK e \in due : due' = {Transition(e.from, "FAILED")}
    BY <1>7 DEF LoseRowAndFail
  <2>2. e.from \in States
    BY <2>1 DEF Events
  <2> QED
    BY <1>7, <2>1, <2>2, StateSets, EventTypes DEF LoseRowAndFail
<1>8. CASE UNCHANGED vars
  BY <1>8 DEF vars
<1> QED
  BY <1>1, <1>2, <1>3, <1>4, <1>5, <1>6, <1>7, <1>8 DEF Next

\* Appending a row keeps the order of the rows and the witness of each answer.
LEMMA AppendStep ==
  ASSUME IndInv, AppendRow
  PROVE  Ordered' /\ CompletedAgrees' /\ ApprovalWitnessed' /\ FailureWitnessed'
<1>1. PICK e \in due, t \in Timestamps :
        /\ Later(t, clock)
        /\ log' = Append(log, [event |-> e, time |-> t])
        /\ summary' = Record(summary, e) /\ clock' = t
  BY DEF AppendRow
<1> DEFINE n == Len(log) + 1
<1>2. /\ e \in Events /\ log \in Seq(Rows) /\ summary \in Summaries /\ clock \in Timestamps
      /\ \A i \in 1..Len(log) : log[i] \in Rows
  BY DEF IndInv, TypeOK
<1>3. /\ Len(log') = n /\ n \in Nat /\ Len(log) \in Nat
      /\ \A i \in 1..Len(log) : log'[i] = log[i]
      /\ log'[n] = [event |-> e, time |-> t]
      /\ \A st : Reaching(log', st) =
           Reaching(log, st) \cup
             (IF e.type = "state_transition" /\ e.to = st THEN {n} ELSE {})
      /\ UpstreamReruns(log') =
           UpstreamReruns(log) \cup
             (IF e.type = "rerun" /\ e.stage \in QAUpstream THEN {n} ELSE {})
  BY <1>1, <1>2, AppendedRow
<1>4. /\ \A st : Reaching(log, st) \subseteq 1..Len(log)
      /\ UpstreamReruns(log) \subseteq 1..Len(log)
  BY DEF Reaching, UpstreamReruns
<1>5. e.type = "state_transition" => e.from \in States /\ e.from # NoState
  BY <1>2 DEF Events, NoState, States, RunningStates, CompletedStates
<1> HIDE DEF n
<1>6. n = Len(log) + 1
  BY DEF n
<1>7. Ordered'
  <2>1. \A i \in 1..Len(log) : log[i].time \in Timestamps
    BY <1>2 DEF Rows
  <2>2. \A i \in 1..Len(log) : Later(t, log[i].time)
    BY <1>1, <1>2, <2>1, LaterOrder DEF IndInv, Ordered
  <2>3. \A i, k \in 1..n : i < k => Later(log'[k].time, log'[i].time)
    BY <1>3, <1>6, <2>2 DEF IndInv, Ordered
  <2>4. \A i \in 1..n : log'[i].time = clock' \/ Later(clock', log'[i].time)
    BY <1>1, <1>3, <1>6, <2>2
  <2> QED
    BY <1>3, <2>3, <2>4 DEF Ordered
<1>8. CompletedAgrees'
  BY <1>1, <1>2, <1>3
     DEF IndInv, CompletedAgrees, ScanCompleted, StageCompleted, Record, ReachedAfter, Summaries
<1>9. ApprovalWitnessed'
  <2>1. CASE e.type = "state_transition" /\ e.to = "QA_APPROVED"
    BY <1>1, <1>3, <1>4, <1>6, <2>1
       DEF ApprovalWitnessed, Record, ApprovalAfter
  <2>2. CASE e.type = "rerun" /\ e.stage \in QAUpstream
    BY <1>1, <1>2, <1>3, <1>4, <1>6, <2>2
       DEF IndInv, ApprovalWitnessed, Record, ApprovalAfter, Summaries
  <2>3. CASE /\ ~(e.type = "state_transition" /\ e.to = "QA_APPROVED")
             /\ ~(e.type = "rerun" /\ e.stage \in QAUpstream)
    BY <1>1, <1>3, <2>3
       DEF IndInv, ApprovalWitnessed, Record, ApprovalAfter
  <2> QED
    BY <2>1, <2>2, <2>3
<1>10. FailureWitnessed'
  <2>1. CASE e.type = "state_transition" /\ e.to = "FAILED"
    BY <1>1, <1>3, <1>4, <1>5, <1>6, <2>1
       DEF FailureWitnessed, Record, FailedFromAfter
  <2>2. CASE ~(e.type = "state_transition" /\ e.to = "FAILED")
    BY <1>1, <1>3, <1>4, <2>2
       DEF IndInv, FailureWitnessed, Record, FailedFromAfter
  <2> QED
    BY <2>1, <2>2
<1> QED
  BY <1>7, <1>8, <1>9, <1>10

\* Every step keeps the inductive invariant.
LEMMA NextInv == IndInv /\ [Next]_vars => IndInv'
<1> SUFFICES ASSUME IndInv, [Next]_vars PROVE IndInv'
  OBVIOUS
<1>1. TypeOK'
  BY TypeStep DEF IndInv
<1>2. CASE AppendRow
  BY <1>1, <1>2, AppendStep DEF IndInv
<1>3. CASE UNCHANGED <<log, summary, clock>>
  BY <1>1, <1>3 DEF IndInv, Ordered, CompletedAgrees, ApprovalWitnessed, FailureWitnessed,
     Reaching, UpstreamReruns, ScanCompleted, StageCompleted
<1> QED
  BY <1>2, <1>3 DEF Next, Advance, RecoverStale, FailStage, Reset, Commit, LoseRow,
     LoseRowAndFail, vars

\* The invariant holds in every reachable state.
LEMMA Invariant == Spec => []IndInv
BY InitInv, NextInv, PTL DEF Spec

\* "Was this state ever reached" has one answer, by rows and by summary.
THEOREM CompletedSummarised == Spec => []CompletedAgrees
<1>1. IndInv => CompletedAgrees
  BY DEF IndInv
<1> QED
  BY <1>1, Invariant, PTL

\* _verify_qa_for_render never lets a stale approval through, in whichever
\* order the text of the timestamps lists the rows.
THEOREM GateSafe == Spec => []GateNeverOpensStale
<1>1. IndInv => GateNeverOpensStale
  <2> SUFFICES ASSUME IndInv, ScanVerified(log) PROVE summary.approval = "fresh"
    BY DEF GateNeverOpensStale, QAVerified
  <2>1. PICK a \in Reaching(log, "QA_APPROVED") :
          \A r \in UpstreamReruns(log) : ~RerunAfter(log, r, a)
    BY DEF ScanVerified
  <2>2. ASSUME summary.approval = "stale" PROVE FALSE
    <3>1. PICK r \in UpstreamReruns(log) : a < r
      BY <2>1, <2>2 DEF IndInv, ApprovalWitnessed
    <3>2. Later(log[r].time, log[a].time)
      BY <3>1, <2>1 DEF IndInv, Ordered, Reaching, UpstreamReruns
    <3> QED
      BY <2>1, <3>1, <3>2 DEF RerunAfter
  <2>3. summary.approval # "none"
    BY <2>1 DEF IndInv, ApprovalWitnessed
  <2> QED
    BY <2>2, <2>3 DEF IndInv, TypeOK, Summaries
<1> QED
  BY <1>1, Invariant, PTL

\* Every row holds a timestamp.
LEMMA RowTimes ==
  ASSUME IndInv, NEW i \in 1..Len(log)
  PROVE  log[i].time \in Timestamps
<1>1. log[i] \in Rows
  BY DEF IndInv, TypeOK
<1> QED
  BY <1>1 DEF Rows

\* With no timestamp on a whole second, the gate is exact and the scan of
\* determine_resume_stage finds the last failure.
THEOREM ScansAreExact == Spec => []ScansExact
<1>1. ASSUME IndInv, Fractional PROVE ScanVerified(log) <=> QAVerified(summary)
  <2>1. ASSUME QAVerified(summary) PROVE ScanVerified(log)
    <3>1. PICK a \in Reaching(log, "QA_APPROVED") :
            /\ \A k \in Reaching(log, "QA_APPROVED") : k <= a
            /\ \A r \in UpstreamReruns(log) : r < a
      BY <1>1, <2>1 DEF IndInv, ApprovalWitnessed, QAVerified
    <3>2. a \in 1..Len(log) /\ Len(log) \in Nat
      BY <1>1 DEF Reaching, IndInv, TypeOK
    <3>3. ASSUME NEW k \in Reaching(log, "QA_APPROVED") \ {a} PROVE RowBefore(log, k, a)
      <4>1. k \in 1..Len(log) /\ k < a
        BY <3>1, <3>2 DEF Reaching
      <4>2. log[k].time \in Timestamps /\ log[a].time \in Timestamps
        BY <1>1, <3>2, <4>1, RowTimes
      <4> QED
        BY <1>1, <3>2, <4>1, <4>2, TextOrder DEF IndInv, Ordered, Fractional, RowBefore
    <3>4. ASSUME NEW r \in UpstreamReruns(log) PROVE ~RerunAfter(log, r, a)
      <4>1. r \in 1..Len(log) /\ r < a
        BY <3>1 DEF UpstreamReruns
      <4>2. log[r].time \in Timestamps /\ log[a].time \in Timestamps
        BY <1>1, <3>2, <4>1, RowTimes
      <4> QED
        BY <1>1, <3>2, <4>1, <4>2, LaterOrder DEF IndInv, Ordered, RerunAfter
    <3> QED
      BY <3>1, <3>3, <3>4 DEF ScanVerified, LastOf
  <2>2. ASSUME ScanVerified(log) PROVE QAVerified(summary)
    <3>1. PICK a \in Reaching(log, "QA_APPROVED") :
            \A r \in UpstreamReruns(log) : ~RerunAfter(log, r, a)
      BY <2>2 DEF ScanVerified
    <3>2. ASSUME summary.approval = "stale" PROVE FALSE
      <4>1. PICK r \in UpstreamReruns(log) : a < r
        BY <1>1, <3>1, <3>2 DEF IndInv, ApprovalWitnessed
      <4>2. Later(log[r].time, log[a].time)
        BY <1>1, <3>1, <4>1 DEF IndInv, Ordered, Reaching, UpstreamReruns
      <4> QED
        BY <3>1, <4>1, <4>2 DEF RerunAfter
    <3>3. summary.approval # "none"
      BY <1>1, <3>1 DEF IndInv, ApprovalWitnessed
    <3> QED
      BY <1>1, <3>2, <3>3 DEF IndInv, TypeOK, Summaries, QAVerified
  <2> QED
    BY <2>1, <2>2
<1>2. ASSUME IndInv, Fractional PROVE ScanFailedFrom(log, summary.failedFrom)
  <2>1. CASE summary.failedFrom = NoState
    BY <1>2, <2>1 DEF IndInv, FailureWitnessed, ScanFailedFrom
  <2>2. CASE summary.failedFrom # NoState
    <3>1. PICK i \in Reaching(log, "FAILED") :
            /\ \A k \in Reaching(log, "FAILED") : k <= i
            /\ summary.failedFrom = log[i].event.from
      BY <1>2, <2>2 DEF IndInv, FailureWitnessed
    <3>2. i \in 1..Len(log) /\ Len(log) \in Nat
      BY <1>2 DEF Reaching, IndInv, TypeOK
    <3>3. ASSUME NEW k \in Reaching(log, "FAILED") \ {i} PROVE RowBefore(log, k, i)
      <4>1. k \in 1..Len(log) /\ k < i
        BY <3>1, <3>2 DEF Reaching
      <4>2. log[k].time \in Timestamps /\ log[i].time \in Timestamps
        BY <1>2, <3>2, <4>1, RowTimes
      <4> QED
        BY <1>2, <3>2, <4>1, <4>2, TextOrder DEF IndInv, Ordered, Fractional, RowBefore
    <3> QED
      BY <3>1, <3>3 DEF ScanFailedFrom, LastOf
  <2> QED
    BY <2>1, <2>2
<1>3. IndInv => ScansExact
  BY <1>1, <1>2 DEF ScansExact
<1> QED
  BY <1>3, Invariant, PTL
=============================================================================
