------------------------------ MODULE MCShared ------------------------------
(***************************************************************************)
(* Two people at work on one engagement at the same time. The operator     *)
(* issues the plain run. The other is one of three, chosen at the start:   *)
(*   reviewer   approves; up to MaxFaults faults, none of them between a   *)
(*              state update and its event;                                *)
(*   reporter   issues report, which can find a stale state; one stage     *)
(*              that fails, or one kill in a stage or before its last      *)
(*              event;                                                     *)
(*   colleague  issues the plain run as well, and so resets under the feet *)
(*              of the operator; both with the automatic QA strategy and   *)
(*              without faults.                                            *)
(***************************************************************************)
EXTENDS MCPipeline

CONSTANTS operator, reviewer, reporter, colleague

Others == {reviewer, reporter, colleague}
People == {operator} \cup Others

Here(p) == pc[p] # "absent"

Issues(p) ==
  CASE p = reviewer -> {"approve"}
    [] p = reporter -> {"report"}
    [] OTHER        -> {"run"}

MayFail(p) ==
  \/ Here(reviewer) /\ pc[p] \in AtomicTransitions
  \/ Here(reporter) /\ pc[p] \in {"work", "finish_event"} /\ faults.n = 0

SharedInit ==
  /\ dbState = "CREATED" /\ journal = EmptyJournal /\ rawOnDisk = FALSE
  /\ lock = NoProc /\ faults = [n |-> 0, torn |-> {}]
  /\ job = [p \in Procs |-> NoJob] /\ signed = FALSE /\ failedAt = "END"
  /\ \E other \in Others :
       pc = [p \in Procs |-> IF p \in {operator, other} THEN "idle" ELSE "absent"]

SharedNext ==
  \E p \in Procs :
    \/ \E cmd \in Issues(p) : Start(p, cmd) /\ (Here(colleague) => job'[p].noop)
    \/ Step(p)
    \/ MayFail(p) /\ FaultStep(p)

Team == {operator, reviewer}

\* Whoever comes back for the lock for ever gets it at some time.
NobodyStarves == \A p \in Team : []<>(pc[p] = "acquire") => []<>(lock = p)

\* What they start goes on until it ends or is killed, and they come back again
\* and again.
TeamPersists ==
  /\ NobodyStarves
  /\ \A p \in Team : WF_vars(Step(p))
  /\ \A p \in Team : \A cmd \in Issues(p) : SF_vars(Start(p, cmd))

SharedSpec == SharedInit /\ [][SharedNext]_vars /\ (Here(reviewer) => TeamPersists)

\* An operator who keeps issuing the plain "mseco run" and a reviewer who keeps
\* approving, each without waiting for the other, get the engagement to COMPLETE,
\* whichever stages failed and wherever processes were killed outside the gap
\* between a state update and its event.
TeamCompletes == Here(reviewer) => RetriesComplete
=============================================================================
