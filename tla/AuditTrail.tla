----------------------------- MODULE AuditTrail -----------------------------
(***************************************************************************)
(* What the journal of an engagement promises its reader: "stage           *)
(* transitions are persisted atomically as journal events"                 *)
(* (docs/architecture.md:258).  The engagement only ever moves together    *)
(* with the event that says so, one event per move, and only as the life   *)
(* cycle allows: forward, into a failure, back for a rerun, or back from a *)
(* stale running state.  No processes, no lock, no memory.                 *)
(*                                                                         *)
(* The program writes state and event in two transactions.  Module         *)
(* Pipeline keeps the promise until a fault costs an event (lost).         *)
(***************************************************************************)
EXTENDS EventSummary

VARIABLES
  state,     \* the state of the engagement
  journal,   \* what was journaled, as a summary
  lost       \* an event was lost: nothing is promised any more

trailVars == <<state, journal, lost>>

TrailInit == state = "CREATED" /\ journal = EmptyJournal /\ lost = FALSE

\* _transition_state and its like, as one transaction.
Journaled(e) ==
  /\ state' = e.to
  /\ journal' = Record(journal, e)
  /\ UNCHANGED lost

\* A stage begins or completes, or a human approves.  Nothing is rendered that
\* the journal does not show approved.
Advance ==
  /\ state \notin Terminal
  /\ Successor[state] = "RENDERING" => QAVerified(journal)
  /\ Journaled(Transition(state, Successor[state]))

\* A stage fails while it runs.  A report of an approved engagement that is not
\* ready for RENDER fails there, too, although RENDER has not begun.
Abandon(s) ==
  /\ state \notin Terminal
  /\ state = RunningState[s] \/ (s = "RENDER" /\ QAVerified(journal))
  /\ Journaled(Transition(RunningState[s], "FAILED"))

\* An operator sends the engagement to the entry of a stage.
StartOver(s) ==
  /\ state # EntryState[s]
  /\ s = "RENDER" => QAVerified(journal)
  /\ Journaled(Rerun(state, s))

\* A run finds a stage that a killed process left running.
RecoverStale ==
  /\ state \in StaleStates
  /\ Journaled(StaleRecovery(state, EntryState[OwningStage(state)]))

Move ==
  \/ Advance
  \/ \E s \in Stages : Abandon(s) \/ StartOver(s)
  \/ RecoverStale

TrailNext == (~lost /\ Move) \/ lost'

TrailSpec == TrailInit /\ [][TrailNext]_trailVars
=============================================================================
