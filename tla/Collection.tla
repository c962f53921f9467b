----------------------------- MODULE Collection -----------------------------
(***************************************************************************)
(* What the COLLECT stage promises (docstring of pipeline.stages.collect): *)
(* every adapter runs once, and the stage returns the result of each,      *)
(* which depends on how that adapter ended and on nothing else.  An        *)
(* adapter that fails gets the status of a failure; it does not end the    *)
(* stage.  No pool, no order, no partial list of results.  Only a killed   *)
(* process returns nothing.  Module Collect implements it but for one      *)
(* kind of failure.                                                        *)
(***************************************************************************)

CONSTANTS
  Adapters   \* storage slugs of the adapters

VARIABLES
  open,      \* a collection is in progress
  fate,      \* how the run of each adapter ended
  outcome    \* what the stage returned: a status per adapter, or none

collectionVars == <<open, fate, outcome>>

\* How an adapter can end: it returns, it runs into a timeout, or it fails otherwise.
Ends == {"success", "timeout", "error"}

\* The adapters that the configuration does not enable take no part.
Fates == Ends \cup {"running", "absent"}

Statuses == {"SUCCESS", "TIMEOUT", "FAILED", "none"}

StatusOf(f) ==
  CASE f = "success" -> "SUCCESS"
    [] f = "timeout" -> "TIMEOUT"
    [] f = "error"   -> "FAILED"
    [] OTHER         -> "none"

Nobody == [a \in Adapters |-> "absent"]
NoOutcome == [a \in Adapters |-> "none"]

CollectionInit == open = FALSE /\ fate = Nobody /\ outcome = NoOutcome

BeginCollection(E) ==
  /\ ~open /\ E # {}
  /\ open' = TRUE
  /\ fate' = [a \in Adapters |-> IF a \in E THEN "running" ELSE "absent"]
  /\ outcome' = NoOutcome

EndAdapter(a, f) ==
  /\ open /\ fate[a] = "running"
  /\ fate' = [fate EXCEPT ![a] = f]
  /\ UNCHANGED <<open, outcome>>

ReturnAll ==
  /\ open /\ \A a \in Adapters : fate[a] # "running"
  /\ open' = FALSE
  /\ outcome' = [a \in Adapters |-> StatusOf(fate[a])]
  /\ UNCHANGED fate

\* The process is killed, and its adapters with it.
Killed ==
  /\ open
  /\ open' = FALSE /\ fate' = Nobody
  /\ UNCHANGED outcome

\* The run that asked for the collection is over.
Forget ==
  /\ ~open
  /\ fate' = Nobody /\ outcome' = NoOutcome
  /\ UNCHANGED open

CollectionNext ==
  \/ \E E \in SUBSET Adapters : BeginCollection(E)
  \/ \E a \in Adapters, f \in Ends : EndAdapter(a, f)
  \/ ReturnAll
  \/ Killed
  \/ Forget

CollectionSpec == CollectionInit /\ [][CollectionNext]_collectionVars
=============================================================================
