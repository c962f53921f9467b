----------------------------- MODULE MCPipeline -----------------------------
(***************************************************************************)
(* Command sets, fault sets and processes for checking Pipeline.           *)
(***************************************************************************)
EXTENDS Pipeline

CONSTANTS p1, p2

OneProc == {p1}
TwoProcs == {p1, p2}

MCAllCommands == AllCommands
RunOnly == {"run"}
\* Operators who retry, and a reviewer who approves what is parked.
RunAndApprove == {"run", "approve"}
SharedCommands == {"run", "approve", "report"}
NoopOnly == {TRUE}
BothStrategies == BOOLEAN

AllLabels == Labels
\* A kill anywhere but between a state update and its event.
AtomicTransitions == Labels \ EventLabels
=============================================================================
