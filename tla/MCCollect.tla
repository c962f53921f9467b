----------------------------- MODULE MCCollect ------------------------------
(***************************************************************************)
(* Adapters and bounds for checking Collect.                               *)
(***************************************************************************)
EXTENDS Collect

CONSTANTS scuba, maester, advisor

AllTools == {scuba, maester, advisor}
TwoExporters == {scuba, maester}
=============================================================================
