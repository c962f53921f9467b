----------------------------- MODULE MCRawStore -----------------------------
(***************************************************************************)
(* Tools and bounds for checking RawStore.                                 *)
(***************************************************************************)
EXTENDS RawStore

CONSTANTS scuba, maester

TwoTools == {scuba, maester}
=============================================================================
