---------------------------- MODULE MCEngagement ----------------------------
(***************************************************************************)
(* Two invocations of mseco and two configs.  The first one is the one the *)
(* engagement is created with: which of the two it is makes no difference. *)
(***************************************************************************)
EXTENDS Engagement

CONSTANTS p1, p2, c1, c2

MCProcs == {p1, p2}
MCConfigs == {c1, c2}
MCCreated == {c1}
=============================================================================
