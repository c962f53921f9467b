----------------------------- MODULE Provenance -----------------------------
(***************************************************************************)
(* Which installed PowerShell module a collection may run:                 *)
(* core/contracts/verification.py, adapters/_verification.py and the       *)
(* verify_module.ps1 that they drive.                                      *)
(*                                                                         *)
(* A candidate is an installed copy of the module: version, hash of its    *)
(* staged tree, whether its signer is allowed, whether it runs on this     *)
(* platform.  A policy holds the versions in its range, the approved       *)
(* hashes and whether a hash will do without a signature.                  *)
(***************************************************************************)
EXTENDS FiniteSets

CONSTANTS NoPin, NoModule

NoOverride == [pin |-> NoPin, hashes |-> {}]

\* Mutant: any hash may be pinned.
Narrows_PinOnly(o, policy) == o.pin # NoPin => o.pin \in policy.versions

\* build_input_blob raises ValueError for an override that would widen the policy.
Narrows(o, policy) ==
  /\ o.pin # NoPin => o.pin \in policy.versions
  /\ o.hashes \subseteq policy.hashes

Effective(o, policy) ==
  [policy EXCEPT !.versions = IF o.pin = NoPin THEN @ ELSE {o.pin},
                 !.hashes   = IF o.hashes = {} THEN @ ELSE o.hashes]

Approved(c, policy) ==
  /\ c.version \in policy.versions
  /\ c.hash \in policy.hashes
  /\ c.signed \/ policy.fallback

\* The candidate whose staged copy is run, when there is exactly one; with two, or
\* with none that runs here, verify_module raises.
Chosen(found, policy) ==
  LET executable == {c \in found : Approved(c, policy) /\ c.supported} IN
  IF Cardinality(executable) = 1 THEN CHOOSE c \in executable : TRUE ELSE NoModule
=============================================================================
