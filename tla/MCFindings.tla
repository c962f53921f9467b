----------------------------- MODULE MCFindings -----------------------------
(***************************************************************************)
(* Findings for checking: two tools that report one control, a second      *)
(* control, a manual finding that joins the two, and one that repeats a    *)
(* key of the tools and has no dedup key but a blank one.                  *)
(***************************************************************************)
EXTENDS Findings

Tool(key, sev) == [finding_key |-> key, dedup_keys |-> {key}, severity |-> sev, tool |-> sev]
Manual(key, dedup, sev) == [finding_key |-> key, dedup_keys |-> dedup, severity |-> sev, tool |-> 9]

MCToolFindings == {Tool("cis:1", 0), Tool("cis:1", 1), Tool("cis:2", 1)}
Joining == Manual("manual:1", {"cis:1", "cis:2", "manual:1"}, 0)
Apart == Manual("cis:1", {"blank"}, 1)
MCManualFindings == {Joining, Apart}

MCTextRank == [k \in {"cis:1", "cis:2", "manual:1"} |->
                 CASE k = "cis:1" -> 1 [] k = "cis:2" -> 2 [] OTHER -> 3]
=============================================================================
