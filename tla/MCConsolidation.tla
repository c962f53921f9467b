--------------------------- MODULE MCConsolidation ---------------------------
(***************************************************************************)
(* Two tools, three checks of which two are known to be the same control,  *)
(* and stored findings that differ in their dedup keys only.               *)
(***************************************************************************)
EXTENDS Consolidation

MCTextRank ==
  LET texts == <<"", "APPLICATION_SECURITY", "COMPLIANCE", "COST_OPTIMIZATION",
                 "DATA_PROTECTION", "DEVICE_MANAGEMENT", "EMAIL_COLLABORATION",
                 "IDENTITY_ACCESS", "INFRASTRUCTURE_SECURITY", "LOGGING_MONITORING",
                 "MS.AAD.1", "MS.AAD.9", "MT.1", "MT.9", "MT.bad", "NETWORK_SECURITY",
                 "OPERATIONAL_EXCELLENCE", "cis", "cis2", "iso", "maester", "maester:MT.9",
                 "scubagear", "scubagear:MS.AAD.9">>
  IN  [t \in ToSet(texts) |-> CHOOSE i \in DOMAIN texts : texts[i] = t]

MCPrefix == [c \in {"MS.AAD.1", "MS.AAD.9", "MT.1", "MT.9", "MT.bad"} |->
               IF c \in {"MS.AAD.1", "MS.AAD.9"} THEN "aad" ELSE "mt"]

\* ScubaGear leaves severities to the defaults, Maester brings its own.
MCAdapterSeverity ==
  [scubagear |-> <<>>, maester |-> [key \in {<<"Shall", "FAIL">>} |-> 2]]
MCAdapterCategory == [scubagear |-> [aad |-> "IDENTITY_ACCESS"], maester |-> [iam |-> "nonsense"]]
MCDedupKey == [c \in {"MS.AAD.1", "MT.1", "MT.bad"} |-> IF c = "MT.bad" THEN "" ELSE "cis"]

Natives == {<<"Shall", "Fail">>, <<"Shall", "Passed">>, <<"Should", "Warning">>,
            <<"Should", "odd">>, <<"", "Skipped">>}

Observed(tool, checks) ==
  {[tool |-> tool, native_check_id |-> c, native_category |-> "iam",
    native_severity |-> n[1], native_status |-> n[2]] : c \in checks, n \in Natives}

MCObservations ==
  Observed("scubagear", {"MS.AAD.1", "MS.AAD.9"}) \cup Observed("maester", {"MT.1", "MT.9"})
  \cup {o \in Observed("maester", {"MT.bad"}) : o.native_status = "Fail"}

\* The key of a stored finding is one of its dedup keys.
MCStoredFindings ==
  {[finding_key |-> CHOOSE k \in ks : \A l \in ks : MCTextRank[l] <= MCTextRank[k],
    dedup_keys |-> ks, tool |-> "maester", native_check_id |-> "MT.1", severity |-> 3,
    status |-> "FAIL", category |-> "COMPLIANCE"] : ks \in SUBSET {"", "cis", "iso"} \ {{}}}

\* The findings the reports' order is checked on satisfy what its theorem assumes.
ASSUME MCStoredKeysShared == StoredKeysShared

\* The shipped thresholds and stricter ones, with a floor and without.
MCSeverityRules ==
  [escalation_thresholds : {[s \in 0..4 |-> <<0, 0, 3000, 5000, 7000>>[s + 1]],
                            [s \in 0..4 |-> 8000]},
   downgrade_threshold : {3000}, upgrade_threshold : {7000, 9000},
   minimum_severity : {0, 1, 2}, maximum_severity : {3, 4}]

\* The shipped executive audience with a shorter list, and everybody.
MCAudiences ==
  {[minimum_severity |-> 3, minimum_confidence |-> 5000, max_findings |-> 1],
   [minimum_severity |-> 0, minimum_confidence |-> 0, max_findings |-> 2]}
=============================================================================
