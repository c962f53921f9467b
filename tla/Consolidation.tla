---------------------------- MODULE Consolidation ----------------------------
(***************************************************************************)
(* From observations to consolidated findings: the stages NORMALIZE and    *)
(* CONSOLIDATE (_run_normalize, _run_consolidate), with the union-find     *)
(* structure of module Dedup and the rules of module Policies.  A run may  *)
(* also enter at CONSOLIDATE with the findings that are stored, which any  *)
(* normalization policy may have made.                                     *)
(*                                                                         *)
(* The severity, roadmap and reporting policies are for whoever presents   *)
(* the findings: nothing in the pipeline calls them.                       *)
(***************************************************************************)
EXTENDS Policies, Dedup

CONSTANTS
  Observations,    \* what a tool can report
  StoredFindings,  \* what a normalization policy can have stored
  MaxObservations, MaxStored,  \* bounds on the length of a list
  SeverityRules,   \* rule sets for severity suggestions
  Audiences        \* of reports

ASSUME ConsolidationAssumption ==
  /\ MaxObservations \in Nat /\ MaxStored \in Nat
  /\ \A f \in StoredFindings :
       /\ f.dedup_keys # {} /\ f.severity \in 0..4 /\ f.status \in Statuses
       /\ f.category \in DOMAIN CategoryWeight
       /\ {f.finding_key, f.tool, f.native_check_id} \subseteq DOMAIN TextRank
  /\ \A o \in Observations :
       {ResolveKey(o), o.tool, o.native_check_id} \subseteq DOMAIN TextRank
  /\ \A o \in Observations : \A key \in DOMAIN AdapterSeverity[o.tool] :
       AdapterSeverity[o.tool][key] \in 0..4
  /\ \A r \in SeverityRules : r.minimum_severity \in 0..4 /\ r.maximum_severity \in 0..4

VARIABLES
  at,            \* "normalize", "consolidate", "group", "done" or "failed"
  observations,  \* ctx.observations
  consolidated   \* ctx.consolidated_findings

vars == <<at, observations, consolidated, dedupVars>>

Init ==
  /\ \/ at = "normalize" /\ observations \in BoundedSeq(Observations, MaxObservations)
                         /\ findings = <<>>
     \/ at = "consolidate" /\ observations = <<>>
                           /\ findings \in BoundedSeq(StoredFindings, MaxStored)
  /\ parent = <<>> /\ rank = <<>> /\ pending = {} /\ consolidated = <<>>

\* A key that strips to nothing raises ValueError.
Normalizable(obs) == \A i \in DOMAIN obs : ResolveKey(obs[i]) # Blank

Normalize ==
  /\ at = "normalize"
  /\ \/ Normalizable(observations) /\ at' = "consolidate" /\ findings' = Normalized(observations)
     \/ ~Normalizable(observations) /\ at' = "failed" /\ UNCHANGED findings
  /\ UNCHANGED <<parent, rank, pending, observations, consolidated>>

BeginGroup ==
  /\ at = "consolidate"
  /\ StartGrouping
  /\ at' = "group"
  /\ UNCHANGED <<observations, consolidated>>

Grouping ==
  /\ at = "group"
  /\ \/ \E link \in pending : MakeUnion(link)
     \/ \E i \in DOMAIN findings : ReadGroup(i)
  /\ UNCHANGED <<at, observations, consolidated>>

\* The groups, each in the order of findings, in the order of their first one.
Groups ==
  LET firsts == Ascending({Min(Group(i)) : i \in DOMAIN findings})
  IN  [k \in DOMAIN firsts |-> Kept(findings, Group(firsts[k]))]

MergeGroups ==
  /\ at = "group" /\ pending = {}
  /\ LET groups == Groups
     IN  consolidated' = [k \in DOMAIN groups |-> MergeGroup(groups[k])]
  /\ at' = "done"
  /\ UNCHANGED <<observations, dedupVars>>

Next == Normalize \/ BeginGroup \/ Grouping \/ MergeGroups

Spec == Init /\ [][Next]_vars

---------------------------------------------------------------------------
(* Properties *)

\* The key of a stored finding is known to the deduplication: two of one finding
\* key share a usable dedup key, or are the same.  The shipped policy stores the
\* finding key as the dedup key, and no blank one.
SharesKeys(f, g) ==
  f.finding_key = g.finding_key => f = g \/ ValidKeys(f) \cap ValidKeys(g) # {}
StoredKeysShared == \A f, g \in StoredFindings : SharesKeys(f, g)
KeysShared == \A i, j \in DOMAIN findings : SharesKeys(findings[i], findings[j])

Results == {consolidated[k] : k \in DOMAIN consolidated}

\* What passed or does not apply is never shown with a severity: a merged
\* finding with such a status is INFO, whatever its tools called the result
\* (_resolve_severity and _resolve_status read the same map, and the status
\* priority puts every other status first).
PassIsInfo == \A f \in Results : f.status \in Passing => f.severity = INFO

Essence(f) ==
  <<f.finding_key, f.title, f.severity, f.status, f.category, f.overall>>

\* Which adapter reports first is chance; of what is modelled here it decides the
\* order of the sources and nothing else: not what a merged finding says, nor the
\* order of the roadmap, nor which findings a capped report shows ("deterministic
\* tie-break", policy/reporting.py:106).  (benchmark_refs, which are not modelled,
\* are also listed in the order of reporting.)
OrderFree ==
  at = "done" =>
    /\ LET groups == Groups
       IN  \A k \in DOMAIN groups :
             Essence(MergeGroup(Reverse(groups[k]))) = Essence(consolidated[k])
    /\ AssignPhases(Reverse(consolidated)) = AssignPhases(consolidated)
    /\ \A a \in Audiences :
         LET Report(fs) == FilterForAudience(ApplySuppression(fs), a)
         IN  Report(Reverse(consolidated)) = Report(consolidated)

\* check_escalation flags a finding exactly when suggest_adjustments proposes a
\* lower severity for it ("the two methods never contradict each other",
\* policy/severity.py:151).
AdviceAgrees ==
  \A f \in Results, r \in SeverityRules :
    CheckEscalation(f, r) <=> \E s \in Adjustments(f, r) : s < f.severity
=============================================================================
