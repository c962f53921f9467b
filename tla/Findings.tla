------------------------------ MODULE Findings ------------------------------
(***************************************************************************)
(* The findings of one engagement: persistence/finding_repo.py, the        *)
(* handlers _run_normalize, _run_consolidate, _run_qa_review and           *)
(* _run_render of pipeline/_runner.py, consolidation/rules.py, and the     *)
(* overrides and manual findings of pipeline/orchestrator.py.  Grouping is *)
(* what module Dedup shows the union-find structure to compute.            *)
(*                                                                         *)
(* All of them run under the engagement lock, so one run of the pipeline   *)
(* or one operation of an analyst at a time; a run is killed between any   *)
(* two transactions.  A finding is what grouping and merging look at: its  *)
(* key, dedup keys and severity.  Status, title, category, description and *)
(* confidence of a merged finding are left out.  A UUID is named by the    *)
(* consolidation and the group it was made for.  Which stage a run may     *)
(* start at is the matter of module Pipeline: here it may be any that      *)
(* loads findings.                                                         *)
(***************************************************************************)
EXTENDS Integers, FiniteSets, FiniteSetsExt

CONSTANTS
  ToolFindings,    \* what adapters can report, normalized
  ManualFindings,  \* what analysts can add
  Blank,           \* a dedup key that strips to nothing
  TextRank,        \* where a finding key sorts as text
  TopSeverity,     \* severities are 0..TopSeverity (SEVERITY_ORDER)
  MaxRuns,         \* bound on consolidations
  MaxOverrides     \* bound on overrides

Severities == 0..TopSeverity
Universe == ToolFindings \cup ManualFindings

ASSUME FindingsAssumption ==
  /\ TopSeverity \in Nat /\ MaxRuns \in Nat /\ MaxOverrides \in Nat
  /\ ToolFindings \cap ManualFindings = {} /\ IsFiniteSet(Universe)
  /\ \A f \in Universe : /\ f.dedup_keys # {} /\ f.severity \in Severities
                         /\ TextRank[f.finding_key] \in Int
  /\ \A f \in ToolFindings : f.dedup_keys = {f.finding_key} /\ f.finding_key # Blank
  /\ \A f, g \in Universe : TextRank[f.finding_key] = TextRank[g.finding_key]
                              => f.finding_key = g.finding_key

VARIABLES
  parsed,        \* table findings
  consolidated,  \* table consolidated_findings
  overrides,     \* table overrides, with the key the finding had
  runs,          \* consolidations so far
  at, findings, held,  \* the run: next handler, ctx.findings, ctx.consolidated_findings
  unsettled      \* history: keys that some consolidation dropped, or gave several rows

vars == <<parsed, consolidated, overrides, runs, at, findings, held, unsettled>>


Init ==
  /\ parsed = {} /\ consolidated = {} /\ overrides = {} /\ runs = 0
  /\ at = "idle" /\ findings = {} /\ held = {} /\ unsettled = {}

EndRun == at' = "idle" /\ findings' = {} /\ held' = {}

---------------------------------------------------------------------------
(* consolidate: DefaultConsolidationRule and merge_group *)

Keys(f) == f.dedup_keys \ {Blank}

\* UnionFindDedup.group: f with all that a chain of shared keys connects to it.
Closed(S, fs) == \A f \in S, g \in fs : Keys(f) \cap Keys(g) # {} => g \in S

\* Mutant: only what shares a key with f itself, without the chain.
Cluster_Direct(f, fs) == {g \in fs : g = f \/ Keys(f) \cap Keys(g) # {}}

Cluster(f, fs) == {g \in fs : \A S \in SUBSET fs : f \in S /\ Closed(S, fs) => g \in S}
Groups(fs) == {Cluster(f, fs) : f \in fs}

Highest(group) == Max({f.severity : f \in group})

TextMax(keys) == CHOOSE k \in keys : \A l \in keys : TextRank[l] <= TextRank[k]

\* Mutant: the greatest key, whatever severity it comes with.
CanonicalKey_Lexical(group) == TextMax({f.finding_key : f \in group})

\* _select_canonical_finding_key: highest severity, then greatest key.
CanonicalKey(group) == TextMax({f.finding_key : f \in {g \in group : g.severity = Highest(group)}})

\* merge_group mints the instance id and takes the highest severity.
Merge(group) ==
  [id |-> [run |-> runs + 1, group |-> group], finding_key |-> CanonicalKey(group),
   severity |-> Highest(group)]

Merged(fs) == {Merge(g) : g \in Groups(fs)}

---------------------------------------------------------------------------
(* The repository *)

Stored(key) == {r \in consolidated : r.finding_key = key}

\* Mutant: every consolidation stores the ids it minted.
WithStoredIds_Fresh(new) == {new}

\* save_consolidated_findings: a key that has a row keeps the id of its row
\* (of any of its rows if there are several: a SELECT without order).
WithStoredIds(new) ==
  LET keep == {k \in {r.finding_key : r \in new} : Stored(k) # {}}
  IN  {{IF r.finding_key \in keep THEN [r EXCEPT !.id = id[r.finding_key]] ELSE r : r \in new} :
         id \in {c \in [keep -> {r.id : r \in consolidated}] :
                   \A k \in keep : \E r \in Stored(k) : r.id = c[k]}}

\* finding_instance_id is the primary key, and two rows of a key that is
\* stored would both get the stored id.
Insertable(new) ==
  \A r, s \in new : r.finding_key = s.finding_key /\ Stored(r.finding_key) # {} => r = s

---------------------------------------------------------------------------
(* The pipeline *)

\* A run that comes from COLLECT or PARSE: the tool findings are replaced,
\* manual rows stay; the run goes on with its own findings only.
Normalize(batch) ==
  /\ at = "idle"
  /\ parsed' = batch \cup (parsed \cap ManualFindings)
  /\ at' = "consolidate" /\ findings' = batch /\ held' = {}
  /\ UNCHANGED <<consolidated, overrides, runs, unsettled>>

\* A run that starts at CONSOLIDATE loads what is stored, manual rows included.
RunFromConsolidate ==
  /\ at = "idle"
  /\ at' = "consolidate" /\ findings' = parsed /\ held' = {}
  /\ UNCHANGED <<parsed, consolidated, overrides, runs, unsettled>>

Dropped(rows) == {r.finding_key : r \in consolidated} \ {r.finding_key : r \in rows}
Repeated(rows) == {r.finding_key : r \in {x \in rows : \E y \in rows \ {x} : y.finding_key = x.finding_key}}

\* One transaction; the run keeps the findings with the ids it minted, and has
\* no more use for ctx.findings.
Consolidate ==
  /\ at = "consolidate" /\ runs < MaxRuns
  /\ Insertable(Merged(findings))
  /\ \E rows \in WithStoredIds(Merged(findings)) :
       /\ consolidated' = rows
       /\ unsettled' = unsettled \cup Dropped(rows) \cup Repeated(rows)
  /\ held' = Merged(findings) /\ runs' = runs + 1 /\ at' = "review" /\ findings' = {}
  /\ UNCHANGED <<parsed, overrides>>

\* IntegrityError: rolled back, and not among the errors the stage loop catches.
ConsolidateFails ==
  /\ at = "consolidate" /\ runs < MaxRuns
  /\ ~Insertable(Merged(findings))
  /\ runs' = runs + 1 /\ EndRun
  /\ UNCHANGED <<parsed, consolidated, overrides, unsettled>>

RunFromReview ==
  /\ at = "idle"
  /\ at' = "review" /\ held' = consolidated /\ UNCHANGED findings
  /\ UNCHANGED <<parsed, consolidated, overrides, runs, unsettled>>

\* is_noop: on to RENDER with what the run holds. Otherwise the run ends and
\* the engagement waits for approval; so does stop_stage = CONSOLIDATE.
Review ==
  /\ at = "review"
  /\ at' = "render" /\ UNCHANGED <<findings, held>>
  /\ UNCHANGED <<parsed, consolidated, overrides, runs, unsettled>>

RunFromRender ==
  /\ at = "idle"
  /\ at' = "render" /\ held' = consolidated /\ UNCHANGED findings
  /\ UNCHANGED <<parsed, consolidated, overrides, runs, unsettled>>

\* The run parks, stops, fails or is killed; or it renders: the payload wraps
\* what the run holds, nothing is read back.
RunEnds ==
  /\ at # "idle" /\ EndRun
  /\ UNCHANGED <<parsed, consolidated, overrides, runs, unsettled>>

---------------------------------------------------------------------------
(* Analysts, under the same lock *)

\* Mutant: an override does not wait for the engagement lock.
OverrideSeverity_Unlocked(r, s) ==
  /\ Cardinality(overrides) < MaxOverrides
  /\ consolidated' = (consolidated \ {r}) \cup {[r EXCEPT !.severity = s]}
  /\ overrides' = overrides \cup {[finding_id |-> r.id, finding_key |-> r.finding_key, new |-> s]}
  /\ UNCHANGED <<parsed, runs, at, findings, held, unsettled>>

\* override_severity, of a row found by its instance id.
OverrideSeverity(r, s) ==
  /\ at = "idle"
  /\ Cardinality(overrides) < MaxOverrides
  /\ consolidated' = (consolidated \ {r}) \cup {[r EXCEPT !.severity = s]}
  /\ overrides' = overrides \cup {[finding_id |-> r.id, finding_key |-> r.finding_key, new |-> s]}
  /\ UNCHANGED <<parsed, runs, at, findings, held, unsettled>>

AddManualFinding(f) ==
  /\ at = "idle"
  /\ parsed' = parsed \cup {f}
  /\ UNCHANGED <<consolidated, overrides, runs, at, findings, held, unsettled>>

---------------------------------------------------------------------------

Next ==
  \/ \E batch \in SUBSET ToolFindings : Normalize(batch)
  \/ RunFromConsolidate \/ Consolidate \/ ConsolidateFails
  \/ RunFromReview \/ Review \/ RunFromRender \/ RunEnds
  \/ \E r \in consolidated, s \in Severities : OverrideSeverity(r, s)
  \/ \E f \in ManualFindings : AddManualFinding(f)

Spec == Init /\ [][Next]_vars

---------------------------------------------------------------------------
(* Properties *)

\* The key and the severity of a consolidated finding, chosen by two modules
\* that do not know each other, come from one member of its group.
KeyCarriesSeverity ==
  at = "consolidate" =>
    \A r \in Merged(findings) :
      \E f \in r.id.group : f.finding_key = r.finding_key /\ f.severity = r.severity

Content(rows) == {[r EXCEPT !.id = 0] : r \in rows}

\* What a run carries in memory to QA and to the report has the content of the
\* stored rows: no override or other consolidation comes between.
HeldIsStored == at \in {"review", "render"} => Content(held) = Content(consolidated)

\* A finding names its own key among its dedup keys. Normalization guarantees
\* it, a manual finding need not.
KeyedBySelf(fs) == \A f \in fs : f.finding_key \in Keys(f)

\* A consolidation of such findings never breaks the primary key, whatever was
\* stored before, even rows that share a key.
SavesSucceed ==
  at = "consolidate" /\ KeyedBySelf(findings) => Insertable(Merged(findings))

\* An override stays linked to the finding it was made for through any number
\* of re-consolidations, as long as its key stays that of exactly one finding.
OverridesLinked ==
  \A o \in overrides : o.finding_key \notin unsettled =>
    \E r \in consolidated : r.id = o.finding_id /\ r.finding_key = o.finding_key
=============================================================================
