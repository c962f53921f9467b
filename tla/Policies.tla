------------------------------ MODULE Policies ------------------------------
(***************************************************************************)
(* The policies, pure functions all: policy/normalization.py, the merging  *)
(* of policy/consolidation.py and the key of consolidation/rules.py,       *)
(* policy/severity.py, policy/roadmap.py, policy/reporting.py, under the   *)
(* shipped policy/rules/*.yaml.                                            *)
(*                                                                         *)
(* A severity is its number in SEVERITY_ORDER, 0 (INFO) to 4 (CRITICAL). A *)
(* score is counted in units of 0.0001, which all shipped weights keep     *)
(* whole.  A text is a string with a rank, where it sorts.  A title is     *)
(* what one tool calls one check, so it is that pair.  Descriptions,       *)
(* timelines and errors of malformed rules are left out.                   *)
(***************************************************************************)
EXTENDS Integers, Sequences, FiniteSets, SequencesExt

CONSTANTS
  TextRank,         \* a number for each tool, check id, category and key
  Prefix,           \* what _extract_module_prefix makes of a check id ("" for None)
  AdapterSeverity,  \* per tool: <<native severity, status>> -> severity
  AdapterCategory,  \* per tool: prefix, check id or native category -> category
  DedupKey          \* check id -> key, of all adapters together

INFO == 0
MEDIUM == 2
Statuses == {"FAIL", "ERROR", "WARNING", "MANUAL", "PASS", "N/A"}
Passing == {"PASS", "N/A"}

\* category_priority of the roadmap, in tenths; its names are the categories.
CategoryWeight ==
  [IDENTITY_ACCESS |-> 13, DATA_PROTECTION |-> 12, EMAIL_COLLABORATION |-> 11,
   DEVICE_MANAGEMENT |-> 10, INFRASTRUCTURE_SECURITY |-> 11, NETWORK_SECURITY |-> 10,
   LOGGING_MONITORING |-> 9, COST_OPTIMIZATION |-> 7, OPERATIONAL_EXCELLENCE |-> 8,
   COMPLIANCE |-> 10, APPLICATION_SECURITY |-> 11]

\* A text has one rank of its own.
ASSUME PoliciesAssumption ==
  /\ DOMAIN CategoryWeight \subseteq DOMAIN TextRank
  /\ \A s, t \in DOMAIN TextRank :
       TextRank[s] \in Int /\ (TextRank[s] = TextRank[t] => s = t)

---------------------------------------------------------------------------
(* max(), sort() and filters of the interpreter.  A key is a sequence of   *)
(* integers, as long for all that is compared.                             *)

Greater(s, t) == \E k \in DOMAIN s : s[k] > t[k] /\ \A j \in 1..(k - 1) : s[j] = t[j]

\* The first element of a sequence with the greatest key.
FirstMax(seq, key) ==
  seq[Min({i \in DOMAIN seq : \A j \in DOMAIN seq : ~Greater(key[seq[j]], key[seq[i]])})]

\* The elements of S by their keys, the greatest first: the k-th is the one with
\* k - 1 above it.
Above(S, key, x) == {y \in S : Greater(key[y], key[x])}
InOrder(S, key) ==
  [k \in 1..Cardinality(S) |-> CHOOSE x \in S : Cardinality(Above(S, key, x)) = k - 1]

Ascending(S) == InOrder(S, [i \in S |-> <<-i>>])

\* The elements of a sequence at some of its places.
Kept(seq, places) ==
  LET order == Ascending(places) IN [k \in DOMAIN order |-> seq[order[k]]]

\* Equals stay in the order they have.
Descending(seq, key) ==
  LET order == InOrder(DOMAIN seq, [i \in DOMAIN seq |-> Append(key[seq[i]], -i)])
  IN  [k \in DOMAIN seq |-> seq[order[k]]]

---------------------------------------------------------------------------
(* Normalization *)

\* default_status_map: the native names of each status.
NativeNames(status) ==
  CASE status = "FAIL"    -> {"Fail", "Failed", "fail"}
    [] status = "PASS"    -> {"Pass", "Passed", "pass", "Informational"}
    [] status = "WARNING" -> {"Warning"}
    [] status = "ERROR"   -> {"Error"}
    [] status = "MANUAL"  -> {"Manual", "manual"}
    [] status = "N/A"     -> {"N/A", "Not Applicable", "Skipped", "NotRun", "MUTED"}

\* Mapped if the map has the name, unchanged otherwise.
Canonical(native) ==
  IF \E s \in Statuses : native \in NativeNames(s)
  THEN CHOOSE s \in Statuses : native \in NativeNames(s)
  ELSE native

ResolveStatus(o) ==
  IF Canonical(o.native_status) \in Statuses THEN Canonical(o.native_status) ELSE "ERROR"

\* default_severity_map
DefaultSeverity ==
  [key \in {"Shall", "Should", "May"} \X {"FAIL", "WARNING"} |->
     CASE key = <<"Shall", "FAIL">> -> 4
       [] key \in {<<"Shall", "WARNING">>, <<"Should", "FAIL">>} -> 3
       [] key = <<"Should", "WARNING">> -> 2
       [] OTHER -> 1]

Listed(o, key) ==
  CASE key \in DOMAIN AdapterSeverity[o.tool] -> AdapterSeverity[o.tool][key]
    [] key \notin DOMAIN AdapterSeverity[o.tool] /\ key \in DOMAIN DefaultSeverity ->
         DefaultSeverity[key]
    [] OTHER -> MEDIUM

\* Mutant: only the names of the domain pass, not the aliases of the tools.
ResolveSeverity_NoAlias(o) ==
  IF o.native_status \in Passing
  THEN INFO
  ELSE Listed(o, <<o.native_severity, Canonical(o.native_status)>>)

\* What passes or does not apply is INFO; the rest is looked up.
ResolveSeverity(o) ==
  IF Canonical(o.native_status) \in Passing
  THEN INFO
  ELSE Listed(o, <<o.native_severity, Canonical(o.native_status)>>)

\* default_category_map
DefaultCategory ==
  [aad |-> "IDENTITY_ACCESS", entra |-> "IDENTITY_ACCESS", exo |-> "EMAIL_COLLABORATION",
   sharepoint |-> "DATA_PROTECTION", teams |-> "EMAIL_COLLABORATION",
   defender |-> "EMAIL_COLLABORATION", powerplatform |-> "APPLICATION_SECURITY",
   intune |-> "DEVICE_MANAGEMENT", azure |-> "INFRASTRUCTURE_SECURITY",
   network |-> "NETWORK_SECURITY"]

CategoryNamed(key) == IF key \in DOMAIN CategoryWeight THEN key ELSE "COMPLIANCE"

\* The adapter's map by prefix, check id and native category, then the default
\* one by prefix and check id, then the fallback.
ResolveCategory(o) ==
  LET names == <<Prefix[o.native_check_id], o.native_check_id, o.native_category>>
      Hits(last, map) == {k \in 1..last : names[k] # "" /\ names[k] \in DOMAIN map}
      own == AdapterCategory[o.tool]
      owned == Hits(3, own)
      default == Hits(2, DefaultCategory)
  IN  CASE owned # {} -> CategoryNamed(own[names[Min(owned)]])
        [] owned = {} /\ default # {} -> DefaultCategory[names[Min(default)]]
        [] OTHER -> "COMPLIANCE"

ResolveKey(o) ==
  IF o.native_check_id \in DOMAIN DedupKey
  THEN DedupKey[o.native_check_id]
  ELSE o.tool \o ":" \o o.native_check_id

NormalizeOne(o) ==
  [finding_key |-> ResolveKey(o), dedup_keys |-> {ResolveKey(o)}, tool |-> o.tool,
   native_check_id |-> o.native_check_id, severity |-> ResolveSeverity(o),
   status |-> ResolveStatus(o), category |-> ResolveCategory(o)]

\* _run_normalize: one tool after the other, in the order they first report.
Normalized(obs) ==
  LET First(i) == Min({j \in DOMAIN obs : obs[j].tool = obs[i].tool})
      order == InOrder(DOMAIN obs, [i \in DOMAIN obs |-> <<-First(i), -i>>])
  IN  [k \in DOMAIN obs |-> NormalizeOne(obs[order[k]])]

---------------------------------------------------------------------------
(* Merging a group, a sequence of findings *)

StatusPriority == <<"FAIL", "ERROR", "WARNING", "MANUAL", "PASS", "N/A">>

ReconcileSeverity(group) == Max({group[i].severity : i \in DOMAIN group})

ReconcileStatus(group) ==
  StatusPriority[Min({k \in DOMAIN StatusPriority :
                        \E i \in DOMAIN group : group[i].status = StatusPriority[k]})]

\* Mutant: whichever of the highest findings comes first gives the title.
ReconcileTitle_First(group) ==
  LET f == FirstMax(group, [g \in ToSet(group) |-> <<g.severity>>])
  IN  <<f.tool, f.native_check_id>>

ReconcileTitle(group) ==
  LET f == FirstMax(group, [g \in ToSet(group) |->
                              <<g.severity, TextRank[g.tool], TextRank[g.native_check_id]>>])
  IN  <<f.tool, f.native_check_id>>

ReconcileCategory(group) ==
  FirstMax(group, [g \in ToSet(group) |-> <<g.severity, TextRank[g.category]>>]).category

\* _select_canonical_finding_key
CanonicalKey(group) ==
  FirstMax(group, [g \in ToSet(group) |-> <<g.severity, TextRank[g.finding_key]>>]).finding_key

Tools(group) == {group[i].tool : i \in DOMAIN group}

\* corroboration_scores: the highest tier that is not above n.
Corroboration(n) == <<4000, 7000, 8500, 9500>>[Min({n, 4})]

\* evidence_strength, corroboration, data_freshness (1.0) and provenance (0.7),
\* weighted in hundredths.
Confidence(group) ==
  LET n == Cardinality(Tools(group))
      evidence == Min({10000, 6000 + 1000 * n})
  IN  (evidence * 30 + Corroboration(n) * 35 + 10000 * 20 + 7000 * 15) \div 100

MergeGroup(group) ==
  [finding_key |-> CanonicalKey(group), title |-> ReconcileTitle(group),
   severity |-> ReconcileSeverity(group), status |-> ReconcileStatus(group),
   category |-> ReconcileCategory(group),
   sources |-> [i \in DOMAIN group |-> <<group[i].tool, group[i].native_check_id>>],
   corroborating_tools |-> Cardinality(Tools(group)), overall |-> Confidence(group)]

---------------------------------------------------------------------------
(* Severity suggestions.  A rule set has thresholds per severity, a global *)
(* downgrade threshold, an upgrade threshold, and a floor and a ceiling    *)
(* (0 and 4 where the rules have none).                                    *)

Downgrade(s) == Max({s - 1, 0})
Upgrade(s) == Min({s + 1, 4})

EffectiveThreshold(f, r) == Max({r.escalation_thresholds[f.severity], r.downgrade_threshold})

\* suggest_adjustments, for one finding: the severity suggested, if any.
Adjustments(f, r) ==
  IF f.status \in Passing
  THEN {}
  ELSE IF f.overall < EffectiveThreshold(f, r)
       THEN {s \in {Downgrade(f.severity)} : s # f.severity /\ s >= r.minimum_severity}
       ELSE {s \in {Upgrade(f.severity)} :
               f.overall >= r.upgrade_threshold /\ s # f.severity /\ s <= r.maximum_severity}

\* Mutant: the floor is forgotten in the second of the two.
CheckEscalation_NoFloor(f, r) ==
  /\ f.status \notin Passing
  /\ f.overall < EffectiveThreshold(f, r)
  /\ Downgrade(f.severity) # f.severity

CheckEscalation(f, r) ==
  /\ f.status \notin Passing
  /\ f.overall < EffectiveThreshold(f, r)
  /\ Downgrade(f.severity) # f.severity
  /\ Downgrade(f.severity) >= r.minimum_severity

---------------------------------------------------------------------------
(* Roadmap and reports *)

Phase(f) == <<"LONG_TERM", "LONG_TERM", "MEDIUM_TERM", "SHORT_TERM", "IMMEDIATE">>[f.severity + 1]

\* Severity 0.40, confidence 0.25, category 0.20 and corroboration 0.15.
Priority(f) ==
  4000 * <<10, 25, 50, 75, 100>>[f.severity + 1] + 25 * f.overall
  + 10000 * CategoryWeight[f.category] + 1500 * Min({100, 25 * f.corroborating_tools})

AssignPhases(fs) ==
  LET order == Descending(fs, [f \in ToSet(fs) |-> <<Priority(f), -TextRank[f.finding_key]>>])
  IN  [k \in DOMAIN order |-> [finding_key |-> order[k].finding_key, phase |-> Phase(order[k]),
                               priority_score |-> Priority(order[k])]]

\* suppression_rules drop what passed or does not apply.
ApplySuppression(fs) == Kept(fs, {i \in DOMAIN fs : fs[i].status \notin Passing})

\* An audience has a minimum severity, a minimum confidence and a length.
FilterForAudience(fs, a) ==
  LET shown == Kept(fs, {i \in DOMAIN fs : /\ fs[i].severity >= a.minimum_severity
                                           /\ fs[i].overall >= a.minimum_confidence})
      order == Descending(shown, [f \in ToSet(shown) |->
                                    <<f.severity, f.overall, TextRank[f.finding_key]>>])
  IN  SubSeq(order, 1, Min({Len(order), a.max_findings}))
=============================================================================
