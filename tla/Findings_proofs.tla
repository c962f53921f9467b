--------------------------- MODULE Findings_proofs ---------------------------
(***************************************************************************)
(* What a consolidation makes of any findings, and what then stays true of *)
(* the stored rows, of what a run carries and of the overrides, for any    *)
(* finite set of findings and any number of consolidations.                *)
(*                                                                         *)
(* Three things carry the proofs: a cluster is the least set of findings   *)
(* that shared keys close, so that clusters with a key in common are one;  *)
(* a group that is not empty has a member of the highest severity and,     *)
(* among those, one of the greatest key; and a key that was never dropped  *)
(* or repeated (not in unsettled) has had one row at a time ever since it  *)
(* has one.                                                                *)
(***************************************************************************)
EXTENDS Findings, FiniteSetTheorems, WellFoundedInduction, TLAPS

Labels == {"idle", "consolidate", "review", "render"}
Rows == [id: [run: Nat, group: SUBSET Universe], finding_key: {f.finding_key : f \in Universe},
         severity: Severities]

TypeOK ==
  /\ parsed \subseteq Universe /\ findings \subseteq Universe
  /\ consolidated \subseteq Rows /\ held \subseteq Rows
  /\ overrides \subseteq [finding_id: {r.id : r \in Rows}, new: Severities,
                          finding_key: {f.finding_key : f \in Universe}]
  /\ runs \in Nat /\ at \in Labels

\* A key that is settled has at most one row.
OneRowPerKey ==
  \A r, s \in consolidated :
    r.finding_key = s.finding_key /\ r.finding_key \notin unsettled => r = s

IInv == TypeOK /\ OneRowPerKey /\ OverridesLinked /\ HeldIsStored

---------------------------------------------------------------------------
(* Greatest elements                                                        *)

\* Whatever findings are ranked by, some member of a group ranks highest: a
\* least set without such a member would have one as soon as it has another.
LEMMA HighestExists ==
  ASSUME NEW rank \in [Universe -> Int], NEW group \in SUBSET Universe, group # {}
  PROVE  \E f \in group : \A g \in group : rank[g] <= rank[f]
<1> DEFINE Top(S) == \E f \in S : \A g \in S : rank[g] <= rank[f]
           T == {S \in SUBSET Universe : S # {} /\ ~Top(S)}
           R == StrictSubsetOrdering(Universe)
<1>1. IsWellFoundedOn(R, SUBSET Universe)
  <2>1. FiniteSubsetsOf(Universe) = SUBSET Universe
    BY FindingsAssumption, FS_FiniteSubsetsOfFinite DEF FindingsAssumption
  <2>2. IsWellFoundedOn(R, FiniteSubsetsOf(Universe))
    BY FS_StrictSubsetOrderingWellFounded
  <2> QED
    BY <2>1, <2>2
<1>2. ASSUME T # {} PROVE FALSE
  <2>1. PICK S \in T : \A U \in T : <<U, S>> \notin R
    <3> HIDE DEF R
    <3> QED
      BY <1>1, <1>2, WFMin
  <2>2. PICK f \in S : TRUE
    OBVIOUS
  <2>3. Top({f})
    OBVIOUS
  <2>4. S \ {f} # {} /\ S \ {f} \in SUBSET Universe /\ <<S \ {f}, S>> \in R
    BY <2>3 DEF StrictSubsetOrdering
  <2>5. Top(S \ {f})
    BY <2>1, <2>4
  <2>6. PICK g \in S \ {f} : \A h \in S \ {f} : rank[h] <= rank[g]
    BY <2>5
  <2>7. rank[f] \in Int /\ \A h \in S : rank[h] \in Int
    OBVIOUS
  <2>8. CASE rank[f] <= rank[g]
    BY <2>6, <2>8
  <2>9. CASE rank[g] <= rank[f]
    <3>1. \A h \in S : rank[h] <= rank[f]
      BY <2>6, <2>7, <2>9
    <3> QED
      BY <3>1
  <2> QED
    BY <2>7, <2>8, <2>9
<1> QED
  BY <1>2

\* The severity of a merged finding is that of a member, and of none a higher one.
LEMMA HighestSeverity ==
  ASSUME NEW group \in SUBSET Universe, group # {}
  PROVE  /\ \E f \in group : f.severity = Highest(group)
         /\ \A f \in group : f.severity <= Highest(group)
<1> DEFINE S == {f.severity : f \in group}
           rank == [f \in Universe |-> f.severity]
<1>1. \A f \in Universe : f.severity \in Int
  BY FindingsAssumption DEF FindingsAssumption, Severities
<1>2. PICK f \in group : \A g \in group : rank[g] <= rank[f]
  <2>1. rank \in [Universe -> Int]
    BY <1>1
  <2> HIDE DEF rank
  <2> QED
    BY <2>1, HighestExists
<1>3. f.severity \in S /\ \A y \in S : f.severity >= y
  BY <1>1, <1>2
<1>4. Max(S) \in S /\ \A y \in S : Max(S) >= y
  BY <1>3 DEF Max
<1> QED
  BY <1>1, <1>4 DEF Highest

\* A group's key is that of a member that has the group's severity.
LEMMA CanonicalOfMember ==
  ASSUME NEW group \in SUBSET Universe, group # {}
  PROVE  \E f \in group : f.finding_key = CanonicalKey(group) /\ f.severity = Highest(group)
<1> DEFINE top == {g \in group : g.severity = Highest(group)}
           keys == {f.finding_key : f \in top}
           rank == [f \in Universe |-> TextRank[f.finding_key]]
<1>1. top # {} /\ top \in SUBSET Universe
  BY HighestSeverity
<1>2. PICK f \in top : \A g \in top : rank[g] <= rank[f]
  <2>1. rank \in [Universe -> Int]
    BY FindingsAssumption DEF FindingsAssumption
  <2> HIDE DEF rank, top
  <2> QED
    BY <1>1, <2>1, HighestExists
<1>3. f.finding_key \in keys /\ \A l \in keys : TextRank[l] <= TextRank[f.finding_key]
  BY <1>1, <1>2
<1>4. TextMax(keys) \in keys
  BY <1>3 DEF TextMax
<1> QED
  BY <1>4 DEF CanonicalKey

---------------------------------------------------------------------------
(* Clusters                                                                 *)

LEMMA ClusterClosed ==
  ASSUME NEW fs, NEW f \in fs
  PROVE  f \in Cluster(f, fs) /\ Cluster(f, fs) \subseteq fs /\ Closed(Cluster(f, fs), fs)
BY DEF Cluster, Closed

\* Connection is symmetric: what f's chain reaches has f in its own.
LEMMA ClusterOfMember ==
  ASSUME NEW fs, NEW f \in fs, NEW g \in Cluster(f, fs)
  PROVE  Cluster(g, fs) = Cluster(f, fs)
<1>0. g \in fs
  BY ClusterClosed
<1>1. Cluster(g, fs) \subseteq Cluster(f, fs)
  BY ClusterClosed DEF Cluster
<1>2. f \in Cluster(g, fs)
  <2> SUFFICES ASSUME f \notin Cluster(g, fs) PROVE FALSE
    OBVIOUS
  <2> DEFINE S == Cluster(f, fs) \ Cluster(g, fs)
  <2>1. f \in S /\ S \in SUBSET fs
    BY ClusterClosed
  <2>2. Closed(S, fs)
    <3> SUFFICES ASSUME NEW x \in S, NEW y \in fs, Keys(x) \cap Keys(y) # {} PROVE y \in S
      BY DEF Closed
    <3>1. y \in Cluster(f, fs)
      BY ClusterClosed DEF Closed
    <3>2. y \notin Cluster(g, fs)
      BY <1>0, <2>1, ClusterClosed DEF Closed
    <3> QED
      BY <3>1, <3>2
  <2>3. g \in S
    BY <2>1, <2>2 DEF Cluster
  <2> QED
    BY <1>0, <2>3, ClusterClosed
<1>3. Cluster(f, fs) \subseteq Cluster(g, fs)
  BY <1>0, <1>2, ClusterClosed DEF Cluster
<1> QED
  BY <1>1, <1>3

\* Two groups with members that share a key are one group.
LEMMA GroupsDisjoint ==
  ASSUME NEW fs, NEW G \in Groups(fs), NEW H \in Groups(fs),
         NEW f \in G, NEW g \in H, Keys(f) \cap Keys(g) # {}
  PROVE  G = H
<1>1. PICK a \in fs, b \in fs : G = Cluster(a, fs) /\ H = Cluster(b, fs)
  BY DEF Groups
<1>2. f \in fs /\ g \in fs /\ g \in G
  BY <1>1, ClusterClosed DEF Closed
<1> QED
  BY <1>1, <1>2, ClusterOfMember

LEMMA GroupShape ==
  ASSUME NEW fs \in SUBSET Universe, NEW G \in Groups(fs)
  PROVE  G # {} /\ G \in SUBSET fs /\ G \in SUBSET Universe
BY ClusterClosed DEF Groups

\* A row that a consolidation makes.
LEMMA MergedRow ==
  ASSUME NEW fs \in SUBSET Universe, NEW r \in Merged(fs)
  PROVE  /\ r.id.group \in Groups(fs) /\ r = Merge(r.id.group)
         /\ \E f \in r.id.group : f.finding_key = r.finding_key /\ f.severity = r.severity
<1>1. PICK G \in Groups(fs) : r = Merge(G)
  BY DEF Merged
<1>2. r.id.group = G /\ r.finding_key = CanonicalKey(G) /\ r.severity = Highest(G)
  BY <1>1 DEF Merge
<1>3. G # {} /\ G \in SUBSET Universe
  BY GroupShape
<1> QED
  BY <1>1, <1>2, <1>3, CanonicalOfMember

LEMMA MergedRows ==
  ASSUME NEW fs \in SUBSET Universe, runs \in Nat
  PROVE  Merged(fs) \subseteq Rows
<1> SUFFICES ASSUME NEW r \in Merged(fs) PROVE r \in Rows
  OBVIOUS
<1>1. PICK G \in Groups(fs) : r = Merge(G)
  BY DEF Merged
<1>2. PICK f \in r.id.group : f.finding_key = r.finding_key /\ f.severity = r.severity
  BY MergedRow
<1>3. G \in SUBSET Universe /\ r.id.group = G
  BY <1>1, GroupShape DEF Merge
<1>4. f \in Universe /\ f.severity \in Severities
  BY <1>2, <1>3, FindingsAssumption DEF FindingsAssumption
<1>5. r = [id |-> [run |-> runs + 1, group |-> G], finding_key |-> f.finding_key,
           severity |-> f.severity]
  BY <1>1, <1>2 DEF Merge
<1> QED
  BY <1>3, <1>4, <1>5 DEF Rows
---------------------------------------------------------------------------
(* What the repository stores                                               *)

\* The stored rows of a consolidation: the new ones, each with the id of a
\* stored row of its key if there is one.
LEMMA StoredForm ==
  ASSUME NEW new, NEW rows \in WithStoredIds(new)
  PROVE  \E id : /\ rows = {IF Stored(r.finding_key) # {} THEN [r EXCEPT !.id = id[r.finding_key]]
                                                         ELSE r : r \in new}
                 /\ \A r \in new : Stored(r.finding_key) # {} =>
                      \E s \in Stored(r.finding_key) : s.id = id[r.finding_key]
<1> DEFINE keep == {k \in {r.finding_key : r \in new} : Stored(k) # {}}
           Under(r, id) == IF r.finding_key \in keep THEN [r EXCEPT !.id = id[r.finding_key]] ELSE r
<1>1. PICK id \in [keep -> {r.id : r \in consolidated}] :
        /\ rows = {Under(r, id) : r \in new}
        /\ \A k \in keep : \E s \in Stored(k) : s.id = id[k]
  BY DEF WithStoredIds
<1>2. \A r \in new : r.finding_key \in keep <=> Stored(r.finding_key) # {}
  OBVIOUS
<1> HIDE DEF keep
<1>3. rows = {IF Stored(r.finding_key) # {} THEN [r EXCEPT !.id = id[r.finding_key]]
                                            ELSE r : r \in new}
  BY <1>1, <1>2
<1> QED
  BY <1>1, <1>2, <1>3

\* Each stored row is a row of the run under the id of its key.
LEMMA StoredRow ==
  ASSUME NEW new \in SUBSET Rows, consolidated \subseteq Rows, NEW rows \in WithStoredIds(new)
  PROVE  /\ rows \subseteq Rows
         /\ \A r \in rows : \E n \in new : /\ r.finding_key = n.finding_key
                                           /\ r.severity = n.severity
         /\ \A n \in new : \E r \in rows : /\ r.finding_key = n.finding_key
                                           /\ r.severity = n.severity
         /\ \A r \in rows : Stored(r.finding_key) # {} =>
              \E s \in Stored(r.finding_key) : s.id = r.id
<1>1. PICK id : /\ rows = {IF Stored(r.finding_key) # {} THEN [r EXCEPT !.id = id[r.finding_key]]
                                                        ELSE r : r \in new}
                /\ \A r \in new : Stored(r.finding_key) # {} =>
                     \E s \in Stored(r.finding_key) : s.id = id[r.finding_key]
  BY StoredForm
<1> DEFINE Under(n) == IF Stored(n.finding_key) # {} THEN [n EXCEPT !.id = id[n.finding_key]] ELSE n
<1>2. ASSUME NEW n \in new
      PROVE  /\ Under(n) \in Rows
             /\ Under(n).finding_key = n.finding_key /\ Under(n).severity = n.severity
             /\ Stored(n.finding_key) # {} => \E s \in Stored(n.finding_key) : s.id = Under(n).id
  <2>1. n \in Rows
    OBVIOUS
  <2>2. CASE Stored(n.finding_key) = {}
    BY <2>1, <2>2
  <2>3. CASE Stored(n.finding_key) # {}
    <3>1. PICK s \in consolidated : s \in Stored(n.finding_key) /\ s.id = id[n.finding_key]
      BY <1>1, <2>3 DEF Stored
    <3>2. Under(n) = [n EXCEPT !.id = s.id]
      BY <2>3, <3>1
    <3>3. s.id \in [run: Nat, group: SUBSET Universe]
      BY <3>1 DEF Rows
    <3>4. [n EXCEPT !.id = s.id] \in Rows
      BY <2>1, <3>3 DEF Rows
    <3>5. /\ [n EXCEPT !.id = s.id].finding_key = n.finding_key
          /\ [n EXCEPT !.id = s.id].severity = n.severity /\ [n EXCEPT !.id = s.id].id = s.id
      BY <2>1 DEF Rows
    <3> QED
      BY <3>1, <3>2, <3>4, <3>5
  <2> QED
    BY <2>2, <2>3
<1>3. rows = {Under(n) : n \in new}
  BY <1>1
<1> HIDE DEF Under
<1>4. \A r \in rows : \E n \in new : r = Under(n)
  BY <1>3
<1>5. \A n \in new : Under(n) \in rows
  BY <1>3
<1> QED
  BY <1>2, <1>4, <1>5

\* Rows of the same keys and severities have the same content.
LEMMA SameContent ==
  ASSUME NEW A \in SUBSET Rows, NEW B \in SUBSET Rows,
         \A r \in A : \E s \in B : r.finding_key = s.finding_key /\ r.severity = s.severity,
         \A s \in B : \E r \in A : r.finding_key = s.finding_key /\ r.severity = s.severity
  PROVE  Content(A) = Content(B)
<1> DEFINE C(r) == [id |-> 0, finding_key |-> r.finding_key, severity |-> r.severity]
<1>1. \A S \in SUBSET Rows : Content(S) = {C(r) : r \in S}
  <2>1. \A r \in Rows : [r EXCEPT !.id = 0] = C(r)
    BY DEF Rows
  <2> HIDE DEF C
  <2> QED
    BY <2>1 DEF Content
<1>2. /\ \A r \in A : \E s \in B : C(r) = C(s)
      /\ \A s \in B : \E r \in A : C(r) = C(s)
  OBVIOUS
<1>3. {C(r) : r \in A} = {C(s) : s \in B}
  <2> HIDE DEF C
  <2> QED
    BY <1>2
<1>4. Content(A) = {C(r) : r \in A}
  BY <1>1
<1>5. Content(B) = {C(r) : r \in B}
  BY <1>1
<1> HIDE DEF C
<1> QED
  BY <1>3, <1>4, <1>5

---------------------------------------------------------------------------
(* The invariant                                                            *)

LEMMA InitInv == Init => IInv
BY DEF Init, IInv, TypeOK, Labels, OneRowPerKey, OverridesLinked, HeldIsStored

\* An override changes the severity of one row, and records its id and key.
LEMMA OverrideInv ==
  ASSUME IInv, NEW r \in consolidated, NEW s \in Severities, OverrideSeverity(r, s)
  PROVE  IInv'
<1> DEFINE new == [r EXCEPT !.severity = s]
           o == [finding_id |-> r.id, finding_key |-> r.finding_key, new |-> s]
<1>1. r \in Rows
  BY DEF IInv, TypeOK
<1>2. /\ new \in Rows /\ new.id = r.id /\ new.finding_key = r.finding_key
      /\ new.severity = s
  BY <1>1 DEF Rows
<1>3. /\ consolidated' = (consolidated \ {r}) \cup {new} /\ overrides' = overrides \cup {o}
      /\ UNCHANGED <<parsed, runs, at, findings, held, unsettled>> /\ at = "idle"
  BY DEF OverrideSeverity
<1>4. o \in [finding_id: {x.id : x \in Rows}, new: Severities,
             finding_key: {f.finding_key : f \in Universe}]
  BY <1>1 DEF Rows
<1> HIDE DEF new
<1>5. TypeOK'
  BY <1>2, <1>3, <1>4 DEF IInv, TypeOK
<1>6. OneRowPerKey'
  BY <1>2, <1>3 DEF IInv, OneRowPerKey
<1>7. OverridesLinked'
  <2> SUFFICES ASSUME NEW p \in overrides', p.finding_key \notin unsettled'
               PROVE  \E x \in consolidated' : x.id = p.finding_id /\ x.finding_key = p.finding_key
    BY DEF OverridesLinked
  <2>1. CASE p \in overrides
    <3>1. PICK x \in consolidated : x.id = p.finding_id /\ x.finding_key = p.finding_key
      BY <1>3, <2>1 DEF IInv, OverridesLinked
    <3> QED
      BY <1>2, <1>3, <3>1
  <2>2. CASE p = o
    BY <1>2, <1>3, <2>2
  <2> QED
    BY <1>3, <2>1, <2>2
<1>8. HeldIsStored'
  BY <1>3 DEF HeldIsStored
<1> QED
  BY <1>5, <1>6, <1>7, <1>8 DEF IInv

\* A consolidation leaves one row of each settled key, under the id it had, and
\* what the run goes on with differs from what is stored in nothing but the ids.
LEMMA ConsolidateInv ==
  ASSUME IInv, Consolidate
  PROVE  IInv'
<1>1. PICK rows \in WithStoredIds(Merged(findings)) :
        /\ consolidated' = rows
        /\ unsettled' = unsettled \cup Dropped(rows) \cup Repeated(rows)
  BY DEF Consolidate
<1>2. /\ held' = Merged(findings) /\ runs' = runs + 1 /\ at' = "review" /\ findings' = {}
      /\ UNCHANGED <<parsed, overrides>>
  BY DEF Consolidate
<1>3. Merged(findings) \subseteq Rows /\ consolidated \subseteq Rows
  BY MergedRows DEF IInv, TypeOK
<1>4. /\ rows \subseteq Rows
      /\ \A r \in rows : \E n \in Merged(findings) : /\ r.finding_key = n.finding_key
                                                     /\ r.severity = n.severity
      /\ \A n \in Merged(findings) : \E r \in rows : /\ r.finding_key = n.finding_key
                                                     /\ r.severity = n.severity
      /\ \A r \in rows : Stored(r.finding_key) # {} =>
           \E s \in Stored(r.finding_key) : s.id = r.id
  BY <1>3, StoredRow
<1>5. TypeOK'
  BY <1>1, <1>2, <1>3, <1>4 DEF IInv, TypeOK, Labels
<1>6. OneRowPerKey'
  BY <1>1 DEF OneRowPerKey, Repeated
<1>7. OverridesLinked'
  <2> SUFFICES ASSUME NEW o \in overrides, o.finding_key \notin unsettled'
               PROVE  \E r \in rows : r.id = o.finding_id /\ r.finding_key = o.finding_key
    BY <1>1, <1>2 DEF OverridesLinked
  <2>1. PICK s \in consolidated : s.id = o.finding_id /\ s.finding_key = o.finding_key
    BY <1>1 DEF IInv, OverridesLinked
  <2>2. PICK r \in rows : r.finding_key = o.finding_key
    BY <1>1, <2>1 DEF Dropped
  <2>3. PICK t \in Stored(o.finding_key) : t.id = r.id
    BY <1>4, <2>1, <2>2 DEF Stored
  <2>4. t = s
    BY <1>1, <2>1, <2>3 DEF IInv, OneRowPerKey, Stored
  <2> QED
    BY <2>1, <2>2, <2>3, <2>4
<1>8. HeldIsStored'
  BY <1>1, <1>2, <1>3, <1>4, SameContent DEF HeldIsStored
<1> QED
  BY <1>5, <1>6, <1>7, <1>8 DEF IInv

LEMMA StepInv == IInv /\ [Next]_vars => IInv'
<1> SUFFICES ASSUME IInv, [Next]_vars PROVE IInv'
  OBVIOUS
<1>1. ASSUME NEW batch \in SUBSET ToolFindings, Normalize(batch) PROVE IInv'
  BY <1>1 DEF Normalize, IInv, TypeOK, Labels, Universe, OneRowPerKey, OverridesLinked,
              HeldIsStored
<1>2. CASE RunFromConsolidate
  BY <1>2 DEF RunFromConsolidate, IInv, TypeOK, Labels, OneRowPerKey, OverridesLinked,
              HeldIsStored
<1>3. CASE Consolidate
  BY <1>3, ConsolidateInv
<1>4. CASE ConsolidateFails
  BY <1>4 DEF ConsolidateFails, EndRun, IInv, TypeOK, Labels, OneRowPerKey, OverridesLinked,
              HeldIsStored
<1>5. CASE RunFromReview \/ RunFromRender
  BY <1>5 DEF RunFromReview, RunFromRender, IInv, TypeOK, Labels, OneRowPerKey,
              OverridesLinked, HeldIsStored
<1>6. CASE Review
  BY <1>6 DEF Review, IInv, TypeOK, Labels, OneRowPerKey, OverridesLinked, HeldIsStored
<1>7. CASE RunEnds
  BY <1>7 DEF RunEnds, EndRun, IInv, TypeOK, Labels, OneRowPerKey, OverridesLinked,
              HeldIsStored
<1>8. ASSUME NEW r \in consolidated, NEW s \in Severities, OverrideSeverity(r, s) PROVE IInv'
  BY <1>8, OverrideInv
<1>9. ASSUME NEW f \in ManualFindings, AddManualFinding(f) PROVE IInv'
  BY <1>9 DEF AddManualFinding, IInv, TypeOK, Labels, Universe, OneRowPerKey,
              OverridesLinked, HeldIsStored
<1>10. CASE UNCHANGED vars
  BY <1>10 DEF vars, IInv, TypeOK, OneRowPerKey, OverridesLinked, HeldIsStored
<1> QED
  BY <1>1, <1>2, <1>3, <1>4, <1>5, <1>6, <1>7, <1>8, <1>9, <1>10 DEF Next

LEMMA AlwaysInv == Spec => []IInv
BY InitInv, StepInv, PTL DEF Spec

---------------------------------------------------------------------------
(* Theorems                                                                 *)

\* The key that _select_canonical_finding_key picks and the severity that
\* merge_group picks belong to one member of the group, for any findings.
THEOREM KeyAndSeverityAgree == Spec => []KeyCarriesSeverity
<1>1. IInv => KeyCarriesSeverity
  BY MergedRow DEF IInv, TypeOK, KeyCarriesSeverity
<1> QED
  BY <1>1, AlwaysInv, PTL

\* A run takes to QA and to the report what save_consolidated_findings stored,
\* but for the ids, whatever runs and overrides came before.
THEOREM ReportsTheStored == Spec => []HeldIsStored
<1>1. IInv => HeldIsStored
  BY DEF IInv
<1> QED
  BY <1>1, AlwaysInv, PTL

\* save_consolidated_findings never meets its own primary key when every finding
\* names its key among its dedup keys: two groups cannot have one key.
THEOREM ConsolidationSaves == Spec => []SavesSucceed
<1>1. IInv => SavesSucceed
  <2> SUFFICES ASSUME IInv, KeyedBySelf(findings),
                      NEW r \in Merged(findings), NEW s \in Merged(findings),
                      r.finding_key = s.finding_key
               PROVE  r = s
    BY DEF SavesSucceed, Insertable
  <2>1. findings \in SUBSET Universe
    BY DEF IInv, TypeOK
  <2>2. PICK f \in r.id.group : f.finding_key = r.finding_key
    BY <2>1, MergedRow
  <2>3. PICK g \in s.id.group : g.finding_key = s.finding_key
    BY <2>1, MergedRow
  <2>4. r.id.group \in Groups(findings) /\ s.id.group \in Groups(findings)
    BY <2>1, MergedRow
  <2>5. f \in findings /\ g \in findings
    BY <2>1, <2>2, <2>3, <2>4, GroupShape
  <2>6. f.finding_key \in Keys(f) \cap Keys(g)
    BY <2>2, <2>3, <2>5 DEF KeyedBySelf
  <2>7. r.id.group = s.id.group
    BY <2>2, <2>3, <2>4, <2>6, GroupsDisjoint
  <2> QED
    BY <2>1, <2>7, MergedRow
<1> QED
  BY <1>1, AlwaysInv, PTL

\* An override finds its finding again after any number of consolidations
\* (save_consolidated_findings keeps the stored id of a key), as long as none
\* of them dropped the key or gave it several rows.
THEOREM OverridesStayLinked == Spec => []OverridesLinked
<1>1. IInv => OverridesLinked
  BY DEF IInv
<1> QED
  BY <1>1, AlwaysInv, PTL
=============================================================================
