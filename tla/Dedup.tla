-------------------------------- MODULE Dedup --------------------------------
(***************************************************************************)
(* consolidation/dedup.py: findings that share a dedup key are grouped by  *)
(* a union-find structure with union by rank and path compression.         *)
(*                                                                         *)
(* A list of findings is a sequence of records with a field dedup_keys.    *)
(* Keys are taken as stripped; Blank stands for one that strips to         *)
(* nothing.  The unions are made one by one in any order: the order of the *)
(* dictionary they come from is the order in which adapters report.        *)
(***************************************************************************)
EXTENDS Naturals, Sequences, FiniteSets, FiniteSetsExt

CONSTANT Blank   \* the dedup key that strips to nothing

VARIABLES
  findings,      \* the argument of group
  parent, rank,  \* _DisjointSet, over the indices of findings
  pending        \* unions still to be made

dedupVars == <<findings, parent, rank, pending>>

---------------------------------------------------------------------------
(* The keys *)

ValidKeys(f) == f.dedup_keys \ {Blank}

\* key_to_indices, without the keys.
Indices(fs) ==
  LET keys == UNION {ValidKeys(fs[i]) : i \in DOMAIN fs}
  IN  {{i \in DOMAIN fs : k \in ValidKeys(fs[i])} : k \in keys}

\* For every key, its first finding with each later one.
Links(fs) == UNION {{<<Min(I), i>> : i \in I \ {Min(I)}} : I \in Indices(fs)}

\* group starts fresh: every finding is a set of its own.
StartGrouping ==
  /\ parent' = [i \in DOMAIN findings |-> i]
  /\ rank' = [i \in DOMAIN findings |-> 0]
  /\ pending' = Links(findings)
  /\ UNCHANGED findings

---------------------------------------------------------------------------
(* find and union *)

\* What the walk of find visits: at most as many steps as there are findings.
Path(p, x) ==
  LET walk[k \in 0..Len(p)] == IF k = 0 THEN x ELSE p[walk[k - 1]]
  IN  {walk[k] : k \in 0..Len(p)}

Root(p, x) == CHOOSE r \in Path(p, x) : p[r] = r

\* Path compression: all that was walked over points to the root afterwards.
Compressed(p, x) == [i \in DOMAIN p |-> IF i \in Path(p, x) THEN Root(p, x) ELSE p[i]]

\* Mutant: the taller tree goes under the lower one.
Attach_ByRankReversed(p, x, y) ==
  IF rank[x] > rank[y] THEN [p EXCEPT ![x] = y] ELSE [p EXCEPT ![y] = x]

\* The lower tree goes under the root of the taller one.
Attach(p, x, y) == IF rank[x] < rank[y] THEN [p EXCEPT ![x] = y] ELSE [p EXCEPT ![y] = x]

Raised(x, y) == IF rank[x] = rank[y] THEN [rank EXCEPT ![x] = @ + 1] ELSE rank

\* Mutant: the second element is attached, not the root of its tree.
Union_Shallow(x, y) ==
  LET rx == Root(parent, x)
      found == Compressed(parent, x)
  IN  IF rx = Root(parent, y)
      THEN parent' = found /\ UNCHANGED rank
      ELSE parent' = Attach(found, rx, y) /\ rank' = Raised(rx, y)

Union(x, y) ==
  LET rx == Root(parent, x)
      ry == Root(parent, y)
      found == Compressed(Compressed(parent, x), y)
  IN  IF rx = ry
      THEN parent' = found /\ UNCHANGED rank
      ELSE parent' = Attach(found, rx, ry) /\ rank' = Raised(rx, ry)

MakeUnion(link) ==
  /\ Union(link[1], link[2])
  /\ pending' = pending \ {link}
  /\ UNCHANGED findings

\* The loop that reads the groups off also compresses.
ReadGroup(i) ==
  /\ pending = {}
  /\ parent' = Compressed(parent, i)
  /\ UNCHANGED <<findings, rank, pending>>

Group(i) ==
  LET root == Root(parent, i)
  IN  {j \in DOMAIN parent : Root(parent, j) = root}

---------------------------------------------------------------------------
(* What grouping is for, without the data structure *)

\* The findings that a chain of pairs in R connects with i.
Connected(n, R, i) ==
  LET reach[k \in 0..n] ==
        IF k = 0 THEN {i}
        ELSE reach[k - 1] \cup {l[1] : l \in {m \in R : m[2] \in reach[k - 1]}}
                         \cup {l[2] : l \in {m \in R : m[1] \in reach[k - 1]}}
  IN  reach[n]

---------------------------------------------------------------------------
(* Properties *)

\* find always ends: ranks grow along the pointers, compressed or not.
RanksGrow == \A i \in DOMAIN parent : parent[i] # i => rank[i] < rank[parent[i]]

\* At any moment the groups are what the unions made so far connect: no union
\* and no compression loses or adds a finding.
GroupsSoFar ==
  LET made == Links(findings) \ pending
  IN  \A i \in DOMAIN parent : Group(i) = Connected(Len(findings), made, i)
=============================================================================
