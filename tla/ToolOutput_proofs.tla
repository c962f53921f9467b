------------------------- MODULE ToolOutput_proofs -------------------------
(***************************************************************************)
(* What an adapter runs and what it takes for its output, for any policy,  *)
(* any overrides and installed copies, any API and any number of runs.     *)
(*                                                                         *)
(* No configuration widens what an adapter may run: the override is judged *)
(* when a run begins (Admitted), the module copy by the narrowed policy    *)
(* when it is verified (Judged); neither changes afterwards, because no    *)
(* run becomes "new" again.                                                *)
(*                                                                         *)
(* What a run stores is its own: while it has output_dir to itself, all    *)
(* that is there was there before it or comes from it, and all that it     *)
(* wrote is there (Undisturbed); what it finds is then told apart by name  *)
(* or by time from what was there before (FoundOwn); and a tool that the   *)
(* adapter waited for writes no more (RunInv).  What an API adapter writes *)
(* is whole because the loop over the pages goes from link to link and     *)
(* ends only where there is none (PagesInv).  A step of one run is nothing *)
(* to another, for if the other had the directory to itself, the first has *)
(* no part in it (Others).                                                 *)
(***************************************************************************)
EXTENDS ToolOutput, FiniteSetTheorems, SequenceTheorems, TLAPS

Conf == [over: Overrides, redirect: BOOLEAN, ingest: BOOLEAN]

Shape ==
  /\ pc \in [Runs -> Labels]
  /\ conf \in [Runs -> Conf]
  /\ DOMAIN ran = Runs

Admitted == \A r \in Runs : Narrows(conf[r].over, Policy)

Judged ==
  \A r \in Runs :
    /\ pc[r] = "new" => ran[r] = NoModule
    /\ ran[r] # NoModule => Approved(ran[r], Effective(conf[r].over, Policy))

IInv == Shape /\ Admitted /\ Judged

---------------------------------------------------------------------------
(* About verification                                                       *)

\* The module that verify_module hands out is one that the policy approves.
LEMMA ChosenApproved ==
  ASSUME NEW found, NEW policy, Chosen(found, policy) # NoModule
  PROVE  Approved(Chosen(found, policy), policy)
<1> DEFINE executable == {c \in found : Approved(c, policy) /\ c.supported}
<1>1. Cardinality(executable) = 1 /\ Chosen(found, policy) = CHOOSE c \in executable : TRUE
  BY DEF Chosen
<1>2. executable # {}
  BY <1>1, FS_EmptySet
<1>3. Chosen(found, policy) \in executable
  BY <1>1, <1>2
<1> QED
  BY <1>3

\* An override that is accepted leaves only modules of the policy, and its own.
LEMMA NarrowedApproved ==
  ASSUME NEW c, NEW o \in Overrides, Narrows(o, Policy), Approved(c, Effective(o, Policy))
  PROVE  /\ Approved(c, Policy)
         /\ o.pin # NoPin => c.version = o.pin
         /\ o.hashes # {} => c.hash \in o.hashes
<1> DEFINE effective == Effective(o, Policy)
<1>1. /\ effective.versions = IF o.pin = NoPin THEN Policy.versions ELSE {o.pin}
      /\ effective.hashes = IF o.hashes = {} THEN Policy.hashes ELSE o.hashes
      /\ effective.fallback = Policy.fallback
  BY ToolOutputAssumption DEF Effective, ToolOutputAssumption
<1>2. /\ c.version \in effective.versions /\ c.hash \in effective.hashes
      /\ c.signed \/ effective.fallback
  BY DEF Approved
<1> QED
  BY <1>1, <1>2 DEF Narrows, Approved

---------------------------------------------------------------------------
(* The invariant                                                            *)

LEMMA InitInv == Init => IInv
<1> SUFFICES ASSUME Init PROVE IInv
  OBVIOUS
<1>1. \A r \in Runs : conf[r].over = NoOverride /\ ran[r] = NoModule
  BY DEF Init
<1>2. Shape
  BY ToolOutputAssumption DEF Init, Shape, Conf, Labels, ToolOutputAssumption
<1>3. Narrows(NoOverride, Policy)
  BY DEF Narrows, NoOverride
<1> QED
  BY <1>1, <1>2, <1>3 DEF IInv, Admitted, Judged

\* A step that neither configures nor verifies a run, nor makes one new.
LEMMA Untouched ==
  ASSUME IInv, UNCHANGED <<conf, ran>>,
         \/ UNCHANGED pc
         \/ \E r \in Runs, label \in Labels \ {"new"} : Goto(r, label)
  PROVE  IInv'
BY DEF IInv, Shape, Admitted, Judged, Goto

\* A run that is configured has not verified anything.
LEMMA Configured ==
  ASSUME IInv, NEW r \in Runs, NEW c \in Conf, Narrows(c.over, Policy), pc[r] = "new",
         NEW label \in Labels \ {"new"}, Goto(r, label),
         conf' = [conf EXCEPT ![r] = c], UNCHANGED ran
  PROVE  IInv'
<1>1. Shape'
  BY DEF IInv, Shape, Goto
<1>2. Admitted'
  BY DEF IInv, Shape, Admitted
<1>3. Judged'
  BY DEF IInv, Shape, Judged, Goto
<1> QED
  BY <1>1, <1>2, <1>3 DEF IInv

LEMMA StepInv == IInv /\ [Next]_vars => IInv'
<1> SUFFICES ASSUME IInv, [Next]_vars PROVE IInv'
  OBVIOUS
<1> USE DEF Labels, Active
<1>1. ASSUME NEW r \in Runs, Begin(r) PROVE IInv'
  <2>1. PICK over \in Overrides, redirect \in BOOLEAN :
          /\ Narrows(over, Policy)
          /\ conf' = [conf EXCEPT ![r] = [over |-> over, redirect |-> redirect, ingest |-> FALSE]]
    BY <1>1, ToolOutputAssumption DEF Begin, Redirects, ToolOutputAssumption
  <2>2. PICK label \in Labels \ {"new"} : Goto(r, label)
    BY <1>1 DEF Begin, BeginModule, BeginMaester, BeginScript, BeginProwler, BeginFetch
  <2>3. pc[r] = "new" /\ UNCHANGED ran
    BY <1>1 DEF Begin, IsNext
  <2> QED
    BY <2>1, <2>2, <2>3, Configured DEF Conf
<1>2. ASSUME NEW r \in Runs, Ingest(r) PROVE IInv'
  <2>1. conf[r] \in Conf /\ Narrows(conf[r].over, Policy)
    BY DEF IInv, Shape, Admitted
  <2>2. conf' = [conf EXCEPT ![r] = [conf[r] EXCEPT !.ingest = TRUE]]
    BY <1>2, <2>1 DEF Ingest, Conf
  <2>3. pc[r] = "new" /\ UNCHANGED ran /\ Goto(r, "save")
    BY <1>2 DEF Ingest, IsNext
  <2>4. [conf[r] EXCEPT !.ingest = TRUE] \in Conf
        /\ [conf[r] EXCEPT !.ingest = TRUE].over = conf[r].over
    BY <2>1 DEF Conf
  <2> QED
    BY <2>1, <2>2, <2>3, <2>4, Configured
<1>3. ASSUME NEW r \in Runs, Verify(r) PROVE IInv'
  <2>1. PICK found : ran' = [ran EXCEPT ![r] = Chosen(found, Effective(conf[r].over, Policy))]
    BY <1>3 DEF Verify
  <2>2. PICK label \in Labels \ {"new"} : Goto(r, label)
    BY <1>3 DEF Verify, Leave
  <2>3. ran'[r] # NoModule => Approved(ran'[r], Effective(conf[r].over, Policy))
    BY <2>1, ChosenApproved DEF IInv, Shape
  <2>4. Shape' /\ Admitted' /\ UNCHANGED conf
    BY <1>3, <2>1, <2>2 DEF Verify, IInv, Shape, Admitted, Goto
  <2>5. \A q \in Runs : q # r => ran'[q] = ran[q] /\ pc'[q] = pc[q]
    BY <2>1, <2>2 DEF IInv, Shape, Goto
  <2>6. pc'[r] # "new"
    BY <2>2 DEF IInv, Shape, Goto
  <2> QED
    BY <2>3, <2>4, <2>5, <2>6 DEF IInv, Judged
<1>4. ASSUME NEW r \in Runs, NEW n, ToolWrites(r, n) \/ AdapterOpens(r, n) PROVE IInv'
  BY <1>4, Untouched DEF ToolWrites, AdapterOpens
<1>5. ASSUME NEW r \in Runs, NEW ok, ToolExits(r, ok) PROVE IInv'
  BY <1>5, Untouched DEF ToolExits, Leave
<1>6. ASSUME NEW r \in Runs, FetchPage(r) PROVE IInv'
  BY <1>6, Untouched DEF FetchPage
<1>7. ASSUME NEW r \in Runs, Refuse(r) \/ AdapterCloses(r) PROVE IInv'
  BY <1>7, Untouched DEF Refuse, AdapterCloses, Leave
<1>8. ASSUME NEW r \in Runs, Discover(r) PROVE IInv'
  BY <1>8, Untouched DEF Discover, Leave
<1>9. ASSUME NEW r \in Runs, Save(r) \/ Kill(r) PROVE IInv'
  BY <1>9, Untouched DEF Save, Kill, Leave
<1>10. CASE UNCHANGED vars
  BY <1>10, Untouched DEF vars
<1> QED
  BY <1>1, <1>2, <1>3, <1>4, <1>5, <1>6, <1>7, <1>8, <1>9, <1>10 DEF Next, Step

---------------------------------------------------------------------------
(* Theorem                                                                  *)

\* Every PowerShell module that a collection ever executes is approved by the
\* adapter's own policy, and by the override of its configuration, whatever is
\* installed and whichever overrides exist (build_input_blob, verify_module).
THEOREM AlwaysApproved == Spec => []RunsApproved
<1>1. Init => IInv
  BY InitInv
<1>2. IInv /\ [Next]_vars => IInv'
  BY StepInv
<1>3. IInv => RunsApproved
  <2> SUFFICES ASSUME IInv, NEW r \in Runs, ran[r] # NoModule
               PROVE  /\ Approved(ran[r], Policy)
                      /\ conf[r].over.pin # NoPin => ran[r].version = conf[r].over.pin
                      /\ conf[r].over.hashes # {} => ran[r].hash \in conf[r].over.hashes
    BY DEF RunsApproved
  <2>1. conf[r].over \in Overrides
    BY DEF IInv, Shape, Conf
  <2> QED
    BY <2>1, NarrowedApproved DEF IInv, Admitted, Judged
<1> QED
  BY <1>1, <1>2, <1>3, PTL DEF Spec

---------------------------------------------------------------------------
(* Whose files an adapter finds                                             *)

Records == [name: {"new", "out"} \X Nat, from: 0..MaxRuns, at: Nat,
            part: {"none", "open", "partial", "whole"}]

OutShape ==
  /\ tool \in Tools /\ clock \in Nat /\ files \subseteq Records /\ alive \subseteq Runs
  /\ seen \in [Runs -> SUBSET Records] /\ held \in [Runs -> SUBSET Records]
  /\ saved \in [Runs -> SUBSET Records] /\ wrote \in [Runs -> SUBSET ({"new", "out"} \X Nat)]
  /\ alone \in [Runs -> BOOLEAN] /\ quiet \in [Runs -> BOOLEAN]

\* A file has one of the names of the run that wrote it, which has begun; no two
\* files have one name, and only some tools leave a directory without results.
FilesInv ==
  /\ \A f \in files : /\ f.name \in OutputNames(f.from) /\ f.at <= clock
                      /\ f.from \in Runs => pc[f.from] # "new"
                      /\ f.part = "none" => tool \in {"ScubaGear", "Maester"}
                      /\ f.part = "open" => tool \in RestTools
  /\ \A f, g \in files : f.name = g.name => f = g

\* What a run writes is later than all that it found.
RunInv(r) ==
  /\ pc[r] \notin {"running", "failed", "dead"} => r \notin alive
  /\ pc[r] = "fetch" => tool \in RestTools
  /\ wrote[r] \subseteq OutputNames(r) /\ (pc[r] = "new" => wrote[r] = {})
  /\ \A g \in seen[r] : g.at <= clock /\ \A f \in files : f.from = r => g.at < f.at

\* A tool that ended well has left nothing half written, nor has an API adapter written
\* less than there was.
Ended(r) ==
  pc[r] \in {"fetch", "running"} /\ r \notin alive =>
    \A f \in files : f.from = r => f.part # "partial"

\* While a run has output_dir to itself, all there is was there before or is its
\* own, and what it wrote is there.
Undisturbed(r) ==
  alone[r] /\ pc[r] \in {"verify", "running", "fetch"} =>
    /\ Users \subseteq {r}
    /\ \A f \in files : f.from = r \/ f \in seen[r]
    /\ wrote[r] \subseteq {f.name : f \in {g \in files : g.from = r}}

Own(r, F) ==
  /\ wrote[r] \subseteq NamesOf(F)
  /\ tool # "Prowler" => \A f \in F : f.from = r /\ f.part = "whole"

Owned(r) ==
  ~conf[r].ingest /\ (alone[r] \/ tool = "Maester") =>
    /\ pc[r] = "save" => Own(r, held[r])
    /\ pc[r] = "saved" => Own(r, saved[r])

\* Nobody changes the files of a run that has output_dir to itself until the end.
Quiet(r) ==
  /\ quiet[r] /\ r \in Users => Users = {r}
  /\ quiet[r] /\ pc[r] = "save" => held[r] \subseteq files
  /\ pc[r] = "refused" => ~quiet[r]

Fine(r) == RunInv(r) /\ Ended(r) /\ Undisturbed(r) /\ Owned(r) /\ Quiet(r)

OutInv == OutShape /\ FilesInv /\ \A r \in Runs : Fine(r)

LEMMA OutInit == Init => Shape /\ OutInv
<1> SUFFICES ASSUME Init PROVE Shape /\ OutInv
  OBVIOUS
<1>0. Shape
  BY InitInv DEF IInv
<1>1. MaxRuns \in Nat /\ Runs \subseteq 1..MaxRuns /\ 0 \notin Runs
  BY ToolOutputAssumption DEF ToolOutputAssumption, Runs
<1>2. /\ tool \in Tools /\ clock = 0 /\ alive = {}
      /\ \A r \in Runs : pc[r] = "new" /\ seen[r] = {} /\ wrote[r] = {}
  BY DEF Init
<1>3. \/ files = {}
      \/ \E n \in OutputNames(0), part \in {"partial", "whole"} :
           files = {[name |-> n, from |-> 0, part |-> part, at |-> 0]}
  BY DEF Init
<1>4. OutputNames(0) \subseteq {"new", "out"} \X Nat
  BY DEF OutputNames
<1>5. files \subseteq Records
  BY <1>1, <1>3, <1>4 DEF Records
<1>6. OutShape
  BY <1>2, <1>5 DEF Init, OutShape
<1>7. FilesInv
  BY <1>1, <1>2, <1>3 DEF FilesInv
<1>8. \A r \in Runs : Fine(r)
  BY <1>2 DEF Fine, RunInv, Ended, Undisturbed, Owned, Quiet, Users, Active
<1> QED
  BY <1>0, <1>6, <1>7, <1>8 DEF OutInv

\* A step of one run is harmless to the others: either they do not have
\* output_dir to themselves, or the step has nothing to do with the directory.
LEMMA Others ==
  ASSUME Shape, OutInv, NEW r \in Runs, NEW label \in Labels,
  pc' = [pc EXCEPT ![r] = label],
         \A q \in Runs \ {r} : /\ q \in alive' <=> q \in alive
                               /\ seen'[q] = seen[q] /\ held'[q] = held[q]
                               /\ saved'[q] = saved[q] /\ wrote'[q] = wrote[q]
                               /\ conf'[q] = conf[q],
         alive' \subseteq Runs, UNCHANGED tool, clock' \in Nat, clock <= clock',
         \A f \in files' : f.from = r \/ f \in files,
         \/ Crowd(r)
         \/ /\ UNCHANGED <<alone, quiet>> /\ (r \in Users' => r \in Users)
            /\ r \in Users \/ UNCHANGED files
  PROVE  \A q \in Runs \ {r} : Fine(q)'
<1> SUFFICES ASSUME NEW q \in Runs \ {r} PROVE Fine(q)'
  OBVIOUS
<1>1. /\ pc'[q] = pc[q] /\ q \in alive' <=> q \in alive
      /\ seen'[q] = seen[q] /\ held'[q] = held[q] /\ saved'[q] = saved[q]
      /\ wrote'[q] = wrote[q] /\ conf'[q] = conf[q] /\ tool' = tool
  BY DEF Shape
<1>2. Fine(q)
  BY DEF OutInv
<1>3. q \in Users' <=> q \in Users
  BY <1>1 DEF Users
<1>4. /\ alone'[q] => alone[q] /\ (Crowd(r) /\ q \in Users => pc[q] = "save")
      /\ quiet'[q] => quiet[q] /\ ~(Crowd(r) /\ q \in Users)
  <2>1. CASE Crowd(r)
    <3>1. /\ alone'[q] = (alone[q] /\ (q \in Users => pc[q] = "save"))
          /\ quiet'[q] = (quiet[q] /\ q \notin Users)
      BY <2>1 DEF Crowd
    <3> QED
      BY <3>1
  <2>2. CASE ~Crowd(r)
    BY <2>2
  <2> QED
    BY <2>1, <2>2
<1>5. \A f \in files' : f.from = q => f \in files
  OBVIOUS
<1>6. ASSUME Users \subseteq {q}, q \in Users, ~Crowd(r)
      PROVE  UNCHANGED files /\ Users' \subseteq {q}
  <2>0. (r \in Users' => r \in Users) /\ (r \in Users \/ UNCHANGED files)
    BY <1>6
  <2>1. r \notin Users /\ r \notin Users'
    BY <1>6, <2>0
  <2>2. \A p \in Runs \ {r} : p \in Users' => p \in Users
    BY DEF Users, Shape
  <2>3. Users' \subseteq Runs
    BY DEF Users
  <2> QED
    BY <1>6, <2>0, <2>1, <2>2, <2>3
<1>7. RunInv(q)'
  <2>1. \A g \in seen[q] : g.at \in Nat /\ g.at <= clock
    BY <1>2 DEF Fine, RunInv, OutInv, OutShape, Records
  <2>2. \A g \in seen[q] : g.at <= clock'
    BY <2>1 DEF OutInv, OutShape
  <2>3. \A g \in seen'[q] : g.at <= clock' /\ \A f \in files' : f.from = q => g.at < f.at
    BY <1>1, <1>2, <1>5, <2>2 DEF Fine, RunInv
  <2> QED
    BY <1>1, <1>2, <2>3 DEF Fine, RunInv, OutputNames
<1>8. Ended(q)'
  BY <1>1, <1>2, <1>5 DEF Fine, Ended
<1>9. Undisturbed(q)'
  <2> SUFFICES ASSUME alone'[q], pc[q] \in {"verify", "running", "fetch"}
               PROVE  /\ Users' \subseteq {q}
                      /\ \A f \in files' : f.from = q \/ f \in seen[q]
                      /\ wrote[q] \subseteq {f.name : f \in {g \in files' : g.from = q}}
    BY <1>1 DEF Undisturbed
  <2>1. q \in Users
    BY DEF Users, Active
  <2>2. ~Crowd(r) /\ alone[q]
    BY <1>4, <2>1
  <2>3. Undisturbed(q)
    BY <1>2 DEF Fine
  <2> QED
    BY <1>6, <2>1, <2>2, <2>3 DEF Undisturbed
<1>10. Owned(q)'
  BY <1>1, <1>2, <1>4 DEF Fine, Owned, Own
<1>11. Quiet(q)'
  <2>1. Quiet(q)
    BY <1>2 DEF Fine
  <2>2. pc[q] = "save" => q \in Users
    BY DEF Users, Active
  <2> QED
    BY <1>1, <1>3, <1>4, <1>6, <2>1, <2>2 DEF Quiet
<1> QED
  BY <1>7, <1>8, <1>9, <1>10, <1>11 DEF Fine

\* The tool, or the adapter, puts a file in place.
LEMMA PutInv ==
  ASSUME Shape, OutInv, NEW r \in Runs, NEW n \in OutputNames(r), 
         NEW part \in {"none", "open", "partial"},
         \/ r \in alive /\ part # "open"
         \/ pc[r] = "running" /\ tool \in RestTools /\ part = "open",
         part = "none" => tool = "ScubaGear",
         files' = Put(File(n, r, part)), clock' = clock + 1,
         wrote' = [wrote EXCEPT ![r] = @ \cup {n}],
         UNCHANGED <<tool, pc, conf, alive, seen, held, saved, alone, quiet>>
  PROVE  OutInv'
<1> DEFINE new == File(n, r, part)
<1>0. MaxRuns \in Nat /\ r \in Nat /\ r \in 0..MaxRuns
  BY ToolOutputAssumption DEF ToolOutputAssumption, Runs
<1>1. n \in {"new", "out"} \X Nat
  BY <1>0 DEF OutputNames
<1>2. new = [name |-> n, from |-> r, part |-> part, at |-> clock + 1]
  BY DEF File
<1>3. new \in Records
  BY <1>0, <1>1, <1>2 DEF Records, OutInv, OutShape
<1>4. files' = {g \in files : g.name # n} \cup {new}
  BY <1>2 DEF Put
<1>5. pc[r] \in {"running", "failed", "dead"} /\ pc[r] # "new" /\ r \in Users
  BY DEF OutInv, Fine, RunInv, Users, Active
<1>6. clock \in Nat /\ clock <= clock' /\ \A f \in files : f.at \in Nat /\ f.at <= clock
  BY DEF OutInv, OutShape, FilesInv, Records
<1>7. \A q \in Runs \ {r} : Fine(q)'
  <2>1. pc' = [pc EXCEPT ![r] = pc[r]] /\ pc[r] \in Labels
    BY DEF Shape
  <2>2. \A q \in Runs \ {r} : wrote'[q] = wrote[q]
    BY DEF OutInv, OutShape
  <2>3. \A f \in files' : f.from = r \/ f \in files
    BY <1>2, <1>4
  <2>4. alive \subseteq Runs /\ clock' \in Nat
    BY <1>6 DEF OutInv, OutShape
  <2> HIDE DEF new
  <2> QED
    BY <1>5, <1>6, <2>1, <2>2, <2>3, <2>4, Others
<1>8. OutShape'
  BY <1>1, <1>3, <1>4, <1>6 DEF OutInv, OutShape
<1>9. FilesInv'
  <2>1. \A f \in files' : /\ f.name \in OutputNames(f.from) /\ f.at <= clock'
                          /\ f.from \in Runs => pc[f.from] # "new"
                          /\ f.part = "none" => tool \in {"ScubaGear", "Maester"}
                          /\ f.part = "open" => tool \in RestTools
    <3> SUFFICES ASSUME NEW f \in files'
                 PROVE  /\ f.name \in OutputNames(f.from) /\ f.at <= clock'
                        /\ f.from \in Runs => pc[f.from] # "new"
                        /\ f.part = "none" => tool \in {"ScubaGear", "Maester"}
                        /\ f.part = "open" => tool \in RestTools
      OBVIOUS
    <3>1. CASE f = new
      BY <1>2, <1>5, <1>6, <3>1
    <3>2. CASE f \in files
      BY <1>6, <3>2 DEF OutInv, FilesInv
    <3> QED
      BY <1>4, <3>1, <3>2
  <2>2. \A f, g \in files' : f.name = g.name => f = g
    BY <1>2, <1>4 DEF OutInv, FilesInv
  <2> QED
    BY <2>1, <2>2 DEF FilesInv, OutputNames
<1>10. Fine(r)'
  <2>0. Fine(r)
    BY DEF OutInv
  <2>1. wrote'[r] = wrote[r] \cup {n}
    BY DEF OutInv, OutShape
  <2>2. RunInv(r)'
    <3>1. \A g \in seen[r] : g.at \in Nat /\ g.at <= clock
      BY <2>0 DEF Fine, RunInv, OutInv, OutShape, Records
    <3>2. \A g \in seen[r] : g.at <= clock' /\ \A f \in files' : f.from = r => g.at < f.at
      BY <1>2, <1>4, <1>6, <2>0, <3>1 DEF Fine, RunInv
    <3>3. wrote'[r] \subseteq OutputNames(r)
      BY <2>0, <2>1 DEF Fine, RunInv
    <3> QED
      BY <1>5, <2>0, <3>2, <3>3 DEF Fine, RunInv, OutputNames
  <2>3. Ended(r)'
    BY <1>2, <1>4, <2>0 DEF Fine, Ended
  <2>4. Undisturbed(r)'
    <3> SUFFICES ASSUME alone[r], pc[r] \in {"verify", "running", "fetch"}
                 PROVE  /\ Users \subseteq {r}
                        /\ \A f \in files' : f.from = r \/ f \in seen[r]
                        /\ wrote'[r] \subseteq {f.name : f \in {g \in files' : g.from = r}}
      BY DEF Undisturbed, Users
    <3>1. Undisturbed(r)
      BY <2>0 DEF Fine
    <3>2. \A f \in files' : f.from = r \/ f \in seen[r]
      BY <1>2, <1>4, <3>1 DEF Undisturbed
    <3>3. ASSUME NEW m \in wrote'[r] PROVE \E f \in files' : f.from = r /\ f.name = m
      <4>1. CASE m = n
        BY <1>2, <1>4, <4>1
      <4>2. CASE m # n
        BY <1>4, <2>1, <3>1, <3>3, <4>2 DEF Undisturbed
      <4> QED
        BY <4>1, <4>2
    <3> QED
      BY <3>1, <3>2, <3>3 DEF Undisturbed
  <2>5. Owned(r)' /\ Quiet(r)'
    <3>1. Quiet(r)
      BY <2>0 DEF Fine
    <3> QED
      BY <1>5, <3>1 DEF Owned, Quiet, Users
  <2> QED
    BY <2>2, <2>3, <2>4, <2>5 DEF Fine
<1> QED
  BY <1>7, <1>8, <1>9, <1>10 DEF OutInv

\* The files of a run are whole now.
LEMMA FinishInv ==
  ASSUME Shape, OutInv, NEW r \in Runs, NEW old \in {"open", "partial"},
         \/ r \in alive /\ old = "partial"
         \/ pc[r] = "running" /\ tool \in RestTools /\ old = "open" /\ UNCHANGED alive,
         Finish(r, old, "whole"), alive' \in {alive, alive \ {r}},
         UNCHANGED <<tool, clock, pc, conf, wrote, seen, held, saved, alone, quiet>>
  PROVE  OutInv'
<1> DEFINE Closed(f) == IF f.from = r /\ f.part = old THEN [f EXCEPT !.part = "whole"] ELSE f
<1>0. files' = {Closed(f) : f \in files}
  BY DEF Finish
<1>1. /\ \A f \in files : Closed(f) \in files'
      /\ \A g \in files' : \E f \in files : g = Closed(f)
  BY <1>0
<1>2. \A f \in files : /\ Closed(f) \in Records /\ Closed(f).name = f.name
                       /\ Closed(f).from = f.from /\ Closed(f).at = f.at
                       /\ Closed(f).part \in {f.part, "whole"}
                       /\ f.from = r => Closed(f).part # old
                       /\ Closed(f).part = "none" => f.part = "none"
                       /\ f.from # r => Closed(f) = f
  <2> SUFFICES ASSUME NEW f \in files
               PROVE  /\ Closed(f) \in Records /\ Closed(f).name = f.name
                      /\ Closed(f).from = f.from /\ Closed(f).at = f.at
                      /\ Closed(f).part \in {f.part, "whole"}
                      /\ f.from = r => Closed(f).part # old
                      /\ Closed(f).part = "none" => f.part = "none"
                      /\ f.from # r => Closed(f) = f
    OBVIOUS
  <2>1. f \in Records
    BY DEF OutInv, OutShape
  <2> QED
    BY <2>1 DEF Records
<1> HIDE DEF Closed
<1>3. pc[r] \in {"running", "failed", "dead"} /\ pc[r] # "new" /\ r \in Users
  BY DEF OutInv, Fine, RunInv, Users, Active
<1>4. \A q \in Runs \ {r} : Fine(q)'
  <2>1. pc' = [pc EXCEPT ![r] = pc[r]] /\ pc[r] \in Labels
    BY DEF Shape
  <2>2. \A f \in files' : f.from = r \/ f \in files
    BY <1>1, <1>2
  <2>3. alive' \subseteq Runs /\ clock' \in Nat /\ clock <= clock'
    BY DEF OutInv, OutShape
  <2> QED
    BY <1>3, <2>1, <2>2, <2>3, Others
<1>5. OutShape'
  BY <1>1, <1>2 DEF OutInv, OutShape
<1>6. FilesInv'
  <2>1. \A f \in files' : /\ f.name \in OutputNames(f.from) /\ f.at <= clock
                          /\ f.from \in Runs => pc[f.from] # "new"
                          /\ f.part = "none" => tool \in {"ScubaGear", "Maester"}
                          /\ f.part = "open" => tool \in RestTools
    BY <1>1, <1>2 DEF OutInv, FilesInv
  <2>2. \A f, g \in files' : f.name = g.name => f = g
    BY <1>1, <1>2 DEF OutInv, FilesInv
  <2> QED
    BY <2>1, <2>2 DEF FilesInv, OutputNames
<1>7. Fine(r)'
  <2>0. Fine(r)
    BY DEF OutInv
  <2>1. RunInv(r)'
    BY <1>1, <1>2, <1>3, <2>0 DEF Fine, RunInv, OutputNames
  <2>2. Ended(r)'
    BY <1>1, <1>2, <2>0 DEF Fine, Ended
  <2>3. Undisturbed(r)'
    <3> SUFFICES ASSUME alone[r], pc[r] \in {"verify", "running", "fetch"}
                 PROVE  /\ Users' \subseteq {r}
                        /\ \A f \in files' : f.from = r \/ f \in seen[r]
                        /\ wrote[r] \subseteq {f.name : f \in {g \in files' : g.from = r}}
      BY DEF Undisturbed
    <3>1. Undisturbed(r)
      BY <2>0 DEF Fine
    <3>2. Users' \subseteq Users
      BY DEF Users
    <3> QED
      BY <1>1, <1>2, <3>1, <3>2 DEF Undisturbed
  <2>4. Owned(r)' /\ Quiet(r)'
    <3>1. Quiet(r)
      BY <2>0 DEF Fine
    <3>2. Users' \subseteq Users
      BY DEF Users
    <3> QED
      BY <1>3, <3>1, <3>2 DEF Owned, Quiet
  <2> QED
    BY <2>1, <2>2, <2>3, <2>4 DEF Fine
<1> QED
  BY <1>4, <1>5, <1>6, <1>7 DEF OutInv

\* A step of a run, or of its tool, that leaves the files as they are.
LEMMA StillInv ==
  ASSUME Shape, OutInv, NEW r \in Runs, r \in Users,
         NEW label \in Labels, pc' = [pc EXCEPT ![r] = label],
         alive' \subseteq Runs, \A q \in Runs \ {r} : q \in alive' <=> q \in alive,
         NEW seen2, NEW held2, NEW saved2,
         seen' = [seen EXCEPT ![r] = seen2], held' = [held EXCEPT ![r] = held2],
         saved' = [saved EXCEPT ![r] = saved2],
         seen2 \in {seen[r], {}}, held2 \in SUBSET Records, saved2 \in SUBSET Records,
         UNCHANGED <<tool, files, clock, conf, wrote, alone, quiet>>,
         Fine(r)', label # "new"
  PROVE  OutInv'
<1>1. clock' \in Nat /\ clock <= clock' /\ \A f \in files' : f.from = r \/ f \in files
  BY DEF OutInv, OutShape
<1>2. \A q \in Runs \ {r} : Fine(q)'
  <2>1. \A q \in Runs \ {r} : /\ seen'[q] = seen[q] /\ held'[q] = held[q]
                              /\ saved'[q] = saved[q]
    BY DEF OutInv, OutShape
  <2> QED
    BY <1>1, <2>1, Others
<1>3. OutShape'
  BY DEF OutInv, OutShape
<1>4. FilesInv'
  BY DEF OutInv, FilesInv, OutputNames, Shape
<1> QED
  BY <1>2, <1>3, <1>4 DEF OutInv

\* A run gives up or is killed, or its tool ends badly.
LEMMA LeaveInv ==
  ASSUME Shape, OutInv, NEW r \in Runs, r \in Users, pc[r] # "new",
         NEW label \in {"failed", "dead"}, Leave(r, label),
         alive' \in {alive, alive \ {r}},
         UNCHANGED <<tool, files, clock, conf, wrote, saved, alone, quiet>>
  PROVE  OutInv'
<1>1. /\ pc' = [pc EXCEPT ![r] = label] /\ label \in Labels /\ label # "new"
      /\ seen' = [seen EXCEPT ![r] = {}] /\ held' = [held EXCEPT ![r] = {}]
  BY DEF Leave, Goto, Labels
<1>2. saved' = [saved EXCEPT ![r] = saved[r]] /\ saved[r] \in SUBSET Records
  BY DEF OutInv, OutShape
<1>3. pc'[r] = label /\ seen'[r] = {} /\ held'[r] = {}
  BY <1>1 DEF Shape, OutInv, OutShape
<1>4. Fine(r) /\ Users' \subseteq Users
  BY <1>1 DEF OutInv, Users, Active, Shape
<1>5. Fine(r)'
  <2>1. RunInv(r)'
    BY <1>3, <1>4 DEF Fine, RunInv, OutputNames
  <2>2. Ended(r)' /\ Undisturbed(r)' /\ Owned(r)'
    BY <1>3 DEF Ended, Undisturbed, Owned
  <2>3. Quiet(r)'
    BY <1>3, <1>4 DEF Fine, Quiet
  <2> QED
    BY <2>1, <2>2, <2>3 DEF Fine
<1>6. alive' \subseteq Runs /\ \A q \in Runs \ {r} : q \in alive' <=> q \in alive
  BY DEF OutInv, OutShape
<1>7. {} \in {seen[r], {}} /\ {} \in SUBSET Records
  OBVIOUS
<1>8. UNCHANGED <<tool, files, clock, conf, wrote, alone, quiet>>
  OBVIOUS
<1> QED
  BY ONLY Shape, OutInv, r \in Runs, r \in Users, <1>1, <1>2, <1>5, <1>6, <1>7, <1>8,
     StillInv

\* A tool ends badly when nobody waits for it any more.
LEMMA OrphanInv ==
  ASSUME Shape, OutInv, NEW r \in Runs, r \in alive, pc[r] # "running",
  alive' = alive \ {r},
         UNCHANGED <<tool, files, clock, pc, conf, seen, held, wrote, saved, alone, quiet>>
  PROVE  OutInv'
<1>1. Fine(r) /\ r \in Users /\ Users' \subseteq Users /\ pc[r] \in {"failed", "dead"}
  BY DEF OutInv, Fine, RunInv, Users
<1>2. Fine(r)'
  <2>1. RunInv(r)' /\ Ended(r)' /\ Undisturbed(r)' /\ Owned(r)'
    BY <1>1 DEF Fine, RunInv, OutputNames, Ended, Undisturbed, Owned
  <2>2. Quiet(r)'
    BY <1>1 DEF Fine, Quiet
  <2> QED
    BY <2>1, <2>2 DEF Fine
<1>3. /\ pc' = [pc EXCEPT ![r] = pc[r]] /\ pc[r] \in Labels
      /\ clock' \in Nat /\ clock <= clock' /\ alive' \subseteq Runs
  BY DEF Shape, OutInv, OutShape
<1>4. \A q \in Runs \ {r} : Fine(q)'
  BY <1>1, <1>3, Others
<1>5. OutShape' /\ FilesInv'
  BY <1>3 DEF OutInv, OutShape, FilesInv, OutputNames
<1> QED
  BY <1>2, <1>4, <1>5 DEF OutInv

\* A run goes on to wait for its tool, or for the next answer of its API.
LEMMA WaitInv ==
  ASSUME Shape, OutInv, NEW r \in Runs, pc[r] \in {"verify", "fetch"},
         NEW label \in {"running", "fetch"}, pc' = [pc EXCEPT ![r] = label],
         \/ pc[r] = "verify" /\ label = "running" /\ alive' = alive \cup {r}
         \/ pc[r] = "fetch" /\ UNCHANGED alive,
         UNCHANGED <<tool, files, clock, conf, seen, held, wrote, saved, alone, quiet>>
  PROVE  OutInv'
<1>1. /\ Fine(r) /\ r \in Users /\ pc'[r] = label
  BY DEF OutInv, Users, Active, Shape
<1>2. Users' \subseteq Users
  BY <1>1 DEF Users, Active, Shape
<1>3. RunInv(r)'
  BY <1>1 DEF Fine, RunInv, OutputNames
<1>4. Ended(r)' /\ Owned(r)'
  BY <1>1 DEF Fine, Ended, Owned
<1>5. Undisturbed(r)'
  BY <1>1, <1>2 DEF Fine, Undisturbed
<1>6. Quiet(r)'
  BY <1>1, <1>2 DEF Fine, Quiet
<1>7. /\ label \in Labels
      /\ clock' \in Nat /\ clock <= clock' /\ alive' \subseteq Runs
  BY DEF Labels, Active, OutInv, OutShape
<1>8. \A q \in Runs \ {r} : Fine(q)'
  BY <1>1, <1>7, Others
<1>9. OutShape' /\ FilesInv'
  BY <1>7 DEF OutInv, OutShape, FilesInv, OutputNames, Shape
<1> QED
  BY <1>3, <1>4, <1>5, <1>6, <1>8, <1>9 DEF OutInv, Fine

\* What an adapter finds is there, and is what its own tool left, whole, if the
\* run had output_dir to itself: its discipline tells new files from old ones.
LEMMA FoundOwn ==
  ASSUME Shape, OutInv, NEW r \in Runs, pc[r] = "running", r \notin alive, Found(r) # {},
         tool \in RestTools =>
           wrote[r] = OutputNames(r) /\ ~Open(r)
  PROVE  /\ Found(r) \subseteq files
         /\ alone[r] \/ tool = "Maester" => Own(r, Found(r))
<1>0. /\ tool \in {"ScubaGear", "Monkey365", "Maester", "M365-Assess", "Prowler",
                   "AzureAdvisor", "SecureScore"}
      /\ FilesInv /\ Fine(r)
  BY ToolOutputAssumption DEF ToolOutputAssumption, OutInv, OutShape
<1>1. \A f \in files : f.from = r => f.part \notin {"partial", "open"}
  BY <1>0 DEF Fine, Ended, FilesInv, Open
<1>2. \A f \in files : /\ f.part \in {"none", "open", "partial", "whole"} /\ f.at \in Nat
                       /\ f.name \in OutputNames(f.from) /\ f.from \in 0..MaxRuns
                       /\ f.part = "none" => tool \in {"ScubaGear", "Maester"}
  BY <1>0 DEF OutInv, OutShape, FilesInv, Records
<1>3. ASSUME alone[r]
      PROVE  /\ \A f \in files : f.from = r \/ f \in seen[r]
             /\ \A n \in wrote[r] : \E f \in files : f.from = r /\ f.name = n
  BY <1>0, <1>3 DEF Fine, Undisturbed
<1>4. wrote[r] \subseteq OutputNames(r)
  BY <1>0 DEF Fine, RunInv
<1>5. ASSUME tool \in ModuleTools
      PROVE  /\ \A f \in files : f.from = r <=> f.name = <<"new", r>>
             /\ \A n \in wrote[r] : n = <<"new", r>>
  BY <1>2, <1>4, <1>5 DEF OutputNames
<1>6. CASE tool = "ScubaGear"
  <2>1. Found(r) = {f \in Newest : f.name \notin NamesOf(seen[r]) /\ f.part # "none"}
    BY <1>6 DEF Found, FoundScubaGear
  <2>2. \A f \in Found(r) : f \in files /\ f.part # "none" /\ f \notin seen[r]
    BY <2>1 DEF Newest, NamesOf
  <2>3. alone[r] => Own(r, Found(r))
    BY <1>1, <1>2, <1>3, <1>5, <1>6, <2>2 DEF Own, NamesOf, ModuleTools
  <2> QED
    BY <1>6, <2>2, <2>3
<1>7. CASE tool = "Monkey365"
  <2>1. Found(r) = {f \in files : f.name \notin NamesOf(seen[r])}
    BY <1>7 DEF Found, FoundMonkey365
  <2>2. \A f \in Found(r) : f \in files /\ f \notin seen[r]
    BY <2>1 DEF NamesOf
  <2>3. alone[r] => Own(r, Found(r))
    BY <1>1, <1>2, <1>3, <1>5, <1>7, <2>2 DEF Own, NamesOf, ModuleTools
  <2> QED
    BY <1>7, <2>2, <2>3
<1>8. CASE tool = "Maester"
  <2>1. Found(r) = {f \in files : f.name = <<"new", r>> /\ f.part # "none"}
    BY <1>8 DEF Found, FoundMaester
  <2>2. Own(r, Found(r))
    BY <1>1, <1>2, <1>5, <1>8, <2>1 DEF Own, NamesOf, ModuleTools
  <2> QED
    BY <2>1, <2>2
<1>9. CASE tool = "M365-Assess"
  <2>1. Found(r) = {f \in files : \A g \in seen[r] : g.name = f.name => g.at < f.at}
    BY <1>9 DEF Found, FoundM365Assess
  <2>2. \A f \in files : f.from = r => f \in Found(r)
    BY <1>0, <2>1 DEF Fine, RunInv
  <2>3. \A f \in Found(r) : f \in files /\ f \notin seen[r]
    BY <1>2, <2>1
  <2>4. alone[r] => Own(r, Found(r))
    BY <1>1, <1>2, <1>3, <1>9, <2>2, <2>3 DEF Own, NamesOf
  <2> QED
    BY <1>9, <2>3, <2>4
<1>10. CASE tool = "Prowler"
  <2>1. Found(r) = files
    BY <1>10 DEF Found, FoundProwler
  <2>2. alone[r] => Own(r, Found(r))
    BY <1>3, <1>10, <2>1 DEF Own, NamesOf
  <2> QED
    BY <1>10, <2>1, <2>2
<1>11. CASE tool \in RestTools
  <2>1. Found(r) = {f \in files : f.name \in OutputNames(r)}
    BY <1>11 DEF Found, FoundWritten, RestTools
  <2>2. ASSUME alone[r], NEW f \in Found(r) PROVE f.from = r /\ f.part = "whole"
    <3>1. PICK g \in files : g.from = r /\ g.name = f.name
      BY <1>3, <1>11, <2>1, <2>2
    <3>2. g = f
      BY <1>0, <2>1, <3>1 DEF FilesInv
    <3> QED
      BY <1>1, <1>2, <1>11, <3>1, <3>2 DEF RestTools
  <2>3. alone[r] => wrote[r] \subseteq NamesOf(Found(r))
    BY <1>3, <1>11, <2>1 DEF NamesOf
  <2>4. alone[r] => Own(r, Found(r))
    BY <1>11, <2>2, <2>3 DEF Own, RestTools
  <2> QED
    BY <1>11, <2>1, <2>4 DEF RestTools
<1> QED
  BY <1>0, <1>6, <1>7, <1>8, <1>9, <1>10, <1>11 DEF RestTools

LEMMA DiscoverInv ==
  ASSUME Shape, OutInv, NEW r \in Runs, Discover(r)
  PROVE  OutInv'
<1>1. CASE Leave(r, "failed")
  <2>1. r \in Users /\ pc[r] # "new"
    BY DEF Discover, Users, Active
  <2> QED
    BY <1>1, <2>1, LeaveInv DEF Discover, history
<1>2. CASE ~Leave(r, "failed")
  <2>1. /\ pc[r] = "running" /\ r \notin alive /\ Found(r) # {}
        /\ held' = [held EXCEPT ![r] = Found(r)] /\ pc' = [pc EXCEPT ![r] = "save"]
        /\ UNCHANGED <<tool, files, clock, conf, alive, wrote, seen, saved, alone, quiet>>
    BY <1>2 DEF Discover, history, Goto
  <2>2. /\ Found(r) \subseteq files
        /\ alone[r] \/ tool = "Maester" => Own(r, Found(r))
    BY <2>1, FoundOwn DEF Discover
  <2>3. pc'[r] = "save" /\ held'[r] = Found(r) /\ Fine(r) /\ r \in Users
    BY <2>1 DEF Shape, OutInv, OutShape, Users, Active
  <2>4. Users' \subseteq Users
    BY <2>1, <2>3 DEF Users, Active, Shape
  <2>5. RunInv(r)'
    BY <2>1, <2>3 DEF Fine, RunInv, OutputNames
  <2>6. Ended(r)' /\ Undisturbed(r)'
    BY <2>3 DEF Ended, Undisturbed
  <2>7. Owned(r)'
    BY <2>1, <2>2, <2>3 DEF Owned, Own
  <2>8. Quiet(r)'
    BY <2>1, <2>2, <2>3, <2>4 DEF Fine, Quiet
  <2>9. Fine(r)'
    BY <2>5, <2>6, <2>7, <2>8 DEF Fine
  <2>10. /\ "save" \in Labels /\ "save" # "new" /\ Found(r) \in SUBSET Records
         /\ saved[r] \in SUBSET Records /\ saved' = [saved EXCEPT ![r] = saved[r]]
         /\ seen' = [seen EXCEPT ![r] = seen[r]] /\ seen[r] \in {seen[r], {}}
         /\ alive' \subseteq Runs
    BY <2>1, <2>2 DEF Labels, Active, OutInv, OutShape
  <2> QED
    BY ONLY Shape, OutInv, r \in Runs, <2>1, <2>3, <2>9, <2>10, StillInv
<1> QED
  BY <1>1, <1>2

LEMMA SaveInv ==
  ASSUME Shape, OutInv, NEW r \in Runs, Save(r)
  PROVE  OutInv'
<1>1. /\ pc[r] = "save" /\ r \in Users /\ r \notin alive /\ Fine(r)
      /\ UNCHANGED <<tool, files, clock, conf, alive, wrote, alone, quiet>>
  BY DEF Save, history, Users, Active, OutInv, Fine, RunInv
<1>2. PICK label \in {"saved", "refused"} :
        /\ Leave(r, label)
        /\ label = "saved" => saved' = [saved EXCEPT ![r] = held[r]]
        /\ label = "refused" => UNCHANGED saved /\ \E f \in held[r] : ~Unchanged(f)
  BY DEF Save
<1>3. /\ pc' = [pc EXCEPT ![r] = label] /\ label \in Labels /\ label # "new"
      /\ seen' = [seen EXCEPT ![r] = {}] /\ held' = [held EXCEPT ![r] = {}]
      /\ pc'[r] = label /\ seen'[r] = {}
  BY <1>2 DEF Leave, Goto, Labels, Shape, OutInv, OutShape
<1>4. PICK saved2 \in SUBSET Records :
        saved' = [saved EXCEPT ![r] = saved2] /\ (label = "saved" => saved2 = held[r])
  BY <1>2 DEF OutInv, OutShape
<1>5. saved'[r] = saved2
  BY <1>4 DEF OutInv, OutShape
<1>6. RunInv(r)'
  BY <1>1, <1>3 DEF Fine, RunInv, OutputNames
<1>7. Ended(r)' /\ Undisturbed(r)'
  BY <1>3 DEF Ended, Undisturbed
<1>8. Owned(r)'
  BY <1>1, <1>3, <1>4, <1>5 DEF Fine, Owned, Own
<1>9. Quiet(r)'
  <2>1. r \notin Users'
    BY <1>1, <1>3 DEF Users, Active
  <2>2. label = "refused" => ~quiet[r]
    BY <1>1, <1>2 DEF Fine, Quiet, Unchanged
  <2> QED
    BY <1>1, <1>3, <2>1, <2>2 DEF Quiet
<1>10. Fine(r)'
  BY <1>6, <1>7, <1>8, <1>9 DEF Fine
<1>11. {} \in {seen[r], {}} /\ {} \in SUBSET Records /\ alive' \subseteq Runs
  BY <1>1 DEF OutInv, OutShape
<1> QED
  BY ONLY Shape, OutInv, r \in Runs, <1>1, <1>3, <1>4, <1>10, <1>11, StillInv

\* A run begins where it finds everybody's files, and remembers them.
LEMMA BeginInv ==
  ASSUME Shape, OutInv, NEW r \in Runs, Begin(r)
  PROVE  OutInv'
<1>0. MaxRuns \in Nat /\ r \in Nat /\ r \in 0..MaxRuns
  BY ToolOutputAssumption DEF ToolOutputAssumption, Runs
<1>1. /\ pc[r] = "new" /\ r \notin alive /\ wrote[r] = {} /\ Fine(r) /\ Crowd(r)
      /\ seen' = [seen EXCEPT ![r] = files] /\ seen'[r] = files
      /\ UNCHANGED <<tool, held, wrote, saved>>
  BY DEF Begin, IsNext, OutInv, OutShape, Fine, RunInv
<1>2. \A q \in Runs \ {r} : conf'[q] = conf[q]
  BY DEF Begin, Shape
<1>3. PICK label \in {"verify", "running", "fetch"} :
        /\ pc' = [pc EXCEPT ![r] = label]
        /\ label = "running" <=> alive' = alive \cup {r}
        /\ alive' \in {alive, alive \cup {r}} /\ (label = "fetch" => tool \in RestTools)
        /\ \/ UNCHANGED <<files, clock>>
           \/ /\ tool = "Maester" /\ clock' = clock + 1
              /\ files' = files \cup {File(<<"new", r>>, r, "none")}
  <2>1. CASE BeginModule(r)
    BY <1>1, <2>1 DEF BeginModule, Goto
  <2>2. CASE BeginMaester(r)
    BY <1>1, <2>2 DEF BeginMaester, Goto
  <2>3. CASE BeginScript(r) \/ BeginProwler(r)
    BY <1>1, <2>3 DEF BeginScript, BeginProwler, Goto
  <2>4. CASE BeginFetch(r)
    BY <1>1, <2>4 DEF BeginFetch, Goto
  <2> QED
    BY <2>1, <2>2, <2>3, <2>4 DEF Begin
<1> DEFINE new == File(<<"new", r>>, r, "none")
<1>4. /\ new = [name |-> <<"new", r>>, from |-> r, part |-> "none", at |-> clock + 1]
      /\ new \in Records
  BY <1>0 DEF File, Records, OutInv, OutShape
<1>5. pc'[r] = label /\ label \in Labels
  BY <1>3 DEF Shape, Labels, Active
<1>6. /\ clock \in Nat /\ clock' \in Nat /\ clock <= clock'
      /\ \A f \in files : f.at \in Nat /\ f.at <= clock /\ f.from # r
  BY <1>1, <1>3 DEF OutInv, OutShape, FilesInv, Records
<1>7. /\ \A f \in files' : f \in files \/ (f = new /\ tool = "Maester" /\ clock' = clock + 1)
      /\ \A f \in files' : f.from = r \/ f \in files
  BY <1>3, <1>4
<1> HIDE DEF new
<1>8. \A q \in Runs \ {r} : Fine(q)'
  <2>1. \A q \in Runs \ {r} : /\ q \in alive' <=> q \in alive
                              /\ seen'[q] = seen[q]
    BY <1>1, <1>3 DEF OutInv, OutShape
  <2>2. alive' \subseteq Runs
    BY <1>3 DEF OutInv, OutShape
  <2> QED
    BY <1>1, <1>2, <1>3, <1>5, <1>6, <1>7, <2>1, <2>2, Others
<1>9. OutShape'
  <2>1. alone' \in [Runs -> BOOLEAN] /\ quiet' \in [Runs -> BOOLEAN]
    BY <1>1 DEF Crowd, OutInv, OutShape
  <2>2. files' \subseteq Records
    BY <1>4, <1>7 DEF OutInv, OutShape
  <2> QED
    BY <1>1, <1>3, <1>6, <2>1, <2>2 DEF OutInv, OutShape
<1>10. FilesInv'
  <2>1. tool = "Maester" => new.name \in OutputNames(r) /\ \A f \in files : f.name # new.name
    BY <1>4, <1>6 DEF OutInv, FilesInv, OutputNames, ModuleTools
  <2>2. \A f \in files' : /\ f.name \in OutputNames(f.from) /\ f.at <= clock'
                          /\ f.from \in Runs => pc'[f.from] # "new"
                          /\ f.part = "none" => tool \in {"ScubaGear", "Maester"}
                          /\ f.part = "open" => tool \in RestTools
    BY <1>3, <1>4, <1>5, <1>6, <1>7, <2>1 DEF OutInv, FilesInv, Shape
  <2>3. \A f, g \in files' : f.name = g.name => f = g
    BY <1>7, <2>1 DEF OutInv, FilesInv
  <2> QED
    BY <1>1, <2>2, <2>3 DEF FilesInv, OutputNames
<1>11. RunInv(r)'
  <2>1. \A f \in files' : f.from = r => f.at = clock + 1
    BY <1>4, <1>6, <1>7
  <2>2. \A g \in seen'[r] : g.at <= clock' /\ \A f \in files' : f.from = r => g.at < f.at
    BY <1>1, <1>6, <2>1
  <2> QED
    BY <1>1, <1>3, <1>5, <2>2 DEF RunInv
<1>12. Ended(r)'
  BY <1>4, <1>6, <1>7 DEF Ended
<1>13. alone'[r] = (Users = {}) /\ quiet'[r] = (Users = {})
  BY <1>1 DEF Crowd
<1>14. Users' \subseteq Users \cup {r} /\ r \in Users'
  BY <1>3, <1>5 DEF Users, Active, Shape
<1>15. Undisturbed(r)'
  BY <1>1, <1>7, <1>13, <1>14 DEF Undisturbed
<1>16. Owned(r)' /\ Quiet(r)'
  BY <1>5, <1>13, <1>14 DEF Owned, Quiet
<1> QED
  BY <1>8, <1>9, <1>10, <1>11, <1>12, <1>15, <1>16 DEF OutInv, Fine

\* An operator's directory is taken as it is.
LEMMA IngestInv ==
  ASSUME Shape, OutInv, NEW r \in Runs, Ingest(r)
  PROVE  OutInv'
<1>1. /\ pc[r] = "new" /\ r \notin alive /\ wrote[r] = {} /\ Fine(r) /\ Crowd(r)
      /\ pc' = [pc EXCEPT ![r] = "save"] /\ pc'[r] = "save" /\ "save" \in Labels
      /\ UNCHANGED <<tool, files, clock, seen, alive, wrote, saved>>
  BY DEF Ingest, IsNext, OutInv, OutShape, Fine, RunInv, Goto, Shape, Labels, Active
<1>2. PICK F \in Ingestible : held' = [held EXCEPT ![r] = F]
  BY DEF Ingest
<1>3. F \subseteq files
  BY DEF Ingestible, IngestScubaGear, IngestMaester, IngestProwler, IngestAdvisor,
         IngestSecureScore
<1>4. conf'[r].ingest /\ \A q \in Runs \ {r} : conf'[q] = conf[q]
  <2>1. conf[r] \in Conf
    BY DEF Shape
  <2> QED
    BY <2>1 DEF Ingest, Shape, Conf
<1>5. held'[r] = F /\ \A q \in Runs \ {r} : held'[q] = held[q]
  BY <1>2 DEF OutInv, OutShape
<1>6. clock' \in Nat /\ clock <= clock' /\ alive' \subseteq Runs
  BY <1>1 DEF OutInv, OutShape
<1>7. \A q \in Runs \ {r} : Fine(q)'
  BY <1>1, <1>4, <1>5, <1>6, Others
<1>8. OutShape'
  <2>1. alone' \in [Runs -> BOOLEAN] /\ quiet' \in [Runs -> BOOLEAN]
    BY <1>1 DEF Crowd, OutInv, OutShape
  <2> QED
    BY <1>1, <1>2, <1>3, <2>1 DEF OutInv, OutShape
<1>9. FilesInv'
  BY <1>1 DEF OutInv, FilesInv, OutputNames, Shape
<1>10. RunInv(r)'
  BY <1>1 DEF Fine, RunInv, OutputNames
<1>11. Ended(r)' /\ Undisturbed(r)' /\ Owned(r)'
  BY <1>1, <1>4 DEF Ended, Undisturbed, Owned
<1>12. Quiet(r)'
  <2>1. quiet'[r] = (Users = {})
    BY <1>1 DEF Crowd
  <2>2. Users' \subseteq Users \cup {r} /\ r \in Users'
    BY <1>1 DEF Users, Active, Shape
  <2> QED
    BY <1>1, <1>3, <1>5, <2>1, <2>2 DEF Quiet
<1> QED
  BY <1>7, <1>8, <1>9, <1>10, <1>11, <1>12 DEF OutInv, Fine

---------------------------------------------------------------------------
(* The loop over the pages                                                  *)

Urls == Pages \cup {1, 2}

\* s goes from link to link from page k on.
Linked(s, k) ==
  s # <<>> /\ s[1] = k /\ \A i \in 1..(Len(s) - 1) : server[s[i]] = s[i + 1]

\* The fetches before the last one are complete; in the last one, u is the next page.
Underway(s, k, u) == IF s = <<>> THEN u = k ELSE Linked(s, k) /\ server[Last(s)] = u
Fetching(r) ==
  LET k == Len(got[r]) IN
  /\ k \in 1..Fetches /\ Underway(got[r][k], k, url[r])
  /\ \A j \in 1..(k - 1) : IsChain(got[r][j], j)

PagesInv ==
  /\ got \in [Runs -> Seq(Seq(Urls))] /\ url \in [Runs -> Urls]
  /\ \A r \in Runs :
       /\ pc[r] \in {"new", "fetch"} => Fetching(r)
       /\ pc[r] = "running" /\ tool \in RestTools => Complete(r)
       /\ pc[r] = "verify" => tool \in ModuleTools
       /\ pc[r] = "new" => url[r] = 1 /\ got[r] = << <<>> >>

\* A fetch that has not begun.
LEMMA NothingFetched ==
  ASSUME NEW r \in Runs, url[r] = 1, got[r] = << <<>> >> PROVE Fetching(r)
<1>1. Len(got[r]) = 1 /\ got[r][1] = <<>> /\ 1 \in 1..Fetches
  BY DEF Fetches
<1> QED
  BY <1>1 DEF Fetching, Underway

\* What is known of the pages of a run after a step, in terms of the state before it.
LEMMA FetchingThen ==
  ASSUME NEW q \in Runs, UNCHANGED <<tool, server>>, NEW t, NEW u, got'[q] = t, url'[q] = u,
         Len(t) \in 1..Fetches, Underway(t[Len(t)], Len(t), u),
         \A j \in 1..(Len(t) - 1) : IsChain(t[j], j)
  PROVE  Fetching(q)'
<1>1. ASSUME NEW s, NEW k, NEW v PROVE Underway(s, k, v) => Underway(s, k, v)'
  BY DEF Underway, Linked, Last
<1>2. ASSUME NEW s, NEW k PROVE IsChain(s, k) => IsChain(s, k)'
  BY DEF IsChain, Last
<1> QED
  BY <1>1, <1>2 DEF Fetching, Fetches

LEMMA CompleteThen ==
  ASSUME NEW q \in Runs, UNCHANGED <<tool, server>>, NEW t, got'[q] = t,
         Len(t) = Fetches, \A k \in 1..Fetches : IsChain(t[k], k)
  PROVE  Complete(q)'
<1>1. ASSUME NEW s, NEW k PROVE IsChain(s, k) => IsChain(s, k)'
  BY DEF IsChain, Last
<1> QED
  BY <1>1 DEF Complete, Fetches

LEMMA SamePages ==
  ASSUME NEW q \in Runs, UNCHANGED <<tool, server>>, url'[q] = url[q], got'[q] = got[q]
  PROVE  (Fetching(q) => Fetching(q)') /\ (Complete(q) => Complete(q)')
BY FetchingThen, CompleteThen DEF Fetching, Complete

LEMMA PagesInit == Init => PagesInv
<1> SUFFICES ASSUME Init PROVE PagesInv
  OBVIOUS
<1>1. got \in [Runs -> Seq(Seq(Urls))] /\ url \in [Runs -> Urls]
  BY DEF Init, Urls
<1>2. \A r \in Runs : pc[r] = "new" /\ url[r] = 1 /\ got[r] = << <<>> >>
  BY DEF Init
<1> QED
  BY <1>1, <1>2, NothingFetched DEF PagesInv

\* A step that fetches nothing, of a run that does not come to wait for pages by it.
LEMMA NoPage ==
  ASSUME Shape, PagesInv, NEW r \in Runs, NEW label, pc' = [pc EXCEPT ![r] = label],
         UNCHANGED <<tool, server>>,
         \/ UNCHANGED <<url, got>>
         \/ url' = [url EXCEPT ![r] = 1] /\ got' = [got EXCEPT ![r] = << <<>> >>],
         \/ label \notin {"new", "verify", "fetch", "running"}
         \/ label = "fetch" /\ pc[r] = "new" /\ UNCHANGED <<url, got>>
         \/ label = "verify" /\ tool \in ModuleTools
         \/ label = "running" /\ tool \notin RestTools
         \/ label = pc[r] /\ UNCHANGED <<url, got>>
  PROVE  PagesInv'
<1>1. got' \in [Runs -> Seq(Seq(Urls))] /\ url' \in [Runs -> Urls]
  <2>1. << <<>> >> \in Seq(Seq(Urls)) /\ 1 \in Urls
    BY DEF Urls
  <2> QED
    BY <2>1 DEF PagesInv
<1>2. \A q \in Runs : q # r => pc'[q] = pc[q] /\ url'[q] = url[q] /\ got'[q] = got[q]
  BY DEF Shape, PagesInv
<1>3. pc'[r] = label
  BY DEF Shape
<1>4. ASSUME NEW q \in Runs, url'[q] = url[q], got'[q] = got[q]
      PROVE  (Fetching(q) => Fetching(q)') /\ (Complete(q) => Complete(q)')
  BY <1>4, SamePages
<1>5. ASSUME NEW q \in Runs
      PROVE  /\ pc'[q] \in {"new", "fetch"} => Fetching(q)'
             /\ pc'[q] = "running" /\ tool' \in RestTools => Complete(q)'
             /\ pc'[q] = "verify" => tool' \in ModuleTools
             /\ pc'[q] = "new" => url'[q] = 1 /\ got'[q] = << <<>> >>
  <2>1. CASE q # r
    BY <1>2, <1>4, <2>1 DEF PagesInv
  <2>2. CASE q = r
    <3>1. CASE UNCHANGED <<url, got>>
      BY <1>3, <1>4, <2>2, <3>1 DEF PagesInv
    <3>2. CASE ~UNCHANGED <<url, got>>
      BY <1>3, <2>2, <3>2
    <3> QED
      BY <3>1, <3>2
  <2> QED
    BY <2>1, <2>2
<1> QED
  BY <1>1, <1>5 DEF PagesInv

\* The next page is the one that the last one links to; the fetch ends where there is
\* no link.
LEMMA NextPage ==
  ASSUME NEW s \in Seq(Urls), NEW k, NEW u \in Urls, Underway(s, k, u)
  PROVE  /\ Append(s, u) \in Seq(Urls) /\ Append(s, u) # <<>>
         /\ Underway(Append(s, u), k, server[u])
         /\ server[u] = NoLink => IsChain(Append(s, u), k)
<1> DEFINE t == Append(s, u)
<1>1. /\ t \in Seq(Urls) /\ Len(t) = Len(s) + 1 /\ t # <<>> /\ t[Len(t)] = u
      /\ Len(s) \in Nat /\ \A i \in 1..Len(s) : t[i] = s[i]
  OBVIOUS
<1>2. t[1] = k /\ \A i \in 1..(Len(t) - 1) : server[t[i]] = t[i + 1]
  <2>1. CASE s = <<>>
    BY <1>1, <2>1 DEF Underway
  <2>2. CASE s # <<>>
    <3>1. /\ s[1] = k /\ server[s[Len(s)]] = u
          /\ \A i \in 1..(Len(s) - 1) : server[s[i]] = s[i + 1]
      BY <2>2 DEF Underway, Linked, Last
    <3>2. 1 \in 1..Len(s)
      BY <2>2
    <3>3. ASSUME NEW i \in 1..(Len(t) - 1) PROVE server[t[i]] = t[i + 1]
      <4>1. CASE i = Len(s)
        BY <1>1, <3>1, <3>2, <4>1
      <4>2. CASE i # Len(s)
        <5>1. i \in 1..(Len(s) - 1) /\ i \in 1..Len(s) /\ i + 1 \in 1..Len(s)
          BY <1>1, <4>2
        <5> QED
          BY <1>1, <3>1, <5>1
      <4> QED
        BY <4>1, <4>2
    <3> HIDE DEF t
    <3> QED
      BY <1>1, <3>1, <3>2, <3>3
  <2> QED
    BY <2>1, <2>2
<1> HIDE DEF t
<1>3. Linked(t, k) /\ Last(t) = u
  BY <1>1, <1>2 DEF Linked, Last
<1>4. Underway(t, k, server[u]) /\ (server[u] = NoLink => IsChain(t, k))
  BY <1>1, <1>2, <1>3 DEF Underway, IsChain
<1> QED
  BY <1>1, <1>4 DEF t

LEMMA FetchInv ==
  ASSUME Shape, PagesInv, NEW r \in Runs, FetchPage(r)
  PROVE  PagesInv'
<1> DEFINE k == Len(got[r])
           next == server[url[r]]
           full == Append(got[r][k], url[r])
           done == [got[r] EXCEPT ![k] = full]
<1>1. /\ pc[r] = "fetch" /\ next \in Pages \cup {NoLink} /\ UNCHANGED <<tool, server>>
      /\ Fetching(r) /\ got[r] \in Seq(Seq(Urls)) /\ url[r] \in Urls
  BY DEF FetchPage, PagesInv
<1>2. k \in 1..Len(got[r]) /\ k \in 1..Fetches /\ k \in Nat /\ Last(got[r]) = got[r][k]
  BY <1>1 DEF Fetching, Last
<1>3. /\ full \in Seq(Urls) /\ full # <<>> /\ Underway(full, k, next)
      /\ next = NoLink => IsChain(full, k)
  BY <1>1, <1>2, NextPage DEF Fetching
<1>4. /\ done \in Seq(Seq(Urls)) /\ Len(done) = k /\ done[k] = full
      /\ \A j \in 1..(k - 1) : done[j] = got[r][j]
  BY <1>1, <1>2, <1>3
<1>5. \A j \in 1..(k - 1) : IsChain(done[j], j)
  BY <1>1, <1>4 DEF Fetching
<1>6. \/ /\ next # NoLink
         /\ url' = [url EXCEPT ![r] = next] /\ got' = [got EXCEPT ![r] = done] /\ UNCHANGED pc
      \/ /\ next = NoLink /\ k < Fetches
         /\ url' = [url EXCEPT ![r] = k + 1] /\ got' = [got EXCEPT ![r] = Append(done, <<>>)]
         /\ UNCHANGED pc
      \/ /\ next = NoLink /\ ~(k < Fetches)
         /\ got' = [got EXCEPT ![r] = done] /\ UNCHANGED url /\ Goto(r, "running")
  BY <1>2 DEF FetchPage
<1> HIDE DEF k, full, done, next
<1>7. Fetches \in {1, 2}
  BY DEF Fetches
<1>8. /\ got' \in [Runs -> Seq(Seq(Urls))] /\ url' \in [Runs -> Urls]
      /\ pc'[r] \in {"fetch", "running"}
      /\ pc'[r] = "fetch" => Fetching(r)'
      /\ pc'[r] = "running" => Complete(r)'
  <2>1. CASE next # NoLink
    <3>1. /\ url' = [url EXCEPT ![r] = next] /\ got' = [got EXCEPT ![r] = done] /\ UNCHANGED pc
          /\ next \in Urls
      BY <1>1, <1>6, <2>1 DEF Urls
    <3>2. url'[r] = next /\ got'[r] = done /\ pc'[r] = "fetch"
      BY <1>1, <3>1 DEF PagesInv
    <3>3. Fetching(r)'
      BY <1>1, <1>2, <1>3, <1>4, <1>5, <3>2, FetchingThen
    <3> QED
      BY <1>4, <3>1, <3>2, <3>3 DEF PagesInv
  <2>2. CASE next = NoLink /\ k < Fetches
    <3> DEFINE two == Append(done, <<>>)
    <3>1. /\ url' = [url EXCEPT ![r] = k + 1] /\ got' = [got EXCEPT ![r] = two] /\ UNCHANGED pc
      BY <1>6, <2>2
    <3>2. k = 1 /\ Fetches = 2
      BY <1>2, <1>7, <2>2
    <3>3. /\ two \in Seq(Seq(Urls)) /\ Len(two) = 2 /\ two[2] = <<>> /\ two[1] = full
      <4>1. <<>> \in Seq(Urls) /\ done \in Seq(Seq(Urls)) /\ Len(done) = 1 /\ done[1] = full
        BY <1>4, <3>2
      <4>2. /\ two \in Seq(Seq(Urls)) /\ Len(two) = Len(done) + 1
            /\ two[Len(done) + 1] = <<>> /\ \A i \in 1..Len(done) : two[i] = done[i]
        <5> DEFINE Fetch == Seq(Urls)
                   none == <<>>
        <5>1. none \in Fetch /\ done \in Seq(Fetch) /\ two = Append(done, none)
          BY <4>1
        <5> HIDE DEF Fetch, none, two
        <5>2. /\ two \in Seq(Fetch) /\ Len(two) = Len(done) + 1
              /\ two[Len(done) + 1] = none /\ \A i \in 1..Len(done) : two[i] = done[i]
          BY ONLY <5>1, AppendProperties
        <5> QED
          BY <5>2 DEF Fetch, none
      <4> HIDE DEF two
      <4> QED
        BY <4>1, <4>2
    <3> HIDE DEF two
    <3>4. url'[r] = 2 /\ got'[r] = two /\ pc'[r] = "fetch" /\ 2 \in Urls
      BY <1>1, <3>1, <3>2 DEF PagesInv, Urls
    <3>5. IsChain(two[1], 1) /\ Underway(two[2], 2, 2)
      BY <1>3, <2>2, <3>2, <3>3 DEF Underway
    <3>6. /\ Len(two) \in 1..Fetches /\ Underway(two[Len(two)], Len(two), 2)
          /\ \A j \in 1..(Len(two) - 1) : IsChain(two[j], j)
      BY <3>2, <3>3, <3>5
    <3>7. Fetching(r)'
      BY <1>1, <3>4, <3>6, FetchingThen
    <3> QED
      BY <3>1, <3>3, <3>4, <3>7 DEF PagesInv
  <2>3. CASE next = NoLink /\ ~(k < Fetches)
    <3>1. /\ got' = [got EXCEPT ![r] = done] /\ UNCHANGED url /\ pc'[r] = "running"
          /\ got'[r] = done
      BY <1>6, <2>3 DEF PagesInv, Goto, Shape
    <3>2. k = Fetches
      BY <1>2, <1>7, <2>3
    <3>3. \A j \in 1..Fetches : IsChain(done[j], j)
      BY <1>2, <1>3, <1>4, <1>5, <2>3, <3>2
    <3>4. Complete(r)'
      BY <1>1, <1>4, <3>1, <3>2, <3>3, CompleteThen
    <3> QED
      BY <1>4, <3>1, <3>4 DEF PagesInv
  <2> QED
    BY <2>1, <2>2, <2>3
<1>9. \A q \in Runs \ {r} : url'[q] = url[q] /\ got'[q] = got[q] /\ pc'[q] = pc[q]
  BY <1>6 DEF PagesInv, Goto, Shape
<1>10. ASSUME NEW q \in Runs \ {r}
       PROVE  (Fetching(q) => Fetching(q)') /\ (Complete(q) => Complete(q)')
  BY <1>1, <1>9, SamePages
<1> QED
  BY <1>1, <1>8, <1>9, <1>10 DEF PagesInv

LEMMA StepPages == Shape /\ PagesInv /\ [Next]_vars => PagesInv'
<1> SUFFICES ASSUME Shape, PagesInv, [Next]_vars PROVE PagesInv'
  OBVIOUS
<1> USE DEF memory, fetchVars
<1>1. ASSUME NEW r \in Runs, Begin(r) PROVE PagesInv'
  <2>1. pc[r] = "new" /\ UNCHANGED <<tool, server, url, got>>
    BY <1>1 DEF Begin, IsNext
  <2>2. PICK label : /\ pc' = [pc EXCEPT ![r] = label]
                     /\ \/ label = "fetch"
                        \/ label = "verify" /\ tool \in ModuleTools
                        \/ label = "running" /\ tool \notin RestTools
    <3>1. CASE BeginModule(r) \/ BeginMaester(r)
      BY <3>1 DEF BeginModule, BeginMaester, Goto, ModuleTools
    <3>2. CASE BeginScript(r) \/ BeginProwler(r)
      BY <3>2 DEF BeginScript, BeginProwler, Goto, RestTools
    <3>3. CASE BeginFetch(r)
      BY <3>3 DEF BeginFetch, Goto
    <3> QED
      BY <1>1, <3>1, <3>2, <3>3 DEF Begin
  <2> QED
    BY <2>1, <2>2, NoPage
<1>2. ASSUME NEW r \in Runs, Ingest(r) PROVE PagesInv'
  BY <1>2, NoPage DEF Ingest, Goto
<1>3. ASSUME NEW r \in Runs, Verify(r) PROVE PagesInv'
  <2>1. UNCHANGED <<tool, server>> /\ tool \in ModuleTools /\ tool \notin RestTools
    BY <1>3 DEF Verify, PagesInv, ModuleTools, RestTools
  <2>2. CASE Leave(r, "failed")
    BY <2>1, <2>2, NoPage DEF Leave, Goto
  <2>3. CASE ~Leave(r, "failed")
    BY <1>3, <2>1, <2>3, NoPage DEF Verify, Goto
  <2> QED
    BY <2>2, <2>3
<1>4. ASSUME NEW r \in Runs, NEW label \in {"failed", "dead", "saved", "refused"},
             Leave(r, label), UNCHANGED <<tool, server>>
      PROVE  PagesInv'
  BY <1>4, NoPage DEF Leave, Goto
<1>5. ASSUME NEW r \in Runs, UNCHANGED <<tool, server, pc, url, got>> PROVE PagesInv'
  <2>1. pc' = [pc EXCEPT ![r] = pc[r]]
    BY <1>5 DEF Shape
  <2> QED
    BY <1>5, <2>1, NoPage
<1>6. ASSUME NEW r \in Runs, FetchPage(r) PROVE PagesInv'
  BY <1>6, FetchInv
<1>7. ASSUME NEW r \in Runs, Refuse(r) \/ Save(r) \/ Kill(r) PROVE PagesInv'
  BY <1>4, <1>7 DEF Refuse, Save, Kill
<1>8. ASSUME NEW r \in Runs, Discover(r) PROVE PagesInv'
  <2>1. CASE Leave(r, "failed")
    BY <1>4, <1>8, <2>1 DEF Discover
  <2>2. CASE ~Leave(r, "failed")
    BY <1>8, <2>2, NoPage DEF Discover, Goto
  <2> QED
    BY <2>1, <2>2
<1>9. ASSUME NEW r \in Runs, NEW n, ToolWrites(r, n) \/ AdapterOpens(r, n) \/ AdapterCloses(r)
      PROVE  PagesInv'
  BY <1>5, <1>9 DEF ToolWrites, AdapterOpens, AdapterCloses
<1>10. ASSUME NEW r \in Runs, NEW ok, ToolExits(r, ok) PROVE PagesInv'
  BY <1>4, <1>5, <1>10 DEF ToolExits
<1>11. CASE UNCHANGED vars
  <2>1. UNCHANGED <<tool, server, pc, url, got>>
    BY <1>11 DEF vars
  <2>2. ASSUME NEW q \in Runs
        PROVE  (Fetching(q) => Fetching(q)') /\ (Complete(q) => Complete(q)')
    BY <2>1, SamePages
  <2> QED
    BY <2>1, <2>2 DEF PagesInv
<1> QED
  BY <1>1, <1>2, <1>3, <1>6, <1>7, <1>8, <1>9, <1>10, <1>11 DEF Next, Step

---------------------------------------------------------------------------
(* Every step                                                               *)

LEMMA StepOut == Shape /\ PagesInv /\ OutInv /\ [Next]_vars => OutInv'
<1> SUFFICES ASSUME Shape, PagesInv, OutInv, [Next]_vars PROVE OutInv'
  OBVIOUS
<1> USE DEF memory, fetchVars, history
<1>1. ASSUME NEW r \in Runs, Begin(r) \/ Ingest(r) \/ Discover(r) \/ Save(r) PROVE OutInv'
  BY <1>1, BeginInv, IngestInv, DiscoverInv, SaveInv
<1>2. ASSUME NEW r \in Runs, Verify(r) PROVE OutInv'
  <2>1. r \in Users /\ pc[r] = "verify"
    BY <1>2 DEF Verify, Users, Active
  <2>2. CASE Leave(r, "failed")
    <3>1. UNCHANGED <<tool, files, clock, conf, alive, wrote, saved, alone, quiet>>
      BY <1>2, <2>2 DEF Verify, Leave, Goto, Shape
    <3> QED
      BY <2>1, <2>2, <3>1, LeaveInv
  <2>3. CASE ~Leave(r, "failed")
    <3>1. /\ pc' = [pc EXCEPT ![r] = "running"] /\ alive' = alive \cup {r} /\ r \in alive'
          /\ UNCHANGED <<tool, files, clock, conf, seen, held, wrote, saved, alone, quiet>>
      BY <1>2, <2>3 DEF Verify, Goto
    <3> QED
      BY <2>1, <3>1, WaitInv
  <2> QED
    BY <2>2, <2>3
<1>3. ASSUME NEW r \in Runs, FetchPage(r) PROVE OutInv'
  <2>1. pc[r] = "fetch" /\ tool \in RestTools /\ (UNCHANGED pc \/ Goto(r, "running"))
        /\ UNCHANGED <<tool, files, clock, conf, alive, seen, held, wrote, saved, alone, quiet>>
    BY <1>3 DEF FetchPage, OutInv, Fine, RunInv
  <2>2. PICK label \in {"running", "fetch"} : pc' = [pc EXCEPT ![r] = label]
    BY <2>1 DEF Goto, Shape
  <2> QED
    BY <2>1, <2>2, WaitInv
<1>4. ASSUME NEW r \in Runs, Refuse(r) \/ Kill(r) PROVE OutInv'
  <2>1. PICK label \in {"failed", "dead"} :
          /\ Leave(r, label) /\ r \in Users /\ pc[r] # "new"
          /\ UNCHANGED <<tool, files, clock, conf, alive, wrote, saved, alone, quiet>>
    BY <1>4 DEF Refuse, Kill, Users, Active
  <2> QED
    BY <2>1, LeaveInv
<1>5. ASSUME NEW r \in Runs, AdapterCloses(r) PROVE OutInv'
  <2>1. Complete(r)
    BY <1>5 DEF AdapterCloses, PagesInv
  <2> QED
    BY <1>5, <2>1, FinishInv DEF AdapterCloses
<1>6. ASSUME NEW r \in Runs, NEW n \in OutputNames(r), AdapterOpens(r, n) PROVE OutInv'
  BY <1>6, PutInv DEF AdapterOpens
<1>7. ASSUME NEW r \in Runs, NEW n \in OutputNames(r), ToolWrites(r, n) PROVE OutInv'
  <2>1. PICK part \in {"none", "partial"} :
          files' = Put(File(n, r, part)) /\ (part = "none" => tool = "ScubaGear")
    BY <1>7 DEF ToolWrites
  <2> QED
    BY <1>7, <2>1, PutInv DEF ToolWrites
<1>8. ASSUME NEW r \in Runs, NEW ok \in BOOLEAN, ToolExits(r, ok) PROVE OutInv'
  <2>1. /\ r \in alive /\ alive' = alive \ {r} /\ r \in Users /\ pc[r] # "new"
        /\ UNCHANGED <<tool, clock, conf, wrote, saved, alone, quiet>>
    BY <1>8 DEF ToolExits, Users, OutInv, Fine, RunInv
  <2>2. CASE ok
    BY <1>8, <2>1, <2>2, FinishInv DEF ToolExits
  <2>3. CASE ~ok /\ pc[r] = "running"
    BY <1>8, <2>1, <2>3, LeaveInv DEF ToolExits
  <2>4. CASE ~ok /\ pc[r] # "running"
    BY <1>8, <2>1, <2>4, OrphanInv DEF ToolExits
  <2> QED
    BY <2>2, <2>3, <2>4
<1>9. CASE UNCHANGED vars
  <2> USE <1>9 DEF vars
  <2>1. OutShape' /\ FilesInv'
    BY DEF OutInv, OutShape, FilesInv, OutputNames
  <2>2. ASSUME NEW q \in Runs PROVE RunInv(q)' /\ Ended(q)' /\ Undisturbed(q)'
    BY DEF OutInv, Fine, RunInv, OutputNames, Ended, Undisturbed, Users
  <2>3. ASSUME NEW q \in Runs PROVE Owned(q)' /\ Quiet(q)'
    BY DEF OutInv, Fine, Owned, Own, Quiet, Users
  <2> QED
    BY <2>1, <2>2, <2>3 DEF OutInv, Fine
<1> QED
  BY <1>1, <1>2, <1>3, <1>4, <1>5, <1>6, <1>7, <1>8, <1>9 DEF Next, Step

LEMMA AlwaysOut == Spec => [](Shape /\ OutInv)
<1>1. Spec => []Shape
  <2>1. IInv => Shape
    BY DEF IInv
  <2> QED
    BY <2>1, InitInv, StepInv, PTL DEF Spec
<1> QED
  BY <1>1, OutInit, PagesInit, StepOut, StepPages, PTL DEF Spec

---------------------------------------------------------------------------
(* Theorems about output                                                    *)

\* What a collection stores is what its own tool run left, whole and all of it,
\* for each adapter's way to look for it (the collect and fetch methods of the
\* adapters, save_raw_outputs), however many runs, of any engagements, come
\* before, after or in between, unless they use output_dir before it is hashed;
\* and whatever the API links to: fetch_paginated_json returns every page or none.
THEOREM StoresOwnOutput == Spec => []OwnOutput
<1>1. Shape /\ OutInv => OwnOutput
  BY DEF OutInv, Fine, Owned, Own, OwnOutput
<1> QED
  BY <1>1, AlwaysOut, PTL

\* save_raw_outputs never refuses what an adapter hashed when nobody else uses
\* output_dir: no tool that the adapter no longer waits for is still writing.
THEOREM QuietOutputSaved == Spec => []QuietIsSaved
<1>1. Shape /\ OutInv => QuietIsSaved
  BY DEF OutInv, Fine, Quiet, QuietIsSaved
<1> QED
  BY <1>1, AlwaysOut, PTL
=============================================================================
