--------------------------- MODULE Collect_proofs ---------------------------
(***************************************************************************)
(* Proofs about Collect, for any adapters, workers and number of           *)
(* collections: the pool implements Collection, but for exceptions of a    *)
(* class that it does not name, and reports are coherent.                  *)
(***************************************************************************)
EXTENDS Collect, TLAPS

Types ==
  /\ pc \in Labels /\ enabled \subseteq Adapters /\ used \in Nat /\ fresh \in BOOLEAN
  /\ future \in [Adapters -> Ends \cup {"absent", "pending", "running"}]
  /\ result \in [Adapters -> {"SUCCESS", "TIMEOUT", "FAILED", "none"}]
  /\ held \in [Adapters -> Nat] /\ disk \in [Adapters -> Nat]
  /\ parsed \in [Adapters -> Nat] /\ consolidated \in [Adapters -> Nat]
  /\ renderable \in BOOLEAN /\ torn \in BOOLEAN

\* What the loop has appended is the status of the adapter's own end; who is not
\* enabled has no future; a pool that raises has met an unforeseen exception.
PoolInv ==
  /\ \A a \in Adapters : result[a] # "none" =>
       /\ future[a] \in Ends \ {"unforeseen"}
       /\ result[a] = StatusOf(future[a])
  /\ pc \in InPool => \A a \in Adapters : future[a] = "absent" <=> a \notin enabled
  /\ pc = "raising" => /\ \E a \in Adapters : future[a] = "unforeseen"
                       /\ result = NoResult

\* A fresh run holds outputs of its own collection.
FreshInv ==
  /\ FreshRunHoldsFresh
  /\ pc = "idle" => ~fresh
  /\ pc \in InPool => held = NoOutput

\* Where the coverage records stand relative to the findings, label by label.
CoverageInv ==
  /\ pc = "save_coverage" => torn /\ coverage = NoRows
  /\ pc = "normalize" => torn /\ coverage = CoverageOf(held)
  /\ ~torn => coverage = CoverageOf(parsed)
  /\ pc = "consolidate" => held = parsed
  /\ renderable => consolidated = parsed /\ pc \in {"idle", "render"}
  /\ pc = "render" => renderable /\ held = consolidated

IInv == Types /\ PoolInv /\ FreshInv /\ CoverageInv

LEMMA InitInv == Init => IInv
<1> SUFFICES ASSUME Init PROVE IInv
  OBVIOUS
<1>1. Types
  BY DEF Init, Types, Labels, InPool, NoFuture, NoResult, NoOutput
<1>2. PoolInv
  BY DEF Init, PoolInv, InPool, NoFuture, NoResult
<1>3. FreshInv
  BY DEF Init, FreshInv, FreshRunHoldsFresh, InPool
<1>4. CoverageInv
  BY DEF Init, CoverageInv, CoverageOf, NoRows, NoOutput
<1> QED
  BY <1>1, <1>2, <1>3, <1>4 DEF IInv

\* Every action of Next, with the quantifiers of Next.
LEMMA StepTypes == IInv /\ [Next]_vars => Types'
<1> SUFFICES ASSUME IInv, [Next]_vars PROVE Types'
  OBVIOUS
<1> USE DEF Selections, IInv, Types, Labels, InPool, Ends, NoFuture, NoResult, NoOutput, EndRun,
            memory, poolVars, tables
<1>1. CASE Start
  <2>1. CASE \E E \in Selections : StartCollect(E)
    <3>1. PICK E \in Selections : StartCollect(E)
      BY <2>1
    <3>2. future' \in [Adapters -> Ends \cup {"absent", "pending", "running"}]
      BY <3>1 DEF StartCollect
    <3>3. /\ held' \in [Adapters -> Nat]
          /\ result' \in [Adapters -> {"SUCCESS", "TIMEOUT", "FAILED", "none"}]
      BY <3>1 DEF StartCollect
    <3>4. used' \in Nat /\ pc' \in Labels
      BY <3>1 DEF StartCollect
    <3>5. fresh' = TRUE /\ renderable' = FALSE /\ torn' = torn /\ enabled' = E
      BY <3>1 DEF StartCollect
    <3>6. UNCHANGED <<disk, parsed, consolidated>>
      BY <3>1 DEF StartCollect
    <3> QED
      BY <3>2, <3>3, <3>4, <3>5, <3>6
  <2>2. CASE \E E \in Selections : StartReparse(E)
    BY <2>2 DEF StartReparse, LoadedManifests
  <2>3. CASE StartConsolidate
    BY <2>3 DEF StartConsolidate
  <2>4. CASE StartRender
    BY <2>4 DEF StartRender
  <2> QED
    BY <1>1, <2>1, <2>2, <2>3, <2>4 DEF Start
<1>2. CASE \E a \in Adapters : Work(a)
  BY <1>2 DEF Work, Submit, RunAdapter, tables
<1>3. CASE Stage
  <2>1. CASE \E a \in Adapters : Resolve(a)
    BY <2>1 DEF Resolve, StatusOf, Ended, tables
  <2>2. CASE Return
    BY <2>2 DEF Return
  <2>3. CASE Raise
    BY <2>3 DEF Raise
  <2>4. CASE SaveRaw
    BY <2>4 DEF SaveRaw, Collected, poolVars, tables
  <2>5. CASE Parse
    <3>1. CASE pc' = "delete_coverage" /\ UNCHANGED memory
      BY <2>5, <3>1 DEF Parse
    <3>2. CASE EndRun
      BY <2>5, <3>2 DEF Parse
    <3> QED
      BY <2>5, <3>1, <3>2 DEF Parse
  <2>6. CASE DeleteCoverage
    BY <2>6 DEF DeleteCoverage
  <2>7. CASE SaveCoverage
    BY <2>7 DEF SaveCoverage
  <2>8. CASE Normalize
    BY <2>8 DEF Normalize
  <2>9. CASE Consolidate
    BY <2>9 DEF Consolidate
  <2>10. CASE Render
    BY <2>10 DEF Render
  <2> QED
    BY <1>3, <2>1, <2>2, <2>3, <2>4, <2>5, <2>6, <2>7, <2>8, <2>9, <2>10 DEF Stage
<1>4. CASE Stop
  BY <1>4 DEF Stop, tables
<1>5. CASE UNCHANGED vars
  BY <1>5 DEF vars, memory, poolVars, tables
<1> QED
  BY <1>1, <1>2, <1>3, <1>4, <1>5 DEF Next

LEMMA StepPool == IInv /\ [Next]_vars => PoolInv'
<1> SUFFICES ASSUME IInv, [Next]_vars PROVE PoolInv'
  OBVIOUS
<1> USE DEF Selections, IInv, Types, PoolInv, Labels, InPool, Ends, NoFuture, NoResult, EndRun,
            memory, poolVars
<1>1. CASE Start
  BY <1>1 DEF Start, StartCollect, StartReparse, LoadedManifests, StartConsolidate, StartRender,
      poolVars
<1>2. CASE \E a \in Adapters : Work(a)
  BY <1>2 DEF Work, Submit, RunAdapter
<1>3. CASE Stage
  <2>1. CASE \E a \in Adapters : Resolve(a)
    BY <2>1 DEF Resolve, StatusOf, Ended
  <2>2. CASE Return
    BY <2>2 DEF Return
  <2>3. CASE Raise
    BY <2>3 DEF Raise
  <2>4. CASE SaveRaw
    BY <2>4 DEF SaveRaw, poolVars
  <2>5. CASE Parse
    BY <2>5 DEF Parse
  <2>6. CASE DeleteCoverage
    BY <2>6 DEF DeleteCoverage
  <2>7. CASE SaveCoverage
    BY <2>7 DEF SaveCoverage
  <2>8. CASE Normalize
    BY <2>8 DEF Normalize
  <2>9. CASE Consolidate
    BY <2>9 DEF Consolidate
  <2>10. CASE Render
    BY <2>10 DEF Render
  <2> QED
    BY <1>3, <2>1, <2>2, <2>3, <2>4, <2>5, <2>6, <2>7, <2>8, <2>9, <2>10 DEF Stage
<1>4. CASE Stop
  BY <1>4 DEF Stop
<1>5. CASE UNCHANGED vars
  BY <1>5 DEF vars, memory, poolVars
<1> QED
  BY <1>1, <1>2, <1>3, <1>4, <1>5 DEF Next

LEMMA StepFresh == IInv /\ [Next]_vars => FreshInv'
<1> SUFFICES ASSUME IInv, [Next]_vars PROVE FreshInv'
  OBVIOUS
<1> USE DEF Selections, IInv, Types, FreshInv, FreshRunHoldsFresh, Labels, InPool, EndRun,
            NoOutput, memory
<1>1. CASE Start
  BY <1>1 DEF Start, StartCollect, StartReparse, LoadedManifests, StartConsolidate, StartRender
<1>2. CASE \E a \in Adapters : Work(a)
  BY <1>2 DEF Work, Submit, RunAdapter
<1>3. CASE Stage
  <2>1. CASE \E a \in Adapters : Resolve(a)
    BY <2>1 DEF Resolve
  <2>2. CASE Return
    BY <2>2 DEF Return
  <2>3. CASE Raise
    BY <2>3 DEF Raise
  <2>4. CASE SaveRaw
    BY <2>4 DEF SaveRaw, Collected
  <2>5. CASE Parse
    BY <2>5 DEF Parse
  <2>6. CASE DeleteCoverage
    BY <2>6 DEF DeleteCoverage
  <2>7. CASE SaveCoverage
    BY <2>7 DEF SaveCoverage
  <2>8. CASE Normalize
    BY <2>8 DEF Normalize
  <2>9. CASE Consolidate
    BY <2>9 DEF Consolidate
  <2>10. CASE Render
    BY <2>10 DEF Render
  <2> QED
    BY <1>3, <2>1, <2>2, <2>3, <2>4, <2>5, <2>6, <2>7, <2>8, <2>9, <2>10 DEF Stage
<1>4. CASE Stop
  BY <1>4 DEF Stop
<1>5. CASE UNCHANGED vars
  BY <1>5 DEF vars, memory
<1> QED
  BY <1>1, <1>2, <1>3, <1>4, <1>5 DEF Next

LEMMA StepCoverage == IInv /\ [Next]_vars => CoverageInv'
<1> SUFFICES ASSUME IInv, [Next]_vars PROVE CoverageInv'
  OBVIOUS
<1> USE DEF Selections, IInv, Types, CoverageInv, Labels, InPool, EndRun, tables, memory
<1>1. CASE Start
  <2>1. CASE \E E \in Selections : StartCollect(E)
    BY <2>1 DEF StartCollect, CoverageOf
  <2>2. CASE \E E \in Selections : StartReparse(E)
    BY <2>2 DEF StartReparse, LoadedManifests, CoverageOf
  <2>3. CASE StartConsolidate
    BY <2>3 DEF StartConsolidate, CoverageOf
  <2>4. CASE StartRender
    BY <2>4 DEF StartRender, CoverageOf
  <2> QED
    BY <1>1, <2>1, <2>2, <2>3, <2>4 DEF Start
<1>2. CASE \E a \in Adapters : Work(a)
  <2>1. UNCHANGED <<pc, held, coverage, parsed, consolidated, renderable, torn>>
    BY <1>2 DEF Work, Submit, RunAdapter
  <2> QED
    BY <2>1 DEF CoverageOf
<1>3. CASE Stage
  <2>1. CASE \E a \in Adapters : Resolve(a)
    BY <2>1 DEF Resolve, CoverageOf
  <2>2. CASE Return
    BY <2>2 DEF Return, CoverageOf
  <2>3. CASE Raise
    BY <2>3 DEF Raise, CoverageOf
  <2>4. CASE SaveRaw
    BY <2>4 DEF SaveRaw, CoverageOf
  <2>5. CASE Parse
    BY <2>5 DEF Parse, CoverageOf
  <2>6. CASE DeleteCoverage
    BY <2>6 DEF DeleteCoverage, memory
  <2>7. CASE SaveCoverage
    <3>1. ASSUME NEW a \in Adapters PROVE NoRows[a] \o CoverageOf(held)[a] = CoverageOf(held)[a]
      BY DEF NoRows, CoverageOf
    <3>2. coverage' = CoverageOf(held)
      BY <2>7, <3>1 DEF SaveCoverage, CoverageOf
    <3> QED
      BY <2>7, <3>2 DEF SaveCoverage, memory, CoverageOf
  <2>8. CASE Normalize
    BY <2>8 DEF Normalize, memory, CoverageOf
  <2>9. CASE Consolidate
    BY <2>9 DEF Consolidate, CoverageOf
  <2>10. CASE Render
    BY <2>10 DEF Render, CoverageOf
  <2> QED
    BY <1>3, <2>1, <2>2, <2>3, <2>4, <2>5, <2>6, <2>7, <2>8, <2>9, <2>10 DEF Stage
<1>4. CASE Stop
  BY <1>4 DEF Stop, CoverageOf
<1>5. CASE UNCHANGED vars
  BY <1>5 DEF vars, memory, CoverageOf
<1> QED
  BY <1>1, <1>2, <1>3, <1>4, <1>5 DEF Next

LEMMA InductiveInv == Spec => []IInv
<1>1. IInv /\ [Next]_vars => IInv'
  BY StepTypes, StepPool, StepFresh, StepCoverage DEF IInv
<1> QED
  BY InitInv, <1>1, PTL DEF Spec

\* A run that collected works on its own collection, whatever failed in it.
THEOREM CollectedIsFresh == Spec => []FreshRunHoldsFresh
<1>1. IInv => FreshRunHoldsFresh
  BY DEF IInv, FreshInv
<1> QED
  BY InductiveInv, <1>1, PTL

\* The findings and the coverage of a report come from the same tool outputs, with
\* any number of adapters and of runs stopped anywhere else.
THEOREM ReportsCohere == Spec => []ReportCoherent
<1>1. IInv => ReportCoherent
  BY DEF IInv, CoverageInv, ReportCoherent
<1> QED
  BY InductiveInv, <1>1, PTL

---------------------------------------------------------------------------
(* The refinement                                                           *)

LEMMA InitMaps == Init => Promise!CollectionInit
  BY DEF Init, Promise!CollectionInit, Promise!Nobody, Promise!NoOutcome, InPool, NoFuture,
     NoResult

LEMMA StepMaps ==
  IInv /\ [Next]_vars => [Promise!CollectionNext \/ LosesAll]_(Promise!collectionVars)
<1> SUFFICES ASSUME IInv, [Next]_vars
             PROVE  Promise!CollectionNext \/ LosesAll \/ UNCHANGED Promise!collectionVars
  OBVIOUS
<1> DEFINE Fate == [a \in Adapters |-> CASE future[a] = "pending"    -> "running"
                                         [] future[a] = "unforeseen" -> "error"
                                         [] OTHER                    -> future[a]]
<1> USE DEF Selections, IInv, Types, PoolInv, Labels, InPool, Ends, NoFuture, NoResult,
   Promise!collectionVars, Promise!Ends, Promise!Nobody, Promise!NoOutcome, memory, poolVars
<1>1. ASSUME pc \notin InPool, EndRun PROVE Promise!Forget
  BY <1>1 DEF EndRun, Promise!Forget
<1>2. ASSUME NEW E \in SUBSET Adapters, StartCollect(E) PROVE Promise!BeginCollection(E)
  BY <1>2 DEF StartCollect, Promise!BeginCollection
<1>3. CASE (\E E \in Selections : StartReparse(E)) \/ StartConsolidate \/ StartRender
  BY <1>3 DEF StartReparse, LoadedManifests, StartConsolidate, StartRender, poolVars
<1>4. ASSUME NEW a \in Adapters, Submit(a) PROVE UNCHANGED Promise!collectionVars
  <2>1. Fate' = Fate
    BY <1>4 DEF Submit
  <2> QED
    BY <1>4, <2>1 DEF Submit
<1>5. ASSUME NEW a \in Adapters, NEW end \in Ends, RunAdapter(a, end)
      PROVE  \E f \in Promise!Ends : Promise!EndAdapter(a, f)
  <2>1. PICK f \in Promise!Ends : f = IF end = "unforeseen" THEN "error" ELSE end
    OBVIOUS
  <2>2. Fate' = [Fate EXCEPT ![a] = f] /\ Fate[a] = "running"
    BY <1>5, <2>1 DEF RunAdapter
  <2>3. Promise!EndAdapter(a, f)
    BY <1>5, <2>2 DEF RunAdapter, Promise!EndAdapter
  <2> QED
    BY <2>3
<1>6. ASSUME NEW a \in Adapters, Resolve(a) PROVE UNCHANGED Promise!collectionVars
  BY <1>6 DEF Resolve
<1>7. ASSUME Return PROVE Promise!ReturnAll
  <2>1. \A a \in Adapters : a \notin enabled => future[a] = "absent" /\ result[a] = "none"
    BY <1>7 DEF Return
  <2>2. \A a \in Adapters : Fate[a] # "running" /\ future[a] # "unforeseen"
    BY <1>7, <2>1 DEF Return
  <2>3. \A a \in Adapters : result[a] = Promise!StatusOf(Fate[a])
    BY <1>7, <2>1, <2>2 DEF Return, StatusOf, Promise!StatusOf
  <2>4. result = [a \in Adapters |-> Promise!StatusOf(Fate[a])]
    BY <2>3
  <2> QED
    BY <1>7, <2>2, <2>4 DEF Return, poolVars, Promise!ReturnAll
<1>8. ASSUME Raise PROVE LosesAll
  BY <1>8 DEF Raise, Ended, LosesAll
<1>9. ASSUME pc \notin InPool, pc' \notin InPool, UNCHANGED poolVars
      PROVE  UNCHANGED Promise!collectionVars
  BY <1>9
<1>10. CASE SaveRaw \/ DeleteCoverage \/ SaveCoverage \/ Normalize \/ Consolidate \/ Parse \/ Render
  <2>1. pc \notin InPool
    BY <1>10 DEF SaveRaw, DeleteCoverage, SaveCoverage, Normalize, Consolidate, Parse, Render
  <2>2. EndRun \/ (pc' \notin InPool /\ UNCHANGED poolVars)
    BY <1>10 DEF SaveRaw, DeleteCoverage, SaveCoverage, Normalize, Consolidate, Parse, Render
  <2> QED
    BY <1>1, <1>9, <2>1, <2>2 DEF Promise!CollectionNext
<1>11. CASE Stop
  <2>1. CASE pc \in InPool
    <3>1. Promise!Killed
      BY <1>11, <2>1 DEF Stop, EndRun, Promise!Killed
    <3> QED
      BY <3>1 DEF Promise!CollectionNext
  <2>2. CASE pc \notin InPool
    BY <1>1, <1>11, <2>2 DEF Stop, Promise!CollectionNext
  <2> QED
    BY <2>1, <2>2
<1>12. CASE UNCHANGED vars
  BY <1>12 DEF vars, memory, poolVars
<1>13. CASE Start
  BY <1>2, <1>3, <1>13 DEF Start, Promise!CollectionNext
<1>14. CASE \E a \in Adapters : Work(a)
  <2>1. PICK a \in Adapters : Work(a)
    BY <1>14
  <2> QED
    BY <1>4, <1>5, <2>1 DEF Work, Promise!CollectionNext
<1>15. CASE Stage
  BY <1>6, <1>7, <1>8, <1>10, <1>15 DEF Stage, Promise!CollectionNext
<1> QED
  BY <1>11, <1>12, <1>13, <1>14, <1>15 DEF Next

\* The pool keeps the promise of stages.collect for any number of adapters and workers,
\* except that an exception of a class that _resolve_future does not name loses the results
\* of all: each adapter's own outcome, once, or the outcome of none.
THEOREM CollectImplementsForeseen == Spec => IsolatesForeseen
  BY InitMaps, StepMaps, InductiveInv, PTL DEF Spec, IsolatesForeseen
=============================================================================
