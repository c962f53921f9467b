------------------------------ MODULE Collect -------------------------------
(***************************************************************************)
(* What one engagement's runs make of the output of its tools: the thread  *)
(* pool of the COLLECT stage (pipeline.stages.collect), what it leaves on  *)
(* disk, and the stages that carry it on, up to the report                 *)
(* (pipeline/_runner.py, persistence/coverage_repo.py).  Runs follow one   *)
(* another under the engagement lock.                                      *)
(*                                                                         *)
(* Abstractions.  The output of an adapter, and all that is computed from  *)
(* it (observations, findings, coverage records), is named by the          *)
(* collection that produced it; 0 is none.  save_raw_outputs is one step   *)
(* here (module RawStore takes it apart).  Which stage may start when is   *)
(* module Pipeline's; here a stage starts once the data it loads exists,   *)
(* and RENDER while nothing upstream was rerun since the consolidation.    *)
(***************************************************************************)
EXTENDS Naturals, Sequences, FiniteSets

CONSTANTS
  Adapters,      \* storage slugs of the adapters
  Exporters,     \* those with the capability coverage_export
  MaxParallel,   \* config.max_parallel
  MaxCollections \* bound on the collections

ASSUME CollectAssumption ==
  /\ MaxParallel \in Nat \ {0} /\ MaxCollections \in Nat
  /\ Exporters \subseteq Adapters

VARIABLES
  pc,           \* where the run in progress is
  enabled,      \* the adapters its configuration enables
  future,       \* the futures of the pool
  result,       \* the results that the loop over as_completed has appended
  used,         \* collections so far
  fresh,        \* history: the run began with COLLECT
  held,         \* what the run holds in memory: the output of each adapter
  disk,         \* raw-output/
  coverage,     \* rows of coverage_records of each adapter
  parsed,       \* findings table
  consolidated, \* consolidated_findings table
  renderable,   \* nothing upstream of RENDER was rerun since the consolidation
  torn          \* history: the last PARSE began to replace the coverage records and
                \* its findings were not stored

poolVars == <<future, result>>
tables == <<coverage, parsed, consolidated>>
memory == <<enabled, poolVars, fresh, held>>
vars == <<pc, memory, used, disk, tables, renderable, torn>>

Ends == {"success", "timeout", "error", "unforeseen"}
InPool == {"iterate", "raising"}
Labels == InPool \cup {"idle", "raised", "save", "parse", "delete_coverage", "save_coverage",
                       "normalize", "consolidate", "render"}

Gens == 0..MaxCollections
Outputs == [Adapters -> Gens]
NoOutput == [a \in Adapters |-> 0]
NoRows == [a \in Adapters |-> <<>>]
NoResult == [a \in Adapters |-> "none"]
NoFuture == [a \in Adapters |-> "absent"]
Successful(f) == {a \in Adapters : f[a] # 0}

Init ==
  /\ pc = "idle" /\ enabled = {} /\ future = NoFuture /\ result = NoResult
  /\ fresh = FALSE /\ held = NoOutput
  /\ used = 0 /\ disk = NoOutput
  /\ coverage = NoRows /\ parsed = NoOutput /\ consolidated = NoOutput
  /\ renderable = FALSE /\ torn = FALSE

\* The run ends: StageContext and the pool are gone.
EndRun ==
  /\ pc' = "idle" /\ enabled' = {} /\ future' = NoFuture /\ result' = NoResult
  /\ fresh' = FALSE /\ held' = NoOutput

---------------------------------------------------------------------------
(* The four places a run can start; a rerun revokes the renderable state    *)

\* The adapters installed that the configuration enables; an enabled tool
\* without an adapter ends the command (filter_and_validate_adapters).
Selections == SUBSET Adapters

\* A new pool, with a future for each adapter; collect and run want one at least.
StartCollect(E) ==
  /\ pc = "idle" /\ used < MaxCollections /\ E # {}
  /\ pc' = "iterate" /\ enabled' = E /\ used' = used + 1 /\ fresh' = TRUE
  /\ future' = [a \in Adapters |-> IF a \in E THEN "pending" ELSE "absent"]
  /\ result' = NoResult /\ held' = NoOutput /\ renderable' = FALSE
  /\ UNCHANGED <<disk, tables, torn>>

\* load_raw_outputs: every manifest there is, MissingRawOutputError without one.
LoadedManifests == disk

StartReparse(E) ==
  /\ pc = "idle" /\ LoadedManifests # NoOutput
  /\ pc' = "parse" /\ enabled' = E /\ fresh' = FALSE
  /\ held' = LoadedManifests /\ renderable' = FALSE
  /\ UNCHANGED <<poolVars, used, disk, tables, torn>>

\* Parsed findings of any earlier run will do, even none at all.
StartConsolidate ==
  /\ pc = "idle"
  /\ pc' = "consolidate" /\ fresh' = FALSE
  /\ held' = parsed /\ renderable' = FALSE
  /\ UNCHANGED <<enabled, poolVars, used, disk, tables, torn>>

StartRender ==
  /\ pc = "idle" /\ renderable
  /\ pc' = "render" /\ fresh' = FALSE /\ held' = consolidated
  /\ UNCHANGED <<enabled, poolVars, used, disk, tables, renderable, torn>>

---------------------------------------------------------------------------
(* The pool: workers run adapters, the stage's thread resolves futures      *)

Running == {a \in Adapters : future[a] = "running"}
Ended(a) == future[a] \in Ends

\* Mutant: an adapter that raised keeps its worker.
Submit_Leak(a) ==
  /\ pc \in InPool /\ future[a] = "pending"
  /\ Cardinality({b \in Adapters : future[b] \in {"running", "error"}}) < MaxParallel
  /\ future' = [future EXCEPT ![a] = "running"]
  /\ UNCHANGED <<pc, enabled, result, fresh, held, used, disk, tables, renderable, torn>>

\* A free worker takes a queued adapter. Leaving the with block, even by an
\* exception, waits for the queue to drain.
Submit(a) ==
  /\ pc \in InPool /\ future[a] = "pending"
  /\ Cardinality(Running) < MaxParallel
  /\ future' = [future EXCEPT ![a] = "running"]
  /\ UNCHANGED <<pc, enabled, result, fresh, held, used, disk, tables, renderable, torn>>

\* authenticate and collect return, or one of them raises.
RunAdapter(a, end) ==
  /\ pc \in InPool /\ future[a] = "running"
  /\ future' = [future EXCEPT ![a] = end]
  /\ UNCHANGED <<pc, enabled, result, fresh, held, used, disk, tables, renderable, torn>>

StatusOf(end) ==
  CASE end = "success" -> "SUCCESS" [] end = "timeout" -> "TIMEOUT" [] end = "error" -> "FAILED"

\* Mutant: an exception of an unnamed class ends the loop, and the results appended so
\* far are returned.
Resolve_Partial(a) ==
  /\ pc = "iterate" /\ Ended(a) /\ result[a] = "none"
  /\ \/ /\ future[a] # "unforeseen"
        /\ result' = [result EXCEPT ![a] = StatusOf(future[a])] /\ pc' = pc
     \/ /\ future[a] = "unforeseen"
        /\ pc' = "save" /\ result' = result
  /\ UNCHANGED <<enabled, future, used, fresh, held, disk, tables, renderable, torn>>

\* _resolve_future of a future that as_completed yields; it yields ended futures
\* in any order. An exception of a class it does not name leaves the loop.
Resolve(a) ==
  /\ pc = "iterate" /\ Ended(a) /\ result[a] = "none"
  /\ \/ /\ future[a] # "unforeseen"
        /\ result' = [result EXCEPT ![a] = StatusOf(future[a])] /\ pc' = pc
     \/ /\ future[a] = "unforeseen"
        /\ pc' = "raising" /\ result' = NoResult
  /\ UNCHANGED <<enabled, future, used, fresh, held, disk, tables, renderable, torn>>

Return ==
  /\ pc = "iterate" /\ \A a \in enabled : result[a] # "none"
  /\ pc' = "save"
  /\ UNCHANGED <<memory, used, disk, tables, renderable, torn>>

\* The exception leaves the with block once the queue is drained, and takes the results
\* with it. Nothing is left for the run to do.
Raise ==
  /\ pc = "raising" /\ \A a \in enabled : Ended(a)
  /\ pc' = "raised"
  /\ UNCHANGED <<memory, used, disk, tables, renderable, torn>>

---------------------------------------------------------------------------
(* The stages that follow                                                   *)

Collected == [a \in Adapters |-> IF result[a] = "SUCCESS" THEN used ELSE 0]

\* Mutant: a run whose adapters all failed goes on with what is on disk.
SaveRaw_Previous ==
  /\ pc = "save"
  /\ disk' = IF Collected # NoOutput THEN Collected ELSE disk
  /\ held' = disk' /\ pc' = "parse"
  /\ UNCHANGED <<enabled, poolVars, used, fresh, tables, renderable, torn>>

\* Without a successful adapter, raw-output/ is left as it is, and the run goes on
\* with an empty list.
SaveRaw ==
  /\ pc = "save"
  /\ held' = Collected /\ pc' = "parse"
  /\ disk' = IF Collected # NoOutput THEN Collected ELSE disk
  /\ UNCHANGED <<enabled, poolVars, used, fresh, tables, renderable, torn>>

\* A manifest names an adapter of this run (_check_manifest_identity).
Identified(a) == a \in enabled

\* confine_and_resolve accepts all manifests, or none.
Confined == \A a \in Successful(held) : Identified(a)

\* One manifest that is malformed or refused, or one artifact that is not valid, fails the stage for
\* all.
Parse ==
  /\ pc = "parse"
  /\ \/ Confined /\ pc' = "delete_coverage" /\ UNCHANGED memory
     \/ Successful(held) # {} /\ EndRun
  /\ UNCHANGED <<used, disk, tables, renderable, torn>>

\* Mutant: a run without coverage records keeps the old ones.
DeleteCoverage_IfAny ==
  /\ pc = "delete_coverage"
  /\ coverage' = IF Successful(held) \cap Exporters # {} THEN NoRows ELSE coverage
  /\ torn' = TRUE /\ pc' = "save_coverage"
  /\ UNCHANGED <<memory, used, disk, parsed, consolidated, renderable>>

DeleteCoverage ==
  /\ pc = "delete_coverage"
  /\ coverage' = NoRows /\ torn' = TRUE /\ pc' = "save_coverage"
  /\ UNCHANGED <<memory, used, disk, parsed, consolidated, renderable>>

CoverageOf(f) ==
  [a \in Adapters |-> IF a \in Exporters /\ f[a] # 0 THEN <<f[a]>> ELSE <<>>]

\* Rows are inserted, whatever the table holds: it has no unique key.
SaveCoverage ==
  /\ pc = "save_coverage"
  /\ coverage' = [a \in Adapters |-> coverage[a] \o CoverageOf(held)[a]]
  /\ pc' = "normalize"
  /\ UNCHANGED <<memory, used, disk, parsed, consolidated, renderable,
                 torn>>

Normalize ==
  /\ pc = "normalize"
  /\ parsed' = held /\ torn' = FALSE /\ pc' = "consolidate"
  /\ UNCHANGED <<memory, used, disk, coverage, consolidated, renderable>>

\* After the consolidation the engagement waits for approval, here by a Stop.
Consolidate ==
  /\ pc = "consolidate"
  /\ consolidated' = held /\ renderable' = TRUE /\ pc' = "render"
  /\ UNCHANGED <<memory, used, disk, coverage, parsed, torn>>

\* The findings come from memory, the coverage from the database.
Render ==
  /\ pc = "render" /\ EndRun
  /\ UNCHANGED <<used, disk, tables, renderable, torn>>

\* A stop stage, a human gate, a failed stage, an exception that nobody catches or a kill.
Stop ==
  /\ pc # "idle" /\ EndRun
  /\ UNCHANGED <<used, disk, tables, renderable, torn>>

---------------------------------------------------------------------------

Start ==
  \/ \E E \in Selections : StartCollect(E) \/ StartReparse(E)
  \/ StartConsolidate
  \/ StartRender

Work(a) == Submit(a) \/ (\E end \in Ends : RunAdapter(a, end))

Stage ==
  \/ \E a \in Adapters : Resolve(a)
  \/ Return \/ Raise
  \/ SaveRaw \/ Parse \/ DeleteCoverage \/ SaveCoverage \/ Normalize \/ Consolidate \/ Render

Next == Start \/ (\E a \in Adapters : Work(a)) \/ Stage \/ Stop

Spec == Init /\ [][Next]_vars

\* Every adapter ends: its external calls have timeouts. The stage's thread runs.
FairSpec == Spec /\ WF_vars(Stage) /\ \A a \in Adapters : WF_vars(Work(a))

---------------------------------------------------------------------------
(* Properties                                                               *)

\* Every variable has its type.
TypeOK ==
  /\ pc \in Labels /\ enabled \subseteq Adapters /\ used \in Gens /\ fresh \in BOOLEAN
  /\ future \in [Adapters -> Ends \cup {"absent", "pending", "running"}]
  /\ result \in [Adapters -> {"SUCCESS", "TIMEOUT", "FAILED", "none"}]
  /\ held \in Outputs /\ disk \in Outputs /\ parsed \in Outputs /\ consolidated \in Outputs
  /\ coverage \in [Adapters -> Seq(Gens)]
  /\ renderable \in BOOLEAN /\ torn \in BOOLEAN

\* The promise of stages.collect, read off the pool: an adapter that raised has failed,
\* whatever it raised.
Promise ==
  INSTANCE Collection WITH
    open    <- pc \in InPool,
    fate    <- [a \in Adapters |->
                  CASE future[a] = "pending"    -> "running"
                    [] future[a] = "unforeseen" -> "error"
                    [] OTHER                    -> future[a]],
    outcome <- IF pc \in InPool THEN NoResult ELSE result

\* Every adapter gets its own outcome, and no failure of an adapter ends the stage: what
\* the docstring of stages.collect says. The exceptions that _resolve_future does not name
\* break it.
IsolatesAdapters == Promise!CollectionSpec

\* The stage ends without a result: every adapter has ended, and one of them has raised what
\* _resolve_future does not name.
LosesAll ==
  /\ pc \in InPool /\ pc' = "raised"
  /\ result' = NoResult /\ UNCHANGED future
  /\ \A a \in enabled : Ended(a)
  /\ \E a \in enabled : future[a] = "unforeseen"

\* The pool, its queue and its list of results keep the promise of stages.collect with that
\* single exception: each adapter gets its own outcome, in whatever order they end, or all
\* results are lost to an exception of an unnamed class. There is never a list of some of
\* the adapters, nor an outcome that another adapter's failure changed.
IsolatesForeseen ==
  /\ Promise!CollectionInit
  /\ [][Promise!CollectionNext \/ LosesAll]_(Promise!collectionVars)

\* A collection ends, however its adapters end and however many wait for a worker:
\* slow or failing adapters do not hold the stage for ever (stages.collect).
CollectionEnds == pc = "iterate" ~> pc \notin InPool

\* A run that collected never works on the output of an earlier collection, not even
\* when all its adapters failed and raw-output/ still has the old files
\* (_run_collect, save_raw_outputs).
FreshRunHoldsFresh ==
  fresh /\ pc \notin {"idle"} \cup InPool => \A a \in Adapters : held[a] \in {0, used}

\* The coverage that a report gets is that of the tool outputs its findings come from,
\* once per tool, unless the last PARSE was stopped before its findings were stored: the
\* two tables are replaced in different stages (_run_parse, _run_normalize), and
\* RENDER takes one from memory and one from the database.
ReportCoherent == pc = "render" /\ ~torn => coverage = CoverageOf(held)
=============================================================================
