----------------------------- MODULE ToolOutput -----------------------------
(***************************************************************************)
(* One adapter's way from its tool to the raw output of an engagement.     *)
(* A tool leaves its files in output_dir, which stays from run to run and  *)
(* which the configurations of several engagements may name; the adapter   *)
(* has to find there the files of its own run, hash them and hand them to  *)
(* save_raw_outputs, which copies them later.  Each adapter has a          *)
(* discipline of its own for this (adapters/*/adapter.py, _base.py,        *)
(* _http.py).  Runs of different engagements overlap; a killed run leaves  *)
(* its tool behind.                                                        *)
(*                                                                         *)
(* Abstractions.  The content of a file is named by the run that wrote it  *)
(* and by how much of it is there: a directory without results, a file     *)
(* still open, one that lacks something, all.  A tool with a success code  *)
(* has finished the files that it wrote (assumed of the tools).  A         *)
(* successful run of M365-Assess changes the mtime or size of what it      *)
(* writes.  Checks of the configuration that end a collection before it    *)
(* touches anything are left out; those of extra_args matter for where a   *)
(* tool writes.                                                            *)
(***************************************************************************)
EXTENDS Naturals, Sequences, FiniteSets, Provenance

CONSTANTS
  Tools,       \* the adapters to consider
  MaxRuns,     \* bound on the runs, of any engagements
  Pages,       \* URLs of an API; the first ones of the two fetches are 1 and 2
  PageLimit,   \* max_pages of fetch_paginated_json
  Servers,     \* functions from a page to its nextLink: a page, NoLink, or another origin
  Policy,      \* the adapter's MODULE_POLICY
  Candidates,  \* module copies that may be installed at some time
  Overrides    \* module_policy_override of the configurations

ASSUME ToolOutputAssumption ==
  /\ Tools \subseteq {"ScubaGear", "Monkey365", "Maester", "M365-Assess", "Prowler",
                      "AzureAdvisor", "SecureScore"}
  /\ MaxRuns \in Nat /\ PageLimit \in Nat \ {0}
  /\ NoOverride \in Overrides
  /\ Policy \in [versions: {Policy.versions}, hashes: {Policy.hashes}, fallback: BOOLEAN]

VARIABLES
  tool,    \* the adapter
  server,  \* the nextLinks of the API that it asks
  files,   \* the matching files in output_dir
  clock,   \* for modification times
  pc,      \* where each run is
  conf,    \* what its configuration says
  seen,    \* its snapshot of output_dir
  ran,     \* the module that it executed
  alive,   \* runs whose tool process exists
  wrote,   \* names that the tool of each run has written
  url,     \* the next page to fetch
  got,     \* pages fetched, for each fetch
  held,    \* CollectionOutput: the files found, with their hashes
  saved,   \* what save_raw_outputs stored
  alone,   \* history: nobody else used output_dir until the files were hashed
  quiet    \* history: ... until they were saved

fetchVars == <<url, got>>
memory == <<seen, fetchVars, held>>
history == <<alone, quiet>>
vars == <<tool, server, files, clock, pc, conf, ran, alive, wrote, memory, saved, history>>

Runs == 1..MaxRuns
NoLink == 0
Active == {"verify", "running", "fetch", "save"}
Labels == Active \cup {"new", "saved", "refused", "failed", "dead"}

ModuleTools == {"ScubaGear", "Monkey365", "Maester"}
RestTools == {"AzureAdvisor", "SecureScore"}

\* Names under which the tool of run r leaves its output: its own, for tools that put
\* a time or a uuid in the name, or always the same.
OutputNames(r) ==
  IF tool \in ModuleTools THEN {<<"new", r>>}
  ELSE {<<"out", k>> : k \in IF tool \in {"M365-Assess", "SecureScore"} THEN 1..2 ELSE {1}}

File(n, r, part) == [name |-> n, from |-> r, part |-> part, at |-> clock + 1]
NamesOf(S) == {f.name : f \in S}
Put(f) == {g \in files : g.name # f.name} \cup {f}

\* output_dir is new, or holds what a run before these left, whole or not.
Init ==
  /\ tool \in Tools
  /\ server \in IF tool \in RestTools THEN Servers ELSE {[p \in Pages |-> NoLink]}
  /\ clock = 0
  /\ files \in {{}} \cup {{[name |-> n, from |-> 0, part |-> part, at |-> 0]} :
                             n \in OutputNames(0), part \in {"partial", "whole"}}
  /\ pc = [r \in Runs |-> "new"]
  /\ conf = [r \in Runs |-> [over |-> NoOverride, redirect |-> FALSE, ingest |-> FALSE]]
  /\ seen = [r \in Runs |-> {}] /\ ran = [r \in Runs |-> NoModule]
  /\ alive = {} /\ wrote = [r \in Runs |-> {}]
  /\ url = [r \in Runs |-> 1] /\ got = [r \in Runs |-> << <<>> >>]
  /\ held = [r \in Runs |-> {}] /\ saved = [r \in Runs |-> {}]
  /\ alone = [r \in Runs |-> TRUE] /\ quiet = [r \in Runs |-> TRUE]

Goto(r, label) == pc' = [pc EXCEPT ![r] = label]

\* The run is over; what it held in memory is gone.
Leave(r, label) ==
  /\ Goto(r, label)
  /\ seen' = [seen EXCEPT ![r] = {}] /\ held' = [held EXCEPT ![r] = {}]
  /\ url' = [url EXCEPT ![r] = 1] /\ got' = [got EXCEPT ![r] = << <<>> >>]
Users == {r \in Runs : pc[r] \in Active} \cup alive

---------------------------------------------------------------------------
(* A run begins                                                             *)

\* Another user of the directory is one for both.
Crowd(r) ==
  /\ alone' = [q \in Runs |-> IF q = r THEN Users = {}
                              ELSE alone[q] /\ (q \in Users => pc[q] = "save")]
  /\ quiet' = [q \in Runs |-> IF q = r THEN Users = {} ELSE quiet[q] /\ q \notin Users]

IsNext(r) == pc[r] = "new" /\ \A q \in 1..(r - 1) : pc[q] # "new"

\* Extra arguments may name another output folder only where they are not checked
\* against the reserved ones.
Redirects(named) == IF tool = "Maester" THEN named ELSE {FALSE}

\* Each adapter's way to the point where it waits for its tool or its API. ScubaGear,
\* Monkey365 and M365-Assess remember what is there.
BeginModule(r) ==
  /\ tool \in {"ScubaGear", "Monkey365"}
  /\ Goto(r, "verify") /\ UNCHANGED <<files, clock, alive>>

\* Each run gets a directory of its own.
BeginMaester(r) ==
  /\ tool = "Maester"
  /\ clock' = clock + 1 /\ files' = files \cup {File(<<"new", r>>, r, "none")}
  /\ Goto(r, "verify") /\ UNCHANGED alive

BeginScript(r) ==
  /\ tool = "M365-Assess"
  /\ Goto(r, "running") /\ alive' = alive \cup {r} /\ UNCHANGED <<files, clock>>

BeginProwler(r) ==
  /\ tool = "Prowler"
  /\ Goto(r, "running") /\ alive' = alive \cup {r} /\ UNCHANGED <<files, clock>>

BeginFetch(r) ==
  /\ tool \in RestTools
  /\ Goto(r, "fetch") /\ UNCHANGED <<files, clock, alive>>

Begin(r) ==
  /\ IsNext(r)
  /\ \E redirect \in Redirects(BOOLEAN),
       over \in IF tool \in ModuleTools THEN Overrides ELSE {NoOverride} :
       /\ Narrows(over, Policy)
       /\ conf' = [conf EXCEPT ![r] = [over |-> over, redirect |-> redirect, ingest |-> FALSE]]
  /\ seen' = [seen EXCEPT ![r] = files]
  /\ BeginModule(r) \/ BeginMaester(r) \/ BeginScript(r) \/ BeginProwler(r) \/ BeginFetch(r)
  /\ Crowd(r)
  /\ UNCHANGED <<tool, server, ran, wrote, fetchVars, held, saved>>

---------------------------------------------------------------------------
(* PowerShell modules are verified, then run from their staged copy         *)

\* Modules may be installed or removed at any time; what is found is copied, the copy
\* is judged and the copy is imported.
Verify(r) ==
  /\ pc[r] = "verify"
  /\ \E found \in {F \in SUBSET Candidates : Cardinality(F) <= 2} :
       ran' = [ran EXCEPT ![r] = Chosen(found, Effective(conf[r].over, Policy))]
  /\ IF ran'[r] = NoModule
       THEN Leave(r, "failed") /\ UNCHANGED alive
       ELSE Goto(r, "running") /\ alive' = alive \cup {r} /\ UNCHANGED memory
  /\ UNCHANGED <<tool, server, files, clock, conf, wrote, saved, history>>

---------------------------------------------------------------------------
(* The tool process, which outlives a killed run                            *)

\* ScubaGear may create the directory and no results in it.
ToolWrites(r, n) ==
  /\ r \in alive /\ n \in OutputNames(r) \ wrote[r] /\ ~conf[r].redirect
  /\ \E part \in {"partial"} \cup IF tool = "ScubaGear" THEN {"none"} ELSE {} :
       files' = Put(File(n, r, part))
  /\ clock' = clock + 1 /\ wrote' = [wrote EXCEPT ![r] = @ \cup {n}]
  /\ UNCHANGED <<tool, server, pc, conf, ran, alive, memory, saved, history>>

\* The files that run r left in one condition get another.
Finish(r, old, part) ==
  files' = {IF f.from = r /\ f.part = old THEN [f EXCEPT !.part = part] ELSE f : f \in files}

\* Exit code 0, or 3 of Prowler; or another exit code, or the timeout, which kills it.
\* The end of an orphan concerns nobody.
ToolExits(r, ok) ==
  /\ r \in alive /\ alive' = alive \ {r}
  /\ IF ok THEN Finish(r, "partial", "whole") ELSE UNCHANGED files
  /\ IF pc[r] = "running" /\ ~ok THEN Leave(r, "failed") ELSE UNCHANGED <<pc, memory>>
  /\ UNCHANGED <<tool, server, clock, conf, ran, wrote, saved, history>>

---------------------------------------------------------------------------
(* The API adapters fetch every page, then write their files themselves     *)

Fetches == IF tool = "SecureScore" THEN 2 ELSE 1
Limit(k) == IF k = 2 THEN 1 ELSE PageLimit
Last(s) == s[Len(s)]
Collected(s) == {s[i] : i \in DOMAIN s}

\* Mutant: at the limit the pages so far are returned, as if there were no more.
FetchPage_Truncates(r) ==
  LET k == Len(got[r]) pages == Last(got[r]) next == server[url[r]]
      done == [got[r] EXCEPT ![k] = Append(pages, url[r])]
      more == next # NoLink /\ Len(pages) + 1 < Limit(k) IN
  /\ pc[r] = "fetch" /\ next \in Pages \cup {NoLink}
  /\ url[r] \notin Collected(pages) /\ Len(pages) < Limit(k)
  /\ IF more THEN
       /\ url' = [url EXCEPT ![r] = next] /\ got' = [got EXCEPT ![r] = done]
       /\ UNCHANGED pc
     ELSE IF k < Fetches THEN
       /\ url' = [url EXCEPT ![r] = k + 1] /\ got' = [got EXCEPT ![r] = Append(done, <<>>)]
       /\ UNCHANGED pc
     ELSE /\ got' = [got EXCEPT ![r] = done] /\ UNCHANGED url /\ Goto(r, "running")
  /\ UNCHANGED <<tool, server, files, clock, conf, seen, ran, alive, wrote, held, saved,
                 history>>

\* Mutant: a page seen before is passed over instead of refused.
FetchPage_SkipSeen(r) ==
  LET k == Len(got[r]) pages == Last(got[r]) next == server[url[r]]
      more == IF url[r] \in Collected(pages) THEN pages ELSE Append(pages, url[r])
      done == [got[r] EXCEPT ![k] = more] IN
  /\ pc[r] = "fetch" /\ next \in Pages \cup {NoLink} /\ Len(pages) < Limit(k)
  /\ IF next # NoLink THEN
       /\ url' = [url EXCEPT ![r] = next] /\ got' = [got EXCEPT ![r] = done]
       /\ UNCHANGED pc
     ELSE IF k < Fetches THEN
       /\ url' = [url EXCEPT ![r] = k + 1] /\ got' = [got EXCEPT ![r] = Append(done, <<>>)]
       /\ UNCHANGED pc
     ELSE /\ got' = [got EXCEPT ![r] = done] /\ UNCHANGED url /\ Goto(r, "running")
  /\ UNCHANGED <<tool, server, files, clock, conf, seen, ran, alive, wrote, held, saved,
                 history>>

\* One request of fetch_paginated_json. A page seen before, one too many and a link to
\* another origin are refused, as are answers that are not what they should be.
FetchPage(r) ==
  LET k == Len(got[r]) pages == Last(got[r]) next == server[url[r]]
      done == [got[r] EXCEPT ![k] = Append(pages, url[r])] IN
  /\ pc[r] = "fetch" /\ next \in Pages \cup {NoLink}
  /\ url[r] \notin Collected(pages) /\ Len(pages) < Limit(k)
  /\ IF next # NoLink THEN
       /\ url' = [url EXCEPT ![r] = next] /\ got' = [got EXCEPT ![r] = done]
       /\ UNCHANGED pc
     ELSE IF k < Fetches THEN
       /\ url' = [url EXCEPT ![r] = k + 1] /\ got' = [got EXCEPT ![r] = Append(done, <<>>)]
       /\ UNCHANGED pc
     ELSE /\ got' = [got EXCEPT ![r] = done] /\ UNCHANGED url /\ Goto(r, "running")
  /\ UNCHANGED <<tool, server, files, clock, conf, seen, ran, alive, wrote, held, saved,
                 history>>

\* Any of the refusals, an HTTP error, a request that times out, an expired token; or
\* the file cannot be written.
Refuse(r) ==
  /\ pc[r] = "fetch" \/ (pc[r] = "running" /\ tool \in RestTools)
  /\ Leave(r, "failed")
  /\ UNCHANGED <<tool, server, files, clock, conf, ran, alive, wrote, saved, history>>

\* s has the pages from page k to the last one, each followed by the one it links to.
IsChain(s, k) ==
  /\ s # <<>> /\ s[1] = k /\ server[Last(s)] = NoLink
  /\ \A i \in 1..(Len(s) - 1) : server[s[i]] = s[i + 1]

\* What was fetched is all that the API has to give.
Complete(r) == Len(got[r]) = Fetches /\ \A k \in 1..Fetches : IsChain(got[r][k], k)

Open(r) == \E f \in files : f.from = r /\ f.part = "open"

\* write_text truncates the file before it fills it, one file after the other.
AdapterOpens(r, n) ==
  /\ pc[r] = "running" /\ tool \in RestTools /\ n \in OutputNames(r) \ wrote[r] /\ ~Open(r)
  /\ files' = Put(File(n, r, "open"))
  /\ clock' = clock + 1 /\ wrote' = [wrote EXCEPT ![r] = @ \cup {n}]
  /\ UNCHANGED <<tool, server, pc, conf, ran, alive, memory, saved, history>>

\* The file gets what was fetched, whatever that is.
AdapterCloses(r) ==
  /\ pc[r] = "running" /\ tool \in RestTools /\ Open(r)
  /\ Finish(r, "open", IF Complete(r) THEN "whole" ELSE "partial")
  /\ UNCHANGED <<tool, server, clock, pc, conf, ran, alive, wrote, memory, saved, history>>

---------------------------------------------------------------------------
(* The adapter looks for its output and hashes it                           *)

\* find_latest_output_dir
Newest == {f \in files : \A g \in files : g.at <= f.at}

\* The latest directory, if it is not one of the snapshot and holds results.
FoundScubaGear(r) == {f \in Newest : f.name \notin NamesOf(seen[r]) /\ f.part # "none"}

\* New names only.
FoundMonkey365(r) == {f \in files : f.name \notin NamesOf(seen[r])}

\* The results file of the run's own directory.
FoundMaester(r) == {f \in files : f.name = <<"new", r>> /\ f.part # "none"}

\* New names, and old names with a new time or size.
FoundM365Assess(r) == {f \in files : \A g \in seen[r] : g.name = f.name => g.at < f.at}

\* Every file with the name that Prowler was given, at any depth.
FoundProwler == files

\* The names that the adapter has just written.
FoundWritten(r) == {f \in files : f.name \in OutputNames(r)}

\* Mutant: whatever is there.
Found_Any(r) == {f \in files : f.part # "none"}

\* The files that the adapter takes for the output of run r; none is an error.
Found(r) ==
  CASE tool = "ScubaGear"   -> FoundScubaGear(r)
    [] tool = "Monkey365"   -> FoundMonkey365(r)
    [] tool = "Maester"     -> FoundMaester(r)
    [] tool = "M365-Assess" -> FoundM365Assess(r)
    [] tool = "Prowler"     -> FoundProwler
    [] OTHER                -> FoundWritten(r)

\* Mutant: the adapter does not wait for its tool.
Discover_Early(r) ==
  /\ pc[r] = "running"
  /\ \/ /\ Found(r) # {} /\ held' = [held EXCEPT ![r] = Found(r)] /\ Goto(r, "save")
        /\ UNCHANGED <<seen, fetchVars>>
     \/ /\ (Found(r) = {} \/ tool = "M365-Assess") /\ Leave(r, "failed")
  /\ UNCHANGED <<tool, server, files, clock, conf, ran, alive, wrote, saved, history>>

\* M365-Assess also needs the files of its controls directory. An API adapter takes the
\* files once it has written them all, and does not look at what is in them.
Discover(r) ==
  /\ pc[r] = "running" /\ r \notin alive
  /\ tool \in RestTools => wrote[r] = OutputNames(r) /\ ~Open(r)
  /\ \/ /\ Found(r) # {} /\ held' = [held EXCEPT ![r] = Found(r)] /\ Goto(r, "save")
        /\ UNCHANGED <<seen, fetchVars>>
     \/ /\ (Found(r) = {} \/ tool = "M365-Assess") /\ Leave(r, "failed")
  /\ UNCHANGED <<tool, server, files, clock, conf, ran, alive, wrote, saved, history>>

\* ingest_from_directory: the sets of files that each adapter may take from a directory
\* that an operator names, here output_dir. No run of the tool, no check of the age.
IngestScubaGear == {{f} : f \in {g \in files : g.part # "none"}}
IngestMaester == {{f} : f \in {g \in files : g.part # "none"}}
IngestProwler == {files} \ {{}}
IngestAdvisor == {files} \ {{}}
IngestSecureScore == {F \in {files} : Cardinality(F) = 2}

Ingestible ==
  CASE tool = "ScubaGear"    -> IngestScubaGear
    [] tool = "Maester"      -> IngestMaester
    [] tool = "Prowler"      -> IngestProwler
    [] tool = "AzureAdvisor" -> IngestAdvisor
    [] tool = "SecureScore"  -> IngestSecureScore
    [] OTHER                 -> {}

Ingest(r) ==
  /\ IsNext(r)
  /\ \E F \in Ingestible : held' = [held EXCEPT ![r] = F]
  /\ conf' = [conf EXCEPT ![r].ingest = TRUE]
  /\ Goto(r, "save") /\ Crowd(r)
  /\ UNCHANGED <<tool, server, files, clock, seen, ran, alive, wrote, fetchVars, saved>>

---------------------------------------------------------------------------
(* After the last adapter, the files are copied                             *)

Unchanged(f) == \E g \in files : g.name = f.name /\ g.from = f.from /\ g.part = f.part

\* save_raw_outputs checks the hashes of the files, then those of its copies.
\* It also refuses relative paths, which a relative output_dir leads to: here
\* output_dir is absolute.
Save(r) ==
  /\ pc[r] = "save"
  /\ IF \A f \in held[r] : Unchanged(f)
       THEN saved' = [saved EXCEPT ![r] = held[r]] /\ Leave(r, "saved")
       ELSE UNCHANGED saved /\ Leave(r, "refused")
  /\ UNCHANGED <<tool, server, files, clock, conf, ran, alive, wrote, history>>

Kill(r) ==
  /\ pc[r] \in Active /\ Leave(r, "dead")
  /\ UNCHANGED <<tool, server, files, clock, conf, ran, alive, wrote, saved, history>>

---------------------------------------------------------------------------
Step(r) ==
  \/ Verify(r) \/ FetchPage(r) \/ Refuse(r) \/ AdapterCloses(r) \/ Discover(r) \/ Save(r)
  \/ \E n \in OutputNames(r) : AdapterOpens(r, n)
  \/ \E ok \in BOOLEAN : ToolExits(r, ok)

Next ==
  \E r \in Runs :
    \/ Begin(r) \/ Ingest(r) \/ Step(r) \/ Kill(r)
    \/ \E n \in OutputNames(r) : ToolWrites(r, n)

Spec == Init /\ [][Next]_vars

\* Every subprocess and every request has a timeout.
FairSpec == Spec /\ \A r \in Runs : WF_vars(Step(r))

---------------------------------------------------------------------------
(* Properties *)

\* What a collection stores is what its own tool run left, whole and all of it, as
\* long as nobody else used output_dir until it was hashed: nothing of an earlier
\* run, nothing of a run cut short, no page missing. The API adapters write whatever
\* fetch_paginated_json gave them, so for them it rests on the loop over the pages.
\* Maester needs no such condition; Prowler's files are not checked for their age, so
\* for it only the part about the names is promised.
OwnOutput ==
  \A r \in Runs :
    pc[r] = "saved" /\ ~conf[r].ingest /\ (alone[r] \/ tool = "Maester") =>
      /\ wrote[r] \subseteq NamesOf(saved[r])
      /\ tool # "Prowler" =>
           \A f \in saved[r] : f.from = r /\ f.part = "whole"

\* What an adapter collected can be stored: when nobody else uses output_dir,
\* save_raw_outputs finds every file as the adapter hashed it.
QuietIsSaved == \A r \in Runs : pc[r] = "refused" => ~quiet[r]

\* No configuration makes a run execute a module that the adapter's policy does not
\* approve, nor one that its own override excludes.
RunsApproved ==
  \A r \in Runs :
    ran[r] # NoModule =>
      /\ Approved(ran[r], Policy)
      /\ conf[r].over.pin # NoPin => ran[r].version = conf[r].over.pin
      /\ conf[r].over.hashes # {} => ran[r].hash \in conf[r].over.hashes

\* A collection comes to an end, however the tool or the API behaves.
CollectReturns == \A r \in Runs : pc[r] \in Active ~> pc[r] \notin Active
=============================================================================
