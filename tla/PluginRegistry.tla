--------------------------- MODULE PluginRegistry ---------------------------
(***************************************************************************)
(* The plugin registry of every API and worker process, rebuilt from the   *)
(* plugin_sources table by refreshPluginRegistry.  A refresh lists the     *)
(* table once, loads source after source (resolve the ref, fetch the       *)
(* commit, install its dependencies, import it), and swaps the holder.     *)
(* Every step below ends at an `await`, nothing serialises two refreshes   *)
(* of one process, and they share its disk and its module cache.           *)
(***************************************************************************)
EXTENDS Naturals, Sequences, FiniteSets

CONSTANTS
    Hosts,        \* API replicas and workers, each with a holder
    Refreshes,    \* <<h, k>>: refreshes that may be in progress in process h
    Order,        \* the sources, in the order of ORDER BY id
    MaxCommit,    \* bound: commits on a branch
    MaxEvents,    \* bound: edits, pushes and process exits per behaviour
    MaxRefreshes  \* bound: refreshes asked for, and boots, per behaviour

ASSUME RegistryConstants ==
    /\ Hosts # {}
    /\ \A r \in Refreshes : r[1] \in Hosts
    /\ \A h \in Hosts : <<h, 1>> \in Refreshes
    /\ Len(Order) \in Nat \ {0}
    /\ \A i, k \in 1 .. Len(Order) : Order[i] = Order[k] => i = k
    /\ MaxCommit \in Nat \ {0}
    /\ MaxEvents \in Nat
    /\ MaxRefreshes \in Nat

Sources   == {Order[i] : i \in 1 .. Len(Order)}
Commits   == 1 .. MaxCommit
Copies    == Hosts \X Sources \X Commits

\* What a registry holds of each source: the commit it serves, 0 for nothing.
\* Built-in sources never fail and never change; they are left out.
Registries == [Sources -> 0 .. MaxCommit]
Empty      == [s \in Sources |-> 0]

\* A refresh slot: where it stands, the source it is at and the commit of
\* that source, what it listed, built and failed to load.  `asked`: it serves
\* a POST and will publish.
Idle == [pc |-> "idle", at |-> 0, commit |-> 0, rows |-> {}, built |-> Empty,
         failed |-> {}, asked |-> FALSE, fresh |-> FALSE]

VARIABLES
    table,        \* table[s]: "absent", "disabled" or "enabled"
    branch,       \* branch[s]: the commit its ref names on the remote
    result,       \* result[s]: last_commit_sha and last_load_ok of the row
    disk,         \* the plugin cache directory: working copies that are there
    deps,         \* deps[x]: node_modules of copy x, "none", "partial" or "full"
    marker,       \* copies with a .ragdoll-installed file
    modules,      \* pluginCache of each process: copies imported so far
    holder,       \* holder[h]: the registry every lookup goes through
    refresh,      \* refresh[h, k]: a refresh in progress
    changeInbox,  \* changeInbox[h]: broadcasts on their way to h
    budget,       \* what is left of the bounds
    current,      \* history: is holder[h] the build of a refresh that listed
                  \* after the last edit and loaded every source
    collided,     \* history: copies two refreshes were installing at once
    trouble       \* history: an edit, a push, a failure or an exit has happened

registryVars == <<table, branch, result, disk, deps, marker, modules, holder,
                  refresh, changeInbox, budget, current, collided, trouble>>

catalogue == <<table, branch, result>>
cacheFiles     == <<disk, deps, marker, collided>>

RegistryTypeOK ==
    /\ table \in [Sources -> {"absent", "disabled", "enabled"}]
    /\ branch \in [Sources -> Commits]
    /\ result \in [Sources -> [sha : 0 .. MaxCommit, ok : BOOLEAN]]
    /\ disk \subseteq Copies
    /\ deps \in [Copies -> {"none", "partial", "full"}]
    /\ marker \subseteq Copies
    /\ modules \subseteq Copies
    /\ holder \in [Hosts -> Registries]
    /\ refresh \in [Refreshes ->
           [pc : {"idle", "list", "load", "fetch", "install", "npm",
                  "import", "mark", "extend"},
            at : 0 .. Len(Order), commit : 0 .. MaxCommit, rows : SUBSET Sources,
            built : Registries, failed : SUBSET Sources, asked : BOOLEAN, fresh : BOOLEAN]]
    /\ changeInbox \in [Hosts -> Nat]
    /\ current \in [Hosts -> BOOLEAN]
    /\ collided \subseteq Copies
    /\ trouble \in BOOLEAN

\* Every process has booted from a table whose sources are all at commit 1.
RegistryInit ==
    /\ table = [s \in Sources |-> "enabled"]
    /\ branch = [s \in Sources |-> 1]
    /\ result = [s \in Sources |-> [sha |-> 1, ok |-> TRUE]]
    /\ disk = {x \in Copies : x[3] = 1}
    /\ deps = [x \in Copies |-> IF x[3] = 1 THEN "full" ELSE "none"]
    /\ marker = {x \in Copies : x[3] = 1}
    /\ modules = {x \in Copies : x[3] = 1}
    /\ holder = [h \in Hosts |-> [s \in Sources |-> 1]]
    /\ refresh = [r \in Refreshes |-> Idle]
    /\ changeInbox = [h \in Hosts |-> 0]
    /\ budget = [events |-> MaxEvents, refreshes |-> MaxRefreshes]
    /\ current = [h \in Hosts |-> TRUE]
    /\ collided = {}
    /\ trouble = FALSE

\* What a registry built from the table as it stands serves.
Expected == [s \in Sources |-> IF table[s] = "enabled" THEN branch[s] ELSE 0]

-----------------------------------------------------------------------------
(* The catalogue and the remotes                                           *)

Edited ==
    /\ budget.events > 0
    /\ budget' = [budget EXCEPT !.events = @ - 1]
    /\ current' = [h \in Hosts |-> FALSE]
    /\ refresh' = [r \in Refreshes |-> [refresh[r] EXCEPT !.fresh = FALSE]]
    /\ trouble' = TRUE
    /\ UNCHANGED <<cacheFiles, modules, holder, changeInbox>>

\* POST, PATCH and DELETE /api/plugins/sources: none of them refreshes.
EditSource(s) ==
    /\ \E state \in {"absent", "disabled", "enabled"} \ {table[s]} :
           table' = [table EXCEPT ![s] = state]
    /\ result' = IF table'[s] = "absent" \/ table[s] = "absent"
                   THEN [result EXCEPT ![s] = [sha |-> 0, ok |-> FALSE]]
                   ELSE result
    /\ Edited
    /\ UNCHANGED branch

\* Somebody pushes to the branch a source follows.
PushCommit(s) ==
    /\ branch[s] < MaxCommit
    /\ branch' = [branch EXCEPT ![s] = @ + 1]
    /\ Edited
    /\ UNCHANGED <<table, result>>

-----------------------------------------------------------------------------
(* A refresh                                                               *)

Source(r) == Order[refresh[r].at]
Copy(r)   == <<r[1], Source(r), refresh[r].commit>>

RefreshStep(r, record) == refresh' = [refresh EXCEPT ![r] = record]
Goto(r, place)      == RefreshStep(r, [refresh[r] EXCEPT !.pc = place])

\* To the mark of the current source, with or without its plugins.
Loaded(r) ==
    /\ RefreshStep(r, [refresh[r] EXCEPT !.pc = "mark", !.built[Source(r)] = refresh[r].commit])
    /\ UNCHANGED trouble
Failed(r) ==
    /\ RefreshStep(r, [refresh[r] EXCEPT !.pc = "mark", !.failed = @ \cup {Source(r)}])
    /\ trouble' = TRUE

\* POST /api/plugins/refresh.  Nothing stops a second one.
RequestRefresh(r) ==
    /\ refresh[r].pc = "idle"
    /\ budget.refreshes > 0
    /\ budget' = [budget EXCEPT !.refreshes = @ - 1]
    /\ RefreshStep(r, [Idle EXCEPT !.pc = "list", !.asked = TRUE])
    /\ UNCHANGED <<catalogue, cacheFiles, modules, holder, changeInbox, current, trouble>>

\* A broadcast of another process arrives.
ReceiveRefresh(r) ==
    /\ refresh[r].pc = "idle"
    /\ changeInbox[r[1]] > 0
    /\ changeInbox' = [changeInbox EXCEPT ![r[1]] = @ - 1]
    /\ RefreshStep(r, [Idle EXCEPT !.pc = "list"])
    /\ UNCHANGED <<catalogue, cacheFiles, modules, holder, budget, current, trouble>>

\* A refresh throws: nothing is swapped or published.  A process that was
\* still booting exits (and may be started again: Exit).
RefreshAborts(r) == RefreshStep(r, Idle) /\ trouble' = TRUE

\* Mutant: the live registry is emptied and filled again in place.
ListInPlace(r) ==
    /\ refresh[r].pc = "list"
    /\ RefreshStep(r, [refresh[r] EXCEPT
           !.pc = "load", !.at = 1, !.fresh = TRUE,
           !.rows = {s \in Sources : table[s] = "enabled"}])
    /\ holder' = [holder EXCEPT ![r[1]] = Empty]
    /\ UNCHANGED <<catalogue, cacheFiles, modules, changeInbox, budget, current, trouble>>

\* store.list: the one look at the table.
List(r) ==
    /\ refresh[r].pc = "list"
    /\ \/ /\ RefreshStep(r, [refresh[r] EXCEPT
                  !.pc = "load", !.at = 1, !.fresh = TRUE,
                  !.rows = {s \in Sources : table[s] = "enabled"}])
          /\ UNCHANGED trouble
       \/ RefreshAborts(r)
    /\ UNCHANGED <<catalogue, cacheFiles, modules, holder, changeInbox, budget, current>>

\* resolveRefToSha: what `git ls-remote` says of the ref.
RefToSha(s) == branch[s]

\* loadSource up to the remote's answer: a source that is not enabled is
\* skipped, and resolveRefToSha may fail.
Resolve(r) ==
    /\ refresh[r].pc = "load"
    /\ \/ Source(r) \notin refresh[r].rows /\ Goto(r, "mark") /\ UNCHANGED trouble
       \/ /\ Source(r) \in refresh[r].rows
          /\ RefreshStep(r, [refresh[r] EXCEPT !.pc = "fetch", !.commit = RefToSha(Source(r))])
          /\ UNCHANGED trouble
       \/ Source(r) \in refresh[r].rows /\ Failed(r)
    /\ UNCHANGED <<catalogue, cacheFiles, modules, holder, changeInbox, budget, current>>

\* With the working copy there: replay what this process has imported from
\* that commit before, or go on to install and import it.
Fetched(r) ==
    IF Copy(r) \in modules THEN Loaded(r)
    ELSE Goto(r, "install") /\ UNCHANGED trouble

\* ensureCommitOnDisk: a copy that is there is used; else clone into a
\* directory of this refresh's own, which may fail, and rename it into place.
\* Who loses that race takes what is there.  A commit that is not in the module
\* cache may have to be signed, and not be.
Fetch(r) ==
    /\ refresh[r].pc = "fetch"
    /\ \/ disk' = disk \cup {Copy(r)} /\ Fetched(r)
       \/ disk' = disk \cup {Copy(r)} /\ Copy(r) \notin modules /\ Failed(r)
       \/ Copy(r) \notin disk /\ Failed(r) /\ UNCHANGED disk
    /\ UNCHANGED <<catalogue, deps, marker, collided, modules, holder, changeInbox, budget,
                   current>>

\* Another refresh of the process runs npm in the same working copy.
Contended(r) ==
    \E q \in Refreshes \ {r} : refresh[q].pc = "npm" /\ Copy(q) = Copy(r)

\* ensureDependenciesInstalled: the marker is looked for; without it npm
\* clears node_modules and fills it again.
Install(r) ==
    /\ refresh[r].pc = "install"
    /\ IF Copy(r) \in marker
         THEN Goto(r, "import") /\ UNCHANGED <<deps, collided>>
         ELSE /\ deps' = [deps EXCEPT ![Copy(r)] = "partial"]
              /\ collided' = IF Contended(r) THEN collided \cup {Copy(r)} ELSE collided
              /\ Goto(r, "npm")
    /\ UNCHANGED <<catalogue, disk, marker, modules, holder, changeInbox, budget, current,
                   trouble>>

\* npm ends well and the marker is dropped; or npm fails or is killed at its
\* timeout, and leaves what it has done.  While another npm is at work on the
\* copy, what this one has put there is not all there.
Npm(r) ==
    /\ refresh[r].pc = "npm"
    /\ \/ /\ deps' = [deps EXCEPT ![Copy(r)] = IF Contended(r) THEN "partial" ELSE "full"]
          /\ marker' = marker \cup {Copy(r)}
          /\ Goto(r, "import")
          /\ UNCHANGED trouble
       \/ Failed(r) /\ UNCHANGED <<deps, marker>>
    /\ UNCHANGED <<catalogue, disk, collided, modules, holder, changeInbox, budget, current>>

\* resolveEntryPoint, import, scan and register.  What was imported stays in
\* the module cache.  Half-installed dependencies may or may not be missed.
Import(r) ==
    /\ refresh[r].pc = "import"
    /\ \/ modules' = modules \cup {Copy(r)} /\ Loaded(r)
       \/ Failed(r) /\ UNCHANGED modules
    /\ UNCHANGED <<catalogue, cacheFiles, holder, changeInbox, budget, current>>

\* The row after markLoadResult: the sha is kept when the load did not get as
\* far as one.
LoadResult(r, ok) ==
    IF table[Source(r)] = "absent" THEN result[Source(r)]
    ELSE [sha |-> IF refresh[r].commit = 0 THEN result[Source(r)].sha ELSE refresh[r].commit,
          ok |-> ok]

\* On to the next source, or to postRegister.
Onward(r) ==
    RefreshStep(r, IF refresh[r].at = Len(Order)
                   THEN [refresh[r] EXCEPT !.pc = "extend", !.commit = 0]
                   ELSE [refresh[r] EXCEPT !.pc = "load", !.at = @ + 1, !.commit = 0])

\* markLoadResult, whatever has become of the row, and on to the next source.
\* An error of the UPDATE is swallowed.
Mark(r) ==
    /\ refresh[r].pc = "mark"
    /\ \/ result' = [result EXCEPT
                        ![Source(r)] = LoadResult(r, refresh[r].built[Source(r)] # 0)]
       \/ UNCHANGED result
    /\ Onward(r)
    /\ UNCHANGED <<table, branch, cacheFiles, modules, holder, changeInbox, budget, current,
                   trouble>>

\* postRegister, then swap; the handler of a POST publishes afterwards, and
\* the broadcast reaches any of the others.  Or postRegister throws.
Swap(r) ==
    /\ refresh[r].pc = "extend"
    /\ \/ /\ holder' = [holder EXCEPT ![r[1]] = refresh[r].built]
          /\ current' = [current EXCEPT ![r[1]] = refresh[r].fresh /\ refresh[r].failed = {}]
          /\ RefreshStep(r, Idle)
          /\ \E reached \in SUBSET (IF refresh[r].asked THEN Hosts \ {r[1]} ELSE {}) :
                 changeInbox' = [h \in Hosts |-> IF h \in reached THEN changeInbox[h] + 1 ELSE changeInbox[h]]
          /\ UNCHANGED trouble
       \/ RefreshAborts(r) /\ UNCHANGED <<holder, current, changeInbox>>
    /\ UNCHANGED <<catalogue, cacheFiles, modules, budget>>

\* A process exits and loses what is in memory; its successor builds a
\* registry before it serves.  The plugin cache directory survives.
Exit(h) ==
    /\ budget.events > 0
    /\ budget.refreshes > 0
    /\ budget' = [events |-> budget.events - 1, refreshes |-> budget.refreshes - 1]
    /\ modules' = {x \in modules : x[1] # h}
    /\ holder' = [holder EXCEPT ![h] = Empty]
    /\ current' = [current EXCEPT ![h] = FALSE]
    /\ changeInbox' = [changeInbox EXCEPT ![h] = 0]
    /\ refresh' = [r \in Refreshes |->
           IF r[1] # h THEN refresh[r]
           ELSE IF r[2] = 1
                  THEN [Idle EXCEPT !.pc = "list"] ELSE Idle]
    /\ trouble' = TRUE
    /\ UNCHANGED <<catalogue, cacheFiles>>

RegistryNext ==
    \/ \E s \in Sources : EditSource(s) \/ PushCommit(s)
    \/ \E r \in Refreshes :
         \/ RequestRefresh(r) \/ ReceiveRefresh(r) \/ List(r) \/ Resolve(r)
         \/ Fetch(r) \/ Install(r) \/ Npm(r) \/ Import(r)
         \/ Mark(r) \/ Swap(r)
    \/ \E h \in Hosts : Exit(h)

RegistrySpec == RegistryInit /\ [][RegistryNext]_registryVars

-----------------------------------------------------------------------------
(* Properties                                                              *)

\* A process whose last swap came from a refresh that listed after the last
\* edit and met no failure serves the catalogue as it stands, whatever the
\* disk and the module cache held from older commits and whatever other
\* refreshes were doing (refreshPluginRegistry, loadSource's cache).
CurrentIsExpected == \A h \in Hosts : current[h] => holder[h] = Expected

\* Refreshing an unchanged catalogue over healthy remotes is invisible: at no
\* moment does a lookup miss a plugin or find another commit, however many
\* refreshes overlap (build off-line, then swap).
QuietRefreshInvisible == ~trouble => \A h \in Hosts : holder[h] = Expected

\* last_load_ok is earned: the commit the row names was checked out and its
\* install finished in some process (markLoadResult, COALESCE).
OkMeansInstalled ==
    \A s \in Sources : result[s].ok =>
        \E h \in Hosts : <<h, s, result[s].sha>> \in marker

\* The install marker survives crashes, failures and timeouts of an install:
\* it stands on half-installed dependencies only where two refreshes of one
\* process were installing the same copy at the same time.
MarkerHonest ==
    \A x \in marker : deps[x] = "full" \/ x \in collided

\* Overlapping refreshes, failing sources and exits never leave a registry that
\* no listing explains, a report that is not true, or a marker over a broken
\* install (buildPluginRegistry, loadSource, ensureDependenciesInstalled).
RegistrySafe ==
    /\ RegistryTypeOK /\ QuietRefreshInvisible /\ CurrentIsExpected
    /\ OkMeansInstalled /\ MarkerHonest
=============================================================================
