----------------------------- MODULE MCCatalogue -----------------------------
(***************************************************************************)
(* The platform's own records, written by requests and jobs that overlap:  *)
(* plugin sources and the registry built from them, pipeline versions,     *)
(* datasets, connection clients, tenant data.  The components do not share *)
(* state, so a behaviour exercises one of them, picked at the start, and   *)
(* leaves the others in an initial state; the run covers each of them.     *)
(***************************************************************************)
EXTENDS PluginRegistry, PipelineVersions, Datasets, ConnectionClients,
        JobHandlers, TLC

VARIABLE focus  \* the component this behaviour exercises

OneSource == <<"s1">>

\* Two refreshes of the API process, and one of a worker.
ThreeRefreshes == {<<"api", 1>>, <<"api", 2>>, <<"worker", 1>>}

\* A version number a client chooses, or none.
SomeNumbers == {<<1, 0, 0>>, <<>>}

SomeKinds == [j \in DataJobs |-> CASE j \in {"i", "k"} -> "ingest"
                                   [] j = "b" -> "batch"
                                   [] OTHER -> "purge"]

SomeItems == [j \in DataJobs |-> CASE j = "i" -> <<"c">>
                                   [] j = "k" -> <<"d">>
                                   [] j = "b" -> <<"x", "y">>
                                   [] OTHER -> <<>>]

CatalogueInit ==
    /\ focus \in {"registry", "versions", "datasets", "clients", "jobs"}
    /\ RegistryInit /\ VersionsInit /\ DatasetsInit /\ ClientsInit /\ JobsInit
    /\ focus = "datasets" \/ (Override = NoId /\ \A v \in DatasetVersions : versionRow[v] = NoVersion)

CatalogueNext ==
    /\ UNCHANGED focus
    /\ IF focus = "registry" THEN RegistryNext ELSE UNCHANGED registryVars
    /\ IF focus = "versions" THEN VersionsNext ELSE UNCHANGED versionsVars
    /\ IF focus = "datasets" THEN DatasetsNext ELSE UNCHANGED datasetVars
    /\ IF focus = "clients" THEN ClientsNext ELSE UNCHANGED clientVars
    /\ IF focus = "jobs" THEN JobsNext ELSE UNCHANGED jobsVars

CatalogueSpec ==
    CatalogueInit /\ [][CatalogueNext]_<<focus, registryVars, versionsVars, datasetVars,
                                         clientVars, jobsVars>>

\* Callers, dataset editors and probing requests are interchangeable, and so
\* are pipeline specs.
CatalogueSymmetry == Permutations(Callers) \cup Permutations(Specs)
=============================================================================
