------------------------------- MODULE Datasets ------------------------------
(***************************************************************************)
(* One dataset slug as the API's routes edit it and as a run resolves it:  *)
(* dataset rows at the environment, tenant and global scope, their         *)
(* versions, the alias "stable" and the binding overrides of one pipeline. *)
(* A route is a sequence of statements without a transaction, and so is    *)
(* the resolver.                                                           *)
(***************************************************************************)
EXTENDS Naturals, FiniteSets

CONSTANTS
    DatasetIds,       \* dataset rows that may ever exist
    DatasetVersions,  \* version rows that may ever exist
    Editors,          \* API requests in flight at once
    ChosenLabels,     \* version labels a caller may choose itself
    MaxEdits,         \* bound on requests
    MaxDrops          \* bound on requests and reads that fail half-way

ASSUME DatasetsConstants ==
    /\ DatasetIds \subseteq Nat \ {0} /\ DatasetVersions \subseteq Nat \ {0}
    /\ {1, 2} \subseteq DatasetIds /\ {1, 2} \subseteq DatasetVersions
    /\ ChosenLabels \subseteq Nat \ {0}
    /\ MaxEdits \in Nat /\ MaxDrops \in Nat

Scopes == {"environment", "tenant", "global"}
Tiers == {"environment", "tenant"}         \* of pipeline_dataset_bindings
NoId == 0
NoDataset == [scope |-> "", archived |-> FALSE, current |-> NoId]
GoneDataset == [NoDataset EXCEPT !.scope = "deleted"]   \* an id is not used again
NoVersion == [of |-> NoId, label |-> 0]
NoEdit == [step |-> "idle", of |-> NoId, first |-> FALSE, count |-> 0,
           label |-> 0, version |-> NoId]
NoAnswer == <<"none", NoId, NoId>>

VARIABLES
    datasets,    \* datasets[d]: the row, NoDataset before it, GoneDataset after
    versionRow,  \* versionRow[v]: the version row, of NoId before it and after it
    stable,      \* stable[d]: version of the alias "stable", NoId when unset
    bound,       \* bound[t]: target of the override of tier t, NoId when unset
    editor,      \* editor[e]: the request in flight
    lookup,      \* the run's resolve(): where it is and the row it holds
    answer,      \* what resolve() returned
    edits,       \* requests left
    drops,       \* failures left
    right,       \* history: right answers since resolve() began
    changes,     \* history: writes since resolve() began
    bySlug,      \* history: what the slug alone stood for when the override's target
                 \* was found gone
    firsts,      \* history: firsts[d]: version requests that saw no current version
    touched      \* history: datasets whose alias was patched, whose labels were
                 \* chosen, or one of whose requests was dropped

datasetVars == <<datasets, versionRow, stable, bound, editor, lookup, answer, edits, drops,
                 right, changes, bySlug, firsts, touched>>
datasetRows == <<datasets, versionRow, stable, bound>>

Exists(d) == datasets[d].scope \in Scopes
VersionsOf(d) == {v \in DatasetVersions : versionRow[v].of = d}
FreshDataset == {d \in DatasetIds : datasets[d] = NoDataset}

(* Foreign keys hold: a current version, an alias and a binding refer to rows
   that exist, and the first two to versions of the same dataset. *)
DatasetsTypeOK ==
    /\ \A d \in DatasetIds :
           /\ {datasets[d].current, stable[d]} \subseteq VersionsOf(d) \cup {NoId}
           /\ ~Exists(d) => stable[d] = NoId
    /\ \A v \in DatasetVersions : versionRow[v].of # NoId => Exists(versionRow[v].of)
    /\ \A t \in Tiers : bound[t] # NoId => Exists(bound[t])
    /\ lookup.step \in {"idle", "bound", "environment", "tenant", "global", "alias",
                        "version", "done"}
    /\ edits \in 0 .. MaxEdits /\ drops \in 0 .. MaxDrops

(* A tenant and a global dataset exist, each with one version or none, and the
   pipeline's overrides of both tiers or none. *)
DatasetsInit ==
    \E built \in SUBSET {1, 2}, overridden \in BOOLEAN :
        /\ datasets = [d \in DatasetIds |->
               IF d \notin {1, 2} THEN NoDataset
               ELSE [scope |-> IF d = 1 THEN "tenant" ELSE "global", archived |-> FALSE,
                     current |-> IF d \in built THEN d ELSE NoId]]
        /\ versionRow = [v \in DatasetVersions |->
               IF v \in built THEN [of |-> v, label |-> 1] ELSE NoVersion]
        /\ stable = [d \in DatasetIds |-> IF d \in built THEN d ELSE NoId]
        /\ bound = [t \in Tiers |-> IF ~overridden THEN NoId
                                    ELSE IF t = "environment" THEN 1 ELSE 2]
        /\ editor = [e \in Editors |-> NoEdit]
        /\ lookup = [step |-> "idle", of |-> NoId, current |-> NoId, version |-> NoId]
        /\ answer = NoAnswer
        /\ edits = MaxEdits /\ drops = MaxDrops
        /\ right = {} /\ changes = 0 /\ bySlug = {}
        /\ firsts = [d \in DatasetIds |-> 0]
        /\ touched = {}

-----------------------------------------------------------------------------
(* The right answer in a state: the override, else the narrowest dataset   *)
(* that is not archived; its stable version, else its current one.         *)

\* The first row of a query's result.
FirstRow(rows) == CHOOSE d \in rows : TRUE

At(scope) == {d \in DatasetIds : datasets[d].scope = scope /\ ~datasets[d].archived}

Narrowest ==
    LET hit == {s \in Scopes : At(s) # {}}
        best == IF "environment" \in hit THEN "environment"
                ELSE IF "tenant" \in hit THEN "tenant" ELSE "global"
    IN  IF hit = {} THEN NoId ELSE FirstRow(At(best))

Override == IF bound["environment"] # NoId THEN bound["environment"] ELSE bound["tenant"]

AnswerOf(d) ==
    LET v == IF stable[d] # NoId THEN stable[d] ELSE datasets[d].current IN
    IF v = NoId THEN <<"unbuilt", d, NoId>> ELSE <<"ok", d, v>>

SlugAnswer == IF Narrowest = NoId THEN NoAnswer ELSE AnswerOf(Narrowest)
RightAnswer == IF Override # NoId THEN AnswerOf(Override) ELSE SlugAnswer

\* Every step notes the right answer after it, and whether it changed a row.
Resolving == lookup.step \notin {"idle", "done"}
Watch ==
    /\ right' = IF Resolving THEN right \cup {RightAnswer'} ELSE right
    /\ changes' = IF Resolving /\ datasetRows' # datasetRows THEN changes + 1 ELSE changes

-----------------------------------------------------------------------------
(* Requests of one statement.                                              *)

EditRequest == edits > 0 /\ edits' = edits - 1
Rest == UNCHANGED <<editor, lookup, answer, drops, bySlug, firsts>>

\* POST /api/datasets: the slug is unique in its scope, archived rows included.
CreateDataset(scope) ==
    /\ EditRequest
    /\ \A d \in DatasetIds : datasets[d].scope # scope
    /\ \E d \in FreshDataset :
           /\ \A e \in FreshDataset : d <= e
           /\ datasets' = [datasets EXCEPT ![d] = [NoDataset EXCEPT !.scope = scope]]
    /\ UNCHANGED <<versionRow, stable, bound, touched>> /\ Rest /\ Watch

\* PATCH /api/datasets/:id {archived}.
PatchArchived(d, archived) ==
    /\ EditRequest
    /\ Exists(d) /\ datasets[d].archived # archived
    /\ datasets' = [datasets EXCEPT ![d].archived = archived]
    /\ UNCHANGED <<versionRow, stable, bound, touched>> /\ Rest /\ Watch

\* PATCH /api/datasets/:id/aliases/stable: the version must be the dataset's.
PatchAlias(d, v) ==
    /\ EditRequest
    /\ v \in VersionsOf(d)
    /\ stable' = [stable EXCEPT ![d] = v]
    /\ touched' = touched \cup {d}
    /\ UNCHANGED <<datasets, versionRow, bound>> /\ Rest /\ Watch

\* POST, PATCH and DELETE of dataset-bindings: the target exists, archived or not.
PutBinding(t, d) ==
    /\ EditRequest
    /\ d # NoId => Exists(d)
    /\ bound' = [bound EXCEPT ![t] = d]
    /\ UNCHANGED <<datasets, versionRow, stable, touched>> /\ Rest /\ Watch

-----------------------------------------------------------------------------
(* POST /api/datasets/:id/versions: read the dataset, count its versions,  *)
(* insert, and for a dataset that had no current version set it and the    *)
(* alias.                                                                  *)

EditStep(e, r) ==
    /\ editor' = [editor EXCEPT ![e] = r]
    /\ UNCHANGED <<lookup, answer, drops, bySlug>>

BeginVersion(e, d, label) ==
    /\ EditRequest
    /\ editor[e].step = "idle" /\ Exists(d)
    /\ EditStep(e, [NoEdit EXCEPT !.step = "count", !.of = d, !.label = label,
                    !.first = datasets[d].current = NoId])
    /\ firsts' = IF datasets[d].current = NoId THEN [firsts EXCEPT ![d] = @ + 1] ELSE firsts
    /\ touched' = IF label # 0 THEN touched \cup {d} ELSE touched
    /\ UNCHANGED datasetRows /\ Watch

CountVersions(e) ==
    /\ editor[e].step = "count"
    /\ EditStep(e, [editor[e] EXCEPT !.step = "insert", !.count = Cardinality(VersionsOf(editor[e].of))])
    /\ UNCHANGED <<datasetRows, edits, firsts, touched>> /\ Watch

Label(r) == IF r.label # 0 THEN r.label ELSE r.count + 1

\* The label is unique in the dataset, and the dataset must still exist.
InsertVersion(e) ==
    LET r == editor[e]
        fresh == {v \in DatasetVersions : versionRow[v] = NoVersion}
    IN
    /\ r.step = "insert" /\ fresh # {}
    /\ IF ~Exists(r.of) \/ \E v \in VersionsOf(r.of) : versionRow[v].label = Label(r)
       THEN EditStep(e, NoEdit) /\ UNCHANGED versionRow
       ELSE LET v == CHOOSE v \in fresh : \A w \in fresh : v <= w IN
            /\ versionRow' = [versionRow EXCEPT ![v] = [of |-> r.of, label |-> Label(r)]]
            /\ EditStep(e, IF r.first THEN [r EXCEPT !.step = "current", !.version = v]
                           ELSE NoEdit)
    /\ UNCHANGED <<datasets, stable, bound, edits, firsts, touched>> /\ Watch

SetCurrent(e) ==
    LET r == editor[e] IN
    /\ r.step = "current"
    /\ IF Exists(r.of)
       THEN /\ datasets' = [datasets EXCEPT ![r.of].current = r.version]
            /\ EditStep(e, [r EXCEPT !.step = "alias"])
       ELSE EditStep(e, NoEdit) /\ UNCHANGED datasets
    /\ UNCHANGED <<versionRow, stable, bound, edits, firsts, touched>> /\ Watch

SetStable(e) ==
    LET r == editor[e] IN
    /\ r.step = "alias"
    /\ stable' = IF Exists(r.of) THEN [stable EXCEPT ![r.of] = r.version] ELSE stable
    /\ EditStep(e, NoEdit)
    /\ UNCHANGED <<datasets, versionRow, bound, edits, firsts, touched>> /\ Watch

(* DELETE /api/datasets/:id: count the dependents, then delete; versions,  *)
(* aliases and bindings go with the row.                                   *)

BeginDatasetDelete(e, d, force) ==
    /\ EditRequest
    /\ editor[e].step = "idle" /\ Exists(d)
    /\ force \/ VersionsOf(d) = {}
    /\ EditStep(e, [NoEdit EXCEPT !.step = "delete", !.of = d])
    /\ UNCHANGED <<datasetRows, firsts, touched>> /\ Watch

DeleteDataset(e) ==
    LET d == editor[e].of IN
    /\ editor[e].step = "delete"
    /\ datasets' = [datasets EXCEPT ![d] = GoneDataset]
    /\ versionRow' = [v \in DatasetVersions |->
           IF versionRow[v].of = d THEN [versionRow[v] EXCEPT !.of = NoId]
           ELSE versionRow[v]]
    /\ stable' = [stable EXCEPT ![d] = NoId]
    /\ bound' = [t \in Tiers |-> IF bound[t] = d THEN NoId ELSE bound[t]]
    /\ EditStep(e, NoEdit)
    /\ UNCHANGED <<edits, firsts, touched>> /\ Watch

\* A statement fails or the API process dies: the request ends where it is.
DropRequest(e) ==
    /\ editor[e].step # "idle" /\ drops > 0 /\ drops' = drops - 1
    /\ editor' = [editor EXCEPT ![e] = NoEdit]
    /\ touched' = touched \cup {editor[e].of}
    /\ UNCHANGED <<datasetRows, lookup, answer, edits, bySlug, firsts>> /\ Watch

-----------------------------------------------------------------------------
(* resolve(): the override, then the three scopes in turn, then the alias  *)
(* and the version.                                                        *)

LookupStep(r) ==
    /\ lookup' = r
    /\ UNCHANGED <<datasetRows, editor, edits, drops, firsts, touched>>

StartResolve ==
    /\ lookup.step = "idle"
    /\ LookupStep([lookup EXCEPT !.step = "bound", !.of = Override])
    /\ right' = {RightAnswer} /\ changes' = 0
    /\ UNCHANGED <<answer, bySlug>>

Found(d) ==
    [lookup EXCEPT !.step = "alias", !.of = d, !.current = datasets[d].current]

\* datasets.get of the override's target; gone with its row, the cascade follows.
GetBound ==
    /\ lookup.step = "bound"
    /\ LookupStep(IF lookup.of # NoId /\ Exists(lookup.of) THEN Found(lookup.of)
                  ELSE [lookup EXCEPT !.step = "environment"])
    /\ bySlug' = IF lookup.of # NoId /\ ~Exists(lookup.of) THEN {SlugAnswer} ELSE {}
    /\ UNCHANGED answer /\ Watch

NextScope == [environment |-> "tenant", tenant |-> "global", global |-> "done"]

\* Mutant: archived rows count.
ResolveSlugArchived ==
    LET hit == {d \in DatasetIds : datasets[d].scope = lookup.step} IN
    /\ lookup.step \in Scopes
    /\ LookupStep(IF hit # {} THEN Found(FirstRow(hit))
                  ELSE [lookup EXCEPT !.step = NextScope[@]])
    /\ answer' = IF hit = {} /\ lookup.step = "global" THEN NoAnswer ELSE answer
    /\ UNCHANGED bySlug /\ Watch

\* resolveSlug: one query for each scope.
ResolveSlug ==
    LET hit == At(lookup.step) IN
    /\ lookup.step \in Scopes
    /\ LookupStep(IF hit # {} THEN Found(FirstRow(hit))
                  ELSE [lookup EXCEPT !.step = NextScope[@]])
    /\ answer' = IF hit = {} /\ lookup.step = "global" THEN NoAnswer ELSE answer
    /\ UNCHANGED bySlug /\ Watch

\* The alias, else the current version of the row held; neither is an error.
ResolveAlias ==
    LET v == IF stable[lookup.of] # NoId THEN stable[lookup.of] ELSE lookup.current IN
    /\ lookup.step = "alias"
    /\ LookupStep([lookup EXCEPT !.version = v,
                   !.step = IF v = NoId THEN "done" ELSE "version"])
    /\ answer' = IF v = NoId THEN <<"unbuilt", lookup.of, NoId>> ELSE answer
    /\ UNCHANGED bySlug /\ Watch

GetVersion ==
    /\ lookup.step = "version"
    /\ LookupStep([lookup EXCEPT !.step = "done"])
    /\ answer' = IF versionRow[lookup.version].of # NoId
                 THEN <<"ok", lookup.of, lookup.version>> ELSE NoAnswer
    /\ UNCHANGED bySlug /\ Watch

\* Any other failure: the executor goes on without a dataset.
ResolveFails ==
    /\ Resolving /\ drops > 0 /\ drops' = drops - 1
    /\ lookup' = [lookup EXCEPT !.step = "done"]
    /\ answer' = <<"failed", NoId, NoId>>
    /\ UNCHANGED <<datasetRows, editor, edits, bySlug, firsts, touched>> /\ Watch

\* The next node that names the dataset.
ResolveAgain ==
    /\ lookup.step = "done"
    /\ LookupStep([step |-> "idle", of |-> NoId, current |-> NoId, version |-> NoId])
    /\ answer' = NoAnswer /\ right' = {} /\ changes' = 0 /\ bySlug' = {}

-----------------------------------------------------------------------------

DatasetRoutes ==
    \/ \E s \in Scopes : CreateDataset(s)
    \/ \E d \in DatasetIds, a \in BOOLEAN : PatchArchived(d, a)
    \/ \E d \in DatasetIds, v \in DatasetVersions : PatchAlias(d, v)
    \/ \E t \in Tiers, d \in DatasetIds \cup {NoId} : PutBinding(t, d)
    \/ \E e \in Editors, d \in DatasetIds :
           \/ \E l \in ChosenLabels \cup {0} : BeginVersion(e, d, l)
           \/ \E force \in BOOLEAN : BeginDatasetDelete(e, d, force)
    \/ \E e \in Editors :
           \/ CountVersions(e) \/ InsertVersion(e) \/ SetCurrent(e) \/ SetStable(e)
           \/ DeleteDataset(e) \/ DropRequest(e)

DatasetResolver ==
    \/ StartResolve \/ GetBound \/ ResolveSlug \/ ResolveAlias \/ GetVersion
    \/ ResolveFails \/ ResolveAgain

DatasetsNext == DatasetRoutes \/ DatasetResolver

DatasetsSpec == DatasetsInit /\ [][DatasetsNext]_datasetVars

-----------------------------------------------------------------------------

(* resolve() reads five tables one after the other.  When at most one write of
   the routes falls into it, its answer is the right one of some moment of the
   call, but for two deletions: that of the dataset it holds makes it find
   nothing there, and that of the override's target makes it answer by the slug
   alone, past an override of the wider tier. *)
ResolveExplained ==
    lookup.step = "done" /\ answer[1] # "failed" /\ changes <= 1 =>
        \/ answer \in right
        \/ answer[1] # "ok" /\ lookup.of # NoId /\ ~Exists(lookup.of)
        \/ answer \in bySlug

(* "The binding cascade beats the default slug resolution": what the slug alone
   stands for is answered only if it was the right answer at some moment of the
   call.  An override whose target is deleted while resolve() holds its id
   breaks this: the override of the wider tier is not asked for again. *)
CascadeBeatsSlug == lookup.step = "done" /\ answer \in bySlug => answer \in right

(* With no version request for it in flight, dropped or interfered with, a
   dataset that has versions has a current one and a stable one, and they are
   the same unless two requests both saw the dataset without one. *)
FirstVersionSettles ==
    \A d \in DatasetIds :
        Exists(d) /\ VersionsOf(d) # {} /\ d \notin touched /\ (\A e \in Editors : editor[e].of # d) =>
            /\ datasets[d].current # NoId /\ stable[d] # NoId
            /\ (firsts[d] <= 1 => datasets[d].current = stable[d])

(* While labels are left to the server, a dataset's labels are v1 to vn, so the
   next request finds its label free. *)
LabelsAreDense ==
    \A d \in DatasetIds \ touched :
        {versionRow[v].label : v \in VersionsOf(d)} = 1 .. Cardinality(VersionsOf(d))

\* What a resolution answers, and what overlapping version requests leave in
\* the tables, is explained by the writes (dataset routes, resolve()).
DatasetsSafe ==
    /\ DatasetsTypeOK /\ ResolveExplained /\ FirstVersionSettles
    /\ LabelsAreDense
=============================================================================
