-------------------------- MODULE PipelineVersions --------------------------
(***************************************************************************)
(* One pipeline: its versions, its latest pointer, its deployments and its *)
(* activations, and the API handlers that read and write them.  A handler  *)
(* runs several queries, each a transaction of its own; handlers of        *)
(* concurrent callers interleave between any two of them.                  *)
(***************************************************************************)
EXTENDS Naturals, Sequences, FiniteSets

CONSTANTS
    Callers,      \* requests that may be in progress at once
    Specs,        \* contents a version may have
    Numbers,      \* versions a caller may ask for; <<>> is no semver
    Levels,       \* of "patch", "minor", "major"
    Labels,       \* of activations; "default" is one that is preferred
    MaxVersions,  \* bound: versions created
    MaxRequests   \* bound: requests per behaviour

ASSUME VersionsConstants ==
    /\ Levels \subseteq {"patch", "minor", "major"}
    /\ MaxVersions \in Nat \ {0}
    /\ MaxRequests \in Nat

Targets == {"tenant", "global"}   \* deployments of one environment

NoRow  == [there |-> FALSE, enabled |-> FALSE, track |-> FALSE, version |-> 0]
NoCall == [op |-> "none", pc |-> "idle", spec |-> "", level |-> "", number |-> <<>>,
           target |-> "", label |-> "", flag |-> FALSE, version |-> 0,
           latest |-> 0, parent |-> 0, seen |-> 0, status |-> "", alone |-> TRUE]

VARIABLES
    alive,        \* the pipelines row is there
    latest,       \* its latest_version_id, 0 for null
    versions,     \* pipeline_versions in the order of their creation
    deployment,   \* deployment[t]: the version it names and its row id, 0 for none
    activation,   \* activation[l]: the row of label l
    call,         \* call[c]: a request in progress
    requests,     \* requests left
    latestMaker,  \* history: how the latest pointer came to be where it is
    lost          \* history: what unforced deletes took with them that was
                  \* there when they were asked for

versionsVars == <<alive, latest, versions, deployment, activation, call, requests,
                  latestMaker, lost>>

Ids    == 1 .. Len(versions)
Extant == IF alive THEN Ids ELSE {}
Numbered(n) == {v \in Extant : versions[v].number = n}

-----------------------------------------------------------------------------
(* lifecycle.ts: semver and what a save becomes                            *)

\* compareSemver(a, b) < 0 of two numbers that parse.
Less(a, b) ==
    \/ a[1] < b[1]
    \/ a[1] = b[1] /\ a[2] < b[2]
    \/ a[1] = b[1] /\ a[2] = b[2] /\ a[3] < b[3]

\* maxSemver: what does not parse is passed over, and nothing is 0.0.0.
MaxSemver(numbers) ==
    LET parsed == {n \in numbers : n # <<>>}
    IN  IF parsed = {} THEN <<0, 0, 0>>
        ELSE CHOOSE n \in parsed : \A o \in parsed : o = n \/ Less(o, n)

SemverBump(n, level) ==
    CASE level = "major" -> <<n[1] + 1, 0, 0>>
      [] level = "minor" -> <<n[1], n[2] + 1, 0>>
      [] level = "patch" -> <<n[1], n[2], n[3] + 1>>

\* Mutant: the new number follows the latest pointer.
NextNumberFromLatest(r) ==
    SemverBump(IF r.latest \in Extant /\ versions[r.latest].number # <<>>
                 THEN versions[r.latest].number ELSE <<0, 0, 0>>, r.level)

\* nextVersionOnSave: from the greatest number of all, wherever latest is.
NextNumber(r) == SemverBump(MaxSemver({versions[v].number : v \in Extant}), r.level)

\* resolveActivation: the label asked for ("" for none), else "default", else
\* the only one enabled; "" when there is none to be had.
ResolveActivation(label) ==
    LET enabled == {l \in Labels : activation[l].there /\ activation[l].enabled}
    IN  IF label # "" THEN IF label \in enabled THEN label ELSE ""
        ELSE IF "default" \in enabled THEN "default"
        ELSE IF Cardinality(enabled) = 1 THEN CHOOSE l \in enabled : TRUE
        ELSE ""

\* effectiveVersionId, with the latest pointer as the caller read it.
EffectiveVersion(l, pointer) ==
    IF activation[l].track THEN pointer ELSE activation[l].version

-----------------------------------------------------------------------------

VersionsTypeOK ==
    /\ alive \in BOOLEAN
    /\ latest \in 0 .. MaxVersions
    /\ Len(versions) <= MaxVersions
    /\ \A v \in Ids :
         /\ versions[v].status \in {"draft", "published", "archived"}
         /\ versions[v].spec \in Specs
         /\ versions[v].parent \in 0 .. v - 1
    /\ deployment \in [Targets -> [version : 0 .. MaxVersions, row : Nat]]
    /\ activation \in [Labels -> [there : BOOLEAN, enabled : BOOLEAN, track : BOOLEAN,
                                  version : 0 .. MaxVersions]]
    /\ \A c \in Callers : call[c].pc \in {"idle", "resolve", "look", "create", "point",
             "redraft", "archive", "deploy", "undeploy", "delete", "insert", "patch",
             "remove", "choose", "tenant", "global"}
    /\ requests \in 0 .. MaxRequests
    /\ ~alive => /\ latest = 0
                 /\ \A t \in Targets : deployment[t].version = 0
                 /\ \A l \in Labels : ~activation[l].there

VersionsInit ==
    /\ alive = TRUE
    /\ latest = 0
    /\ versions = <<>>
    /\ deployment = [t \in Targets |-> [version |-> 0, row |-> 0]]
    /\ activation = [l \in Labels |-> NoRow]
    /\ call = [c \in Callers |-> NoCall]
    /\ requests = MaxRequests
    /\ latestMaker = "none"
    /\ lost = FALSE

catalogueVars == <<alive, latest, versions, deployment, activation, latestMaker, lost>>

\* Does a request move the latest pointer?
MovesLatest(op) == op \in {"save", "saveDeploy", "rollback"}

\* History: may the first request change what the second one is about?
Disturbs(op, other) ==
    \/ other = "run" /\ op # "none"
    \/ MovesLatest(other) /\ MovesLatest(op)

Step(c, record) == call' = [call EXCEPT ![c] = record]
Reply(c)        == Step(c, NoCall)

\* A request that only reads up to here.
Reads == UNCHANGED <<catalogueVars, requests>>

Arrive(c, record) ==
    /\ call[c].pc = "idle"
    /\ requests > 0
    /\ requests' = requests - 1
    /\ call' = [d \in Callers |->
           IF d = c
             THEN [record EXCEPT !.pc = "resolve", !.alone =
                      \A e \in Callers \ {c} : ~Disturbs(call[e].op, record.op)]
             ELSE [call[d] EXCEPT !.alone = @ /\ ~Disturbs(record.op, call[d].op)]]
    /\ UNCHANGED catalogueVars

\* The bodies that pass validation.
Request(c) ==
    \/ \E s \in Specs, n \in Levels :
         \/ Arrive(c, [NoCall EXCEPT !.op = "save", !.spec = s, !.level = n])
         \/ \E t \in Targets : Arrive(c, [NoCall EXCEPT !.op = "saveDeploy", !.spec = s,
                                                        !.level = n, !.target = t])
    \/ \E s \in Specs, n \in Numbers, op \in {"publish", "draft"} :
         Arrive(c, [NoCall EXCEPT !.op = op, !.spec = s, !.number = n])
    \/ \E v \in Ids : Arrive(c, [NoCall EXCEPT !.op = "rollback", !.version = v])
    \/ \E v \in Ids :
         \/ Arrive(c, [NoCall EXCEPT !.op = "archive", !.number = versions[v].number])
         \/ \E t \in Targets : Arrive(c, [NoCall EXCEPT !.op = "deploy", !.target = t,
                                                        !.number = versions[v].number])
    \/ \E t \in Targets : Arrive(c, [NoCall EXCEPT !.op = "undeploy", !.target = t])
    \/ \E force \in BOOLEAN :
         Arrive(c, [NoCall EXCEPT !.op = "delete", !.flag = force, !.seen = Len(versions)])
    \/ \E l \in Labels, v \in 0 .. Len(versions), track \in BOOLEAN,
          op \in {"activate", "reactivate"} :
         /\ op = "activate" => track \/ v # 0
         /\ Arrive(c, [NoCall EXCEPT !.op = op, !.label = l, !.version = v, !.flag = track])
    \/ \E l \in Labels : Arrive(c, [NoCall EXCEPT !.op = "deactivate", !.label = l])
    \/ \E l \in Labels \cup {""} : Arrive(c, [NoCall EXCEPT !.op = "run", !.label = l])

\* resolvePipelineRef: 404, or the row, the latest pointer with it.
ResolvePipelineRef(c) ==
    /\ call[c].pc = "resolve"
    /\ IF ~alive THEN Reply(c)
       ELSE Step(c, [call[c] EXCEPT !.latest = latest, !.pc =
                CASE call[c].op = "activate" -> "insert"
                  [] call[c].op = "run"      -> "choose"
                  [] OTHER                   -> "look"])
    /\ Reads

-----------------------------------------------------------------------------
(* Saving, publishing and drafting                                         *)

\* POST /save and /save-and-deploy: list the versions and compare with the
\* row of the pointer read before.
LookSave(c) ==
    LET r == call[c] IN
    /\ r.pc = "look" /\ r.op \in {"save", "saveDeploy"}
    /\ IF r.latest \in Extant /\ versions[r.latest].spec = r.spec
         THEN IF r.op = "save" THEN Reply(c)
              ELSE Step(c, [r EXCEPT !.pc = "deploy", !.version = r.latest])
         ELSE Step(c, [r EXCEPT !.pc = "create", !.status = "published",
                  !.number = NextNumber(r), !.seen = Cardinality(Extant),
                  !.parent = IF r.latest \in Extant THEN r.latest ELSE 0])
    /\ Reads

\* POST /versions with publish: a published row of that number answers, 200
\* or 409.
LookPublish(c) ==
    LET r == call[c] IN
    /\ r.pc = "look" /\ r.op = "publish"
    /\ IF \E v \in Numbered(r.number) : versions[v].status = "published"
         THEN Reply(c)
         ELSE Step(c, [r EXCEPT !.pc = "create", !.status = "published"])
    /\ Reads

\* POST /versions without publish: a draft of that number is written over, a
\* published one is 409.
LookDraft(c) ==
    LET r     == call[c]
        found == {v \in Numbered(r.number) : versions[v].status = "draft"}
    IN
    /\ r.pc = "look" /\ r.op = "draft"
    /\ \/ /\ found # {}
          /\ Step(c, [r EXCEPT !.pc = "redraft", !.version = CHOOSE v \in found : TRUE])
       \/ /\ found = {}
          /\ \E v \in Numbered(r.number) : versions[v].status = "published"
          /\ Reply(c)
       \/ /\ found = {}
          /\ ~ \E v \in Numbered(r.number) : versions[v].status = "published"
          /\ Step(c, [r EXCEPT !.pc = "create", !.status = "draft"])
    /\ Reads

\* pipelineVersions.create: refused when the pipeline is gone (foreign key)
\* or the number is taken (unique), which the list need not have shown.
CreateVersion(c) ==
    LET r == call[c] IN
    /\ r.pc = "create"
    /\ IF ~alive \/ Numbered(r.number) # {}
         THEN Reply(c) /\ UNCHANGED versions
         ELSE /\ Len(versions) < MaxVersions
              /\ versions' = Append(versions,
                     [number |-> r.number, status |-> r.status, spec |-> r.spec,
                      parent |-> r.parent, seen |-> r.seen,
                      saved |-> MovesLatest(r.op)])
              /\ IF MovesLatest(r.op)
                   THEN Step(c, [r EXCEPT !.pc = "point", !.version = Len(versions) + 1])
                   ELSE Reply(c)
    /\ UNCHANGED <<alive, latest, deployment, activation, requests, latestMaker, lost>>

\* pipelines.setLatestVersion, the last writer wins.  The process may also go
\* away between the insert and this.
SetLatest(c) ==
    LET r == call[c] IN
    /\ r.pc = "point"
    /\ \/ /\ alive
          /\ latest' = r.version
          /\ latestMaker' = IF r.op = "rollback" \/ ~r.alone THEN "any" ELSE "save"
          /\ IF r.op = "saveDeploy" THEN Step(c, [r EXCEPT !.pc = "deploy"]) ELSE Reply(c)
       \/ /\ latestMaker' = "any"
          /\ Reply(c)
          /\ UNCHANGED latest
    /\ UNCHANGED <<alive, versions, deployment, activation, requests, lost>>

\* The draft found before is written over by id, whatever it is by now.
Redraft(c) ==
    /\ call[c].pc = "redraft"
    /\ versions' = IF alive THEN [versions EXCEPT ![call[c].version].spec = call[c].spec]
                   ELSE versions
    /\ Reply(c)
    /\ UNCHANGED <<alive, latest, deployment, activation, requests, latestMaker, lost>>

\* POST /rollback: the version must be one of the pipeline's.
LookRollback(c) ==
    /\ call[c].pc = "look" /\ call[c].op = "rollback"
    /\ IF call[c].version \in Extant THEN Step(c, [call[c] EXCEPT !.pc = "point"]) ELSE Reply(c)
    /\ Reads

\* findByVersion of POST /archive and POST /deployments.
LookNumber(c) ==
    LET r == call[c] IN
    /\ r.pc = "look" /\ r.op \in {"archive", "deploy"}
    /\ \/ /\ Numbered(r.number) = {} \* 404
          /\ Reply(c)
       \/ \E v \in Numbered(r.number) :
            IF r.op = "deploy" /\ versions[v].status # "published"
              THEN Reply(c)
              ELSE Step(c, [r EXCEPT !.pc = r.op, !.version = v])
    /\ Reads

ArchiveVersion(c) ==
    /\ call[c].pc = "archive"
    /\ versions' = IF alive THEN [versions EXCEPT ![call[c].version].status = "archived"]
                   ELSE versions
    /\ Reply(c)
    /\ UNCHANGED <<alive, latest, deployment, activation, requests, latestMaker, lost>>

-----------------------------------------------------------------------------
(* Deployments and activations                                             *)

\* upsertActive on (pipeline, environment, tenant): the row keeps its id.
Deploy(c) ==
    LET r == call[c] IN
    /\ r.pc = "deploy"
    /\ deployment' = IF ~alive THEN deployment ELSE
           [deployment EXCEPT ![r.target] =
               [version |-> r.version, row |-> IF @.version = 0 THEN @.row + 1 ELSE @.row]]
    /\ Reply(c)
    /\ UNCHANGED <<alive, latest, versions, activation, requests, latestMaker, lost>>

\* DELETE /deployments: list, then delete by id.
LookUndeploy(c) ==
    LET r == call[c] IN
    /\ r.pc = "look" /\ r.op = "undeploy"
    /\ IF deployment[r.target].version = 0 THEN Reply(c)
       ELSE Step(c, [r EXCEPT !.pc = "undeploy", !.seen = deployment[r.target].row])
    /\ Reads

Undeploy(c) ==
    LET r == call[c] IN
    /\ r.pc = "undeploy"
    /\ deployment' = IF deployment[r.target].row # r.seen THEN deployment
                     ELSE [deployment EXCEPT ![r.target].version = 0]
    /\ Reply(c)
    /\ UNCHANGED <<alive, latest, versions, activation, requests, latestMaker, lost>>

\* POST activations: unique label, and the version must exist (foreign key).
Activate(c) ==
    LET r == call[c] IN
    /\ r.pc = "insert"
    /\ activation' =
           IF ~alive \/ activation[r.label].there THEN activation
           ELSE [activation EXCEPT ![r.label] =
                    [there |-> TRUE, enabled |-> TRUE, track |-> r.flag,
                     version |-> r.version]]
    /\ Reply(c)
    /\ UNCHANGED <<alive, latest, versions, deployment, requests, latestMaker, lost>>

\* PATCH and DELETE activations first read the row: 404 without one.
LookActivation(c) ==
    LET r == call[c] IN
    /\ r.pc = "look" /\ r.op \in {"reactivate", "deactivate"}
    /\ IF activation[r.label].there
         THEN Step(c, [r EXCEPT !.pc = IF r.op = "reactivate" THEN "patch" ELSE "remove"])
         ELSE Reply(c)
    /\ Reads

\* PATCH: any of enabled, trackLatest and pipelineVersionId; with the last
\* null and the first two as they may be, a pinned row may name no version.
\* (A PATCH that renames the label is left out: the label stands for the row.)
PatchActivation(c) ==
    LET r == call[c] IN
    /\ r.pc = "patch"
    /\ \E enabled \in BOOLEAN :
         activation' = IF ~activation[r.label].there THEN activation
                       ELSE [activation EXCEPT ![r.label] =
                                [there |-> TRUE, enabled |-> enabled, track |-> r.flag,
                                 version |-> r.version]]
    /\ Reply(c)
    /\ UNCHANGED <<alive, latest, versions, deployment, requests, latestMaker, lost>>

RemoveActivation(c) ==
    /\ call[c].pc = "remove"
    /\ activation' = [activation EXCEPT ![call[c].label] = NoRow]
    /\ Reply(c)
    /\ UNCHANGED <<alive, latest, versions, deployment, requests, latestMaker, lost>>

-----------------------------------------------------------------------------
(* Deleting the pipeline                                                   *)

\* What a delete would take with it.  (Schedules and dataset bindings are
\* counted in the same way.)
Dependents ==
    \/ Extant # {}
    \/ \E t \in Targets : deployment[t].version # 0
    \/ \E l \in Labels : activation[l].there

LookDelete(c) ==
    LET r == call[c] IN
    /\ r.pc = "look" /\ r.op = "delete"
    /\ IF ~r.flag /\ Dependents THEN Reply(c)
       ELSE Step(c, [r EXCEPT !.pc = "delete"])
    /\ Reads

\* One DELETE, and the foreign keys cascade.
DeletePipeline(c) ==
    LET r == call[c] IN
    /\ r.pc = "delete"
    /\ alive' = FALSE
    /\ latest' = 0
    /\ deployment' = [t \in Targets |-> [deployment[t] EXCEPT !.version = 0]]
    /\ activation' = [l \in Labels |-> NoRow]
    /\ lost' = (lost \/ (alive /\ ~r.flag /\ r.seen > 0))
    /\ Reply(c)
    /\ UNCHANGED <<versions, requests, latestMaker>>

-----------------------------------------------------------------------------
(* enqueuePipelineRun: which version runs                                  *)

\* With any activation row, enabled or not, activations decide and nothing
\* else; without one the deployments do.
ChooseActivation(c) ==
    LET r == call[c]
        l == ResolveActivation(r.label)
    IN
    /\ r.pc = "choose"
    /\ IF \A k \in Labels : ~activation[k].there
         THEN Step(c, [r EXCEPT !.pc = "tenant"])
       ELSE IF l = "" \/ EffectiveVersion(l, r.latest) = 0 THEN Reply(c)
       ELSE Step(c, [r EXCEPT !.pc = "look", !.version = EffectiveVersion(l, r.latest)])
    /\ Reads

\* resolveDeployedVersion: the tenant's deployment, else the global one.
ChooseDeployment(c) ==
    LET r == call[c]
        d == deployment[r.pc].version
    IN
    /\ r.pc \in {"tenant", "global"}
    /\ IF d # 0 THEN Step(c, [r EXCEPT !.pc = "look", !.version = d])
       ELSE IF r.pc = "tenant" THEN Step(c, [r EXCEPT !.pc = "global"])
       ELSE Reply(c)
    /\ Reads

\* pipelineVersions.get, and on to the queue (or 409 when it is gone).
RunVersion(c) ==
    /\ call[c].pc = "look" /\ call[c].op = "run"
    /\ Reply(c)
    /\ Reads

VersionsNext ==
    \E c \in Callers :
        \/ Request(c) \/ ResolvePipelineRef(c)
        \/ LookSave(c) \/ LookPublish(c) \/ LookDraft(c) \/ LookRollback(c)
        \/ CreateVersion(c) \/ SetLatest(c) \/ Redraft(c)
        \/ LookNumber(c) \/ ArchiveVersion(c) \/ Deploy(c)
        \/ LookUndeploy(c) \/ Undeploy(c)
        \/ Activate(c) \/ LookActivation(c) \/ PatchActivation(c) \/ RemoveActivation(c)
        \/ LookDelete(c) \/ DeletePipeline(c)
        \/ ChooseActivation(c) \/ ChooseDeployment(c) \/ RunVersion(c)

VersionsSpec == VersionsInit /\ [][VersionsNext]_versionsVars

-----------------------------------------------------------------------------
(* Properties                                                              *)

\* Whatever requests overlap, what was published under a number stays what it
\* is: no draft save, publish or archive of anybody changes its number, its
\* spec or its place (POST /versions, /archive; ImmutableVersionError).
PublishedStays ==
    \A v \in Ids : versions[v].status = "published" =>
        /\ v \in DOMAIN versions'
        /\ versions'[v].number = versions[v].number
        /\ versions'[v].spec = versions[v].spec
        /\ versions'[v].status # "draft"

\* A save numbers its version above every version that was there when it
\* looked, drafts, rollbacks and explicit numbers notwithstanding
\* (nextVersionOnSave: "unique and monotonic").
SavedAboveSeen ==
    \A v \in Ids : versions[v].saved =>
        \A u \in 1 .. versions[v].seen :
            versions[u].number = <<>> \/ Less(versions[u].number, versions[v].number)

\* After a save that no other pointer move overlapped, latest is the newest
\* version any save has made (setLatestVersion after create).
LatestIsNewest ==
    latestMaker = "save" /\ alive /\ (\A c \in Callers : ~MovesLatest(call[c].op)) =>
        \A v \in Ids : versions[v].saved => v <= latest

\* An unforced delete takes nothing with it that was there when it counted
\* (DELETE /api/pipelines/:id, hasDependents).
UnforcedDeleteSpares == ~lost

\* A run that nobody disturbs takes the version the catalogue says: that of
\* the activation by its label, by "default" or by being the only one, pinned
\* or latest; and only of a pipeline without activations that of the tenant's
\* deployment or else of the global one (enqueuePipelineRun).
RunAgrees ==
    \A c \in Callers : call[c].op = "run" /\ call[c].pc = "look" /\ call[c].alone =>
        LET there == {l \in Labels : activation[l].there}
            on    == {l \in there : activation[l].enabled}
            mine  == {l \in on : \/ l = call[c].label
                                 \/ call[c].label = "" /\ (l = "default" \/ on = {l})}
        IN  \/ \E l \in mine : call[c].version =
                   (IF activation[l].track THEN latest ELSE activation[l].version)
            \/ there = {} /\ call[c].version =
                   deployment[IF deployment["tenant"].version = 0
                                THEN "global" ELSE "tenant"].version

\* Overlapping requests keep version numbers, the latest pointer, deletion and
\* the version a run resolves to in agreement, but for the races named in the
\* parts (save, deploy, activation and delete routes, enqueuePipelineRun).
VersionsSafe ==
    /\ VersionsTypeOK /\ SavedAboveSeen /\ LatestIsNewest
    /\ UnforcedDeleteSpares /\ RunAgrees

\* Numbers and pointers agree after every step, and no step changes what was
\* published (the routes of pipelines and tenant pipelines).
VersionsKept == [][VersionsSafe' /\ PublishedStays]_versionsVars
=============================================================================
