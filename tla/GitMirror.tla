------------------------------ MODULE GitMirror -----------------------------
(***************************************************************************)
(* The reconciliation of a git-mode tenant with its repository: the poller *)
(* of every worker, reconcileTenant with its import and its export, and    *)
(* the git backend that commits on a worktree of its own.  Operators push  *)
(* to the same branch and users save pipelines meanwhile.                  *)
(***************************************************************************)
EXTENDS Naturals, Sequences, FiniteSets, FiniteSetsExt

CONSTANTS
    Pods,       \* workers that poll, each with its own worktree
    Files,      \* pipeline files under the tenant's prefix
    Exported,   \* those of pipelines the tenant is associated with
    FileSpecs,  \* what a pipeline file can say
    GitPlans    \* bounds: commits of operators, versions users save, and git
                \* commands that fail or syncs asked for

ASSUME GitConstants ==
    /\ Exported \subseteq Files
    /\ GitPlans \subseteq [commits : Nat, saves : Nat, faults : Nat]

\* No file, and no version.
Nothing == [spec |-> "none", ver |-> 0]

Worktree == [pc |-> "idle", since |-> 0, head |-> 0, todo |-> {}, files |-> <<>>, base |-> 0,
             stuck |-> FALSE, calm |-> TRUE]

VARIABLES
    remote,       \* the commits of the branch, each the tree after it
    lastSynced,   \* last_synced_sha: 0 for null, else a commit
    due,          \* is the tenant due for a sync
    versionRows,  \* versionRows[f]: the pipeline's versions; `hash` is who hashed it
    latestOf,     \* latestOf[f]: latest_version_id, 0 for null
    pod,          \* pod[p]: a sync at work
    commits,      \* commits operators may still push
    savesLeft,    \* versions users may still save
    gitFaults,    \* faults left
    authored,     \* history: the commits of operators
    refused,      \* history: contents an import came to and did not take
    late          \* history: contents committed after a sync opened its worktree

gitVars == <<remote, lastSynced, due, versionRows, latestOf, pod, commits, savesLeft,
             gitFaults, authored, refused, late>>

database == <<versionRows, latestOf, commits, savesLeft>>

MaxVersion == Max({g.commits + g.saves : g \in GitPlans})

Contents == {Nothing} \cup [spec : FileSpecs, ver : 1 .. MaxVersion]

GitTypeOK ==
    /\ remote \in Seq([Files -> Contents])
    /\ lastSynced \in 0 .. Len(remote)
    /\ due \in BOOLEAN
    /\ \A f \in Files :
           /\ versionRows[f] \in Seq([spec : FileSpecs, ver : 1 .. MaxVersion,
                               hash : {"git", "api"}])
           /\ latestOf[f] \in 0 .. Len(versionRows[f])
           /\ \A i, j \in DOMAIN versionRows[f] :
                  versionRows[f][i].ver = versionRows[f][j].ver => i = j
    /\ \A p \in Pods :
           /\ pod[p].pc \in {"idle", "open", "import", "export", "commit", "push", "record"}
           /\ pod[p].since \in 0 .. Len(remote) /\ pod[p].head \in 0 .. Len(remote)
           /\ pod[p].base \in 0 .. Len(remote) /\ pod[p].todo \subseteq Files

GitInit ==
    /\ remote = <<[f \in Files |-> Nothing]>>
    /\ lastSynced = 0
    /\ due = TRUE
    /\ versionRows = [f \in Files |-> <<>>]
    /\ latestOf = [f \in Files |-> 0]
    /\ pod = [p \in Pods |-> Worktree]
    /\ \E g \in GitPlans : commits = g.commits /\ savesLeft = g.saves /\ gitFaults = g.faults
    /\ authored = {}
    /\ refused = {}
    /\ late = {}

Tip == remote[Len(remote)]

Versions(f) == {versionRows[f][i].ver : i \in DOMAIN versionRows[f]}

FreshVersion(f) == CHOOSE n \in 1 .. MaxVersion + 1 :
                /\ \A k \in Versions(f) \cup {remote[i][f].ver : i \in DOMAIN remote} : k < n
                /\ n = 1 \/ n - 1 \in Versions(f) \cup {remote[i][f].ver : i \in DOMAIN remote}

\* Everybody else's steps are what a sync in progress did not expect.
Disturb(others) == [q \in Pods |-> IF q \in others /\ pod[q].pc # "idle"
                                   THEN [pod[q] EXCEPT !.calm = FALSE] ELSE pod[q]]

-----------------------------------------------------------------------------
(* The others                                                              *)

\* An operator commits a file, with a version of its own or with the one the
\* file already carries.
Author(f, s) ==
    /\ commits > 0
    /\ commits' = commits - 1
    /\ \E ver \in {FreshVersion(f)} \cup (IF Tip[f] = Nothing THEN {} ELSE {Tip[f].ver}) :
           LET c == [spec |-> s, ver |-> ver]
           IN  /\ c # Tip[f]
               /\ remote' = Append(remote, [Tip EXCEPT ![f] = c])
               /\ authored' = authored \cup {Len(remote) + 1}
               /\ late' = IF \E p \in Pods : pod[p].pc \notin {"idle", "open"}
                          THEN late \cup {<<f, c>>} ELSE late
    /\ pod' = Disturb(Pods)
    /\ UNCHANGED <<lastSynced, due, versionRows, latestOf, savesLeft, gitFaults, refused>>

\* A user saves a pipeline: a new version, unless the latest has the same hash.
SavePipeline(f, s) ==
    /\ savesLeft > 0
    /\ f \in Exported
    /\ ~(latestOf[f] # 0 /\ LET v == versionRows[f][latestOf[f]]
                            IN  v.spec = s /\ v.hash = "api")
    /\ savesLeft' = savesLeft - 1
    /\ versionRows' = [versionRows EXCEPT
                          ![f] = Append(@, [spec |-> s, ver |-> FreshVersion(f), hash |-> "api"])]
    /\ latestOf' = [latestOf EXCEPT ![f] = Len(versionRows[f]) + 1]
    /\ pod' = Disturb(Pods)
    /\ UNCHANGED <<remote, lastSynced, due, commits, gitFaults, authored, refused, late>>

\* The poll interval is over, or POST .../storage/sync sets the last sync back
\* to the epoch.
BecomesDue ==
    /\ ~due
    /\ lastSynced # Len(remote) \/ gitFaults > 0
    /\ gitFaults' = IF lastSynced # Len(remote) THEN gitFaults ELSE gitFaults - 1
    /\ due' = TRUE
    /\ UNCHANGED <<remote, lastSynced, database, pod, authored, refused, late>>

-----------------------------------------------------------------------------
(* A sync                                                                  *)

\* The poller finds the tenant due, and reconcileTenant reads its config.
Poll(p) ==
    /\ pod[p].pc = "idle"
    /\ due
    /\ pod' = [pod EXCEPT ![p] = [@ EXCEPT !.pc = "open", !.since = lastSynced, !.calm = TRUE]]
    /\ UNCHANGED <<remote, lastSynced, due, database, gitFaults, authored, refused, late>>

\* A sync throws: the error is recorded and the sha is not.
FailSync(p, stuck) ==
    /\ pod' = [pod EXCEPT ![p] = [Worktree EXCEPT !.stuck = stuck]]
    /\ due' = FALSE
    /\ UNCHANGED <<remote, lastSynced, database, authored, refused, late>>

\* A git command fails.
GitFails(p) ==
    /\ pod[p].pc \in {"open", "commit", "push"}
    /\ gitFaults > 0
    /\ gitFaults' = gitFaults - 1
    /\ FailSync(p, pod[p].stuck)

\* openRepo: clone, or fetch and reset to the branch; then the paths that
\* changed since the last sync, or all of them.  A worktree left in the middle
\* of a rebase cannot be checked out.
OpenRepo(p) ==
    /\ pod[p].pc = "open"
    /\ IF pod[p].stuck
       THEN FailSync(p, TRUE)
       ELSE /\ LET n == Len(remote)
                   t == pod[p].since
               IN  pod' = [pod EXCEPT ![p] = [@ EXCEPT !.pc = "import", !.head = n,
                           !.todo = {f \in Files : IF t = 0 THEN remote[n][f] # Nothing
                                                   ELSE remote[t][f] # remote[n][f]}]]
            /\ UNCHANGED <<remote, lastSynced, due, database, authored, refused, late>>
    /\ UNCHANGED gitFaults

\* The file's version becomes the pipeline's latest.
NewLatest(f, c) ==
    /\ versionRows' = [versionRows EXCEPT
                          ![f] = Append(@, [spec |-> c.spec, ver |-> c.ver, hash |-> "git"])]
    /\ latestOf' = [latestOf EXCEPT ![f] = Len(versionRows[f]) + 1]

\* upsertPipelineFromFile.  A spec the mirror has imported before is left
\* alone; a version number that is taken makes the insert fail, which is
\* audited; else there is a new latest version.
ImportFile(p, f) ==
    /\ pod[p].pc = "import"
    /\ f \in pod[p].todo
    /\ LET c == remote[pod[p].head][f]
           known == \E i \in DOMAIN versionRows[f] :
                        versionRows[f][i].spec = c.spec /\ versionRows[f][i].hash = "git"
           new == c # Nothing /\ ~known /\ c.ver \notin Versions(f)
       IN  /\ IF new THEN NewLatest(f, c) ELSE UNCHANGED <<versionRows, latestOf>>
           /\ refused' = IF new \/ c = Nothing THEN refused ELSE refused \cup {<<f, c>>}
           /\ pod' = [(IF new THEN Disturb(Pods \ {p}) ELSE pod)
                         EXCEPT ![p] = [pod[p] EXCEPT !.todo = @ \ {f}]]
    /\ UNCHANGED <<remote, lastSynced, due, commits, savesLeft, gitFaults, authored, late>>

\* The file written for a version.
FileOf(version) == [spec |-> version.spec, ver |-> version.ver]

\* Mutant: the first version is exported, whatever latest_version_id says.
ExportFirst(p) ==
    /\ pod[p].pc = "import"
    /\ pod[p].todo = {}
    /\ pod' = [pod EXCEPT ![p] = [@ EXCEPT !.pc = "commit",
                  !.files = [f \in {g \in Exported : latestOf[g] # 0} |->
                                FileOf(versionRows[f][1])]]]
    /\ UNCHANGED <<remote, lastSynced, due, database, gitFaults, authored, refused, late>>

\* exportToGit up to the commit: the latest version of every associated pipeline.
Export(p) ==
    /\ pod[p].pc = "import"
    /\ pod[p].todo = {}
    /\ pod' = [pod EXCEPT ![p] = [@ EXCEPT !.pc = "commit",
                  !.files = [f \in {g \in Exported : latestOf[g] # 0} |->
                                FileOf(versionRows[f][latestOf[f]])]]]
    /\ UNCHANGED <<remote, lastSynced, due, database, gitFaults, authored, refused, late>>

\* The files laid over a tree.
Over(files, tree) == [f \in Files |-> IF f \in DOMAIN files THEN files[f] ELSE tree[f]]

\* commitAndPush: pull, write the files, and commit if anything is staged.
CommitFiles(p) ==
    /\ pod[p].pc = "commit"
    /\ pod' = [pod EXCEPT ![p] = [@ EXCEPT !.base = Len(remote),
                  !.pc = IF Over(pod[p].files, Tip) = Tip THEN "record" ELSE "push"]]
    /\ UNCHANGED <<remote, lastSynced, due, database, gitFaults, authored, refused, late>>

\* What the commit changes.
Touched(p) == {f \in DOMAIN pod[p].files : remote[pod[p].base][f] # pod[p].files[f]}

\* A rebase stops at a file that was committed meanwhile with other content.
Conflict(p) == \E f \in Touched(p) : /\ Tip[f] # remote[pod[p].base][f]
                                     /\ Tip[f] # pod[p].files[f]

\* push; if it is rejected, pull --rebase and push once more.  A conflict ends
\* the sync and leaves the rebase unfinished.
PushMirror(p) ==
    /\ pod[p].pc = "push"
    /\ IF Conflict(p) THEN FailSync(p, TRUE)
       ELSE LET ours == [f \in Touched(p) |-> pod[p].files[f]]
                tree == Over(ours, Tip)
            IN  /\ remote' = IF tree = Tip THEN remote ELSE Append(remote, tree)
                /\ pod' = [Disturb(Pods \ {p}) EXCEPT ![p] = [pod[p] EXCEPT !.pc = "record",
                                                                            !.base = Len(remote')]]
                /\ UNCHANGED <<lastSynced, due, database, authored, refused, late>>
    /\ UNCHANGED gitFaults

\* Mutant: the sha the sync started from is recorded again.
RecordOpened(p) ==
    /\ pod[p].pc = "record"
    /\ lastSynced' = pod[p].since
    /\ due' = FALSE
    /\ pod' = [pod EXCEPT ![p] = Worktree]
    /\ UNCHANGED <<remote, database, gitFaults, authored, refused, late>>

\* recordSync with the worktree's sha.
RecordSync(p) ==
    /\ pod[p].pc = "record"
    /\ lastSynced' = pod[p].base
    /\ due' = FALSE
    /\ pod' = [pod EXCEPT ![p] = Worktree]
    /\ UNCHANGED <<remote, database, gitFaults, authored, refused, late>>

SyncStep(p) ==
    \/ Poll(p) \/ OpenRepo(p) \/ Export(p) \/ CommitFiles(p) \/ PushMirror(p) \/ RecordSync(p)
    \/ \E f \in Files : ImportFile(p, f)

GitNext ==
    \/ \E f \in Files, s \in FileSpecs : Author(f, s) \/ SavePipeline(f, s)
    \/ BecomesDue
    \/ \E p \in Pods : SyncStep(p) \/ GitFails(p)

GitSpec == GitInit /\ [][GitNext]_gitVars

-----------------------------------------------------------------------------
(* Properties                                                              *)

\* A sync that nobody disturbed ends with repository and database in agreement
\* on every pipeline that is exported, and with the file of every other one as
\* it was (import, then export; Over).
SyncAgrees ==
    \A p \in Pods : pod[p].pc = "record" /\ pod[p].calm =>
        \A f \in Files :
            IF f \in Exported /\ latestOf[f] # 0
            THEN Tip[f] = FileOf(versionRows[f][latestOf[f]])
            ELSE Tip[f] = remote[pod[p].head][f]

\* The content of a file as of a commit is an operator's.
ByOperator(f, n) ==
    \E i \in authored : /\ i <= n /\ remote[i][f] # remote[i - 1][f]
                        /\ \A k \in i .. n : remote[k][f] = remote[i][f]

\* What a sync does to the branch: it never changes the file of a pipeline that
\* is not exported, whatever was committed meanwhile (push without force), and
\* it replaces what an operator has committed only if that became a version, if
\* its import was refused, or if it came while a sync was between opening its
\* worktree and pushing (importFromGit before exportToGit; pull in
\* commitAndPush).
LossExplained ==
    authored' = authored =>
       \A f \in Files :
           \/ remote'[Len(remote')][f] = Tip[f]
           \/ /\ f \in Exported
              /\ \/ ~ByOperator(f, Len(remote))
                 \/ <<f, Tip[f]>> \in refused \cup late
                 \/ \E i \in DOMAIN versionRows[f] :
                       versionRows[f][i].spec = Tip[f].spec

\* Everything on the branch is seen by some sync, unless a worktree is left in
\* an unfinished rebase (Poll, recordSync).
EverySync ==
    Len(remote) > 1 ~> lastSynced = Len(remote) \/ \E p \in Pods : pod[p].stuck

\* An undisturbed sync ends with repository and database in agreement
\* (reconcileTenant).
GitSafe ==
    /\ GitTypeOK /\ SyncAgrees

\* An undisturbed sync leaves both sides in agreement, and what a push takes off
\* the branch has an explanation (reconcileTenant, commitAndPush).
GitKept == [][GitSafe' /\ LossExplained]_gitVars
=============================================================================
