----------------------------- MODULE JobHandlers ----------------------------
(***************************************************************************)
(* The worker's jobs that are not single runs: ingest_datasource,          *)
(* reindex_tenant, batch_run and evaluate_pipeline, which are sequences of *)
(* ingests or runs, and delete_tenant_vector_data.  The queue delivers a   *)
(* failed job again from its first item, and workers run jobs side by side.*)
(***************************************************************************)
EXTENDS Naturals, Sequences, FiniteSets

CONSTANTS
    DataJobs,     \* jobs of one tenant
    JobKind,      \* JobKind[j]: "ingest", "batch" or "purge"
    Items,        \* Items[j]: the collections an ingest writes, in order, or
                  \* one entry for each run of a batch
    Collections,  \* vector collections
    JobAttempts,  \* attempts of the job header, 3 by default
    MaxJobFaults  \* bound on faults: a step that throws, a worker that dies

ASSUME JobsConstants ==
    /\ JobKind \in [DataJobs -> {"ingest", "batch", "purge"}]
    /\ \A j \in DataJobs : Len(Items[j]) \in Nat /\ DOMAIN Items[j] = 1 .. Len(Items[j])
    /\ \A j \in DataJobs : JobKind[j] # "batch" => Items[j] \in Seq(Collections)
    /\ JobAttempts \in Nat \ {0} /\ MaxJobFaults \in Nat

\* A point of the vector store: the delivery that wrote it and the item.
Point == [job : DataJobs, delivery : 1 .. JobAttempts + MaxJobFaults, item : Nat]

VARIABLES
    job,         \* job[j]: where it is, its delivery and its item at work
    store,       \* store[c]: the tenant's points in collection c
    registered,  \* collections with a vector_collections row
    targets,     \* targets[j]: collections a purge has listed and not visited
    jobFaults,   \* faults left
    runs,        \* history: runs[j][i]: times item i of j was carried out
    purging,     \* history: purging[j]: points a purge found and must remove
    skipped,     \* history: <<j, c>> a purge could not delete
    broken       \* history: deliveries <<j, n, how>> that "threw" or "died"

jobsVars == <<job, store, registered, targets, jobFaults, runs, purging, skipped, broken>>

Settled == {"acked", "dead"}

\* Types, and the attempts: only a delivery that died is followed by one
\* past the limit (decideRedelivery).
JobsTypeOK ==
    /\ \A j \in DataJobs :
           /\ job[j].pc \in {"ready", "item", "find", "create", "list", "purge"} \cup Settled
           /\ job[j].delivery \in 0 .. JobAttempts + MaxJobFaults
           /\ job[j].delivery > JobAttempts => <<j, job[j].delivery - 1, "died">> \in broken
           /\ job[j].item \in 1 .. Len(Items[j]) + 1
           /\ targets[j] \subseteq Collections
           /\ runs[j] \in [DOMAIN Items[j] -> Nat]
    /\ \A c \in Collections : \A x \in store[c] : x \in Point
    /\ registered \subseteq Collections
    /\ jobFaults \in 0 .. MaxJobFaults

JobsInit ==
    /\ job = [j \in DataJobs |-> [pc |-> "ready", delivery |-> 0, item |-> 1]]
    /\ store = [c \in Collections |-> {}]
    /\ registered = {}
    /\ targets = [j \in DataJobs |-> {}]
    /\ jobFaults = MaxJobFaults
    /\ runs = [j \in DataJobs |-> [i \in DOMAIN Items[j] |-> 0]]
    /\ purging = [j \in DataJobs |-> {}]
    /\ skipped = {}
    /\ broken = {}

-----------------------------------------------------------------------------
(* The queue: a delivery begins the handler from the start; one with no    *)
(* items at all is acknowledged.                                           *)

FirstStep(j) ==
    IF JobKind[j] = "purge" THEN "list" ELSE IF Len(Items[j]) = 0 THEN "acked" ELSE "item"

DeliverJob(j) ==
    /\ job[j].pc = "ready"
    /\ job' = [job EXCEPT ![j] = [pc |-> FirstStep(j), delivery |-> @.delivery + 1, item |-> 1]]
    /\ UNCHANGED <<store, registered, targets, jobFaults, runs, purging, skipped, broken>>

\* decideRedelivery: nak while attempts are left, then term.
Retry(j) ==
    [job[j] EXCEPT !.pc = IF job[j].delivery < JobAttempts THEN "ready" ELSE "dead"]

Working(j) == job[j].pc \in {"item", "find", "create", "list", "purge"}

\* A step of the handler throws and the error reaches the consumer.
Throws(j) ==
    /\ Working(j) /\ job[j].pc # "purge"
    /\ jobFaults > 0 /\ jobFaults' = jobFaults - 1
    /\ job' = [job EXCEPT ![j] = Retry(j)]
    /\ broken' = broken \cup {<<j, job[j].delivery, "threw">>}
    /\ UNCHANGED <<store, registered, targets, runs, purging, skipped>>

\* The worker dies: the message is delivered again, whatever its attempts.
Dies(j) ==
    /\ Working(j)
    /\ jobFaults > 0 /\ jobFaults' = jobFaults - 1
    /\ job' = [job EXCEPT ![j].pc = "ready"]
    /\ broken' = broken \cup {<<j, job[j].delivery, "died">>}
    /\ UNCHANGED <<store, registered, targets, runs, purging, skipped>>

\* The item is done: the next one, or the job is acknowledged.
Advance(j) ==
    [job EXCEPT ![j].item = @ + 1,
                ![j].pc = IF job[j].item = Len(Items[j]) THEN "acked" ELSE "item"]

-----------------------------------------------------------------------------
(* batchRun and evaluatePipeline: one run after the other.                 *)

RunItem(j) ==
    /\ job[j].pc = "item" /\ JobKind[j] = "batch"
    /\ runs' = [runs EXCEPT ![j][job[j].item] = @ + 1]
    /\ job' = Advance(j)
    /\ UNCHANGED <<store, registered, targets, jobFaults, purging, skipped, broken>>

(* ingestDatasource, once or for every connection of reindexTenant.  The   *)
(* points carry the execution id, which a delivery draws afresh.           *)

Written(j) == [job |-> j, delivery |-> job[j].delivery, item |-> job[j].item]

\* ensureCollection and upsert, then the execution and its usage.
UpsertItems(j) ==
    LET c == Items[j][job[j].item] IN
    /\ job[j].pc = "item" /\ JobKind[j] = "ingest"
    /\ store' = [store EXCEPT ![c] = @ \cup {Written(j)}]
    /\ runs' = [runs EXCEPT ![j][job[j].item] = @ + 1]
    /\ job' = [job EXCEPT ![j].pc = "find"]
    /\ UNCHANGED <<registered, targets, jobFaults, purging, skipped, broken>>

\* Mutant: a failed read counts as found.
FindRowTrusts(j) ==
    LET c == Items[j][job[j].item] IN
    /\ job[j].pc = "find"
    /\ \/ c \in registered /\ job' = Advance(j) /\ UNCHANGED jobFaults
       \/ c \notin registered /\ job' = [job EXCEPT ![j].pc = "create"] /\ UNCHANGED jobFaults
       \/ jobFaults > 0 /\ jobFaults' = jobFaults - 1 /\ job' = Advance(j)
    /\ UNCHANGED <<store, registered, targets, runs, purging, skipped, broken>>

\* findByName; a failed read counts as not found.
FindRow(j) ==
    LET c == Items[j][job[j].item] IN
    /\ job[j].pc = "find"
    /\ \/ c \in registered /\ job' = Advance(j) /\ UNCHANGED jobFaults
       \/ c \notin registered /\ job' = [job EXCEPT ![j].pc = "create"] /\ UNCHANGED jobFaults
       \/ /\ c \in registered /\ jobFaults > 0
          /\ jobFaults' = jobFaults - 1
          /\ job' = [job EXCEPT ![j].pc = "create"]
    /\ UNCHANGED <<store, registered, targets, runs, purging, skipped, broken>>

\* create: collection_name is unique, so a row written meanwhile makes it throw.
CreateRow(j) ==
    LET c == Items[j][job[j].item] IN
    /\ job[j].pc = "create"
    /\ registered' = registered \cup {c}
    /\ job' = IF c \in registered THEN [job EXCEPT ![j] = Retry(j)] ELSE Advance(j)
    /\ UNCHANGED <<store, targets, jobFaults, runs, purging, skipped, broken>>

-----------------------------------------------------------------------------
(* deleteTenantVectorData: list the registered collections, delete the     *)
(* tenant's points in each, skip the ones that fail.                       *)

ListTargets(j) ==
    /\ job[j].pc = "list"
    /\ targets' = [targets EXCEPT ![j] = registered]
    /\ job' = [job EXCEPT ![j].pc = "purge"]
    /\ purging' = [purging EXCEPT ![j] = UNION {store[c] : c \in registered}]
    /\ UNCHANGED <<store, registered, jobFaults, runs, skipped, broken>>

Purge(j, c) ==
    /\ job[j].pc = "purge" /\ c \in targets[j]
    /\ targets' = [targets EXCEPT ![j] = @ \ {c}]
    /\ \/ /\ store' = [store EXCEPT ![c] = {}]
          /\ UNCHANGED <<jobFaults, skipped>>
       \/ /\ jobFaults > 0 /\ jobFaults' = jobFaults - 1
          /\ skipped' = skipped \cup {<<j, c>>}
          /\ UNCHANGED store
    /\ UNCHANGED <<job, registered, runs, purging, broken>>

PurgeDone(j) ==
    /\ job[j].pc = "purge" /\ targets[j] = {}
    /\ job' = [job EXCEPT ![j].pc = "acked"]
    /\ UNCHANGED <<store, registered, targets, jobFaults, runs, purging, skipped, broken>>

JobStep(j) ==
    \/ DeliverJob(j) \/ RunItem(j) \/ UpsertItems(j) \/ FindRow(j) \/ CreateRow(j)
    \/ ListTargets(j) \/ PurgeDone(j) \/ \E c \in Collections : Purge(j, c)

JobsNext == \E j \in DataJobs : JobStep(j) \/ Throws(j) \/ Dies(j)

JobsSpec == JobsInit /\ [][JobsNext]_jobsVars

-----------------------------------------------------------------------------

(* The catalogue names every collection with data: points of a collection
   without a vector_collections row belong to an ingest that is still between
   the upsert and the row, or to one that threw or died there.  (A purge goes
   by the catalogue.) *)
UnlistedExplained ==
    \A c \in Collections \ registered : \A x \in store[c] :
        \/ job[x.job].delivery = x.delivery /\ job[x.job].item = x.item
              /\ job[x.job].pc \in {"find", "create"}
        \/ \E how \in {"threw", "died"} : <<x.job, x.delivery, how>> \in broken

(* A purge that was acknowledged has removed every point that was in a listed
   collection when it listed them, except in collections whose deletion failed,
   whatever is ingested meanwhile. *)
PurgeComplete ==
    \A j \in DataJobs : JobKind[j] = "purge" /\ job[j].pc = "acked" =>
        \A c \in Collections : <<j, c>> \notin skipped => store[c] \cap purging[j] = {}

(* An item is carried out at most once for each delivery of its job, and its
   earlier items at least as often: a retry starts over, it neither skips an
   item nor goes on from the middle (batchRun, reindexTenant). *)
StartsOver ==
    \A j \in DataJobs : \A i \in DOMAIN Items[j] :
        runs[j][i] <= IF i = 1 THEN job[j].delivery ELSE runs[j][i - 1]

\* Redeliveries of the data jobs leave the stores and the catalogue explained:
\* no unlisted data without a cause, a purge that is complete, a batch that
\* starts over (ingestDatasource, batchRun, deleteTenantVectorData).
JobsSafe ==
    /\ JobsTypeOK /\ UnlistedExplained /\ PurgeComplete /\ StartsOver
=============================================================================
