------------------------- MODULE CatalogueProofs ----------------------------
(***************************************************************************)
(* Proofs about the platform's own records: the data jobs of the worker    *)
(* (JobHandlers), the plugin registry (PluginRegistry: overlapping         *)
(* refreshes, failing sources and exits leave it explained), the loop over *)
(* a dataset's pages (BatchLoop: its checkpoint can be trusted) and the    *)
(* datasets (Datasets: what overlapping requests leave in the tables, and  *)
(* what resolve() answers while they are written).                         *)
(***************************************************************************)
EXTENDS JobHandlers, PluginRegistry, BatchLoop, Datasets, FiniteSetTheorems,
        WellFoundedInduction, TLAPS

-----------------------------------------------------------------------------
(* Data jobs: ingests, batches and purges.                                 *)

JobRecord ==
    [pc : {"ready", "item", "find", "create", "list", "purge", "acked", "dead"},
     delivery : Nat, item : Nat \ {0}]

AtItem(j) == job[j].pc \in {"item", "find", "create"}

\* The shape of the state, and where a job of each kind can be.
JobsShape ==
    /\ job \in [DataJobs -> JobRecord]
    /\ store \in [Collections -> SUBSET Point]
    /\ registered \subseteq Collections
    /\ targets \in [DataJobs -> SUBSET Collections]
    /\ jobFaults \in 0 .. MaxJobFaults
    /\ \A j \in DataJobs : runs[j] \in [DOMAIN Items[j] -> Nat]
    /\ runs = [j \in DataJobs |-> runs[j]]
    /\ purging = [j \in DataJobs |-> purging[j]]

\* Attempts: only a death, which costs a fault, leads past the limit.
AttemptsSpent ==
    \A j \in DataJobs :
        /\ job[j].delivery <= JobAttempts + MaxJobFaults - jobFaults
        /\ job[j].pc = "ready" => job[j].delivery < JobAttempts + MaxJobFaults - jobFaults
        /\ job[j].pc = "ready" =>
             job[j].delivery < JobAttempts \/ <<j, job[j].delivery, "died">> \in broken
        /\ job[j].delivery > JobAttempts => <<j, job[j].delivery - 1, "died">> \in broken
        /\ job[j].pc # "ready" => job[j].delivery # 0

\* Items: a job is at one of its own, and only an ingest goes to the catalogue.
AtOwnItem ==
    \A j \in DataJobs :
        /\ job[j].item <= Len(Items[j]) + 1
        /\ AtItem(j) => job[j].item <= Len(Items[j]) /\ JobKind[j] # "purge"
        /\ job[j].pc \in {"find", "create"} => JobKind[j] = "ingest"
        /\ job[j].pc \in {"list", "purge"} => JobKind[j] = "purge"

JobsInv == JobsShape /\ AttemptsSpent /\ AtOwnItem

LEMMA JobsInitShape == JobsInit => JobsInv
  BY JobsConstants, SMTT(30)
     DEF JobsInit, JobsInv, JobsShape, AttemptsSpent, AtOwnItem, AtItem, JobRecord

LEMMA JobsShapeStep == JobsInv /\ [JobsNext]_jobsVars => JobsShape'
<1> SUFFICES ASSUME JobsInv, [JobsNext]_jobsVars PROVE JobsShape'
  OBVIOUS
<1>c. /\ JobKind \in [DataJobs -> {"ingest", "batch", "purge"}]
      /\ JobAttempts \in Nat \ {0} /\ MaxJobFaults \in Nat
  BY JobsConstants
<1>i. \A j \in DataJobs : Len(Items[j]) \in Nat /\ DOMAIN Items[j] = 1 .. Len(Items[j])
  BY JobsConstants
<1>q. ASSUME NEW j \in DataJobs, JobKind[j] = "ingest", NEW i \in 1 .. Len(Items[j])
      PROVE  Items[j][i] \in Collections
  BY <1>q, JobsConstants
<1>s. JobsShape
  BY DEF JobsInv
<1>b. job \in [DataJobs -> JobRecord]
  BY <1>s DEF JobsShape
<1>f. jobFaults \in 0 .. MaxJobFaults
  BY <1>s DEF JobsShape
<1>r. \A j \in DataJobs : runs[j] \in [DOMAIN Items[j] -> Nat]
  BY <1>s DEF JobsShape
<1>g. jobFaults > 0 => jobFaults - 1 \in 0 .. MaxJobFaults
  BY <1>f, <1>c
<1>p. ASSUME NEW j \in DataJobs,
             NEW st \in {"ready", "item", "find", "create", "list", "purge", "acked", "dead"}
      PROVE  [job EXCEPT ![j].pc = st] \in [DataJobs -> JobRecord]
  <2>1. [job[j] EXCEPT !.pc = st] \in JobRecord
    BY <1>b DEF JobRecord
  <2> QED
    BY <1>b, <2>1
<1>t. ASSUME NEW j \in DataJobs PROVE [job EXCEPT ![j] = Retry(j)] \in [DataJobs -> JobRecord]
  <2>1. Retry(j) \in JobRecord
    BY <1>b DEF Retry, JobRecord
  <2> QED
    BY <1>b, <2>1
<1>a. ASSUME NEW j \in DataJobs PROVE Advance(j) \in [DataJobs -> JobRecord]
  <2>1. job[j].item + 1 \in Nat \ {0}
    BY <1>b DEF JobRecord
  <2>2. [job[j] EXCEPT !.item = job[j].item + 1,
                       !.pc = IF job[j].item = Len(Items[j]) THEN "acked" ELSE "item"] \in JobRecord
    BY <1>b, <2>1 DEF JobRecord
  <2> QED
    BY <1>b, <2>2 DEF Advance
<1>e. ASSUME NEW j \in DataJobs, job[j].pc = "item",
             runs' = [runs EXCEPT ![j][job[j].item] = @ + 1]
      PROVE  /\ \A k \in DataJobs : runs'[k] \in [DOMAIN Items[k] -> Nat]
             /\ runs' = [k \in DataJobs |-> runs'[k]]
  <2>1. job[j].item \in DOMAIN Items[j]
    BY <1>e, <1>i, <1>b DEF JobsInv, AtOwnItem, AtItem, JobRecord
  <2>2. [runs[j] EXCEPT ![job[j].item] = @ + 1] \in [DOMAIN Items[j] -> Nat]
    BY <1>r, <2>1
  <2>3. runs = [k \in DataJobs |-> runs[k]]
    BY <1>s DEF JobsShape
  <2> QED
    BY <1>e, <1>r, <2>2, <2>3
<1>1. ASSUME NEW j \in DataJobs, DeliverJob(j) PROVE JobsShape'
  <2>1. [pc |-> FirstStep(j), delivery |-> job[j].delivery + 1, item |-> 1] \in JobRecord
    BY <1>b DEF FirstStep, JobRecord
  <2>2. job' \in [DataJobs -> JobRecord]
    BY <1>1, <1>b, <2>1 DEF DeliverJob
  <2> QED
    BY <1>1, <1>s, <2>2 DEF DeliverJob, JobsShape
<1>2. ASSUME NEW j \in DataJobs, RunItem(j) PROVE JobsShape'
  BY <1>2, <1>s, <1>a, <1>e DEF RunItem, JobsShape
<1>3. ASSUME NEW j \in DataJobs, UpsertItems(j) PROVE JobsShape'
  <2>0. /\ job[j].delivery \in Nat /\ job[j].item \in Nat
        /\ job[j].delivery <= JobAttempts + MaxJobFaults - jobFaults /\ job[j].delivery # 0
    BY <1>3, <1>b DEF UpsertItems, JobsInv, AttemptsSpent, JobRecord
  <2>1. job[j].delivery \in 1 .. JobAttempts + MaxJobFaults /\ job[j].item \in Nat
    BY <2>0, <1>c, <1>f
  <2>2. Written(j) \in Point
    BY <2>1 DEF Written, Point
  <2>3. store' \in [Collections -> SUBSET Point]
    BY <1>3, <1>s, <2>2 DEF UpsertItems, JobsShape
  <2>4. job' \in [DataJobs -> JobRecord]
    BY <1>3, <1>p DEF UpsertItems
  <2> QED
    BY <1>3, <1>s, <1>e, <2>3, <2>4 DEF UpsertItems, JobsShape
<1>4. ASSUME NEW j \in DataJobs, FindRow(j) PROVE JobsShape'
  <2>1. [job EXCEPT ![j].pc = "create"] \in [DataJobs -> JobRecord]
    BY <1>p
  <2>2. Advance(j) \in [DataJobs -> JobRecord]
    BY <1>a
  <2>3. job' \in [DataJobs -> JobRecord] /\ jobFaults' \in 0 .. MaxJobFaults
    BY <1>4, <1>f, <1>g, <2>1, <2>2 DEF FindRow
  <2> QED
    BY <1>4, <1>s, <2>3 DEF FindRow, JobsShape
<1>5. ASSUME NEW j \in DataJobs, CreateRow(j) PROVE JobsShape'
  <2>1. Items[j][job[j].item] \in Collections
    BY <1>5, <1>q, <1>b, <1>i DEF CreateRow, JobsInv, AtOwnItem, AtItem, JobRecord
  <2>2. registered' \subseteq Collections
    BY <1>5, <1>s, <2>1 DEF CreateRow, JobsShape
  <2>3. job' \in [DataJobs -> JobRecord]
    BY <1>5, <1>a, <1>t DEF CreateRow
  <2> QED
    BY <1>5, <1>s, <2>2, <2>3 DEF CreateRow, JobsShape
<1>6. ASSUME NEW j \in DataJobs, ListTargets(j) PROVE JobsShape'
  BY <1>6, <1>s, <1>p DEF ListTargets, JobsShape
<1>7. ASSUME NEW j \in DataJobs, PurgeDone(j) PROVE JobsShape'
  BY <1>7, <1>s, <1>p DEF PurgeDone, JobsShape
<1>8. ASSUME NEW j \in DataJobs, NEW c \in Collections, Purge(j, c) PROVE JobsShape'
  <2>1. store' \in [Collections -> SUBSET Point] /\ jobFaults' \in 0 .. MaxJobFaults
    BY <1>8, <1>s, <1>g DEF Purge, JobsShape
  <2>2. targets' \in [DataJobs -> SUBSET Collections]
    BY <1>8, <1>s DEF Purge, JobsShape
  <2> QED
    BY <1>8, <1>s, <2>1, <2>2 DEF Purge, JobsShape
<1>9. ASSUME NEW j \in DataJobs, Throws(j) PROVE JobsShape'
  BY <1>9, <1>s, <1>t, <1>g DEF Throws, JobsShape
<1>10. ASSUME NEW j \in DataJobs, Dies(j) PROVE JobsShape'
  BY <1>10, <1>s, <1>p, <1>g DEF Dies, JobsShape
<1>11. CASE UNCHANGED jobsVars
  BY <1>11, <1>s DEF jobsVars, JobsShape
<1> QED
  BY <1>1, <1>2, <1>3, <1>4, <1>5, <1>6, <1>7, <1>8, <1>9, <1>10, <1>11
     DEF JobsNext, JobStep

\* What an action does to the job it is about; every other job stays.
LEMMA JobMoves ==
    ASSUME JobsInv, NEW j \in DataJobs
    PROVE  /\ DeliverJob(j) => job'[j] = [pc |-> FirstStep(j), delivery |-> job[j].delivery + 1,
                                          item |-> 1]
           /\ RunItem(j) => job' = Advance(j)
           /\ UpsertItems(j) \/ Dies(j) \/ ListTargets(j) \/ PurgeDone(j) =>
                job'[j].delivery = job[j].delivery /\ job'[j].item = job[j].item
           /\ UpsertItems(j) => job'[j].pc = "find"
           /\ Dies(j) => job'[j].pc = "ready"
           /\ ListTargets(j) => job'[j].pc = "purge"
           /\ PurgeDone(j) => job'[j].pc = "acked"
           /\ job' = Advance(j) =>
                /\ job'[j].delivery = job[j].delivery /\ job'[j].item = job[j].item + 1
                /\ job'[j].pc = IF job[j].item = Len(Items[j]) THEN "acked" ELSE "item"
           /\ job' = [job EXCEPT ![j] = Retry(j)] =>
                /\ job'[j].delivery = job[j].delivery /\ job'[j].item = job[j].item
                /\ job'[j].pc = IF job[j].delivery < JobAttempts THEN "ready" ELSE "dead"
           /\ job' = [job EXCEPT ![j].pc = "create"] =>
                /\ job'[j].delivery = job[j].delivery /\ job'[j].item = job[j].item
                /\ job'[j].pc = "create"
           /\ JobStep(j) \/ Throws(j) \/ Dies(j) =>
                \A i \in DataJobs : i # j => job'[i] = job[i]
<1>b. job \in [DataJobs -> JobRecord]
  BY DEF JobsInv, JobsShape
<1>1. DeliverJob(j) => job'[j] = [pc |-> FirstStep(j), delivery |-> job[j].delivery + 1, item |-> 1]
  BY <1>b DEF DeliverJob
<1>2. RunItem(j) => job' = Advance(j)
  BY DEF RunItem
<1>3. UpsertItems(j) \/ Dies(j) \/ ListTargets(j) \/ PurgeDone(j) =>
        job'[j].delivery = job[j].delivery /\ job'[j].item = job[j].item
  BY <1>b DEF UpsertItems, Dies, ListTargets, PurgeDone, JobRecord
<1>4. /\ UpsertItems(j) => job'[j].pc = "find"
      /\ Dies(j) => job'[j].pc = "ready"
      /\ ListTargets(j) => job'[j].pc = "purge"
      /\ PurgeDone(j) => job'[j].pc = "acked"
  BY <1>b DEF UpsertItems, Dies, ListTargets, PurgeDone, JobRecord
<1>5. job' = Advance(j) =>
        /\ job'[j].delivery = job[j].delivery /\ job'[j].item = job[j].item + 1
        /\ job'[j].pc = IF job[j].item = Len(Items[j]) THEN "acked" ELSE "item"
  BY <1>b DEF Advance, JobRecord
<1>6. job' = [job EXCEPT ![j] = Retry(j)] =>
        /\ job'[j].delivery = job[j].delivery /\ job'[j].item = job[j].item
        /\ job'[j].pc = IF job[j].delivery < JobAttempts THEN "ready" ELSE "dead"
  BY <1>b DEF Retry, JobRecord
<1>7. job' = [job EXCEPT ![j].pc = "create"] =>
        /\ job'[j].delivery = job[j].delivery /\ job'[j].item = job[j].item
        /\ job'[j].pc = "create"
  BY <1>b DEF JobRecord
<1>8. ASSUME JobStep(j) \/ Throws(j) \/ Dies(j) PROVE \A i \in DataJobs : i # j => job'[i] = job[i]
  BY <1>8, <1>b DEF JobStep, Throws, Dies, DeliverJob, RunItem, UpsertItems, FindRow, CreateRow,
                    ListTargets, PurgeDone, Purge, Advance
<1> QED
  BY <1>1, <1>2, <1>3, <1>4, <1>5, <1>6, <1>7, <1>8

LEMMA JobsBoundsStep == JobsInv /\ [JobsNext]_jobsVars => AttemptsSpent' /\ AtOwnItem'
<1> DEFINE Goal == AttemptsSpent' /\ AtOwnItem'
<1> SUFFICES ASSUME JobsInv, [JobsNext]_jobsVars PROVE Goal
  OBVIOUS
<1>c. JobAttempts \in Nat /\ JobAttempts # 0 /\ MaxJobFaults \in Nat
  BY JobsConstants
<1>k. \A j \in DataJobs : JobKind[j] \in {"ingest", "batch", "purge"} /\ Len(Items[j]) \in Nat
  BY JobsConstants
<1>b. \A j \in DataJobs :
        /\ job[j].pc \in {"ready", "item", "find", "create", "list", "purge", "acked", "dead"}
        /\ job[j].delivery \in Nat /\ job[j].item \in Nat /\ job[j].item # 0
  BY DEF JobsInv, JobsShape, JobRecord
<1>f. jobFaults \in Nat /\ jobFaults <= MaxJobFaults
  BY <1>c DEF JobsInv, JobsShape
<1>s. AttemptsSpent /\ AtOwnItem
  BY DEF JobsInv
\* The invariants of one job, for the job that moves.
<1>0. ASSUME NEW j \in DataJobs,
             \A i \in DataJobs : i # j => job'[i] = job[i],
             jobFaults' \in Nat, jobFaults' <= jobFaults, broken \subseteq broken',
             job'[j].delivery \in Nat,
             job'[j].delivery <= JobAttempts + MaxJobFaults - jobFaults',
             job'[j].pc = "ready" =>
               /\ job'[j].delivery < JobAttempts + MaxJobFaults - jobFaults'
               /\ job'[j].delivery < JobAttempts \/ <<j, job'[j].delivery, "died">> \in broken',
             job'[j].delivery > JobAttempts => <<j, job'[j].delivery - 1, "died">> \in broken',
             job'[j].pc # "ready" => job'[j].delivery # 0
      PROVE  AttemptsSpent'
  <2> SUFFICES ASSUME NEW i \in DataJobs, i # j
               PROVE  /\ job[i].delivery <= JobAttempts + MaxJobFaults - jobFaults'
                      /\ job[i].pc = "ready" =>
                           job[i].delivery < JobAttempts + MaxJobFaults - jobFaults'
                      /\ job[i].pc = "ready" =>
                           job[i].delivery < JobAttempts \/ <<i, job[i].delivery, "died">> \in broken'
                      /\ job[i].delivery > JobAttempts => <<i, job[i].delivery - 1, "died">> \in broken'
                      /\ job[i].pc # "ready" => job[i].delivery # 0
    BY <1>0 DEF AttemptsSpent
  <2>1. /\ job[i].delivery <= JobAttempts + MaxJobFaults - jobFaults
        /\ job[i].pc = "ready" => job[i].delivery < JobAttempts + MaxJobFaults - jobFaults
        /\ job[i].delivery \in Nat
    BY <1>s, <1>b DEF AttemptsSpent
  <2>2. /\ job[i].pc = "ready" =>
             job[i].delivery < JobAttempts \/ <<i, job[i].delivery, "died">> \in broken
        /\ job[i].delivery > JobAttempts => <<i, job[i].delivery - 1, "died">> \in broken
        /\ job[i].pc # "ready" => job[i].delivery # 0
    BY <1>s DEF AttemptsSpent
  <2>3. /\ job[i].delivery <= JobAttempts + MaxJobFaults - jobFaults'
        /\ job[i].pc = "ready" => job[i].delivery < JobAttempts + MaxJobFaults - jobFaults'
    BY <2>1, <1>0, <1>f, <1>c
  <2> QED
    BY <2>2, <2>3, <1>0
<1>00. ASSUME NEW j \in DataJobs,
              \A i \in DataJobs : i # j => job'[i] = job[i],
              job'[j].item <= Len(Items[j]) + 1,
              job'[j].pc \in {"item", "find", "create"} =>
                job'[j].item <= Len(Items[j]) /\ JobKind[j] # "purge",
              job'[j].pc \in {"find", "create"} => JobKind[j] = "ingest",
              job'[j].pc \in {"list", "purge"} => JobKind[j] = "purge"
       PROVE  AtOwnItem'
  BY <1>00, <1>s DEF AtOwnItem, AtItem
\* A step of the same delivery, without a fault or with one.
<1>d. ASSUME NEW j \in DataJobs, job[j].pc # "ready",
             \A i \in DataJobs : i # j => job'[i] = job[i],
             jobFaults' = jobFaults \/ (jobFaults > 0 /\ jobFaults' = jobFaults - 1),
             broken \subseteq broken', job'[j].delivery = job[j].delivery,
             job'[j].pc = "ready" => job[j].delivery < JobAttempts
      PROVE  AttemptsSpent'
  <2>1. /\ job[j].delivery <= JobAttempts + MaxJobFaults - jobFaults
        /\ job[j].delivery > JobAttempts => <<j, job[j].delivery - 1, "died">> \in broken
        /\ job[j].delivery # 0 /\ job[j].delivery \in Nat
    BY <1>d, <1>s, <1>b DEF AttemptsSpent
  <2>2. jobFaults' \in Nat /\ jobFaults' <= jobFaults
    BY <1>d, <1>f
  <2>3. /\ job'[j].delivery <= JobAttempts + MaxJobFaults - jobFaults'
        /\ job'[j].pc = "ready" => job'[j].delivery < JobAttempts + MaxJobFaults - jobFaults'
    BY <2>1, <2>2, <1>d, <1>f, <1>c
  <2> QED
    BY <1>d, <1>0, <2>1, <2>2, <2>3
<1>o. ASSUME NEW j \in DataJobs
      PROVE  /\ job[j].item <= Len(Items[j]) + 1
             /\ job[j].pc \in {"item", "find", "create"} =>
                  job[j].item <= Len(Items[j]) /\ JobKind[j] # "purge"
             /\ job[j].pc \in {"find", "create"} => JobKind[j] = "ingest"
             /\ job[j].pc \in {"list", "purge"} => JobKind[j] = "purge"
  BY <1>s DEF AtOwnItem, AtItem
<1>v. ASSUME NEW j \in DataJobs, job[j].pc \in {"item", "find", "create"}, job' = Advance(j)
      PROVE  /\ job'[j].item <= Len(Items[j]) + 1
             /\ job'[j].pc \in {"item", "acked"}
             /\ job'[j].pc = "item" => job'[j].item <= Len(Items[j])
  <2>1. /\ job'[j].item = job[j].item + 1
        /\ job'[j].pc = IF job[j].item = Len(Items[j]) THEN "acked" ELSE "item"
    BY <1>v, JobMoves
  <2>2. job[j].item \in Nat /\ Len(Items[j]) \in Nat /\ job[j].item <= Len(Items[j])
    BY <1>v, <1>o, <1>b, <1>k
  <2> QED
    BY <2>1, <2>2
<1>1. ASSUME NEW j \in DataJobs, DeliverJob(j) PROVE Goal
  <2>1. /\ job'[j] = [pc |-> FirstStep(j), delivery |-> job[j].delivery + 1, item |-> 1]
        /\ \A i \in DataJobs : i # j => job'[i] = job[i]
    BY <1>1, JobMoves DEF JobStep
  <2>2. /\ job[j].delivery < JobAttempts + MaxJobFaults - jobFaults
        /\ job[j].delivery < JobAttempts \/ <<j, job[j].delivery, "died">> \in broken
        /\ job[j].delivery \in Nat
    BY <1>1, <1>s, <1>b DEF DeliverJob, AttemptsSpent
  <2>3. FirstStep(j) # "ready" /\ UNCHANGED <<jobFaults, broken>>
    BY <1>1 DEF FirstStep, DeliverJob
  <2>4. /\ job'[j].delivery \in Nat /\ job'[j].delivery # 0
        /\ job'[j].delivery <= JobAttempts + MaxJobFaults - jobFaults'
        /\ job'[j].delivery > JobAttempts => <<j, job'[j].delivery - 1, "died">> \in broken'
        /\ job'[j].pc # "ready"
    <3>1. (job[j].delivery + 1) - 1 = job[j].delivery
      BY <2>2
    <3> QED
      BY <2>1, <2>2, <2>3, <3>1, <1>f, <1>c
  <2>5. AttemptsSpent'
    <3>1. jobFaults' \in Nat /\ jobFaults' <= jobFaults /\ broken \subseteq broken'
      BY <2>3, <1>f
    <3> QED
      BY <1>0, <2>1, <2>4, <3>1
  <2>6. FirstStep(j) \in {"list", "acked", "item"}
    BY DEF FirstStep
  <2>7. /\ FirstStep(j) = "list" => JobKind[j] = "purge"
        /\ FirstStep(j) = "item" => JobKind[j] # "purge" /\ Len(Items[j]) # 0
    BY DEF FirstStep
  <2>8. FirstStep(j) = "item" => 1 <= Len(Items[j])
    BY <2>7, <1>k
  <2>9. AtOwnItem'
    BY <1>00, <2>1, <2>6, <2>7, <2>8, <1>k
  <2> QED
    BY <2>5, <2>9
<1>2. ASSUME NEW j \in DataJobs, RunItem(j) PROVE Goal
  <2>1. /\ job' = Advance(j) /\ job[j].pc = "item" /\ UNCHANGED <<jobFaults, broken>>
        /\ \A i \in DataJobs : i # j => job'[i] = job[i]
    BY <1>2, JobMoves DEF RunItem, JobStep
  <2>2. job'[j].delivery = job[j].delivery
    BY <2>1, JobMoves
  <2>3. AttemptsSpent'
    BY <2>1, <2>2, <1>d, <1>v
  <2>4. AtOwnItem'
    BY <2>1, <1>v, <1>o, <1>00
  <2> QED
    BY <2>3, <2>4
<1>3. ASSUME NEW j \in DataJobs, UpsertItems(j) PROVE Goal
  <2>1. /\ job[j].pc = "item" /\ JobKind[j] = "ingest" /\ UNCHANGED <<jobFaults, broken>>
        /\ \A i \in DataJobs : i # j => job'[i] = job[i]
        /\ job'[j].delivery = job[j].delivery /\ job'[j].item = job[j].item /\ job'[j].pc = "find"
    BY <1>3, JobMoves DEF UpsertItems, JobStep
  <2>2. AttemptsSpent'
    BY <2>1, <1>d
  <2>3. AtOwnItem'
    BY <2>1, <1>o, <1>00
  <2> QED
    BY <2>2, <2>3
<1>4. ASSUME NEW j \in DataJobs, FindRow(j) PROVE Goal
  <2>1. /\ job[j].pc = "find" /\ broken' = broken
        /\ jobFaults' = jobFaults \/ (jobFaults > 0 /\ jobFaults' = jobFaults - 1)
        /\ \A i \in DataJobs : i # j => job'[i] = job[i]
        /\ job' = Advance(j) \/ job' = [job EXCEPT ![j].pc = "create"]
    BY <1>4, JobMoves DEF FindRow, JobStep
  <2>2. CASE job' = Advance(j)
    <3>1. job'[j].delivery = job[j].delivery
      BY <2>2, JobMoves
    <3> QED
      BY <2>1, <2>2, <3>1, <1>d, <1>v, <1>o, <1>00
  <2>3. CASE job' = [job EXCEPT ![j].pc = "create"]
    <3>1. /\ job'[j].delivery = job[j].delivery /\ job'[j].item = job[j].item
          /\ job'[j].pc = "create"
      BY <2>3, JobMoves
    <3> QED
      BY <2>1, <3>1, <1>d, <1>o, <1>00
  <2> QED
    BY <2>1, <2>2, <2>3
\* The attempt ends with an error.
<1>e. ASSUME NEW j \in DataJobs, job[j].pc # "ready", job' = [job EXCEPT ![j] = Retry(j)],
             \A i \in DataJobs : i # j => job'[i] = job[i],
             jobFaults' = jobFaults \/ (jobFaults > 0 /\ jobFaults' = jobFaults - 1),
             broken \subseteq broken'
      PROVE  Goal
  <2>1. /\ job'[j].delivery = job[j].delivery /\ job'[j].item = job[j].item
        /\ job'[j].pc = IF job[j].delivery < JobAttempts THEN "ready" ELSE "dead"
    BY <1>e, JobMoves
  <2> QED
    BY <2>1, <1>e, <1>d, <1>o, <1>00
<1>5. ASSUME NEW j \in DataJobs, CreateRow(j) PROVE Goal
  <2>1. /\ job[j].pc = "create" /\ UNCHANGED <<jobFaults, broken>>
        /\ \A i \in DataJobs : i # j => job'[i] = job[i]
        /\ job' = Advance(j) \/ job' = [job EXCEPT ![j] = Retry(j)]
    BY <1>5, JobMoves DEF CreateRow, JobStep
  <2>2. CASE job' = Advance(j)
    <3>1. job'[j].delivery = job[j].delivery
      BY <2>2, JobMoves
    <3> QED
      BY <2>1, <2>2, <3>1, <1>d, <1>v, <1>o, <1>00
  <2>3. CASE job' = [job EXCEPT ![j] = Retry(j)]
    BY <2>1, <2>3, <1>e
  <2> QED
    BY <2>1, <2>2, <2>3
<1>6. ASSUME NEW j \in DataJobs, ListTargets(j) \/ PurgeDone(j) PROVE Goal
  <2>1. /\ job[j].pc \in {"list", "purge"} /\ UNCHANGED <<jobFaults, broken>>
        /\ \A i \in DataJobs : i # j => job'[i] = job[i]
        /\ job'[j].delivery = job[j].delivery /\ job'[j].item = job[j].item
        /\ job'[j].pc \in {"purge", "acked"}
    BY <1>6, JobMoves DEF ListTargets, PurgeDone, JobStep
  <2>2. AttemptsSpent'
    BY <2>1, <1>d
  <2>3. AtOwnItem'
    BY <2>1, <1>o, <1>00
  <2> QED
    BY <2>2, <2>3
<1>7. ASSUME NEW j \in DataJobs, NEW c \in Collections, Purge(j, c) PROVE Goal
  <2>1. /\ job[j].pc = "purge" /\ broken' = broken /\ job' = job
        /\ jobFaults' = jobFaults \/ (jobFaults > 0 /\ jobFaults' = jobFaults - 1)
    BY <1>7 DEF Purge
  <2>2. AttemptsSpent'
    BY <2>1, <1>d
  <2>3. AtOwnItem'
    BY <2>1, <1>s DEF AtOwnItem, AtItem
  <2> QED
    BY <2>2, <2>3
<1>8. ASSUME NEW j \in DataJobs, Throws(j) PROVE Goal
  <2>1. /\ job[j].pc # "ready" /\ job' = [job EXCEPT ![j] = Retry(j)] /\ broken \subseteq broken'
        /\ jobFaults > 0 /\ jobFaults' = jobFaults - 1
        /\ \A i \in DataJobs : i # j => job'[i] = job[i]
    BY <1>8, JobMoves DEF Throws, Working
  <2> QED
    BY <2>1, <1>e
<1>9. ASSUME NEW j \in DataJobs, Dies(j) PROVE Goal
  <2>1. /\ job[j].pc # "ready" /\ jobFaults > 0 /\ jobFaults' = jobFaults - 1
        /\ broken' = broken \cup {<<j, job[j].delivery, "died">>}
        /\ \A i \in DataJobs : i # j => job'[i] = job[i]
        /\ job'[j].delivery = job[j].delivery /\ job'[j].item = job[j].item
        /\ job'[j].pc = "ready"
    BY <1>9, JobMoves DEF Dies, Working
  <2>2. /\ job[j].delivery <= JobAttempts + MaxJobFaults - jobFaults
        /\ job[j].delivery > JobAttempts => <<j, job[j].delivery - 1, "died">> \in broken
        /\ job[j].delivery \in Nat
    BY <1>s, <1>b DEF AttemptsSpent
  <2>3. /\ jobFaults' \in Nat /\ jobFaults' <= jobFaults
        /\ job'[j].delivery < JobAttempts + MaxJobFaults - jobFaults'
        /\ job'[j].delivery <= JobAttempts + MaxJobFaults - jobFaults'
    BY <2>1, <2>2, <1>f, <1>c
  <2>4. AttemptsSpent'
    BY <2>1, <2>2, <2>3, <1>0
  <2>5. AtOwnItem'
    BY <2>1, <1>o, <1>00
  <2> QED
    BY <2>4, <2>5
<1>10. CASE UNCHANGED jobsVars
  BY <1>10, <1>s DEF jobsVars, AttemptsSpent, AtOwnItem, AtItem
<1> QED
  BY <1>1, <1>2, <1>3, <1>4, <1>5, <1>6, <1>7, <1>8, <1>9, <1>10 DEF JobsNext, JobStep

\* The points: each is in the collection of its item and was written by a
\* delivery that has begun, before the item that delivery is now at.
Passed(x) ==
    \/ x.delivery < job[x.job].delivery
    \/ /\ x.delivery = job[x.job].delivery
       /\ x.item < job[x.job].item \/ (x.item = job[x.job].item /\ job[x.job].pc # "item")

Placed ==
    /\ \A c \in Collections : \A x \in store[c] :
         /\ x.item \in DOMAIN Items[x.job] /\ Items[x.job][x.item] = c
         /\ Passed(x)
    /\ \A j \in DataJobs : \A x \in purging[j] : x \in Point /\ Passed(x)

\* A purge at work has emptied, of what it found, every collection it listed
\* and has visited, but the ones it skipped.
Purged ==
    \A j \in DataJobs :
        /\ (JobKind[j] = "purge" /\ job[j].pc \in {"purge", "acked"}) =>
             \A c \in Collections : (c \notin targets[j] /\ <<j, c>> \notin skipped)
                                     => store[c] \cap purging[j] = {}
        /\ (JobKind[j] = "purge" /\ job[j].pc = "acked") => targets[j] = {}

\* The count of an item that is about to be carried out, or has just been.
InTurn ==
    \A j \in DataJobs :
        /\ job[j].pc = "item" =>
             runs[j][job[j].item] < IF job[j].item = 1 THEN job[j].delivery
                                    ELSE runs[j][job[j].item - 1]
        /\ (job[j].pc \in {"find", "create"} /\ job[j].item < Len(Items[j])) =>
             runs[j][job[j].item + 1] < runs[j][job[j].item]

JobsFacts == JobsInv /\ Placed /\ Purged /\ UnlistedExplained /\ StartsOver /\ InTurn

\* A job only moves forward: what it had passed it still has.
LEMMA PassedStays ==
    ASSUME JobsInv, [JobsNext]_jobsVars, NEW x \in Point, Passed(x)
    PROVE  Passed(x)'
<1>b. \A j \in DataJobs : job[j].delivery \in Nat /\ job[j].item \in Nat
  BY DEF JobsInv, JobsShape, JobRecord
<1>x. x.job \in DataJobs /\ x.delivery \in Nat /\ x.item \in Nat
  BY JobsConstants DEF Point
<1>0. ASSUME job'[x.job].delivery = job[x.job].delivery,
             \/ job'[x.job].item = job[x.job].item /\ job'[x.job].pc # "item"
             \/ job'[x.job].item = job[x.job].item + 1
      PROVE  Passed(x)'
  BY <1>0, <1>b, <1>x DEF Passed
<1>1. CASE job'[x.job] = job[x.job]
  BY <1>1 DEF Passed
<1>2. CASE job'[x.job] # job[x.job]
  <2>1. PICK j \in DataJobs : JobStep(j) \/ Throws(j) \/ Dies(j)
    BY <1>2 DEF JobsNext, jobsVars
  <2>2. x.job = j
    BY <1>2, <2>1, <1>x, JobMoves
  <2>3. CASE DeliverJob(j)
    <3>1. job'[j] = [pc |-> FirstStep(j), delivery |-> job[j].delivery + 1, item |-> 1]
      BY <2>3, JobMoves
    <3>2. job'[j].delivery = job[j].delivery + 1
      BY <3>1
    <3> QED
      BY <2>2, <3>2, <1>b, <1>x DEF Passed
  <2>4. CASE job' = Advance(j)
    BY <2>2, <2>4, <1>0, JobMoves
  <2>5. CASE job' = [job EXCEPT ![j] = Retry(j)]
    <3>1. /\ job'[j].delivery = job[j].delivery /\ job'[j].item = job[j].item
          /\ job'[j].pc = IF job[j].delivery < JobAttempts THEN "ready" ELSE "dead"
      BY <2>5, JobMoves
    <3>2. job'[j].pc # "item"
      BY <3>1
    <3> QED
      BY <2>2, <3>1, <3>2, <1>0
  <2>6. CASE job' = [job EXCEPT ![j].pc = "create"]
    BY <2>2, <2>6, <1>0, JobMoves
  <2>7. CASE UpsertItems(j) \/ Dies(j) \/ ListTargets(j) \/ PurgeDone(j)
    BY <2>2, <2>7, <1>0, JobMoves
  <2>8. CASE \E c \in Collections : Purge(j, c)
    BY <2>8, <1>2 DEF Purge
  <2> QED
    BY <2>1, <2>3, <2>4, <2>5, <2>6, <2>7, <2>8
       DEF JobStep, RunItem, FindRow, CreateRow, Throws
<1> QED
  BY <1>1, <1>2

LEMMA PlacedStep == JobsFacts /\ [JobsNext]_jobsVars => Placed'
<1> SUFFICES ASSUME JobsFacts, [JobsNext]_jobsVars PROVE Placed'
  OBVIOUS
<1>i. JobsInv /\ Placed
  BY DEF JobsFacts
<1>s. /\ store \in [Collections -> SUBSET Point] /\ registered \subseteq Collections
      /\ purging = [j \in DataJobs |-> purging[j]]
  BY <1>i DEF JobsInv, JobsShape
<1>p. \A x \in Point : Passed(x) => Passed(x)'
  BY <1>i, PassedStays
\* No new points, and purges that found points of the store.
<1>0. ASSUME \A c \in Collections : store'[c] \subseteq store[c],
             \A j \in DataJobs : \A x \in purging'[j] :
               x \in purging[j] \/ \E c \in Collections : x \in store[c]
      PROVE  Placed'
  <2>1. ASSUME NEW c \in Collections, NEW x \in store'[c]
        PROVE  x.item \in DOMAIN Items[x.job] /\ Items[x.job][x.item] = c /\ Passed(x)'
    BY <2>1, <1>0, <1>i, <1>p, <1>s DEF Placed
  <2>2. ASSUME NEW j \in DataJobs, NEW x \in purging'[j]
        PROVE  x \in Point /\ Passed(x)'
    <3>1. x \in purging[j] \/ \E c \in Collections : x \in store[c]
      BY <2>2, <1>0
    <3> QED
      BY <3>1, <1>i, <1>p, <1>s DEF Placed
  <2> QED
    BY <2>1, <2>2 DEF Placed
<1>1. ASSUME NEW j \in DataJobs, UpsertItems(j) PROVE Placed'
  <2>0. PICK w : w = Written(j)
    OBVIOUS
  <2>1. /\ job[j].pc = "item" /\ JobKind[j] = "ingest"
        /\ job'[j].delivery = job[j].delivery /\ job'[j].item = job[j].item /\ job'[j].pc = "find"
    BY <1>1, <1>i, JobMoves DEF UpsertItems
  <2>2. w.job = j /\ w.delivery = job[j].delivery /\ w.item = job[j].item
    BY <2>0 DEF Written
  <2>3. w.item \in DOMAIN Items[j]
    BY <1>i, <2>1, <2>2, JobsConstants
       DEF JobsInv, JobsShape, JobRecord, AtOwnItem, AtItem
  <2>4. Passed(w)'
    BY <2>1, <2>2 DEF Passed
  <2>5. \A c \in Collections : \A x \in store'[c] :
          x \in store[c] \/ (x = w /\ c = Items[j][job[j].item])
    BY <1>1, <1>s, <2>0 DEF UpsertItems
  <2>6. ASSUME NEW c \in Collections, NEW x \in store'[c]
        PROVE  x.item \in DOMAIN Items[x.job] /\ Items[x.job][x.item] = c /\ Passed(x)'
    <3>1. CASE x \in store[c]
      BY <3>1, <1>i, <1>p, <1>s DEF Placed
    <3>2. CASE x = w /\ c = Items[j][job[j].item]
      BY <3>2, <2>2, <2>3, <2>4
    <3> QED
      BY <2>5, <2>6, <3>1, <3>2
  <2>7. ASSUME NEW k \in DataJobs, NEW x \in purging'[k]
        PROVE  x \in Point /\ Passed(x)'
    BY <2>7, <1>1, <1>i, <1>p DEF Placed, UpsertItems
  <2> QED
    BY <2>6, <2>7 DEF Placed
<1>2. ASSUME NEW j \in DataJobs, ListTargets(j) PROVE Placed'
  <2>a. PICK found : found = UNION {store[c] : c \in registered}
    OBVIOUS
  <2>b. \A x \in found : \E c \in Collections : x \in store[c]
    BY <2>a, <1>s, Zenon
  <2>0. purging' = [purging EXCEPT ![j] = found]
    BY <1>2, <2>a, Zenon DEF ListTargets
  <2>1. ASSUME NEW k \in DataJobs, NEW x \in purging'[k]
        PROVE  x \in purging[k] \/ \E c \in Collections : x \in store[c]
    <3>1. purging'[k] = purging[k] \/ purging'[k] = found
      BY <2>0, <1>s
    <3> QED
      BY <2>1, <3>1, <2>b
  <2> QED
    BY <1>0, <1>2, <2>1 DEF ListTargets
<1>3. ASSUME NEW j \in DataJobs, NEW c \in Collections, Purge(j, c) PROVE Placed'
  <2>1. \A b \in Collections : store'[b] \subseteq store[b]
    BY <1>3, <1>s DEF Purge
  <2> QED
    BY <1>0, <1>3, <2>1 DEF Purge
<1>4. ASSUME UNCHANGED <<store, purging>> PROVE Placed'
  BY <1>0, <1>4
<1> QED
  BY <1>1, <1>2, <1>3, <1>4
     DEF JobsNext, JobStep, DeliverJob, RunItem, FindRow, CreateRow, PurgeDone, Throws, Dies, jobsVars

LEMMA PurgedStep == JobsFacts /\ [JobsNext]_jobsVars => Purged'
<1> SUFFICES ASSUME JobsFacts, [JobsNext]_jobsVars PROVE Purged'
  OBVIOUS
<1>i. JobsInv /\ Placed /\ Purged
  BY DEF JobsFacts
<1>s. /\ store \in [Collections -> SUBSET Point] /\ registered \subseteq Collections
      /\ purging = [j \in DataJobs |-> purging[j]]
      /\ targets \in [DataJobs -> SUBSET Collections]
  BY <1>i DEF JobsInv, JobsShape
<1>k. \A j \in DataJobs : JobKind[j] \in {"ingest", "batch", "purge"}
  BY JobsConstants
<1>b. \A j \in DataJobs : job[j].delivery \in Nat /\ job[j].item \in Nat
  BY <1>i DEF JobsInv, JobsShape, JobRecord
\* A job that is not purging, with the store, the targets and what the
\* purges found as they were.
<1>0. ASSUME NEW j \in DataJobs, \A i \in DataJobs : i # j => job'[i] = job[i],
             JobKind[j] = "purge" => job'[j].pc \notin {"purge", "acked"},
             UNCHANGED <<targets, purging, skipped, store>>
      PROVE  Purged'
  BY <1>0, <1>i DEF Purged
<1>1. ASSUME NEW j \in DataJobs, DeliverJob(j) PROVE Purged'
  <2>1. /\ job'[j] = [pc |-> FirstStep(j), delivery |-> job[j].delivery + 1, item |-> 1]
        /\ \A i \in DataJobs : i # j => job'[i] = job[i]
    BY <1>1, <1>i, JobMoves DEF JobStep
  <2>2. JobKind[j] = "purge" => job'[j].pc = "list"
    BY <2>1 DEF FirstStep
  <2> QED
    BY <1>0, <1>1, <2>1, <2>2 DEF DeliverJob
<1>2. ASSUME NEW j \in DataJobs, RunItem(j) \/ FindRow(j) \/ CreateRow(j) PROVE Purged'
  <2>1. JobKind[j] # "purge" /\ \A i \in DataJobs : i # j => job'[i] = job[i]
    BY <1>2, <1>i, JobMoves
       DEF JobStep, RunItem, FindRow, CreateRow, JobsInv, AtOwnItem, AtItem
  <2> QED
    BY <1>0, <1>2, <2>1 DEF RunItem, FindRow, CreateRow
<1>3. ASSUME NEW j \in DataJobs, UpsertItems(j) PROVE Purged'
  <2>0. PICK w : w = Written(j)
    OBVIOUS
  <2>1. /\ JobKind[j] = "ingest" /\ job[j].pc = "item"
        /\ \A i \in DataJobs : i # j => job'[i] = job[i]
        /\ UNCHANGED <<targets, purging, skipped>>
    BY <1>3, <1>i, JobMoves DEF JobStep, UpsertItems
  <2>2. ~Passed(w)
    BY <2>0, <2>1, <1>b DEF Written, Passed
  <2>3. \A i \in DataJobs : w \notin purging[i]
    BY <2>2, <1>i DEF Placed
  <2>4. \A c \in Collections : \A x \in store'[c] : x \in store[c] \/ x = w
    BY <1>3, <1>s, <2>0 DEF UpsertItems
  <2>5. \A c \in Collections, i \in DataJobs :
          store[c] \cap purging[i] = {} => store'[c] \cap purging[i] = {}
    BY <2>3, <2>4
  <2>6. JobKind[j] # "purge"
    BY <2>1
  <2> QED
    BY <2>1, <2>5, <2>6, <1>i DEF Purged
<1>4. ASSUME NEW j \in DataJobs, ListTargets(j) PROVE Purged'
  <2>a. PICK found : found = UNION {store[c] : c \in registered}
    OBVIOUS
  <2>b. \A x \in found : \E c \in registered : x \in store[c]
    BY <2>a, Zenon
  <2>c. purging' = [purging EXCEPT ![j] = found]
    BY <1>4, <2>a, Zenon DEF ListTargets
  <2>1. /\ targets' = [targets EXCEPT ![j] = registered] /\ UNCHANGED <<store, skipped>>
        /\ \A i \in DataJobs : i # j => job'[i] = job[i]
        /\ job'[j].pc = "purge"
    BY <1>4, <1>i, JobMoves DEF ListTargets, JobStep
  <2>2. ASSUME NEW c \in Collections \ registered PROVE store[c] \cap found = {}
    <3>1. ASSUME NEW x \in store[c], x \in found PROVE FALSE
      <4>1. PICK d \in registered : x \in store[d]
        BY <3>1, <2>b
      <4>2. Items[x.job][x.item] = c /\ Items[x.job][x.item] = d
        BY <4>1, <1>i, <1>s DEF Placed
      <4> QED
        BY <4>1, <4>2
    <3> QED
      BY <3>1
  <2>3. targets'[j] = registered /\ purging'[j] = found
    BY <2>1, <2>c, <1>s
  <2>4. \A i \in DataJobs : i # j => targets'[i] = targets[i] /\ purging'[i] = purging[i]
    BY <2>1, <2>c, <1>s
  <2> QED
    BY <2>1, <2>2, <2>3, <2>4, <1>i DEF Purged
<1>5. ASSUME NEW j \in DataJobs, PurgeDone(j) PROVE Purged'
  <2>1. /\ job[j].pc = "purge" /\ targets[j] = {} /\ UNCHANGED <<store, targets, purging, skipped>>
        /\ \A i \in DataJobs : i # j => job'[i] = job[i]
    BY <1>5, <1>i, JobMoves DEF PurgeDone, JobStep
  <2> QED
    BY <2>1, <1>i DEF Purged
<1>6. ASSUME NEW j \in DataJobs, NEW c \in Collections, Purge(j, c) PROVE Purged'
  <2>1. /\ job' = job /\ purging' = purging /\ job[j].pc = "purge" /\ c \in targets[j]
        /\ targets' = [targets EXCEPT ![j] = @ \ {c}]
        /\ \/ store' = [store EXCEPT ![c] = {}] /\ skipped' = skipped
           \/ store' = store /\ skipped' = skipped \cup {<<j, c>>}
    BY <1>6 DEF Purge
  <2>2. \A b \in Collections : store'[b] \subseteq store[b]
    BY <2>1, <1>s
  <2>3. store'[c] = {} \/ <<j, c>> \in skipped'
    BY <2>1, <1>s
  <2>4. /\ targets'[j] = targets[j] \ {c}
        /\ \A i \in DataJobs : i # j => targets'[i] = targets[i]
    BY <2>1, <1>s
  <2>5. skipped \subseteq skipped'
    BY <2>1
  <2>6. ASSUME NEW i \in DataJobs, JobKind[i] = "purge", job[i].pc \in {"purge", "acked"},
               NEW b \in Collections, b \notin targets'[i], <<i, b>> \notin skipped'
        PROVE  store'[b] \cap purging[i] = {}
    <3>1. CASE i = j /\ b = c
      BY <3>1, <2>3, <2>6
    <3>2. CASE ~(i = j /\ b = c)
      <4>1. b \notin targets[i]
        BY <3>2, <2>4, <2>6
      <4>2. <<i, b>> \notin skipped
        BY <2>5, <2>6
      <4>3. store[b] \cap purging[i] = {}
        BY <4>1, <4>2, <2>6, <1>i DEF Purged
      <4> QED
        BY <4>3, <2>2
    <3> QED
      BY <3>1, <3>2
  <2>7. \A i \in DataJobs : (JobKind[i] = "purge" /\ job[i].pc = "acked") => targets'[i] = {}
    BY <2>1, <2>4, <1>i DEF Purged
  <2> QED
    BY <2>1, <2>6, <2>7 DEF Purged
<1>7. ASSUME NEW j \in DataJobs, Throws(j) PROVE Purged'
  <2>1. /\ job' = [job EXCEPT ![j] = Retry(j)]
        /\ \A i \in DataJobs : i # j => job'[i] = job[i]
    BY <1>7, <1>i, JobMoves DEF Throws
  <2>2. job'[j].pc = IF job[j].delivery < JobAttempts THEN "ready" ELSE "dead"
    BY <2>1, <1>i, JobMoves
  <2>3. job'[j].pc \notin {"purge", "acked"}
    BY <2>2
  <2> QED
    BY <1>0, <1>7, <2>1, <2>3 DEF Throws
<1>8. ASSUME NEW j \in DataJobs, Dies(j) PROVE Purged'
  <2>1. job'[j].pc = "ready" /\ \A i \in DataJobs : i # j => job'[i] = job[i]
    BY <1>8, <1>i, JobMoves
  <2> QED
    BY <1>0, <1>8, <2>1 DEF Dies
<1>9. CASE UNCHANGED jobsVars
  BY <1>9, <1>i DEF jobsVars, Purged
<1> QED
  BY <1>1, <1>2, <1>3, <1>4, <1>5, <1>6, <1>7, <1>8, <1>9 DEF JobsNext, JobStep

LEMMA UnlistedStep == JobsFacts /\ [JobsNext]_jobsVars => UnlistedExplained'
<1> SUFFICES ASSUME JobsFacts, [JobsNext]_jobsVars PROVE UnlistedExplained'
  OBVIOUS
<1>i. JobsInv /\ Placed /\ UnlistedExplained
  BY DEF JobsFacts
<1>s. store \in [Collections -> SUBSET Point] /\ registered \subseteq Collections
  BY <1>i DEF JobsInv, JobsShape
<1> DEFINE AtRow(x) == /\ job[x.job].delivery = x.delivery /\ job[x.job].item = x.item
                       /\ job[x.job].pc \in {"find", "create"}
           Broken(x) == \E how \in {"threw", "died"} : <<x.job, x.delivery, how>> \in broken
<1>x. \A c \in Collections : \A x \in store[c] : x.job \in DataJobs
  BY <1>s DEF Point
\* No new points: whoever leaves the row's two steps registers the collection
\* or is broken off.
<1>0. ASSUME NEW j \in DataJobs,
             \A c \in Collections : store'[c] \subseteq store[c],
             registered \subseteq registered', broken \subseteq broken',
             \A i \in DataJobs : i # j => job'[i] = job[i],
             job[j].pc \in {"find", "create"} =>
               \/ /\ job'[j].delivery = job[j].delivery /\ job'[j].item = job[j].item
                  /\ job'[j].pc \in {"find", "create"}
               \/ Items[j][job[j].item] \in registered'
               \/ \E how \in {"threw", "died"} : <<j, job[j].delivery, how>> \in broken'
      PROVE  UnlistedExplained'
  <2> SUFFICES ASSUME NEW c \in Collections \ registered', NEW x \in store'[c]
               PROVE  AtRow(x)' \/ Broken(x)'
    BY DEF UnlistedExplained
  <2>1. x \in store[c] /\ c \notin registered
    BY <1>0
  <2>2. AtRow(x) \/ Broken(x)
    BY <2>1, <1>i DEF UnlistedExplained
  <2>3. CASE Broken(x)
    BY <2>3, <1>0
  <2>4. CASE AtRow(x) /\ x.job = j
    <3>1. Items[x.job][x.item] = c
      BY <2>1, <1>i DEF Placed
    <3> QED
      BY <2>4, <3>1, <1>0
  <2>5. CASE AtRow(x) /\ x.job # j
    BY <2>1, <2>5, <1>0, <1>x
  <2> QED
    BY <2>2, <2>3, <2>4, <2>5
<1>1. ASSUME NEW j \in DataJobs, DeliverJob(j) \/ RunItem(j) \/ ListTargets(j) \/ PurgeDone(j)
      PROVE  UnlistedExplained'
  <2>1. job[j].pc \notin {"find", "create"} /\ UNCHANGED <<store, registered, broken>>
    BY <1>1 DEF DeliverJob, RunItem, ListTargets, PurgeDone
  <2>2. \A i \in DataJobs : i # j => job'[i] = job[i]
    BY <1>1, <1>i, JobMoves DEF JobStep
  <2> QED
    BY <1>0, <2>1, <2>2
<1>2. ASSUME NEW j \in DataJobs, UpsertItems(j) PROVE UnlistedExplained'
  <2>0. PICK w : w = Written(j)
    OBVIOUS
  <2>1. /\ job[j].pc = "item" /\ UNCHANGED <<registered, broken>>
        /\ job'[j].delivery = job[j].delivery /\ job'[j].item = job[j].item /\ job'[j].pc = "find"
        /\ \A i \in DataJobs : i # j => job'[i] = job[i]
    BY <1>2, <1>i, JobMoves DEF UpsertItems, JobStep
  <2>2. w.job = j /\ w.delivery = job[j].delivery /\ w.item = job[j].item
    BY <2>0 DEF Written
  <2>3. \A c \in Collections : \A x \in store'[c] : x \in store[c] \/ x = w
    BY <1>2, <1>s, <2>0 DEF UpsertItems
  <2> SUFFICES ASSUME NEW c \in Collections \ registered', NEW x \in store'[c]
               PROVE  AtRow(x)' \/ Broken(x)'
    BY DEF UnlistedExplained
  <2>4. CASE x = w
    BY <2>4, <2>1, <2>2
  <2>5. CASE x \in store[c]
    <3>1. AtRow(x) \/ Broken(x)
      BY <2>1, <2>5, <1>i DEF UnlistedExplained
    <3> QED
      BY <3>1, <2>1, <2>5, <1>x
  <2> QED
    BY <2>3, <2>4, <2>5
<1>3. ASSUME NEW j \in DataJobs, FindRow(j) PROVE UnlistedExplained'
  <2>1. /\ UNCHANGED <<store, registered, broken>>
        /\ \A i \in DataJobs : i # j => job'[i] = job[i]
        /\ \/ Items[j][job[j].item] \in registered
           \/ job' = [job EXCEPT ![j].pc = "create"]
    BY <1>3, <1>i, JobMoves DEF FindRow, JobStep
  <2>2. job' = [job EXCEPT ![j].pc = "create"] =>
          /\ job'[j].delivery = job[j].delivery /\ job'[j].item = job[j].item
          /\ job'[j].pc = "create"
    BY <1>i, JobMoves
  <2> QED
    BY <1>0, <2>1, <2>2
<1>4. ASSUME NEW j \in DataJobs, CreateRow(j) PROVE UnlistedExplained'
  <2>1. /\ UNCHANGED <<store, broken>>
        /\ \A i \in DataJobs : i # j => job'[i] = job[i]
        /\ registered' = registered \cup {Items[j][job[j].item]}
    BY <1>4, <1>i, JobMoves DEF CreateRow, JobStep
  <2> QED
    BY <1>0, <2>1
<1>5. ASSUME NEW j \in DataJobs, NEW c \in Collections, Purge(j, c) PROVE UnlistedExplained'
  <2>1. job' = job /\ UNCHANGED <<registered, broken>>
    BY <1>5 DEF Purge
  <2>2. \A b \in Collections : store'[b] \subseteq store[b]
    BY <1>5, <1>s DEF Purge
  <2> QED
    BY <1>0, <2>1, <2>2
<1>6. ASSUME NEW j \in DataJobs, Throws(j) \/ Dies(j) PROVE UnlistedExplained'
  <2>1. /\ UNCHANGED <<store, registered>>
        /\ \E how \in {"threw", "died"} : broken' = broken \cup {<<j, job[j].delivery, how>>}
    BY <1>6 DEF Throws, Dies
  <2>2. \A i \in DataJobs : i # j => job'[i] = job[i]
    BY <1>6, <1>i, JobMoves
  <2> QED
    BY <1>0, <2>1, <2>2
<1>7. CASE UNCHANGED jobsVars
  BY <1>7, <1>i DEF jobsVars, UnlistedExplained
<1> QED
  BY <1>1, <1>2, <1>3, <1>4, <1>5, <1>6, <1>7 DEF JobsNext, JobStep

LEMMA TurnStep == JobsFacts /\ [JobsNext]_jobsVars => StartsOver' /\ InTurn'
<1> DEFINE Goal == StartsOver' /\ InTurn'
<1> SUFFICES ASSUME JobsFacts, [JobsNext]_jobsVars PROVE Goal
  OBVIOUS
<1>i. JobsInv
  BY DEF JobsFacts
<1>t. StartsOver /\ InTurn
  BY DEF JobsFacts
<1>l. \A j \in DataJobs : Len(Items[j]) \in Nat /\ DOMAIN Items[j] = 1 .. Len(Items[j])
  BY JobsConstants
<1>b. \A j \in DataJobs : job[j].delivery \in Nat /\ job[j].item \in Nat /\ job[j].item # 0
  BY <1>i DEF JobsInv, JobsShape, JobRecord
<1>o. \A j \in DataJobs : job[j].pc \in {"item", "find", "create"} => job[j].item <= Len(Items[j])
  BY <1>i DEF JobsInv, AtOwnItem, AtItem
<1>r. /\ runs = [j \in DataJobs |-> runs[j]]
      /\ \A j \in DataJobs : runs[j] \in [1 .. Len(Items[j]) -> Nat]
  BY <1>i, <1>l DEF JobsInv, JobsShape
\* It is enough to look at the job that moves.
<1>0. ASSUME NEW j \in DataJobs,
             \A i \in DataJobs : i # j => job'[i] = job[i] /\ runs'[i] = runs[i],
             \A i \in 1 .. Len(Items[j]) :
               runs'[j][i] <= IF i = 1 THEN job'[j].delivery ELSE runs'[j][i - 1],
             job'[j].pc = "item" =>
               runs'[j][job'[j].item] < IF job'[j].item = 1 THEN job'[j].delivery
                                        ELSE runs'[j][job'[j].item - 1],
             (job'[j].pc \in {"find", "create"} /\ job'[j].item < Len(Items[j])) =>
               runs'[j][job'[j].item + 1] < runs'[j][job'[j].item]
      PROVE  Goal
  <2>1. StartsOver'
    BY <1>0, <1>t, <1>l DEF StartsOver
  <2>2. InTurn'
    BY <1>0, <1>t DEF InTurn
  <2> QED
    BY <2>1, <2>2
<1>u. ASSUME NEW j \in DataJobs
      PROVE  \A i \in 1 .. Len(Items[j]) :
               runs[j][i] <= IF i = 1 THEN job[j].delivery ELSE runs[j][i - 1]
  BY <1>t, <1>l DEF StartsOver
\* Where no count changes and the job neither begins an item nor is at its row.
<1>v. ASSUME NEW j \in DataJobs, runs' = runs,
             \A i \in DataJobs : i # j => job'[i] = job[i],
             job'[j].delivery = job[j].delivery, job'[j].pc \notin {"item", "find", "create"}
      PROVE  Goal
  BY <1>0, <1>u, <1>v
\* Where an item is carried out.
<1>e. ASSUME NEW j \in DataJobs, job[j].pc = "item",
             runs' = [runs EXCEPT ![j][job[j].item] = @ + 1]
      PROVE  /\ \A i \in DataJobs : i # j => runs'[i] = runs[i]
             /\ \A i \in 1 .. Len(Items[j]) :
                  runs'[j][i] <= IF i = 1 THEN job[j].delivery ELSE runs'[j][i - 1]
             /\ job[j].item < Len(Items[j]) => runs'[j][job[j].item + 1] < runs'[j][job[j].item]
  <2>1. PICK m : m = job[j].item
    OBVIOUS
  <2>2. m \in 1 .. Len(Items[j]) /\ Len(Items[j]) \in Nat /\ job[j].delivery \in Nat
    BY <2>1, <1>e, <1>b, <1>o, <1>l
  <2>3. runs[j] \in [1 .. Len(Items[j]) -> Nat]
    BY <1>r
  <2>4. runs'[j] = [runs[j] EXCEPT ![m] = @ + 1] /\ \A i \in DataJobs : i # j => runs'[i] = runs[i]
    BY <2>1, <1>e, <1>r
  <2>5. runs'[j][m] = runs[j][m] + 1
        /\ \A i \in 1 .. Len(Items[j]) : i # m => runs'[j][i] = runs[j][i]
    BY <2>2, <2>3, <2>4
  <2>6. runs[j][m] < IF m = 1 THEN job[j].delivery ELSE runs[j][m - 1]
    BY <2>1, <1>e, <1>t DEF InTurn
  <2>7. ASSUME NEW i \in 1 .. Len(Items[j])
        PROVE  runs'[j][i] <= IF i = 1 THEN job[j].delivery ELSE runs'[j][i - 1]
    <3>1. runs[j][i] <= IF i = 1 THEN job[j].delivery ELSE runs[j][i - 1]
      BY <1>u
    <3>2. runs[j][i] \in Nat /\ runs[j][m] \in Nat /\ (i # 1 => i - 1 \in 1 .. Len(Items[j]))
      BY <2>2, <2>3
    <3>3. CASE i = m
      BY <3>2, <3>3, <2>2, <2>3, <2>5, <2>6, SMTT(20)
    <3>4. CASE i # m /\ i # 1 /\ i - 1 = m
      BY <3>1, <3>2, <3>4, <2>5
    <3>5. CASE i # m /\ (i = 1 \/ i - 1 # m)
      BY <3>1, <3>2, <3>5, <2>5
    <3> QED
      BY <3>3, <3>4, <3>5
  <2>8. ASSUME m < Len(Items[j]) PROVE runs'[j][m + 1] < runs'[j][m]
    <3>1. m + 1 \in 1 .. Len(Items[j]) /\ m + 1 # m /\ m + 1 # 1 /\ (m + 1) - 1 = m
      BY <2>2, <2>8
    <3>2. runs[j][m + 1] <= runs[j][m]
      BY <3>1, <1>u
    <3>3. runs[j][m + 1] \in Nat /\ runs[j][m] \in Nat
      BY <3>1, <2>2, <2>3
    <3> QED
      BY <3>1, <3>2, <3>3, <2>5
  <2> QED
    BY <2>1, <2>4, <2>7, <2>8
\* Where the job goes on to the next item.
<1>a. ASSUME NEW j \in DataJobs, job[j].pc \in {"item", "find", "create"}, job' = Advance(j),
             \A i \in DataJobs : i # j => job'[i] = job[i] /\ runs'[i] = runs[i],
             \A i \in 1 .. Len(Items[j]) :
               runs'[j][i] <= IF i = 1 THEN job[j].delivery ELSE runs'[j][i - 1],
             job[j].item < Len(Items[j]) => runs'[j][job[j].item + 1] < runs'[j][job[j].item]
      PROVE  Goal
  <2>1. /\ job'[j].delivery = job[j].delivery /\ job'[j].item = job[j].item + 1
        /\ job'[j].pc = IF job[j].item = Len(Items[j]) THEN "acked" ELSE "item"
    BY <1>a, <1>i, JobMoves
  <2>2. job'[j].pc \notin {"find", "create"}
    BY <2>1
  <2>3. job'[j].pc = "item" => job[j].item # Len(Items[j])
    BY <2>1
  <2>4. ASSUME job'[j].pc = "item"
        PROVE  runs'[j][job'[j].item] < IF job'[j].item = 1 THEN job'[j].delivery
                                        ELSE runs'[j][job'[j].item - 1]
    <3>1. job[j].item < Len(Items[j])
      BY <2>3, <2>4, <1>a, <1>o, <1>b, <1>l
    <3>2. job'[j].item # 1 /\ job'[j].item - 1 = job[j].item
      BY <2>1, <1>b
    <3> QED
      BY <3>1, <3>2, <2>1, <1>a
  <2> QED
    BY <1>0, <1>a, <2>1, <2>2, <2>4
<1>1. ASSUME NEW j \in DataJobs, DeliverJob(j) PROVE Goal
  <2>1. /\ job'[j] = [pc |-> FirstStep(j), delivery |-> job[j].delivery + 1, item |-> 1]
        /\ \A i \in DataJobs : i # j => job'[i] = job[i]
    BY <1>1, <1>i, JobMoves DEF JobStep
  <2>2. runs' = runs
    BY <1>1 DEF DeliverJob
  <2>3. job'[j].pc = "item" => Len(Items[j]) # 0
    BY <2>1 DEF FirstStep
  <2>4. job'[j].pc \notin {"find", "create"}
    BY <2>1 DEF FirstStep
  <2>5. \A i \in 1 .. Len(Items[j]) :
          runs[j][i] <= IF i = 1 THEN job[j].delivery + 1 ELSE runs[j][i - 1]
    BY <1>u, <1>b, <1>r, <1>l
  <2>6. Len(Items[j]) # 0 => runs[j][1] < job[j].delivery + 1
    <3> SUFFICES ASSUME Len(Items[j]) # 0 PROVE runs[j][1] < job[j].delivery + 1
      OBVIOUS
    <3>1. 1 \in 1 .. Len(Items[j])
      BY <1>l
    <3>2. runs[j][1] <= job[j].delivery /\ runs[j][1] \in Nat
      BY <3>1, <1>u, <1>r
    <3> QED
      BY <3>2, <1>b
  <2> QED
    BY <1>0, <2>1, <2>2, <2>3, <2>4, <2>5, <2>6
<1>2. ASSUME NEW j \in DataJobs, RunItem(j) PROVE Goal
  <2>1. /\ job[j].pc = "item" /\ job' = Advance(j)
        /\ runs' = [runs EXCEPT ![j][job[j].item] = @ + 1]
        /\ \A i \in DataJobs : i # j => job'[i] = job[i]
    BY <1>2, <1>i, JobMoves DEF RunItem, JobStep
  <2> QED
    BY <2>1, <1>e, <1>a
<1>3. ASSUME NEW j \in DataJobs, UpsertItems(j) PROVE Goal
  <2>1. /\ job[j].pc = "item" /\ runs' = [runs EXCEPT ![j][job[j].item] = @ + 1]
        /\ \A i \in DataJobs : i # j => job'[i] = job[i]
        /\ job'[j].delivery = job[j].delivery /\ job'[j].item = job[j].item /\ job'[j].pc = "find"
    BY <1>3, <1>i, JobMoves DEF UpsertItems, JobStep
  <2>2. /\ \A i \in DataJobs : i # j => runs'[i] = runs[i]
        /\ \A i \in 1 .. Len(Items[j]) :
             runs'[j][i] <= IF i = 1 THEN job[j].delivery ELSE runs'[j][i - 1]
        /\ job[j].item < Len(Items[j]) => runs'[j][job[j].item + 1] < runs'[j][job[j].item]
    BY <2>1, <1>e
  <2>3. job'[j].pc # "item"
    BY <2>1
  <2>4. \A i \in DataJobs : i # j => job'[i] = job[i] /\ runs'[i] = runs[i]
    BY <2>1, <2>2
  <2>5. \A i \in 1 .. Len(Items[j]) :
          runs'[j][i] <= IF i = 1 THEN job'[j].delivery ELSE runs'[j][i - 1]
    BY <2>1, <2>2
  <2> QED
    BY <1>0, <2>1, <2>2, <2>3, <2>4, <2>5
<1>n. ASSUME NEW j \in DataJobs, job[j].pc \in {"find", "create"}
      PROVE  job[j].item < Len(Items[j]) => runs[j][job[j].item + 1] < runs[j][job[j].item]
  BY <1>n, <1>t DEF InTurn
<1>4. ASSUME NEW j \in DataJobs, FindRow(j) \/ CreateRow(j) PROVE Goal
  <2>1. /\ job[j].pc \in {"find", "create"} /\ runs' = runs
        /\ \A i \in DataJobs : i # j => job'[i] = job[i]
        /\ \/ job' = Advance(j)
           \/ job' = [job EXCEPT ![j].pc = "create"]
           \/ job' = [job EXCEPT ![j] = Retry(j)]
    BY <1>4, <1>i, JobMoves DEF FindRow, CreateRow, JobStep
  <2>2. CASE job' = Advance(j)
    BY <2>1, <2>2, <1>a, <1>n, <1>u
  <2>3. CASE job' = [job EXCEPT ![j].pc = "create"]
    <3>1. job'[j].delivery = job[j].delivery /\ job'[j].item = job[j].item /\ job'[j].pc = "create"
      BY <2>3, <1>i, JobMoves
    <3> QED
      BY <2>1, <3>1, <1>0, <1>n, <1>u
  <2>4. CASE job' = [job EXCEPT ![j] = Retry(j)]
    <3>1. /\ job'[j].delivery = job[j].delivery
          /\ job'[j].pc = IF job[j].delivery < JobAttempts THEN "ready" ELSE "dead"
      BY <2>4, <1>i, JobMoves
    <3> QED
      BY <2>1, <3>1, <1>v
  <2> QED
    BY <2>1, <2>2, <2>3, <2>4
<1>5. ASSUME NEW j \in DataJobs, ListTargets(j) \/ PurgeDone(j) \/ Dies(j) PROVE Goal
  <2>1. /\ job'[j].delivery = job[j].delivery /\ job'[j].pc \in {"purge", "acked", "ready"}
        /\ \A i \in DataJobs : i # j => job'[i] = job[i]
    BY <1>5, <1>i, JobMoves DEF JobStep
  <2>2. runs' = runs
    BY <1>5 DEF ListTargets, PurgeDone, Dies
  <2> QED
    BY <2>1, <2>2, <1>v
<1>6. ASSUME NEW j \in DataJobs, Throws(j) PROVE Goal
  <2>1. /\ runs' = runs /\ job' = [job EXCEPT ![j] = Retry(j)]
        /\ \A i \in DataJobs : i # j => job'[i] = job[i]
    BY <1>6, <1>i, JobMoves DEF Throws
  <2>2. /\ job'[j].delivery = job[j].delivery
        /\ job'[j].pc = IF job[j].delivery < JobAttempts THEN "ready" ELSE "dead"
    BY <2>1, <1>i, JobMoves
  <2> QED
    BY <2>1, <2>2, <1>v
<1>7. CASE UNCHANGED <<job, runs>>
  BY <1>7, <1>t DEF StartsOver, InTurn
<1> QED
  BY <1>1, <1>2, <1>3, <1>4, <1>5, <1>6, <1>7 DEF JobsNext, JobStep, Purge, jobsVars

LEMMA JobsStart == JobsInit => JobsFacts
<1> SUFFICES ASSUME JobsInit PROVE JobsFacts
  OBVIOUS
<1>1. JobsInv
  BY JobsInitShape
<1>2. Placed /\ UnlistedExplained
  BY DEF JobsInit, Placed, UnlistedExplained
<1>3. Purged
  BY DEF JobsInit, Purged
<1>l. \A j \in DataJobs : Len(Items[j]) \in Nat /\ DOMAIN Items[j] = 1 .. Len(Items[j])
  BY JobsConstants
<1>4. \A j \in DataJobs : \A i \in 1 .. Len(Items[j]) : runs[j][i] = 0
  BY <1>l DEF JobsInit
<1>5. StartsOver
  <2> SUFFICES ASSUME NEW j \in DataJobs, NEW i \in 1 .. Len(Items[j])
               PROVE  runs[j][i] <= IF i = 1 THEN job[j].delivery ELSE runs[j][i - 1]
    BY <1>l DEF StartsOver
  <2>1. i # 1 => i - 1 \in 1 .. Len(Items[j])
    BY <1>l
  <2>2. job[j].delivery = 0
    BY DEF JobsInit
  <2> QED
    BY <2>1, <2>2, <1>4
<1>6. InTurn
  BY DEF JobsInit, InTurn
<1> QED
  BY <1>1, <1>2, <1>3, <1>5, <1>6 DEF JobsFacts

LEMMA JobsStep == JobsFacts /\ [JobsNext]_jobsVars => JobsFacts'
<1> SUFFICES ASSUME JobsFacts, [JobsNext]_jobsVars PROVE JobsFacts'
  OBVIOUS
<1>1. JobsInv'
  BY JobsShapeStep, JobsBoundsStep DEF JobsFacts, JobsInv
<1> QED
  BY <1>1, PlacedStep, PurgedStep, UnlistedStep, TurnStep DEF JobsFacts

LEMMA FactsAreSafe == JobsFacts => JobsSafe
<1> SUFFICES ASSUME JobsFacts PROVE JobsSafe
  OBVIOUS
<1>i. JobsInv
  BY DEF JobsFacts
<1>1. JobsTypeOK
  <2>c. JobAttempts \in Nat /\ MaxJobFaults \in Nat
    BY JobsConstants
  <2>s. /\ store \in [Collections -> SUBSET Point] /\ registered \subseteq Collections
        /\ targets \in [DataJobs -> SUBSET Collections] /\ jobFaults \in 0 .. MaxJobFaults
        /\ \A j \in DataJobs : runs[j] \in [DOMAIN Items[j] -> Nat]
    BY <1>i DEF JobsInv, JobsShape
  <2>1. ASSUME NEW j \in DataJobs
        PROVE  /\ job[j].pc \in {"ready", "item", "find", "create", "list", "purge"} \cup Settled
               /\ job[j].delivery \in 0 .. JobAttempts + MaxJobFaults
               /\ job[j].delivery > JobAttempts => <<j, job[j].delivery - 1, "died">> \in broken
               /\ job[j].item \in 1 .. Len(Items[j]) + 1
    <3>1. /\ job[j].pc \in {"ready", "item", "find", "create", "list", "purge", "acked", "dead"}
          /\ job[j].delivery \in Nat /\ job[j].item \in Nat /\ job[j].item # 0
      BY <1>i DEF JobsInv, JobsShape, JobRecord
    <3>2. /\ job[j].delivery <= JobAttempts + MaxJobFaults - jobFaults
          /\ job[j].delivery > JobAttempts => <<j, job[j].delivery - 1, "died">> \in broken
      BY <1>i DEF JobsInv, AttemptsSpent
    <3>3. job[j].item <= Len(Items[j]) + 1 /\ Len(Items[j]) \in Nat
      BY <1>i, JobsConstants DEF JobsInv, AtOwnItem
    <3>4. job[j].delivery \in 0 .. JobAttempts + MaxJobFaults
      BY <3>1, <3>2, <2>c, <2>s
    <3>5. job[j].item \in 1 .. Len(Items[j]) + 1
      BY <3>1, <3>3
    <3> QED
      BY <3>1, <3>2, <3>4, <3>5 DEF Settled
  <2> QED
    BY <2>1, <2>s DEF JobsTypeOK
<1>2. PurgeComplete
  BY DEF JobsFacts, Purged, PurgeComplete
<1> QED
  BY <1>1, <1>2 DEF JobsFacts, JobsSafe

(* Redeliveries of the data jobs leave the stores and the catalogue explained,
   whatever the jobs, their items and their faults: no unlisted data without a
   delivery that was broken off, a complete purge, a batch that starts over. *)
THEOREM JobsAreSafe == JobsSpec => []JobsSafe
<1>1. JobsFacts /\ [JobsNext]_jobsVars => JobsFacts'
  BY JobsStep
<1> QED
  BY <1>1, JobsStart, FactsAreSafe, PTL DEF JobsSpec

-----------------------------------------------------------------------------
(* The plugin registry.                                                    *)

Places == {"idle", "list", "load", "fetch", "install", "npm", "import", "mark", "extend"}

RefreshRecord ==
    [pc : Places,
     at : 0 .. Len(Order), commit : 0 .. MaxCommit, rows : SUBSET Sources,
     built : Registries, failed : SUBSET Sources, asked : BOOLEAN, fresh : BOOLEAN]

Loading  == {"fetch", "install", "npm", "import"}
PastList == {"load", "mark", "extend"} \cup Loading

\* Where a refresh x is, and that it only works on sources it listed.
InOrder(x) ==
    /\ x.pc \in PastList => x.at # 0
    /\ x.pc \notin PastList => x.at = 0 /\ ~x.fresh /\ x.failed = {}
    /\ x.pc = "extend" => x.at = Len(Order)
    /\ x.pc \in Loading => x.commit # 0 /\ Order[x.at] \in x.rows

\* What a refresh x of process h has built is of sources it listed and has
\* passed, and is installed.
BuiltOnly(h, x, installed) ==
    /\ \A s \in Sources : x.built[s] # 0 => s \in x.rows /\ <<h, s, x.built[s]>> \in installed
    /\ \A i \in 1 .. Len(Order) :
         (i > x.at \/ (i = x.at /\ x.pc \notin {"mark", "extend"})) => x.built[Order[i]] = 0
    /\ (x.pc = "mark" /\ x.built[Order[x.at]] # 0) => x.commit = x.built[Order[x.at]]
    /\ x.pc = "import" => <<h, Order[x.at], x.commit>> \in installed

\* A refresh x that listed after the last edit has, of every source it listed
\* and has passed, the commit of the branch or a failure.
Right(x, rowsOf, head) ==
    x.fresh =>
        /\ x.rows = {s \in Sources : rowsOf[s] = "enabled"}
        /\ x.pc \in Loading => x.commit = head[Order[x.at]]
        /\ \A i \in 1 .. Len(Order) :
             ((i < x.at \/ (i = x.at /\ x.pc \in {"mark", "extend"})) /\ Order[i] \in x.rows)
               => Order[i] \in x.failed \/ x.built[Order[i]] = head[Order[i]]

AtSource       == \A r \in Refreshes : InOrder(refresh[r])
BuiltInstalled == \A r \in Refreshes : BuiltOnly(r[1], refresh[r], marker)
FreshIsRight   == \A r \in Refreshes : Right(refresh[r], table, branch)

\* Without trouble no refresh has gone stale or failed.
Untroubled ==
    ~trouble => \A r \in Refreshes :
        refresh[r].pc \in PastList => refresh[r].fresh /\ refresh[r].failed = {}

\* Installs: what was imported is installed, and a copy that is installed
\* again, or by two at once, has collided.
Installs ==
    /\ modules \subseteq marker
    /\ \A r \in Refreshes : refresh[r].pc = "npm" =>
         /\ Copy(r) \in marker => Copy(r) \in collided
         /\ Contended(r) => Copy(r) \in collided

RegistryInv ==
    /\ RegistryTypeOK /\ AtSource /\ BuiltInstalled /\ FreshIsRight /\ Untroubled /\ Installs
    /\ QuietRefreshInvisible /\ CurrentIsExpected /\ OkMeansInstalled /\ MarkerHonest

-----------------------------------------------------------------------------
(* The constants, and what a step of a refresh does to its record.         *)

LEMMA Constants ==
    /\ Len(Order) \in Nat /\ Len(Order) # 0
    /\ MaxCommit \in Nat /\ MaxCommit # 0
    /\ \A r \in Refreshes : r[1] \in Hosts
    /\ \A i, k \in 1 .. Len(Order) : Order[i] = Order[k] => i = k
    /\ \A i \in 1 .. Len(Order) : Order[i] \in Sources
    /\ \A s \in Sources : \E i \in 1 .. Len(Order) : s = Order[i]
    /\ Empty \in Registries /\ \A s \in Sources : Empty[s] = 0
    /\ Idle \in RefreshRecord
<1>1. Len(Order) \in Nat /\ Len(Order) # 0 /\ MaxCommit \in Nat /\ MaxCommit # 0
  BY RegistryConstants
<1>2. /\ \A i \in 1 .. Len(Order) : Order[i] \in Sources
      /\ \A s \in Sources : \E i \in 1 .. Len(Order) : s = Order[i]
  BY DEF Sources
<1>3. Empty \in Registries /\ \A s \in Sources : Empty[s] = 0
  BY <1>1 DEF Empty, Registries
<1>4. Idle \in RefreshRecord
  <2>1. "idle" \in Places /\ 0 \in 0 .. Len(Order) /\ 0 \in 0 .. MaxCommit
    BY <1>1 DEF Places
  <2> QED
    BY <2>1, <1>3 DEF Idle, RefreshRecord
<1> QED
  BY <1>1, <1>2, <1>3, <1>4, RegistryConstants

\* The part of a record that a step to another place leaves alone.
RestHolds(x, y) ==
    y.at = x.at /\ y.rows = x.rows /\ y.asked = x.asked /\ y.fresh = x.fresh

\* The records of a refresh x at its next step.
ResolvedTo(x, c)   == [x EXCEPT !.pc = "fetch", !.commit = c]
LoadedFrom(x, s)   == [x EXCEPT !.pc = "mark", !.built[s] = x.commit]
FailedFrom(x, s)   == [x EXCEPT !.pc = "mark", !.failed = @ \cup {s}]
ListedBy(x, rows)  == [x EXCEPT !.pc = "load", !.at = 1, !.fresh = TRUE, !.rows = rows]
OnwardFrom(x) ==
    IF x.at = Len(Order) THEN [x EXCEPT !.pc = "extend", !.commit = 0]
    ELSE [x EXCEPT !.pc = "load", !.at = @ + 1, !.commit = 0]

LEMMA Fields ==
    ASSUME NEW x \in RefreshRecord
    PROVE  /\ x.pc \in Places /\ x.at \in 0 .. Len(Order) /\ x.commit \in 0 .. MaxCommit
           /\ x.rows \in SUBSET Sources /\ x.built \in Registries
           /\ x.failed \in SUBSET Sources /\ x.asked \in BOOLEAN /\ x.fresh \in BOOLEAN
  BY DEF RefreshRecord

LEMMA Going ==
    ASSUME NEW x \in RefreshRecord, NEW place \in Places, NEW y, y = [x EXCEPT !.pc = place]
    PROVE  /\ y \in RefreshRecord /\ RestHolds(x, y)
           /\ y.pc = place /\ y.commit = x.commit /\ y.built = x.built /\ y.failed = x.failed
  BY DEF RefreshRecord, RestHolds

LEMMA RefreshResolving ==
    ASSUME NEW x \in RefreshRecord, NEW c \in 0 .. MaxCommit, NEW y,
           y = ResolvedTo(x, c)
    PROVE  /\ y \in RefreshRecord /\ RestHolds(x, y)
           /\ y.pc = "fetch" /\ y.commit = c /\ y.built = x.built /\ y.failed = x.failed
<1>1. "fetch" \in Places
  BY DEF Places
<1> QED
  BY <1>1 DEF RefreshRecord, ResolvedTo, RestHolds

LEMMA LoadedFields ==
    ASSUME NEW x \in RefreshRecord, NEW s \in Sources
    PROVE  /\ LoadedFrom(x, s) \in RefreshRecord /\ RestHolds(x, LoadedFrom(x, s))
           /\ LoadedFrom(x, s).pc = "mark" /\ LoadedFrom(x, s).commit = x.commit
           /\ LoadedFrom(x, s).failed = x.failed
           /\ LoadedFrom(x, s).built = [x.built EXCEPT ![s] = x.commit]
<1>1. "mark" \in Places
  BY DEF Places
<1>2. [x.built EXCEPT ![s] = x.commit] \in Registries
  BY Fields DEF Registries
<1> QED
  BY <1>1, <1>2 DEF RefreshRecord, LoadedFrom, RestHolds

LEMMA FailedFields ==
    ASSUME NEW x \in RefreshRecord, NEW s \in Sources, NEW y,
           y = FailedFrom(x, s)
    PROVE  /\ y \in RefreshRecord /\ RestHolds(x, y)
           /\ y.pc = "mark" /\ y.commit = x.commit /\ y.failed = x.failed \cup {s}
           /\ y.built = x.built
<1>1. "mark" \in Places
  BY DEF Places
<1>2. x.failed \cup {s} \in SUBSET Sources
  BY Fields
<1> QED
  BY <1>1, <1>2 DEF RefreshRecord, FailedFrom, RestHolds

LEMMA ListedFields ==
    ASSUME NEW x \in RefreshRecord, NEW rows \in SUBSET Sources
    PROVE  /\ ListedBy(x, rows) \in RefreshRecord
           /\ ListedBy(x, rows).pc = "load" /\ ListedBy(x, rows).at = 1
           /\ ListedBy(x, rows).fresh = TRUE /\ ListedBy(x, rows).rows = rows
           /\ ListedBy(x, rows).built = x.built /\ ListedBy(x, rows).failed = x.failed
<1>1. "load" \in Places /\ 1 \in 0 .. Len(Order)
  BY Constants DEF Places
<1> QED
  BY <1>1 DEF RefreshRecord, ListedBy

LEMMA OnwardFields ==
    ASSUME NEW x \in RefreshRecord, x.at # 0, NEW y,
           y = OnwardFrom(x)
    PROVE  /\ y \in RefreshRecord
           /\ y.built = x.built /\ y.failed = x.failed /\ y.fresh = x.fresh /\ y.rows = x.rows
           /\ x.at = Len(Order) => y.pc = "extend" /\ y.at = x.at
           /\ x.at # Len(Order) => y.pc = "load" /\ y.at = x.at + 1
<1>1. /\ "load" \in Places /\ "extend" \in Places /\ 0 \in 0 .. MaxCommit
      /\ x.at # Len(Order) => x.at + 1 \in 0 .. Len(Order)
  BY Constants, Fields DEF Places
<1>2. CASE x.at = Len(Order)
  <2>1. y = [x EXCEPT !.pc = "extend", !.commit = 0]
    BY <1>2 DEF OnwardFrom
  <2> QED
    BY <1>1, <1>2, <2>1 DEF RefreshRecord
<1>3. CASE x.at # Len(Order)
  <2>1. y = [x EXCEPT !.pc = "load", !.at = x.at + 1, !.commit = 0]
    BY <1>3 DEF OnwardFrom
  <2> QED
    BY <1>1, <1>3, <2>1 DEF RefreshRecord
<1> QED
  BY <1>2, <1>3

LEMMA BeginFields ==
    ASSUME NEW y, y = [Idle EXCEPT !.pc = "list", !.asked = TRUE] \/ y = [Idle EXCEPT !.pc = "list"]
    PROVE  /\ y \in RefreshRecord
           /\ y.pc = "list" /\ y.at = 0 /\ y.fresh = FALSE /\ y.rows = {} /\ y.built = Empty
           /\ y.failed = {} /\ y.commit = 0
<1>1. "list" \in Places
  BY DEF Places
<1>2. Idle \in RefreshRecord
  BY Constants
<1> QED
  BY <1>1, <1>2 DEF RefreshRecord, Idle

LEMMA IdleFields ==
    /\ Idle.pc = "idle" /\ Idle.at = 0 /\ Idle.fresh = FALSE /\ Idle.rows = {}
    /\ Idle.built = Empty /\ Idle.failed = {} /\ Idle.commit = 0
  BY DEF Idle

LEMMA Stepped ==
    ASSUME refresh \in [Refreshes -> RefreshRecord], NEW r \in Refreshes,
           NEW x \in RefreshRecord, RefreshStep(r, x)
    PROVE  /\ refresh' \in [Refreshes -> RefreshRecord] /\ refresh'[r] = x
           /\ \A q \in Refreshes : q # r => refresh'[q] = refresh[q]
  BY DEF RefreshStep

LEMMA RefreshTypes == RegistryTypeOK => refresh \in [Refreshes -> RefreshRecord]
  BY DEF RegistryTypeOK, RefreshRecord, Places

LEMMA CopyTypes ==
    ASSUME RegistryTypeOK, AtSource, NEW r \in Refreshes, refresh[r].pc \in PastList
    PROVE  /\ refresh[r].at \in 1 .. Len(Order) /\ Source(r) \in Sources
           /\ refresh[r].pc \in Loading => Copy(r) \in Copies
<1>1. refresh[r] \in RefreshRecord
  BY RefreshTypes
<1>2. refresh[r].at \in 1 .. Len(Order)
  BY <1>1, Fields, Constants DEF AtSource, InOrder
<1>3. Source(r) \in Sources
  BY <1>2, Constants DEF Source
<1>4. ASSUME refresh[r].pc \in Loading PROVE refresh[r].commit \in Commits
  BY <1>1, <1>4, Fields, Constants DEF AtSource, InOrder, Commits
<1> QED
  BY <1>2, <1>3, <1>4, Constants DEF Copy, Copies

\* What an edit, and the exit of a process, do to the refreshes.
LEMMA EditedRefreshes ==
    ASSUME RegistryTypeOK, Edited
    PROVE  /\ refresh' \in [Refreshes -> RefreshRecord]
           /\ \A q \in Refreshes :
                /\ refresh'[q].pc = refresh[q].pc /\ refresh'[q].at = refresh[q].at
                /\ refresh'[q].commit = refresh[q].commit /\ refresh'[q].rows = refresh[q].rows
                /\ refresh'[q].built = refresh[q].built /\ refresh'[q].fresh = FALSE
<1>0. refresh \in [Refreshes -> RefreshRecord]
  BY RefreshTypes
<1>1. refresh' = [q \in Refreshes |-> [refresh[q] EXCEPT !.fresh = FALSE]]
  BY DEF Edited
<1>2. ASSUME NEW x \in RefreshRecord, NEW y, y = [x EXCEPT !.fresh = FALSE]
      PROVE  /\ y \in RefreshRecord /\ y.pc = x.pc /\ y.at = x.at /\ y.commit = x.commit
             /\ y.rows = x.rows /\ y.built = x.built /\ y.fresh = FALSE
  BY <1>2 DEF RefreshRecord
<1>3. ASSUME NEW q \in Refreshes
      PROVE  /\ refresh'[q] \in RefreshRecord
             /\ refresh'[q].pc = refresh[q].pc /\ refresh'[q].at = refresh[q].at
             /\ refresh'[q].commit = refresh[q].commit /\ refresh'[q].rows = refresh[q].rows
             /\ refresh'[q].built = refresh[q].built /\ refresh'[q].fresh = FALSE
  <2>1. refresh[q] \in RefreshRecord
    BY <1>0
  <2>2. refresh'[q] = [refresh[q] EXCEPT !.fresh = FALSE]
    BY <1>1
  <2> QED
    BY <2>1, <2>2, <1>2
<1>4. refresh' \in [Refreshes -> RefreshRecord]
  <2>1. \A q \in Refreshes : [refresh[q] EXCEPT !.fresh = FALSE] \in RefreshRecord
    BY <1>0, <1>2
  <2> QED
    BY <1>1, <2>1
<1> QED
  BY <1>3, <1>4

LEMMA ExitedRefreshes ==
    ASSUME RegistryTypeOK, NEW h \in Hosts, Exit(h)
    PROVE  /\ refresh' \in [Refreshes -> RefreshRecord]
           /\ \A q \in Refreshes :
                \/ refresh'[q] = refresh[q] /\ q[1] # h
                \/ refresh'[q] = Idle
                \/ refresh'[q] = [Idle EXCEPT !.pc = "list"]
<1>0. refresh \in [Refreshes -> RefreshRecord]
  BY RefreshTypes
<1>1. refresh' = [q \in Refreshes |->
        IF q[1] # h THEN refresh[q]
        ELSE IF q[2] = 1 THEN [Idle EXCEPT !.pc = "list"] ELSE Idle]
  BY DEF Exit
<1>2. PICK begun : begun = [Idle EXCEPT !.pc = "list"]
  OBVIOUS
<1>3. begun \in RefreshRecord /\ Idle \in RefreshRecord
  BY <1>2, BeginFields, Constants
<1>4. \A q \in Refreshes :
        \/ refresh'[q] = refresh[q] /\ q[1] # h
        \/ refresh'[q] = Idle
        \/ refresh'[q] = begun
  BY <1>1, <1>2, Zenon
<1>5. refresh' = [q \in Refreshes |-> refresh'[q]]
  BY <1>1
<1> QED
  BY <1>0, <1>2, <1>3, <1>4, <1>5

LEMMA TypesStep == RegistryInv /\ [RegistryNext]_registryVars => RegistryTypeOK'
<1> SUFFICES ASSUME RegistryInv, [RegistryNext]_registryVars PROVE RegistryTypeOK'
  OBVIOUS
<1>i. RegistryTypeOK /\ AtSource
  BY DEF RegistryInv
<1>r. refresh \in [Refreshes -> RefreshRecord]
  BY <1>i, RefreshTypes
<1>c. \A r \in Refreshes : refresh[r].pc \in PastList =>
        Source(r) \in Sources /\ (refresh[r].pc \in Loading => Copy(r) \in Copies)
  BY <1>i, CopyTypes
<1> DEFINE CatalogueOK == /\ table \in [Sources -> {"absent", "disabled", "enabled"}]
                          /\ branch \in [Sources -> Commits]
                          /\ result \in [Sources -> [sha : 0 .. MaxCommit, ok : BOOLEAN]]
           FilesOK == /\ disk \subseteq Copies /\ deps \in [Copies -> {"none", "partial", "full"}]
                      /\ marker \subseteq Copies /\ collided \subseteq Copies
           HolderOK == /\ modules \subseteq Copies /\ holder \in [Hosts -> Registries]
                       /\ changeInbox \in [Hosts -> Nat] /\ current \in [Hosts -> BOOLEAN]
                       /\ trouble \in BOOLEAN
<1>t. CatalogueOK /\ FilesOK /\ HolderOK
  BY <1>i DEF RegistryTypeOK
<1>0. ASSUME refresh' \in [Refreshes -> RefreshRecord], CatalogueOK', FilesOK', HolderOK'
      PROVE  RegistryTypeOK'
  BY <1>0 DEF RegistryTypeOK, RefreshRecord, Places
<1>p. {"idle", "list", "load", "fetch", "install", "npm", "import", "mark", "extend"} = Places
  BY DEF Places
<1>g. ASSUME NEW r \in Refreshes, NEW place \in Places, Goto(r, place)
      PROVE  refresh' \in [Refreshes -> RefreshRecord]
  <2>1. PICK y : y = [refresh[r] EXCEPT !.pc = place]
    OBVIOUS
  <2>2. y \in RefreshRecord /\ RefreshStep(r, y)
    BY <2>1, <1>g, <1>r, Going DEF Goto
  <2> QED
    BY <2>2, <1>r, Stepped
<1>l. ASSUME NEW r \in Refreshes, refresh[r].pc \in PastList, Loaded(r)
      PROVE  refresh' \in [Refreshes -> RefreshRecord]
  <2>1. PICK y : y = LoadedFrom(refresh[r], Source(r))
    OBVIOUS
  <2>2. y \in RefreshRecord
    BY <2>1, <1>l, <1>r, <1>c, LoadedFields
  <2>3. RefreshStep(r, y)
    BY <2>1, <1>l DEF Loaded, LoadedFrom
  <2> QED
    BY <2>2, <2>3, <1>r, Stepped
<1>f. ASSUME NEW r \in Refreshes, refresh[r].pc \in PastList, Failed(r)
      PROVE  refresh' \in [Refreshes -> RefreshRecord]
  <2>1. PICK y : y = FailedFrom(refresh[r], Source(r))
    OBVIOUS
  <2>2. y \in RefreshRecord
    BY <2>1, <1>f, <1>r, <1>c, FailedFields
  <2>3. RefreshStep(r, y)
    BY <2>1, <1>f DEF Failed, FailedFrom
  <2> QED
    BY <2>2, <2>3, <1>r, Stepped
<1>b. ASSUME NEW r \in Refreshes, RefreshAborts(r)
      PROVE  refresh' \in [Refreshes -> RefreshRecord]
  BY <1>b, <1>r, Constants, Stepped DEF RefreshAborts
<1>e. ASSUME Edited PROVE refresh' \in [Refreshes -> RefreshRecord] /\ FilesOK' /\ HolderOK'
  <2>1. refresh' \in [Refreshes -> RefreshRecord]
    BY <1>e, <1>i, EditedRefreshes
  <2> QED
    BY <2>1, <1>e, <1>t DEF Edited, cacheFiles
<1>1. ASSUME NEW s \in Sources, EditSource(s) PROVE RegistryTypeOK'
  <2>1. [sha |-> 0, ok |-> FALSE] \in [sha : 0 .. MaxCommit, ok : BOOLEAN]
    BY Constants
  <2>2. result' \in [Sources -> [sha : 0 .. MaxCommit, ok : BOOLEAN]]
    BY <1>1, <1>t, <2>1 DEF EditSource
  <2>3. table' \in [Sources -> {"absent", "disabled", "enabled"}] /\ branch' = branch
    BY <1>1, <1>t DEF EditSource
  <2> QED
    BY <1>1, <1>0, <1>e, <1>t, <2>2, <2>3 DEF EditSource
<1>2. ASSUME NEW s \in Sources, PushCommit(s) PROVE RegistryTypeOK'
  <2>1. branch[s] + 1 \in Commits
    BY <1>2, <1>t, Constants DEF PushCommit, Commits
  <2>2. branch' \in [Sources -> Commits] /\ table' = table /\ result' = result
    BY <1>2, <1>t, <2>1 DEF PushCommit
  <2> QED
    BY <1>2, <1>0, <1>e, <1>t, <2>2 DEF PushCommit
<1>3. ASSUME NEW r \in Refreshes, RequestRefresh(r) PROVE RegistryTypeOK'
  <2>1. PICK y : y = [Idle EXCEPT !.pc = "list", !.asked = TRUE]
    OBVIOUS
  <2>2. y \in RefreshRecord /\ RefreshStep(r, y)
    BY <2>1, <1>3, BeginFields DEF RequestRefresh
  <2>3. refresh' \in [Refreshes -> RefreshRecord]
    BY <2>2, <1>r, Stepped
  <2> QED
    BY <1>3, <1>0, <1>t, <2>3 DEF RequestRefresh, catalogue, cacheFiles
<1>4. ASSUME NEW r \in Refreshes, ReceiveRefresh(r) PROVE RegistryTypeOK'
  <2>1. PICK y : y = [Idle EXCEPT !.pc = "list"]
    OBVIOUS
  <2>2. y \in RefreshRecord /\ RefreshStep(r, y)
    BY <2>1, <1>4, BeginFields DEF ReceiveRefresh
  <2>3. refresh' \in [Refreshes -> RefreshRecord]
    BY <2>2, <1>r, Stepped
  <2>4. changeInbox' \in [Hosts -> Nat]
    BY <1>4, <1>t, Constants DEF ReceiveRefresh
  <2> QED
    BY <1>4, <1>0, <1>t, <2>3, <2>4 DEF ReceiveRefresh, catalogue, cacheFiles
<1>5. ASSUME NEW r \in Refreshes, List(r) PROVE RegistryTypeOK'
  <2>0. PICK rows : rows = {s \in Sources : table[s] = "enabled"}
    OBVIOUS
  <2>1. PICK y : y = ListedBy(refresh[r], rows)
    OBVIOUS
  <2>2. y \in RefreshRecord
    BY <2>0, <2>1, <1>r, ListedFields
  <2>3. RefreshStep(r, y) \/ RefreshAborts(r)
    BY <1>5, <2>0, <2>1 DEF List, ListedBy
  <2>4. refresh' \in [Refreshes -> RefreshRecord]
    BY <2>2, <2>3, <1>b, <1>r, Stepped
  <2>5. trouble' \in BOOLEAN
    BY <1>5, <1>t DEF List, RefreshAborts
  <2> QED
    BY <1>5, <1>0, <1>t, <2>4, <2>5 DEF List, catalogue, cacheFiles
<1>6. ASSUME NEW r \in Refreshes, Resolve(r) PROVE RegistryTypeOK'
  <2>0. refresh[r].pc = "load" /\ refresh[r].pc \in PastList /\ "mark" \in Places
    BY <1>6 DEF Resolve, PastList, Places
  <2>1. PICK y : y = ResolvedTo(refresh[r], RefToSha(Source(r)))
    OBVIOUS
  <2>2. RefToSha(Source(r)) \in 0 .. MaxCommit
    BY <2>0, <1>c, <1>t, Constants DEF RefToSha, Commits
  <2>3. y \in RefreshRecord
    BY <2>1, <2>2, <1>r, RefreshResolving
  <2>4. Goto(r, "mark") \/ RefreshStep(r, y) \/ Failed(r)
    BY <1>6, <2>1 DEF Resolve, ResolvedTo
  <2>5. refresh' \in [Refreshes -> RefreshRecord]
    BY <2>0, <2>3, <2>4, <1>f, <1>g, <1>r, Stepped
  <2>6. trouble' \in BOOLEAN
    BY <1>6, <1>t DEF Resolve, Failed
  <2> QED
    BY <1>6, <1>0, <1>t, <2>5, <2>6 DEF Resolve, catalogue, cacheFiles
<1>7. ASSUME NEW r \in Refreshes, Fetch(r) PROVE RegistryTypeOK'
  <2>0. refresh[r].pc \in PastList /\ refresh[r].pc \in Loading /\ "install" \in Places
    BY <1>7 DEF Fetch, PastList, Loading, Places
  <2>1. Loaded(r) \/ Goto(r, "install") \/ Failed(r)
    BY <1>7 DEF Fetch, Fetched
  <2>2. refresh' \in [Refreshes -> RefreshRecord]
    BY <2>0, <2>1, <1>f, <1>g, <1>l
  <2>3. trouble' \in BOOLEAN /\ disk' \subseteq Copies
    BY <1>7, <1>t, <1>c, <2>0 DEF Fetch, Fetched, Failed, Loaded
  <2> QED
    BY <1>7, <1>0, <1>t, <2>2, <2>3 DEF Fetch, catalogue
<1>8. ASSUME NEW r \in Refreshes, Install(r) PROVE RegistryTypeOK'
  <2>0. refresh[r].pc \in PastList /\ refresh[r].pc \in Loading /\ {"import", "npm"} \subseteq Places
    BY <1>8 DEF Install, PastList, Loading, Places
  <2>1. refresh' \in [Refreshes -> RefreshRecord]
    BY <1>8, <2>0, <1>g DEF Install
  <2>2. deps' \in [Copies -> {"none", "partial", "full"}] /\ collided' \subseteq Copies
    BY <1>8, <1>t, <1>c, <2>0 DEF Install
  <2> QED
    BY <1>8, <1>0, <1>t, <2>1, <2>2 DEF Install, catalogue
<1>9. ASSUME NEW r \in Refreshes, Npm(r) PROVE RegistryTypeOK'
  <2>0. refresh[r].pc \in PastList /\ refresh[r].pc \in Loading /\ "import" \in Places
    BY <1>9 DEF Npm, PastList, Loading, Places
  <2>1. refresh' \in [Refreshes -> RefreshRecord]
    BY <1>9, <2>0, <1>g, <1>f DEF Npm
  <2>2. deps' \in [Copies -> {"none", "partial", "full"}] /\ marker' \subseteq Copies
    BY <1>9, <1>t, <1>c, <2>0 DEF Npm
  <2>3. trouble' \in BOOLEAN
    BY <1>9, <1>t DEF Npm, Failed
  <2> QED
    BY <1>9, <1>0, <1>t, <2>1, <2>2, <2>3 DEF Npm, catalogue
<1>10. ASSUME NEW r \in Refreshes, Import(r) PROVE RegistryTypeOK'
  <2>0. refresh[r].pc \in PastList /\ refresh[r].pc \in Loading
    BY <1>10 DEF Import, PastList, Loading
  <2>1. refresh' \in [Refreshes -> RefreshRecord]
    BY <1>10, <2>0, <1>l, <1>f DEF Import
  <2>2. modules' \subseteq Copies
    BY <1>10, <1>t, <1>c, <2>0 DEF Import
  <2>3. trouble' \in BOOLEAN
    BY <1>10, <1>t DEF Import, Failed, Loaded
  <2> QED
    BY <1>10, <1>0, <1>t, <2>1, <2>2, <2>3 DEF Import, catalogue, cacheFiles
<1>11. ASSUME NEW r \in Refreshes, Mark(r) PROVE RegistryTypeOK'
  <2>0. refresh[r].pc \in PastList
    BY <1>11 DEF Mark, PastList
  <2>1. PICK y : y = OnwardFrom(refresh[r])
    OBVIOUS
  <2>2. refresh[r] \in RefreshRecord /\ refresh[r].at # 0
    BY <2>0, <1>i, <1>r DEF AtSource, InOrder
  <2>3. y \in RefreshRecord
    BY <2>1, <2>2, OnwardFields
  <2>4. RefreshStep(r, y)
    BY <2>1, <1>11 DEF Mark, Onward, OnwardFrom
  <2>5. refresh' \in [Refreshes -> RefreshRecord]
    BY <2>3, <2>4, <1>r, Stepped
  <2>6. refresh[r].commit \in 0 .. MaxCommit
    BY <2>2, Fields
  <2>7. LoadResult(r, refresh[r].built[Source(r)] # 0) \in [sha : 0 .. MaxCommit, ok : BOOLEAN]
    BY <2>0, <2>6, <1>c, <1>t DEF LoadResult
  <2>8. result' \in [Sources -> [sha : 0 .. MaxCommit, ok : BOOLEAN]]
    BY <1>11, <1>t, <2>7 DEF Mark
  <2> QED
    BY <1>11, <1>0, <1>t, <2>5, <2>8 DEF Mark, cacheFiles
<1>12. ASSUME NEW r \in Refreshes, Swap(r) PROVE RegistryTypeOK'
  <2>1. refresh' \in [Refreshes -> RefreshRecord]
    BY <1>12, <1>r, <1>b, Constants, Stepped DEF Swap
  <2>2. refresh[r].built \in Registries
    BY <1>r, Fields
  <2>3. holder' \in [Hosts -> Registries]
    BY <1>12, <1>t, <2>2 DEF Swap
  <2>4. current' \in [Hosts -> BOOLEAN]
    <3>1. PICK ok : ok = (refresh[r].fresh /\ refresh[r].failed = {})
      OBVIOUS
    <3>2. current' = [current EXCEPT ![r[1]] = ok] \/ current' = current
      BY <1>12, <3>1 DEF Swap
    <3>3. ok \in BOOLEAN
      BY <3>1
    <3> QED
      BY <3>2, <3>3, <1>t
  <2>5. changeInbox' \in [Hosts -> Nat]
    BY <1>12, <1>t DEF Swap
  <2>6. trouble' \in BOOLEAN
    BY <1>12, <1>t DEF Swap, RefreshAborts
  <2> QED
    BY <1>12, <1>0, <1>t, <2>1, <2>3, <2>4, <2>5, <2>6 DEF Swap, catalogue, cacheFiles
<1>13. ASSUME NEW h \in Hosts, Exit(h) PROVE RegistryTypeOK'
  <2>1. refresh' \in [Refreshes -> RefreshRecord]
    BY <1>13, <1>i, ExitedRefreshes
  <2>2. HolderOK'
    BY <1>13, <1>t, Constants DEF Exit
  <2> QED
    BY <1>13, <1>0, <1>t, <2>1, <2>2 DEF Exit, catalogue, cacheFiles
<1>14. CASE UNCHANGED registryVars
  BY <1>14, <1>i DEF registryVars, RegistryTypeOK
<1> QED
  BY <1>1, <1>2, <1>3, <1>4, <1>5, <1>6, <1>7, <1>8, <1>9, <1>10, <1>11, <1>12, <1>13, <1>14
     DEF RegistryNext

-----------------------------------------------------------------------------
(* The steps of a refresh, one by one: from a record x to a record y.      *)

LEMMA Skips ==
    ASSUME NEW h, NEW installed, NEW rowsOf, NEW head, NEW x \in RefreshRecord,
           InOrder(x), BuiltOnly(h, x, installed), Right(x, rowsOf, head),
           x.pc = "load", Order[x.at] \notin x.rows,
           NEW y, RestHolds(x, y), y.pc = "mark", y.commit = x.commit, y.built = x.built,
           y.failed = x.failed
    PROVE  InOrder(y) /\ BuiltOnly(h, y, installed) /\ Right(y, rowsOf, head)
<1>2. x.at \in 1 .. Len(Order)
  BY Fields, Constants DEF InOrder, PastList
<1>3. InOrder(y)
  BY <1>2 DEF InOrder, PastList, Loading, RestHolds
<1>4. x.built[Order[x.at]] = 0
  BY <1>2 DEF BuiltOnly
<1>5. BuiltOnly(h, y, installed)
  BY <1>4 DEF BuiltOnly, RestHolds
<1>6. Right(y, rowsOf, head)
  BY DEF Right, RestHolds, Loading
<1> QED
  BY <1>3, <1>5, <1>6

LEMMA Resolves ==
    ASSUME NEW h, NEW installed, NEW rowsOf, NEW head, NEW x \in RefreshRecord,
           InOrder(x), BuiltOnly(h, x, installed), Right(x, rowsOf, head),
           x.pc = "load", Order[x.at] \in x.rows, head[Order[x.at]] \in Commits,
           NEW y, RestHolds(x, y), y.pc = "fetch", y.commit = head[Order[x.at]], y.built = x.built,
           y.failed = x.failed
    PROVE  InOrder(y) /\ BuiltOnly(h, y, installed) /\ Right(y, rowsOf, head)
<1>0. head[Order[x.at]] \in 0 .. MaxCommit /\ head[Order[x.at]] # 0
  BY Constants DEF Commits
<1>2. InOrder(y)
  BY <1>0 DEF InOrder, PastList, Loading, RestHolds
<1>3. BuiltOnly(h, y, installed)
  BY DEF BuiltOnly, RestHolds
<1>4. Right(y, rowsOf, head)
  BY DEF Right, RestHolds, Loading
<1> QED
  BY <1>2, <1>3, <1>4

LEMMA Proceeds ==
    ASSUME NEW h, NEW installed, NEW rowsOf, NEW head, NEW x \in RefreshRecord,
           InOrder(x), BuiltOnly(h, x, installed), Right(x, rowsOf, head),
           x.pc \in Loading, NEW place \in {"install", "npm", "import"},
           place = "import" => <<h, Order[x.at], x.commit>> \in installed,
           NEW y, RestHolds(x, y), y.pc = place, y.commit = x.commit, y.built = x.built,
           y.failed = x.failed
    PROVE  InOrder(y) /\ BuiltOnly(h, y, installed) /\ Right(y, rowsOf, head)
<1>2. InOrder(y)
  BY DEF InOrder, PastList, Loading, RestHolds
<1>3. BuiltOnly(h, y, installed)
  BY DEF BuiltOnly, RestHolds, Loading
<1>4. Right(y, rowsOf, head)
  BY DEF Right, RestHolds, Loading
<1> QED
  BY <1>2, <1>3, <1>4

LEMMA Loads ==
    ASSUME NEW h, NEW installed, NEW rowsOf, NEW head, NEW x \in RefreshRecord,
           InOrder(x), BuiltOnly(h, x, installed), Right(x, rowsOf, head),
           x.pc \in Loading, <<h, Order[x.at], x.commit>> \in installed,
           NEW y, RestHolds(x, y), y.pc = "mark", y.commit = x.commit, y.failed = x.failed,
           y.built = [x.built EXCEPT ![Order[x.at]] = x.commit]
    PROVE  InOrder(y) /\ BuiltOnly(h, y, installed) /\ Right(y, rowsOf, head)
<1>1. x.at \in 1 .. Len(Order)
  BY Fields, Constants DEF InOrder, PastList
<1>s. Order[x.at] \in Sources
  BY <1>1, Constants
<1>b. x.built \in [Sources -> 0 .. MaxCommit]
  BY Fields DEF Registries
<1>3. /\ y.built[Order[x.at]] = x.commit
      /\ \A i \in 1 .. Len(Order) : i # x.at => y.built[Order[i]] = x.built[Order[i]]
      /\ \A s \in Sources : s # Order[x.at] => y.built[s] = x.built[s]
  BY <1>1, <1>b, <1>s, Constants
<1>4. InOrder(y)
  BY DEF InOrder, PastList, Loading, RestHolds
<1>5. BuiltOnly(h, y, installed)
  <2>1. ASSUME NEW s \in Sources, y.built[s] # 0
        PROVE  s \in x.rows /\ <<h, s, y.built[s]>> \in installed
    <3>1. CASE s = Order[x.at]
      BY <3>1, <1>3 DEF InOrder
    <3>2. CASE s # Order[x.at]
      BY <2>1, <3>2, <1>3 DEF BuiltOnly
    <3> QED
      BY <3>1, <3>2
  <2>2. ASSUME NEW i \in 1 .. Len(Order), i > x.at PROVE y.built[Order[i]] = 0
    <3>1. i # x.at
      BY <1>1, <2>2, Constants
    <3> QED
      BY <2>2, <3>1, <1>3 DEF BuiltOnly
  <2> QED
    BY <1>3, <2>1, <2>2 DEF BuiltOnly, RestHolds
<1>6. Right(y, rowsOf, head)
  <2> SUFFICES ASSUME x.fresh PROVE Right(y, rowsOf, head)
    BY DEF Right, RestHolds
  <2>1. x.commit = head[Order[x.at]]
    BY DEF Right
  <2>2. ASSUME NEW i \in 1 .. Len(Order), i < x.at \/ i = x.at, Order[i] \in x.rows
        PROVE  Order[i] \in x.failed \/ y.built[Order[i]] = head[Order[i]]
    <3>1. CASE i = x.at
      BY <3>1, <2>1, <1>3
    <3>2. CASE i < x.at
      <4>1. i # x.at
        BY <3>2, <1>1, Constants
      <4> QED
        BY <2>2, <3>2, <4>1, <1>3 DEF Right
    <3> QED
      BY <2>2, <3>1, <3>2
  <2> QED
    BY <2>2 DEF Right, RestHolds, Loading
<1> QED
  BY <1>4, <1>5, <1>6

LEMMA Fails ==
    ASSUME NEW h, NEW installed, NEW rowsOf, NEW head, NEW x \in RefreshRecord,
           InOrder(x), BuiltOnly(h, x, installed), Right(x, rowsOf, head),
           x.pc \in Loading \cup {"load"},
           NEW y, RestHolds(x, y), y.pc = "mark", y.commit = x.commit, y.built = x.built,
           y.failed = x.failed \cup {Order[x.at]}
    PROVE  InOrder(y) /\ BuiltOnly(h, y, installed) /\ Right(y, rowsOf, head)
<1>1. x.at \in 1 .. Len(Order)
  BY Fields, Constants DEF InOrder, PastList
<1>s. Order[x.at] \in Sources
  BY <1>1, Constants
<1>3. x.built[Order[x.at]] = 0
  BY <1>1 DEF BuiltOnly, Loading
<1>4. InOrder(y)
  BY <1>1 DEF InOrder, PastList, Loading, RestHolds
<1>5. BuiltOnly(h, y, installed)
  BY <1>3 DEF BuiltOnly, RestHolds
<1>6. Right(y, rowsOf, head)
  BY DEF Right, RestHolds, Loading
<1> QED
  BY <1>4, <1>5, <1>6

LEMMA GoesOn ==
    ASSUME NEW h, NEW installed, NEW rowsOf, NEW head, NEW x \in RefreshRecord,
           InOrder(x), BuiltOnly(h, x, installed), Right(x, rowsOf, head), x.pc = "mark",
           NEW y, y.built = x.built, y.failed = x.failed, y.fresh = x.fresh, y.rows = x.rows,
           x.at = Len(Order) => y.pc = "extend" /\ y.at = x.at,
           x.at # Len(Order) => y.pc = "load" /\ y.at = x.at + 1
    PROVE  InOrder(y) /\ BuiltOnly(h, y, installed) /\ Right(y, rowsOf, head)
<1>1. x.at \in 1 .. Len(Order)
  BY Fields, Constants DEF InOrder, PastList
<1>3. \A i \in 1 .. Len(Order) : i > y.at \/ (i = y.at /\ y.pc \notin {"mark", "extend"}) => i > x.at
  BY <1>1, Constants
<1>4. \A i \in 1 .. Len(Order) :
        i < y.at \/ (i = y.at /\ y.pc \in {"mark", "extend"}) => i < x.at \/ i = x.at
  BY <1>1, Constants
<1>5. InOrder(y)
  BY <1>1, Constants DEF InOrder, PastList, Loading
<1>p. y.pc # "mark" /\ y.pc # "import" /\ y.pc \notin Loading
  BY DEF Loading
<1>6. BuiltOnly(h, y, installed)
  BY <1>3, <1>p DEF BuiltOnly
<1>7. Right(y, rowsOf, head)
  BY <1>4, <1>p DEF Right
<1> QED
  BY <1>5, <1>6, <1>7

LEMMA Lists ==
    ASSUME NEW h, NEW installed, NEW rowsOf, NEW head, NEW x \in RefreshRecord,
           InOrder(x), BuiltOnly(h, x, installed), x.pc = "list",
           NEW rows, rows = {s \in Sources : rowsOf[s] = "enabled"},
           NEW y, y.pc = "load", y.at = 1, y.fresh = TRUE, y.rows = rows, y.built = x.built
    PROVE  InOrder(y) /\ BuiltOnly(h, y, installed) /\ Right(y, rowsOf, head)
<1>2. x.at = 0
  BY DEF InOrder, PastList, Loading
<1>3. \A s \in Sources : x.built[s] = 0
  <2> SUFFICES ASSUME NEW s \in Sources PROVE x.built[s] = 0
    OBVIOUS
  <2>1. PICK i \in 1 .. Len(Order) : s = Order[i]
    BY Constants
  <2>2. i > x.at
    BY <1>2
  <2> QED
    BY <2>1, <2>2 DEF BuiltOnly
<1>4. InOrder(y)
  BY DEF InOrder, PastList, Loading
<1>5. BuiltOnly(h, y, installed)
  <2>1. \A i \in 1 .. Len(Order) : Order[i] \in Sources
    BY Constants
  <2> QED
    BY <1>3, <2>1 DEF BuiltOnly
<1>6. Right(y, rowsOf, head)
  BY DEF Right, Loading
<1> QED
  BY <1>4, <1>5, <1>6

LEMMA Begins ==
    ASSUME NEW h, NEW installed, NEW rowsOf, NEW head, NEW y,
           \/ y = [Idle EXCEPT !.pc = "list", !.asked = TRUE]
           \/ y = [Idle EXCEPT !.pc = "list"] \/ y = Idle
    PROVE  InOrder(y) /\ BuiltOnly(h, y, installed) /\ Right(y, rowsOf, head)
<1>1. y.pc \in {"idle", "list"} /\ y.at = 0 /\ y.fresh = FALSE /\ y.built = Empty /\ y.failed = {}
  BY BeginFields, IdleFields
<1>2. \A s \in Sources : y.built[s] = 0
  BY <1>1, Constants
<1>3. \A i \in 1 .. Len(Order) : Order[i] \in Sources
  BY Constants
<1>4. InOrder(y)
  BY <1>1 DEF InOrder, PastList, Loading
<1>5. BuiltOnly(h, y, installed)
  BY <1>1, <1>2, <1>3 DEF BuiltOnly
<1>6. Right(y, rowsOf, head)
  BY <1>1 DEF Right
<1> QED
  BY <1>4, <1>5, <1>6

\* More installed copies do no harm.
LEMMA MoreInstalled ==
    ASSUME NEW h, NEW installed, NEW more, installed \subseteq more, NEW x,
           BuiltOnly(h, x, installed)
    PROVE  BuiltOnly(h, x, more)
  BY DEF BuiltOnly

LEMMA RecordsStep ==
    RegistryInv /\ [RegistryNext]_registryVars =>
        AtSource' /\ BuiltInstalled' /\ FreshIsRight' /\ Untroubled'
<1> DEFINE Goal == AtSource' /\ BuiltInstalled' /\ FreshIsRight' /\ Untroubled'
<1> SUFFICES ASSUME RegistryInv, [RegistryNext]_registryVars PROVE Goal
  OBVIOUS
<1>i. RegistryTypeOK /\ AtSource /\ BuiltInstalled /\ FreshIsRight /\ Untroubled
  BY DEF RegistryInv
<1>m. modules \subseteq marker
  BY DEF RegistryInv, Installs
<1>r. refresh \in [Refreshes -> RefreshRecord]
  BY <1>i, RefreshTypes
<1>v. \A q \in Refreshes : /\ InOrder(refresh[q]) /\ BuiltOnly(q[1], refresh[q], marker)
                           /\ Right(refresh[q], table, branch)
  BY <1>i DEF AtSource, BuiltInstalled, FreshIsRight
<1>u. ASSUME ~trouble, NEW q \in Refreshes, refresh[q].pc \in PastList
      PROVE  refresh[q].fresh /\ refresh[q].failed = {}
  BY <1>u, <1>i DEF Untroubled
<1>c. \A r \in Refreshes : refresh[r].pc \in PastList => Source(r) \in Sources
  BY <1>i, CopyTypes
<1>b. trouble \in BOOLEAN
  BY <1>i DEF RegistryTypeOK
\* It is enough to look at the refresh that steps.
<1>0. ASSUME NEW r \in Refreshes, NEW y \in RefreshRecord, RefreshStep(r, y),
             marker \subseteq marker', table' = table, branch' = branch,
             trouble' = trouble \/ trouble' = TRUE,
             InOrder(y), BuiltOnly(r[1], y, marker'), Right(y, table, branch),
             (~trouble' /\ y.pc \in PastList) => y.fresh /\ y.failed = {}
      PROVE  Goal
  <2>1. refresh'[r] = y /\ \A q \in Refreshes : q # r => refresh'[q] = refresh[q]
    BY <1>0, <1>r, Stepped
  <2>2. AtSource'
    BY <2>1, <1>0, <1>v DEF AtSource
  <2>3. BuiltInstalled'
    <3>1. \A q \in Refreshes : BuiltOnly(q[1], refresh[q], marker')
      BY <1>v, <1>0, MoreInstalled
    <3>2. \A q \in Refreshes : BuiltOnly(q[1], refresh'[q], marker')
      BY <3>1, <2>1, <1>0
    <3> QED
      BY <3>2 DEF BuiltInstalled, BuiltOnly
  <2>4. FreshIsRight'
    <3>1. \A q \in Refreshes : Right(refresh'[q], table, branch)
      BY <2>1, <1>0, <1>v
    <3>2. \A q \in Refreshes : Right(refresh'[q], table', branch')
      BY <3>1, <1>0
    <3> QED
      BY <3>2 DEF FreshIsRight, Right
  <2>5. Untroubled'
    BY <2>1, <1>0, <1>u, <1>b DEF Untroubled
  <2> QED
    BY <2>2, <2>3, <2>4, <2>5
\* The refresh begins, or ends.
<1>d. ASSUME NEW r \in Refreshes, NEW y, RefreshStep(r, y),
             \/ y = [Idle EXCEPT !.pc = "list", !.asked = TRUE]
             \/ y = [Idle EXCEPT !.pc = "list"] \/ y = Idle,
             marker' = marker, table' = table, branch' = branch,
             trouble' = trouble \/ trouble' = TRUE
      PROVE  Goal
  <2>1. y \in RefreshRecord /\ y.pc \in {"idle", "list"}
    BY <1>d, BeginFields, IdleFields, Constants
  <2>2. InOrder(y) /\ BuiltOnly(r[1], y, marker') /\ Right(y, table, branch)
    BY <1>d, Begins
  <2>3. y.pc \notin PastList
    BY <2>1 DEF PastList, Loading
  <2> QED
    BY <1>d, <1>0, <2>1, <2>2, <2>3
<1>f. ASSUME NEW r \in Refreshes, refresh[r].pc \in Loading \cup {"load"}, Failed(r),
             marker' = marker, table' = table, branch' = branch
      PROVE  Goal
  <2>1. PICK y : y = FailedFrom(refresh[r], Source(r))
    OBVIOUS
  <2>2. RefreshStep(r, y) /\ trouble' = TRUE
    BY <2>1, <1>f DEF Failed, FailedFrom
  <2>3. refresh[r].pc \in PastList
    BY <1>f DEF PastList
  <2>4. /\ y \in RefreshRecord /\ RestHolds(refresh[r], y)
        /\ y.pc = "mark" /\ y.commit = refresh[r].commit
        /\ y.failed = refresh[r].failed \cup {Order[refresh[r].at]}
        /\ y.built = refresh[r].built
    <3>1. /\ y \in RefreshRecord /\ RestHolds(refresh[r], y)
          /\ y.pc = "mark" /\ y.commit = refresh[r].commit
          /\ y.failed = refresh[r].failed \cup {Source(r)}
          /\ y.built = refresh[r].built
      BY <2>1, <2>3, <1>r, <1>c, FailedFields
    <3> QED
      BY <3>1 DEF Source
  <2>5. InOrder(y) /\ BuiltOnly(r[1], y, marker) /\ Right(y, table, branch)
    BY <1>f, <2>4, <1>r, <1>v, Fails
  <2> QED
    BY <1>f, <1>0, <2>2, <2>4, <2>5
<1>l. ASSUME NEW r \in Refreshes, refresh[r].pc \in Loading, Loaded(r), Copy(r) \in marker,
             marker' = marker, table' = table, branch' = branch
      PROVE  Goal
  <2>1. PICK y : y = LoadedFrom(refresh[r], Source(r))
    OBVIOUS
  <2>2. RefreshStep(r, y) /\ trouble' = trouble
    BY <2>1, <1>l DEF Loaded, LoadedFrom
  <2>3. refresh[r].pc \in PastList
    BY <1>l DEF PastList
  <2>4. /\ y \in RefreshRecord /\ RestHolds(refresh[r], y)
        /\ y.pc = "mark" /\ y.commit = refresh[r].commit /\ y.failed = refresh[r].failed
        /\ y.built = [refresh[r].built EXCEPT ![Order[refresh[r].at]] = refresh[r].commit]
    <3>1. /\ y \in RefreshRecord /\ RestHolds(refresh[r], y)
          /\ y.pc = "mark" /\ y.commit = refresh[r].commit /\ y.failed = refresh[r].failed
          /\ y.built = [refresh[r].built EXCEPT ![Source(r)] = refresh[r].commit]
      <4>1. refresh[r] \in RefreshRecord /\ Source(r) \in Sources
        BY <2>3, <1>r, <1>c
      <4> QED
        BY <2>1, <4>1, LoadedFields
    <3> QED
      BY <3>1 DEF Source
  <2>5. <<r[1], Order[refresh[r].at], refresh[r].commit>> \in marker
    BY <1>l DEF Copy, Source
  <2>6. InOrder(y) /\ BuiltOnly(r[1], y, marker) /\ Right(y, table, branch)
    BY <1>l, <2>4, <2>5, <1>r, <1>v, Loads
  <2>7. ~trouble' => y.fresh /\ y.failed = {}
    BY <2>2, <2>3, <2>4, <1>u DEF RestHolds
  <2> QED
    BY <1>l, <1>0, <2>2, <2>4, <2>6, <2>7
<1>g. ASSUME NEW r \in Refreshes, refresh[r].pc \in Loading,
             NEW place \in {"install", "npm", "import"}, Goto(r, place),
             marker \subseteq marker', place = "import" => Copy(r) \in marker',
             trouble' = trouble, table' = table, branch' = branch
      PROVE  Goal
  <2>1. PICK y : y = [refresh[r] EXCEPT !.pc = place]
    OBVIOUS
  <2>2. RefreshStep(r, y) /\ place \in Places /\ refresh[r].pc \in PastList
    BY <2>1, <1>g DEF Goto, Places, PastList
  <2>3. /\ y \in RefreshRecord /\ RestHolds(refresh[r], y)
        /\ y.pc = place /\ y.commit = refresh[r].commit /\ y.built = refresh[r].built
        /\ y.failed = refresh[r].failed
    BY <2>1, <2>2, <1>r, Going
  <2>4. BuiltOnly(r[1], refresh[r], marker')
    BY <1>g, <1>v, MoreInstalled
  <2>5. place = "import" => <<r[1], Order[refresh[r].at], refresh[r].commit>> \in marker'
    BY <1>g DEF Copy, Source
  <2>6. InOrder(y) /\ BuiltOnly(r[1], y, marker') /\ Right(y, table, branch)
    BY <1>g, <2>3, <2>4, <2>5, <1>r, <1>v, Proceeds
  <2>7. ~trouble' => y.fresh /\ y.failed = {}
    BY <1>g, <2>2, <2>3, <1>u DEF RestHolds
  <2> QED
    BY <1>g, <1>0, <2>2, <2>3, <2>6, <2>7
<1>e. ASSUME Edited PROVE Goal
  <2>1. \A q \in Refreshes :
          /\ refresh'[q].pc = refresh[q].pc /\ refresh'[q].at = refresh[q].at
          /\ refresh'[q].commit = refresh[q].commit /\ refresh'[q].rows = refresh[q].rows
          /\ refresh'[q].built = refresh[q].built /\ refresh'[q].fresh = FALSE
    BY <1>e, <1>i, EditedRefreshes
  <2>f. \A q \in Refreshes : refresh'[q].failed = refresh[q].failed
    <3>1. \A q \in Refreshes : refresh'[q] = [refresh[q] EXCEPT !.fresh = FALSE]
      BY <1>e DEF Edited
    <3> QED
      BY <3>1, <1>r DEF RefreshRecord
  <2>2. marker' = marker /\ trouble' = TRUE
    BY <1>e DEF Edited, cacheFiles
  <2>3. AtSource'
    BY <2>1, <2>f, <1>v DEF AtSource, InOrder
  <2>4. BuiltInstalled'
    BY <2>1, <2>2, <1>v DEF BuiltInstalled, BuiltOnly
  <2>5. FreshIsRight'
    BY <2>1 DEF FreshIsRight, Right
  <2>6. Untroubled'
    BY <2>2 DEF Untroubled
  <2> QED
    BY <2>3, <2>4, <2>5, <2>6
<1>1. ASSUME NEW s \in Sources, EditSource(s) \/ PushCommit(s) PROVE Goal
  BY <1>1, <1>e DEF EditSource, PushCommit
<1>2. ASSUME NEW r \in Refreshes, RequestRefresh(r) PROVE Goal
  <2>1. PICK y : y = [Idle EXCEPT !.pc = "list", !.asked = TRUE]
    OBVIOUS
  <2> QED
    BY <2>1, <1>2, <1>d DEF RequestRefresh, catalogue, cacheFiles
<1>3. ASSUME NEW r \in Refreshes, ReceiveRefresh(r) PROVE Goal
  <2>1. PICK y : y = [Idle EXCEPT !.pc = "list"]
    OBVIOUS
  <2> QED
    BY <2>1, <1>3, <1>d DEF ReceiveRefresh, catalogue, cacheFiles
<1>a. ASSUME NEW r \in Refreshes, RefreshAborts(r), marker' = marker, table' = table, branch' = branch
      PROVE  Goal
  BY <1>a, <1>d DEF RefreshAborts
<1>4. ASSUME NEW r \in Refreshes, List(r) PROVE Goal
  <2>0. PICK rows : rows = {s \in Sources : table[s] = "enabled"}
    OBVIOUS
  <2>1. PICK y : y = ListedBy(refresh[r], rows)
    OBVIOUS
  <2>u. marker' = marker /\ table' = table /\ branch' = branch /\ refresh[r].pc = "list"
    BY <1>4 DEF List, catalogue, cacheFiles
  <2>2. (RefreshStep(r, y) /\ trouble' = trouble) \/ RefreshAborts(r)
    BY <1>4, <2>0, <2>1 DEF List, ListedBy
  <2>3. /\ y \in RefreshRecord
        /\ y.pc = "load" /\ y.at = 1 /\ y.fresh = TRUE /\ y.rows = rows
        /\ y.built = refresh[r].built /\ y.failed = refresh[r].failed
    <3>1. refresh[r] \in RefreshRecord /\ rows \in SUBSET Sources
      BY <2>0, <1>r
    <3> QED
      BY <2>1, <3>1, ListedFields
  <2>4. InOrder(y) /\ BuiltOnly(r[1], y, marker) /\ Right(y, table, branch)
    BY <2>0, <2>3, <2>u, <1>r, <1>v, Lists
  <2>5. y.failed = {}
    BY <2>3, <2>u, <1>v DEF InOrder, PastList, Loading
  <2> QED
    BY <2>u, <2>2, <2>3, <2>4, <2>5, <1>0, <1>a
<1>5. ASSUME NEW r \in Refreshes, Resolve(r) PROVE Goal
  <2>0. /\ marker' = marker /\ table' = table /\ branch' = branch
        /\ refresh[r].pc = "load" /\ refresh[r].pc \in PastList
    BY <1>5 DEF Resolve, catalogue, cacheFiles, PastList
  <2>1. CASE Source(r) \notin refresh[r].rows /\ Goto(r, "mark") /\ UNCHANGED trouble
    <3>1. PICK y : y = [refresh[r] EXCEPT !.pc = "mark"]
      OBVIOUS
    <3>2. RefreshStep(r, y) /\ "mark" \in Places
      BY <2>1, <3>1 DEF Goto, Places
    <3>3. /\ y \in RefreshRecord /\ RestHolds(refresh[r], y)
          /\ y.pc = "mark" /\ y.commit = refresh[r].commit /\ y.built = refresh[r].built
          /\ y.failed = refresh[r].failed
      BY <3>1, <3>2, <1>r, Going
    <3>4. Order[refresh[r].at] \notin refresh[r].rows
      BY <2>1 DEF Source
    <3>5. InOrder(y) /\ BuiltOnly(r[1], y, marker) /\ Right(y, table, branch)
      BY <3>3, <3>4, <2>0, <1>r, <1>v, Skips
    <3>6. ~trouble' => y.fresh /\ y.failed = {}
      BY <2>0, <2>1, <3>3, <1>u DEF RestHolds
    <3> QED
      BY <1>0, <2>0, <2>1, <3>2, <3>3, <3>5, <3>6
  <2>2. CASE /\ Source(r) \in refresh[r].rows
             /\ RefreshStep(r, [refresh[r] EXCEPT !.pc = "fetch", !.commit = RefToSha(Source(r))])
             /\ UNCHANGED trouble
    <3>0. PICK c : c = RefToSha(Source(r))
      OBVIOUS
    <3>c. c \in Commits /\ c \in 0 .. MaxCommit /\ c = branch[Order[refresh[r].at]]
      BY <3>0, <2>0, <1>c, <1>i, Constants DEF RefToSha, Source, RegistryTypeOK, Commits
    <3>1. PICK y : y = ResolvedTo(refresh[r], c)
      OBVIOUS
    <3>2. RefreshStep(r, y)
      BY <2>2, <3>0, <3>1 DEF ResolvedTo
    <3>3. /\ y \in RefreshRecord /\ RestHolds(refresh[r], y)
          /\ y.pc = "fetch" /\ y.commit = c /\ y.built = refresh[r].built
          /\ y.failed = refresh[r].failed
      BY <3>1, <3>c, <1>r, RefreshResolving
    <3>4. Order[refresh[r].at] \in refresh[r].rows /\ branch[Order[refresh[r].at]] \in Commits
      BY <2>2, <3>c DEF Source
    <3>5. InOrder(y) /\ BuiltOnly(r[1], y, marker) /\ Right(y, table, branch)
      BY <3>c, <3>3, <3>4, <2>0, <1>r, <1>v, Resolves
    <3>6. ~trouble' => y.fresh /\ y.failed = {}
      BY <2>0, <2>2, <3>3, <1>u DEF RestHolds
    <3> QED
      BY <1>0, <2>0, <2>2, <3>2, <3>3, <3>5, <3>6
  <2>3. CASE Failed(r)
    BY <2>0, <2>3, <1>f
  <2> QED
    BY <1>5, <2>1, <2>2, <2>3 DEF Resolve
<1>6. ASSUME NEW r \in Refreshes, Fetch(r) PROVE Goal
  <2>1. /\ marker' = marker /\ table' = table /\ branch' = branch
        /\ refresh[r].pc \in Loading
    BY <1>6 DEF Fetch, catalogue, Loading
  <2>2. \/ Copy(r) \in modules /\ Loaded(r)
        \/ Goto(r, "install") /\ trouble' = trouble
        \/ Failed(r)
    BY <1>6 DEF Fetch, Fetched
  <2> QED
    BY <2>1, <2>2, <1>m, <1>l, <1>g, <1>f
<1>7. ASSUME NEW r \in Refreshes, Install(r) PROVE Goal
  <2>1. /\ marker' = marker /\ table' = table /\ branch' = branch /\ trouble' = trouble
        /\ refresh[r].pc \in Loading
    BY <1>7 DEF Install, catalogue, Loading
  <2>2. (Copy(r) \in marker /\ Goto(r, "import")) \/ Goto(r, "npm")
    BY <1>7 DEF Install
  <2> QED
    BY <2>1, <2>2, <1>g
<1>8. ASSUME NEW r \in Refreshes, Npm(r) PROVE Goal
  <2>1. table' = table /\ branch' = branch /\ refresh[r].pc \in Loading
    BY <1>8 DEF Npm, catalogue, Loading
  <2>2. \/ marker' = marker \cup {Copy(r)} /\ Goto(r, "import") /\ trouble' = trouble
        \/ marker' = marker /\ Failed(r)
    BY <1>8 DEF Npm
  <2> QED
    BY <2>1, <2>2, <1>g, <1>f
<1>9. ASSUME NEW r \in Refreshes, Import(r) PROVE Goal
  <2>1. /\ marker' = marker /\ table' = table /\ branch' = branch
        /\ refresh[r].pc \in Loading /\ refresh[r].pc = "import"
    BY <1>9 DEF Import, catalogue, cacheFiles, Loading
  <2>2. Copy(r) \in marker
    BY <2>1, <1>v DEF BuiltOnly, Copy, Source
  <2>3. Loaded(r) \/ Failed(r)
    BY <1>9 DEF Import
  <2> QED
    BY <2>1, <2>2, <2>3, <1>l, <1>f
<1>10. ASSUME NEW r \in Refreshes, Mark(r) PROVE Goal
  <2>0. /\ marker' = marker /\ table' = table /\ branch' = branch /\ trouble' = trouble
        /\ refresh[r].pc = "mark" /\ refresh[r].pc \in PastList
    BY <1>10 DEF Mark, cacheFiles, PastList
  <2>1. PICK y : y = OnwardFrom(refresh[r])
    OBVIOUS
  <2>2. refresh[r] \in RefreshRecord /\ refresh[r].at # 0
    BY <2>0, <1>v, <1>r DEF InOrder
  <2>3. /\ y \in RefreshRecord
        /\ y.built = refresh[r].built /\ y.failed = refresh[r].failed
        /\ y.fresh = refresh[r].fresh /\ y.rows = refresh[r].rows
        /\ refresh[r].at = Len(Order) => y.pc = "extend" /\ y.at = refresh[r].at
        /\ refresh[r].at # Len(Order) => y.pc = "load" /\ y.at = refresh[r].at + 1
    BY <2>1, <2>2, OnwardFields
  <2>4. RefreshStep(r, y)
    BY <2>1, <1>10 DEF Mark, Onward, OnwardFrom
  <2>5. InOrder(y) /\ BuiltOnly(r[1], y, marker) /\ Right(y, table, branch)
    BY <2>0, <2>3, <1>r, <1>v, GoesOn
  <2>6. ~trouble' => y.fresh /\ y.failed = {}
    BY <2>0, <2>3, <1>u
  <2> QED
    BY <1>0, <2>0, <2>3, <2>4, <2>5, <2>6
<1>11. ASSUME NEW r \in Refreshes, Swap(r) PROVE Goal
  <2>1. marker' = marker /\ table' = table /\ branch' = branch
    BY <1>11 DEF Swap, catalogue, cacheFiles
  <2>2. (RefreshStep(r, Idle) /\ trouble' = trouble) \/ RefreshAborts(r)
    BY <1>11 DEF Swap
  <2> QED
    BY <2>1, <2>2, <1>a, <1>d
<1>12. ASSUME NEW h \in Hosts, Exit(h) PROVE Goal
  <2>1. \A q \in Refreshes :
          \/ refresh'[q] = refresh[q] \/ refresh'[q] = Idle
          \/ refresh'[q] = [Idle EXCEPT !.pc = "list"]
    BY <1>12, <1>i, ExitedRefreshes
  <2>2. marker' = marker /\ table' = table /\ branch' = branch /\ trouble' = TRUE
    BY <1>12 DEF Exit, catalogue, cacheFiles
  <2>3. \A q \in Refreshes : /\ InOrder(refresh'[q]) /\ BuiltOnly(q[1], refresh'[q], marker)
                             /\ Right(refresh'[q], table, branch)
    <3> SUFFICES ASSUME NEW q \in Refreshes
                 PROVE  /\ InOrder(refresh'[q]) /\ BuiltOnly(q[1], refresh'[q], marker)
                        /\ Right(refresh'[q], table, branch)
      OBVIOUS
    <3>1. CASE refresh'[q] = refresh[q]
      BY <3>1, <1>v
    <3>2. CASE refresh'[q] # refresh[q]
      <4>1. PICK y : y = refresh'[q]
        OBVIOUS
      <4>2. y = Idle \/ y = [Idle EXCEPT !.pc = "list"]
        BY <4>1, <3>2, <2>1
      <4> QED
        BY <4>1, <4>2, Begins
    <3> QED
      BY <3>1, <3>2
  <2>4. AtSource'
    BY <2>3 DEF AtSource
  <2>5. BuiltInstalled'
    BY <2>2, <2>3 DEF BuiltInstalled, BuiltOnly
  <2>6. FreshIsRight'
    BY <2>2, <2>3 DEF FreshIsRight, Right
  <2>7. Untroubled'
    BY <2>2 DEF Untroubled
  <2> QED
    BY <2>4, <2>5, <2>6, <2>7
<1>13. CASE UNCHANGED registryVars
  BY <1>13, <1>i
     DEF registryVars, AtSource, BuiltInstalled, BuiltOnly, FreshIsRight, Right, Untroubled
<1> QED
  BY <1>1, <1>2, <1>3, <1>4, <1>5, <1>6, <1>7, <1>8, <1>9, <1>10, <1>11, <1>12, <1>13
     DEF RegistryNext

-----------------------------------------------------------------------------
(* Installs and their markers.                                             *)

LEMMA InstallsStep == RegistryInv /\ [RegistryNext]_registryVars => Installs' /\ MarkerHonest'
<1> DEFINE Goal == Installs' /\ MarkerHonest'
<1> SUFFICES ASSUME RegistryInv, [RegistryNext]_registryVars PROVE Goal
  OBVIOUS
<1>i. RegistryTypeOK /\ AtSource /\ BuiltInstalled
  BY DEF RegistryInv
<1>n. Installs
  BY DEF RegistryInv
<1>h. MarkerHonest
  BY DEF RegistryInv
<1>r. refresh \in [Refreshes -> RefreshRecord]
  BY <1>i, RefreshTypes
<1>t. deps \in [Copies -> {"none", "partial", "full"}] /\ marker \subseteq Copies
  BY <1>i DEF RegistryTypeOK
<1>c. \A r \in Refreshes : refresh[r].pc \in Loading => Copy(r) \in Copies
  BY <1>i, CopyTypes DEF PastList
\* Installs that were at work, on the copies they were at work on.
<1>0. ASSUME marker' = marker, collided' = collided, modules' \subseteq marker,
             \A q \in Refreshes : refresh'[q].pc = "npm" =>
               /\ refresh[q].pc = "npm" /\ refresh'[q].at = refresh[q].at
               /\ refresh'[q].commit = refresh[q].commit
      PROVE  Installs'
  <2>1. \A q \in Refreshes : refresh'[q].pc = "npm" => refresh[q].pc = "npm" /\ Copy(q)' = Copy(q)
    BY <1>0 DEF Copy, Source
  <2>2. \A q \in Refreshes : refresh'[q].pc = "npm" /\ Contended(q)' => Contended(q)
    BY <2>1 DEF Contended
  <2> QED
    BY <1>0, <1>n, <2>1, <2>2 DEF Installs
\* A refresh goes to a place other than npm.
<1>s. ASSUME NEW r \in Refreshes, NEW y, RefreshStep(r, y), y.pc # "npm"
      PROVE  \A q \in Refreshes : refresh'[q].pc = "npm" => q # r /\ refresh'[q] = refresh[q]
  BY <1>s, <1>r DEF RefreshStep
<1>p. ASSUME NEW r \in Refreshes, NEW y, RefreshStep(r, y), y.pc # "npm",
             marker' = marker, collided' = collided, modules' = modules, deps' = deps
      PROVE  Goal
  <2>1. Installs'
    BY <1>p, <1>s, <1>0, <1>n DEF Installs
  <2>2. MarkerHonest'
    BY <1>p, <1>h DEF MarkerHonest
  <2> QED
    BY <2>1, <2>2
<1>f. ASSUME NEW r \in Refreshes, Failed(r), refresh[r].pc \in PastList
      PROVE  \E y : RefreshStep(r, y) /\ y.pc # "npm"
  <2>1. PICK y : y = FailedFrom(refresh[r], Source(r))
    OBVIOUS
  <2>2. RefreshStep(r, y)
    BY <2>1, <1>f DEF Failed, FailedFrom
  <2>3. y.pc = "mark"
    BY <2>1, <1>f, <1>r, <1>i, CopyTypes, FailedFields
  <2> QED
    BY <2>2, <2>3
<1>l. ASSUME NEW r \in Refreshes, Loaded(r), refresh[r].pc \in PastList
      PROVE  \E y : RefreshStep(r, y) /\ y.pc # "npm"
  <2>1. PICK y : y = LoadedFrom(refresh[r], Source(r))
    OBVIOUS
  <2>2. RefreshStep(r, y)
    BY <2>1, <1>l DEF Loaded, LoadedFrom
  <2>3. y.pc = "mark"
    BY <2>1, <1>l, <1>r, <1>i, CopyTypes, LoadedFields
  <2> QED
    BY <2>2, <2>3
<1>g. ASSUME NEW r \in Refreshes, NEW place \in Places, place # "npm", Goto(r, place)
      PROVE  \E y : RefreshStep(r, y) /\ y.pc # "npm"
  <2>1. PICK y : y = [refresh[r] EXCEPT !.pc = place]
    OBVIOUS
  <2>2. RefreshStep(r, y) /\ y.pc = place
    BY <2>1, <1>g, <1>r, Going DEF Goto
  <2> QED
    BY <2>2, <1>g
<1>b. ASSUME NEW r \in Refreshes, NEW y, RefreshStep(r, y),
             \/ y = [Idle EXCEPT !.pc = "list", !.asked = TRUE]
             \/ y = [Idle EXCEPT !.pc = "list"] \/ y = Idle
      PROVE  \E x : RefreshStep(r, x) /\ x.pc # "npm"
  <2>1. y.pc # "npm"
    BY <1>b, BeginFields, IdleFields
  <2> QED
    BY <1>b, <2>1
<1>e. ASSUME Edited PROVE Goal
  <2>1. /\ marker' = marker /\ collided' = collided /\ modules' = modules /\ deps' = deps
    BY <1>e DEF Edited, cacheFiles
  <2>2. \A q \in Refreshes :
          /\ refresh'[q].pc = refresh[q].pc /\ refresh'[q].at = refresh[q].at
          /\ refresh'[q].commit = refresh[q].commit
    BY <1>e, <1>i, EditedRefreshes
  <2>3. Installs'
    BY <2>1, <2>2, <1>0, <1>n DEF Installs
  <2> QED
    BY <2>1, <2>3, <1>h DEF MarkerHonest
<1>1. ASSUME NEW s \in Sources, EditSource(s) \/ PushCommit(s) PROVE Goal
  BY <1>1, <1>e DEF EditSource, PushCommit
<1>2. ASSUME NEW r \in Refreshes, RequestRefresh(r) \/ ReceiveRefresh(r) PROVE Goal
  <2>1. \E y : RefreshStep(r, y) /\ y.pc # "npm"
    <3>1. PICK y : /\ RefreshStep(r, y)
                   /\ \/ y = [Idle EXCEPT !.pc = "list", !.asked = TRUE]
                      \/ y = [Idle EXCEPT !.pc = "list"]
      BY <1>2, Zenon DEF RequestRefresh, ReceiveRefresh
    <3> QED
      BY <3>1, <1>b
  <2> QED
    BY <1>2, <2>1, <1>p DEF RequestRefresh, ReceiveRefresh, cacheFiles
<1>a. ASSUME NEW r \in Refreshes, RefreshAborts(r) \/ RefreshStep(r, Idle)
      PROVE  \E y : RefreshStep(r, y) /\ y.pc # "npm"
  BY <1>a, IdleFields DEF RefreshAborts
<1>3. ASSUME NEW r \in Refreshes, List(r) PROVE Goal
  <2>0. PICK rows : rows = {s \in Sources : table[s] = "enabled"}
    OBVIOUS
  <2>1. PICK y : y = ListedBy(refresh[r], rows)
    OBVIOUS
  <2>2. RefreshStep(r, y) \/ RefreshAborts(r)
    BY <1>3, <2>0, <2>1 DEF List, ListedBy
  <2>3. y.pc = "load"
    <3>1. refresh[r] \in RefreshRecord /\ rows \in SUBSET Sources
      BY <2>0, <1>r
    <3> QED
      BY <2>1, <3>1, ListedFields
  <2>4. \E x : RefreshStep(r, x) /\ x.pc # "npm"
    BY <2>2, <2>3, <1>a
  <2> QED
    BY <1>3, <2>4, <1>p DEF List, cacheFiles
<1>4. ASSUME NEW r \in Refreshes, Resolve(r) PROVE Goal
  <2>0. refresh[r].pc \in PastList /\ "mark" \in Places
    BY <1>4 DEF Resolve, PastList, Places
  <2>1. \E x : RefreshStep(r, x) /\ x.pc # "npm"
    <3>1. PICK c : c = RefToSha(Source(r))
      OBVIOUS
    <3>2. c \in 0 .. MaxCommit
      BY <3>1, <2>0, <1>i, CopyTypes, Constants DEF RefToSha, RegistryTypeOK, Commits
    <3>3. PICK y : y = ResolvedTo(refresh[r], c)
      OBVIOUS
    <3>4. y.pc = "fetch"
      BY <3>2, <3>3, <1>r, RefreshResolving
    <3>5. Goto(r, "mark") \/ RefreshStep(r, y) \/ Failed(r)
      BY <1>4, <3>1, <3>3 DEF Resolve, ResolvedTo
    <3> QED
      BY <2>0, <3>4, <3>5, <1>f, <1>g
  <2> QED
    BY <1>4, <2>1, <1>p DEF Resolve, cacheFiles
<1>5. ASSUME NEW r \in Refreshes, Fetch(r) PROVE Goal
  <2>0. refresh[r].pc \in PastList /\ "install" \in Places
    BY <1>5 DEF Fetch, PastList, Loading, Places
  <2>1. Loaded(r) \/ Goto(r, "install") \/ Failed(r)
    BY <1>5 DEF Fetch, Fetched
  <2>2. \E x : RefreshStep(r, x) /\ x.pc # "npm"
    BY <2>0, <2>1, <1>f, <1>g, <1>l
  <2> QED
    BY <1>5, <2>2, <1>p DEF Fetch
<1>6. ASSUME NEW r \in Refreshes, Install(r) PROVE Goal
  <2>0. /\ refresh[r].pc \in Loading /\ "import" \in Places /\ "npm" \in Places
        /\ marker' = marker /\ modules' = modules
    BY <1>6 DEF Install, Loading, Places
  <2>1. CASE Copy(r) \in marker
    <3>1. Goto(r, "import") /\ deps' = deps /\ collided' = collided
      BY <1>6, <2>1 DEF Install
    <3>2. \E x : RefreshStep(r, x) /\ x.pc # "npm"
      BY <2>0, <3>1, <1>g
    <3> QED
      BY <2>0, <3>1, <3>2, <1>p
  <2>2. CASE Copy(r) \notin marker
    <3>1. /\ deps' = [deps EXCEPT ![Copy(r)] = "partial"] /\ Goto(r, "npm")
          /\ collided' = IF Contended(r) THEN collided \cup {Copy(r)} ELSE collided
      BY <1>6, <2>2 DEF Install
    <3>2. PICK y : y = [refresh[r] EXCEPT !.pc = "npm"]
      OBVIOUS
    <3>3. RefreshStep(r, y) /\ y \in RefreshRecord
      BY <3>1, <3>2, <2>0, <1>r, Going DEF Goto
    <3>4. y.at = refresh[r].at /\ y.commit = refresh[r].commit
      BY <3>2, <2>0, <1>r, Going DEF RestHolds
    <3>5. refresh'[r] = y /\ \A q \in Refreshes : q # r => refresh'[q] = refresh[q]
      BY <3>3, <1>r, Stepped
    <3>6. \A q \in Refreshes : Copy(q)' = Copy(q)
      BY <3>4, <3>5 DEF Copy, Source
    <3>7. Contended(r)' => Contended(r)
      BY <3>5, <3>6 DEF Contended
    <3>8. ASSUME NEW q \in Refreshes, q # r, refresh'[q].pc = "npm", Contended(q)'
          PROVE  Contended(q) \/ (Copy(q) = Copy(r) /\ Contended(r))
      <4>1. refresh[q].pc = "npm"
        BY <3>8, <3>5
      <4>2. PICK p \in Refreshes \ {q} : refresh'[p].pc = "npm" /\ Copy(p)' = Copy(q)'
        BY <3>8 DEF Contended
      <4>3. Copy(p) = Copy(q)
        BY <4>2, <3>6
      <4>4. CASE p = r
        BY <4>1, <4>3, <4>4, <3>8 DEF Contended
      <4>5. CASE p # r
        BY <4>2, <4>3, <4>5, <3>5 DEF Contended
      <4> QED
        BY <4>4, <4>5
    <3>9. Installs'
      <4>1. modules' \subseteq marker'
        BY <2>0, <1>n DEF Installs
      <4>2. ASSUME NEW q \in Refreshes, refresh'[q].pc = "npm"
            PROVE  /\ Copy(q) \in marker => Copy(q) \in collided'
                   /\ Contended(q)' => Copy(q) \in collided'
        <5>1. CASE q = r
          BY <5>1, <2>2, <3>1, <3>7
        <5>2. CASE q # r
          <6>1. refresh[q].pc = "npm" /\ collided \subseteq collided'
            BY <4>2, <5>2, <3>5, <3>1
          <6>2. /\ Copy(q) \in marker => Copy(q) \in collided
                /\ Contended(q) => Copy(q) \in collided
            BY <6>1, <1>n DEF Installs
          <6> QED
            BY <4>2, <5>2, <6>1, <6>2, <3>8, <3>1
        <5> QED
          BY <5>1, <5>2
      <4> QED
        BY <4>1, <4>2, <3>6, <2>0 DEF Installs
    <3>10. MarkerHonest'
      <4>1. ASSUME NEW x \in marker PROVE deps'[x] = "full" \/ x \in collided'
        <5>1. x # Copy(r) /\ x \in Copies
          BY <2>2, <4>1, <1>t
        <5>2. deps'[x] = deps[x]
          BY <5>1, <3>1, <1>t
        <5> QED
          BY <5>2, <3>1, <1>h DEF MarkerHonest
      <4> QED
        BY <4>1, <2>0 DEF MarkerHonest
    <3> QED
      BY <3>9, <3>10
  <2> QED
    BY <2>1, <2>2
<1>7. ASSUME NEW r \in Refreshes, Npm(r) PROVE Goal
  <2>0. /\ refresh[r].pc = "npm" /\ refresh[r].pc \in Loading /\ refresh[r].pc \in PastList
        /\ "import" \in Places /\ collided' = collided /\ modules' = modules
    BY <1>7 DEF Npm, Loading, PastList, Places
  <2>1. CASE Failed(r) /\ deps' = deps /\ marker' = marker
    BY <2>0, <2>1, <1>f, <1>p
  <2>2. CASE /\ deps' = [deps EXCEPT ![Copy(r)] = IF Contended(r) THEN "partial" ELSE "full"]
             /\ marker' = marker \cup {Copy(r)} /\ Goto(r, "import")
    <3>1. \A q \in Refreshes : refresh'[q].pc = "npm" => q # r /\ refresh'[q] = refresh[q]
      <4>1. \E y : RefreshStep(r, y) /\ y.pc # "npm"
        BY <2>0, <2>2, <1>g
      <4> QED
        BY <4>1, <1>s
    <3>2. \A q \in Refreshes : refresh'[q].pc = "npm" => refresh[q].pc = "npm" /\ Copy(q)' = Copy(q)
      BY <3>1 DEF Copy, Source
    <3>3. \A q \in Refreshes : refresh'[q].pc = "npm" /\ Contended(q)' => Contended(q)
      BY <3>2 DEF Contended
    <3>4. \A q \in Refreshes : refresh'[q].pc = "npm" /\ Copy(q) = Copy(r) => Contended(q)
      BY <3>1, <2>0 DEF Contended
    <3>5. Installs'
      BY <2>0, <2>2, <3>2, <3>3, <3>4, <1>n DEF Installs
    <3>6. MarkerHonest'
      <4>1. Copy(r) \in Copies
        BY <2>0, <1>c
      <4>2. ASSUME NEW x \in marker' PROVE deps'[x] = "full" \/ x \in collided
        <5>1. CASE x = Copy(r)
          BY <5>1, <4>1, <2>0, <2>2, <1>t, <1>n DEF Installs
        <5>2. CASE x # Copy(r)
          <6>1. x \in marker /\ deps'[x] = deps[x]
            BY <5>2, <4>2, <2>2, <1>t
          <6> QED
            BY <6>1, <1>h DEF MarkerHonest
        <5> QED
          BY <5>1, <5>2
      <4> QED
        BY <4>2, <2>0 DEF MarkerHonest
    <3> QED
      BY <3>5, <3>6
  <2> QED
    BY <1>7, <2>1, <2>2 DEF Npm
<1>8. ASSUME NEW r \in Refreshes, Import(r) PROVE Goal
  <2>0. /\ refresh[r].pc \in PastList /\ refresh[r].pc = "import"
        /\ marker' = marker /\ collided' = collided /\ deps' = deps
    BY <1>8 DEF Import, PastList, Loading, cacheFiles
  <2>1. Copy(r) \in marker
    BY <2>0, <1>i DEF BuiltInstalled, BuiltOnly, Copy, Source
  <2>2. modules' \subseteq marker
    BY <1>8, <2>1, <1>n DEF Import, Installs
  <2>3. \E y : RefreshStep(r, y) /\ y.pc # "npm"
    BY <1>8, <2>0, <1>f, <1>l DEF Import
  <2>4. Installs'
    BY <2>0, <2>2, <2>3, <1>0, <1>s
  <2> QED
    BY <2>0, <2>4, <1>h DEF MarkerHonest
<1>9. ASSUME NEW r \in Refreshes, Mark(r) PROVE Goal
  <2>0. refresh[r].pc \in PastList
    BY <1>9 DEF Mark, PastList
  <2>1. PICK y : y = OnwardFrom(refresh[r])
    OBVIOUS
  <2>2. refresh[r] \in RefreshRecord /\ refresh[r].at # 0
    BY <2>0, <1>i, <1>r DEF AtSource, InOrder
  <2>3. y.pc # "npm"
    BY <2>1, <2>2, OnwardFields
  <2>4. RefreshStep(r, y)
    BY <2>1, <1>9 DEF Mark, Onward, OnwardFrom
  <2> QED
    BY <1>9, <2>3, <2>4, <1>p DEF Mark, cacheFiles
<1>10. ASSUME NEW r \in Refreshes, Swap(r) PROVE Goal
  <2>1. \E y : RefreshStep(r, y) /\ y.pc # "npm"
    BY <1>10, <1>a DEF Swap
  <2> QED
    BY <1>10, <2>1, <1>p DEF Swap, cacheFiles
<1>11. ASSUME NEW h \in Hosts, Exit(h) PROVE Goal
  <2>1. /\ marker' = marker /\ collided' = collided /\ modules' \subseteq modules /\ deps' = deps
    BY <1>11 DEF Exit, cacheFiles
  <2>2. \A q \in Refreshes : refresh'[q].pc = "npm" => refresh'[q] = refresh[q]
    BY <1>11, <1>i, ExitedRefreshes, BeginFields, IdleFields
  <2>3. Installs'
    BY <2>1, <2>2, <1>0, <1>n DEF Installs
  <2> QED
    BY <2>1, <2>3, <1>h DEF MarkerHonest
<1>12. CASE UNCHANGED registryVars
  BY <1>12, <1>n, <1>h DEF registryVars, Installs, Contended, Copy, Source, MarkerHonest
<1> QED
  BY <1>1, <1>2, <1>3, <1>4, <1>5, <1>6, <1>7, <1>8, <1>9, <1>10, <1>11, <1>12
     DEF RegistryNext

-----------------------------------------------------------------------------
(* What the processes serve, and what the rows report.                     *)

\* A refresh that has passed every source without a failure, and no edit came
\* after its listing, has built the registry that is expected.
LEMMA FreshBuild ==
    ASSUME RegistryTypeOK, AtSource, BuiltInstalled, FreshIsRight, NEW r \in Refreshes,
           refresh[r].pc = "extend", refresh[r].fresh, refresh[r].failed = {}
    PROVE  refresh[r].built = Expected
<1>1. refresh[r] \in RefreshRecord
  BY RefreshTypes
<1>2. refresh[r].built \in [Sources -> 0 .. MaxCommit]
  BY <1>1, Fields DEF Registries
<1>3. refresh[r].at = Len(Order)
  BY DEF AtSource, InOrder
<1>4. ASSUME NEW s \in Sources
      PROVE  refresh[r].built[s] = IF table[s] = "enabled" THEN branch[s] ELSE 0
  <2>1. PICK i \in 1 .. Len(Order) : s = Order[i]
    BY Constants
  <2>2. i < refresh[r].at \/ i = refresh[r].at
    BY <1>3, <2>1, Constants
  <2>3. refresh[r].rows = {t \in Sources : table[t] = "enabled"}
    BY DEF FreshIsRight, Right
  <2>4. CASE table[s] = "enabled"
    <3>1. s \in refresh[r].rows
      BY <2>3, <2>4
    <3> QED
      BY <2>1, <2>2, <2>4, <3>1 DEF FreshIsRight, Right
  <2>5. CASE table[s] # "enabled"
    <3>1. s \notin refresh[r].rows
      BY <2>3, <2>5
    <3> QED
      BY <2>5, <3>1 DEF BuiltInstalled, BuiltOnly
  <2> QED
    BY <2>4, <2>5
<1> QED
  BY <1>2, <1>4 DEF Expected

LEMMA ServedStep ==
    RegistryInv /\ [RegistryNext]_registryVars => QuietRefreshInvisible' /\ CurrentIsExpected'
<1> DEFINE Goal == QuietRefreshInvisible' /\ CurrentIsExpected'
<1> SUFFICES ASSUME RegistryInv, [RegistryNext]_registryVars PROVE Goal
  OBVIOUS
<1>i. RegistryTypeOK /\ AtSource /\ BuiltInstalled /\ FreshIsRight /\ Untroubled
  BY DEF RegistryInv
<1>q. QuietRefreshInvisible /\ CurrentIsExpected
  BY DEF RegistryInv
<1>t. holder \in [Hosts -> Registries] /\ current \in [Hosts -> BOOLEAN]
  BY <1>i DEF RegistryTypeOK
<1>b. trouble \in BOOLEAN
  BY <1>i DEF RegistryTypeOK
<1>0. ASSUME table' = table, branch' = branch, holder' = holder, current' = current,
             trouble' = trouble \/ trouble' = TRUE
      PROVE  Goal
  BY <1>0, <1>q, <1>b DEF QuietRefreshInvisible, CurrentIsExpected, Expected
<1>1. ASSUME NEW s \in Sources, EditSource(s) \/ PushCommit(s) PROVE Goal
  <2>1. trouble' = TRUE /\ \A h \in Hosts : current'[h] = FALSE
    BY <1>1 DEF EditSource, PushCommit, Edited
  <2> QED
    BY <2>1 DEF QuietRefreshInvisible, CurrentIsExpected
<1>2. ASSUME NEW r \in Refreshes,
             \/ RequestRefresh(r) \/ ReceiveRefresh(r) \/ List(r) \/ Resolve(r)
             \/ Fetch(r) \/ Install(r) \/ Npm(r) \/ Import(r) \/ Mark(r)
      PROVE  Goal
  <2>1. table' = table /\ branch' = branch /\ holder' = holder /\ current' = current
    BY <1>2 DEF RequestRefresh, ReceiveRefresh, List, Resolve, Fetch, Install, Npm, Import,
                Mark, catalogue
  <2>2. trouble' = trouble \/ trouble' = TRUE
    BY <1>2 DEF RequestRefresh, ReceiveRefresh, List, RefreshAborts, Resolve, Fetch, Fetched,
                Install, Npm, Import, Mark, Loaded, Failed
  <2> QED
    BY <2>1, <2>2, <1>0
<1>3. ASSUME NEW r \in Refreshes, Swap(r) PROVE Goal
  <2>1. table' = table /\ branch' = branch /\ refresh[r].pc = "extend" /\ r[1] \in Hosts
    BY <1>3, Constants DEF Swap, catalogue
  <2>2. CASE RefreshAborts(r) /\ holder' = holder /\ current' = current
    BY <2>1, <2>2, <1>0 DEF RefreshAborts
  <2>3. CASE /\ holder' = [holder EXCEPT ![r[1]] = refresh[r].built]
             /\ current' = [current EXCEPT ![r[1]] = refresh[r].fresh /\ refresh[r].failed = {}]
             /\ trouble' = trouble
    <3>e. Expected' = Expected
      BY <2>1 DEF Expected
    <3>1. /\ holder'[r[1]] = refresh[r].built
          /\ \A h \in Hosts : h # r[1] => holder'[h] = holder[h]
      BY <2>1, <2>3, <1>t
    <3>2. \A h \in Hosts : h # r[1] => current'[h] = current[h]
      BY <2>1, <2>3, <1>t
    <3>3. current'[r[1]] => refresh[r].fresh /\ refresh[r].failed = {}
      BY <2>1, <2>3, <1>t
    <3>4. (refresh[r].fresh /\ refresh[r].failed = {}) => holder'[r[1]] = Expected
      BY <2>1, <3>1, <1>i, FreshBuild
    <3>5. ~trouble' => refresh[r].fresh /\ refresh[r].failed = {}
      BY <2>1, <2>3, <1>i DEF Untroubled, PastList
    <3>6. QuietRefreshInvisible'
      BY <3>e, <3>1, <3>4, <3>5, <2>3, <1>q DEF QuietRefreshInvisible
    <3>7. CurrentIsExpected'
      BY <3>e, <3>1, <3>2, <3>3, <3>4, <1>q DEF CurrentIsExpected
    <3> QED
      BY <3>6, <3>7
  <2> QED
    BY <1>3, <2>2, <2>3 DEF Swap
<1>4. ASSUME NEW h \in Hosts, Exit(h) PROVE Goal
  <2>1. /\ trouble' = TRUE /\ table' = table /\ branch' = branch
        /\ holder' = [holder EXCEPT ![h] = Empty] /\ current' = [current EXCEPT ![h] = FALSE]
    BY <1>4 DEF Exit, catalogue
  <2>2. /\ current'[h] = FALSE
        /\ \A k \in Hosts : k # h => holder'[k] = holder[k] /\ current'[k] = current[k]
    BY <2>1, <1>t
  <2>3. Expected' = Expected
    BY <2>1 DEF Expected
  <2>4. CurrentIsExpected'
    BY <2>2, <2>3, <1>q DEF CurrentIsExpected
  <2> QED
    BY <2>1, <2>4 DEF QuietRefreshInvisible
<1>5. CASE UNCHANGED registryVars
  BY <1>5, <1>0 DEF registryVars
<1> QED
  BY <1>1, <1>2, <1>3, <1>4, <1>5 DEF RegistryNext

LEMMA ReportStep == RegistryInv /\ [RegistryNext]_registryVars => OkMeansInstalled'
<1> SUFFICES ASSUME RegistryInv, [RegistryNext]_registryVars PROVE OkMeansInstalled'
  OBVIOUS
<1>i. RegistryTypeOK /\ AtSource /\ BuiltInstalled
  BY DEF RegistryInv
<1>k. OkMeansInstalled
  BY DEF RegistryInv
<1>t. result \in [Sources -> [sha : 0 .. MaxCommit, ok : BOOLEAN]]
  BY <1>i DEF RegistryTypeOK
<1>m. marker \subseteq marker'
  BY DEF RegistryNext, EditSource, PushCommit, Edited, RequestRefresh, ReceiveRefresh, List,
         Resolve, Fetch, Install, Npm, Import, Mark, Swap, Exit, cacheFiles, registryVars
<1>0. ASSUME result' = result PROVE OkMeansInstalled'
  BY <1>0, <1>m, <1>k DEF OkMeansInstalled
<1>1. ASSUME NEW s \in Sources, EditSource(s) PROVE OkMeansInstalled'
  <2>1. \A t \in Sources : result'[t].ok => result'[t] = result[t]
    BY <1>1, <1>t DEF EditSource
  <2> QED
    BY <2>1, <1>m, <1>k DEF OkMeansInstalled
<1>2. ASSUME NEW r \in Refreshes, Mark(r) PROVE OkMeansInstalled'
  <2>0. refresh[r].pc = "mark" /\ refresh[r].pc \in PastList
    BY <1>2 DEF Mark, PastList
  <2>1. Source(r) \in Sources
    BY <2>0, <1>i, CopyTypes
  <2>2. PICK new : new = LoadResult(r, refresh[r].built[Source(r)] # 0)
    OBVIOUS
  <2>3. result' = result \/ result' = [result EXCEPT ![Source(r)] = new]
    BY <1>2, <2>2 DEF Mark
  <2>4. new.ok => new = result[Source(r)] \/ <<r[1], Source(r), new.sha>> \in marker
    <3>1. CASE table[Source(r)] = "absent"
      BY <2>2, <3>1 DEF LoadResult
    <3>2. CASE table[Source(r)] # "absent"
      <4>1. /\ new.ok = (refresh[r].built[Source(r)] # 0)
            /\ refresh[r].commit # 0 => new.sha = refresh[r].commit
        BY <2>2, <3>2 DEF LoadResult
      <4>2. refresh[r].built[Source(r)] # 0 =>
              /\ refresh[r].commit = refresh[r].built[Source(r)]
              /\ <<r[1], Source(r), refresh[r].built[Source(r)]>> \in marker
        BY <2>0, <2>1, <1>i DEF BuiltInstalled, BuiltOnly, Source
      <4> QED
        BY <4>1, <4>2
    <3> QED
      BY <3>1, <3>2
  <2>5. ASSUME NEW t \in Sources, result'[t].ok
        PROVE  \E h \in Hosts : <<h, t, result'[t].sha>> \in marker
    <3>1. CASE result'[t] = result[t]
      BY <2>5, <3>1, <1>k DEF OkMeansInstalled
    <3>2. CASE result'[t] # result[t]
      <4>1. t = Source(r) /\ result'[t] = new
        BY <3>2, <2>3, <1>t
      <4>2. <<r[1], t, new.sha>> \in marker
        BY <4>1, <3>2, <2>4, <2>5
      <4> QED
        BY <4>1, <4>2, Constants
    <3> QED
      BY <3>1, <3>2
  <2> QED
    BY <2>5, <1>m DEF OkMeansInstalled
<1> QED
  BY <1>0, <1>1, <1>2
     DEF RegistryNext, PushCommit, RequestRefresh, ReceiveRefresh, List, Resolve, Fetch, Install,
         Npm, Import, Swap, Exit, catalogue, registryVars

LEMMA RegistryStarts == RegistryInit => RegistryInv
<1> SUFFICES ASSUME RegistryInit PROVE RegistryInv
  OBVIOUS
<1>0. refresh = [r \in Refreshes |-> Idle]
  BY DEF RegistryInit
<1>1. RegistryTypeOK
  <2>1. refresh \in [Refreshes -> RefreshRecord]
    BY <1>0, Constants
  <2>2. 1 \in Commits /\ 1 \in 0 .. MaxCommit /\ [sha |-> 1, ok |-> TRUE] \in [sha : 0 .. MaxCommit, ok : BOOLEAN]
    BY Constants DEF Commits
  <2>3. [s \in Sources |-> 1] \in Registries
    BY <2>2 DEF Registries
  <2> QED
    BY <2>1, <2>2, <2>3 DEF RegistryInit, RegistryTypeOK, RefreshRecord, Places
<1>2. \A r \in Refreshes : refresh[r] = Idle /\ refresh[r].pc = "idle"
  BY <1>0, IdleFields
<1>3. AtSource /\ BuiltInstalled /\ FreshIsRight
  BY <1>2, Begins DEF AtSource, BuiltInstalled, FreshIsRight
<1>4. Untroubled
  BY <1>2 DEF Untroubled, PastList, Loading
<1>5. Installs
  BY <1>2 DEF Installs, RegistryInit
<1>6. \A s \in Sources : table[s] = "enabled" /\ branch[s] = 1
  BY DEF RegistryInit
<1>7. \A h \in Hosts : holder[h] = Expected
  BY <1>6 DEF RegistryInit, Expected
<1>8. OkMeansInstalled
  <2>2. \A s \in Sources : result[s].sha = 1
    BY DEF RegistryInit
  <2>3. ASSUME NEW s \in Sources, NEW h \in Hosts PROVE <<h, s, 1>> \in marker
    <3>1. <<h, s, 1>> \in Copies
      BY Constants DEF Copies, Commits
    <3> QED
      BY <3>1 DEF RegistryInit
  <2>4. ASSUME NEW s \in Sources PROVE Hosts # {}
    BY RegistryConstants
  <2> QED
    BY <2>2, <2>3, <2>4 DEF OkMeansInstalled
<1>9. MarkerHonest
  BY DEF RegistryInit, MarkerHonest
<1> QED
  BY <1>1, <1>3, <1>4, <1>5, <1>7, <1>8, <1>9
     DEF RegistryInv, QuietRefreshInvisible, CurrentIsExpected

LEMMA RegistryStep == RegistryInv /\ [RegistryNext]_registryVars => RegistryInv'
  BY TypesStep, RecordsStep, InstallsStep, ServedStep, ReportStep DEF RegistryInv

(* Overlapping refreshes, failing sources, edits, pushes and exits never leave
   a registry that no listing explains, a report that is not true, or a marker
   over a broken install, for any processes, refreshes and sources. *)
THEOREM RegistryIsSafe == RegistrySpec => []RegistrySafe
<1>1. RegistryInv => RegistrySafe
  BY DEF RegistryInv, RegistrySafe
<1>2. RegistryInv /\ [RegistryNext]_registryVars => RegistryInv'
  BY RegistryStep
<1> QED
  BY <1>1, <1>2, RegistryStarts, PTL DEF RegistrySpec

-----------------------------------------------------------------------------
(* A nonempty set of naturals has a least element: what stands in for      *)
(* induction, which is carried out by way of a least counterexample.       *)

LEMMA LeastNat == ASSUME NEW T, T \subseteq Nat, T # {} PROVE \E x \in T : \A y \in T : x <= y
<1>1. PICK R : R = {ss \in Nat \X Nat : ss[1] < ss[2]}
  OBVIOUS
<1>2. OpToRel(<, Nat) = {ss \in Nat \X Nat : ss[1] < ss[2]}
  BY Zenon DEF OpToRel
<1>3. IsWellFoundedOn(R, Nat)
  BY NatLessThanWellFounded, <1>1, <1>2, Zenon
<1>4. PICK x \in T : \A y \in T : ~ (<<y, x>> \in R)
  BY <1>3, WFMin
<1>5. ASSUME NEW y \in T PROVE x <= y
  <2>1. x \in Nat /\ y \in Nat /\ <<y, x>> \in Nat \X Nat
    OBVIOUS
  <2>2. ~ (<<y, x>>[1] < <<y, x>>[2])
    BY <2>1, <1>4, <1>1
  <2> QED
    BY <2>1, <2>2
<1> QED
  BY <1>5

-----------------------------------------------------------------------------
(* Batch loops.                                                            *)

Ascends(q, S) == /\ q \in [1 .. Cardinality(S) -> S]
                 /\ \A i, j \in DOMAIN q : i < j => q[i] < q[j]

\* A set of numbers below a bound can be put in ascending order.
LEMMA AscendingExists ==
  ASSUME NEW n \in Nat, NEW S \in SUBSET (0 .. n - 1) PROVE \E q : Ascends(q, S)
<1> DEFINE T == {m \in Nat : \E U \in SUBSET (0 .. m - 1) : ~ \E q : Ascends(q, U)}
<1>1. T = {}
  <2> SUFFICES ASSUME T # {} PROVE FALSE
    OBVIOUS
  <2>1. T \subseteq Nat
    OBVIOUS
  <2> HIDE DEF T
  <2>2. PICK m \in T : \A k \in T : m <= k
    BY <2>1, LeastNat
  <2> USE DEF T
  <2>3. m \in Nat
    OBVIOUS
  <2>4. PICK U \in SUBSET (0 .. m - 1) : ~ \E q : Ascends(q, U)
    OBVIOUS
  <2>5. CASE m = 0
    <3>1. U = {}
      BY <2>5
    <3> DEFINE r == [i \in 1 .. 0 |-> 0]
    <3>2. Cardinality(U) = 0 /\ r \in [1 .. 0 -> U] /\ DOMAIN r = {}
      BY <3>1, FS_EmptySet
    <3>3. Ascends(r, U)
      BY <3>2 DEF Ascends
    <3> QED
      BY <3>3, <2>4
  <2>6. CASE m # 0
    <3>1. m - 1 \in Nat /\ m - 1 \notin T
      <4>1. m - 1 \in Nat /\ ~ (m <= m - 1)
        BY <2>3, <2>6
      <4> HIDE DEF T
      <4> QED
        BY <4>1, <2>2
    <3>2. PICK q : Ascends(q, U \ {m - 1})
      <4>1. U \ {m - 1} \in SUBSET (0 .. (m - 1) - 1)
        BY <2>3
      <4> QED
        BY <3>1, <4>1
    <3>3. CASE m - 1 \notin U
      <4>1. U \ {m - 1} = U
        BY <3>3
      <4> QED
        BY <4>1, <3>2, <2>4
    <3>4. CASE m - 1 \in U
      <4>1. IsFiniteSet(0 .. m - 1)
        BY <2>3, FS_Interval
      <4>2. IsFiniteSet(U)
        BY <4>1, FS_Subset
      <4>3. Cardinality(U \ {m - 1}) = Cardinality(U) - 1 /\ Cardinality(U) \in Nat
        BY <3>4, <4>2, FS_RemoveElement, FS_CardinalityType
      <4>4. PICK c \in Nat : c = Cardinality(U)
        BY <4>3
      <4> DEFINE r == [i \in 1 .. c |-> IF i = c THEN m - 1 ELSE q[i]]
      <4>5. q \in [1 .. c - 1 -> U \ {m - 1}] /\ \A i, j \in 1 .. c - 1 : i < j => q[i] < q[j]
        BY <3>2, <4>3, <4>4 DEF Ascends
      <4>6. r \in [1 .. c -> U]
        BY <4>5, <3>4
      <4>7. ASSUME NEW i \in 1 .. c, NEW j \in 1 .. c, i < j PROVE r[i] < r[j]
        <5>1. i \in 1 .. c - 1 /\ r[i] = q[i]
          BY <4>4, <4>7
        <5>2. q[i] \in 0 .. m - 1 /\ q[i] # m - 1
          BY <4>5, <5>1
        <5>3. CASE j = c
          BY <5>1, <5>2, <5>3, <2>3
        <5>4. CASE j # c
          BY <5>1, <5>4, <4>4, <4>5, <4>7
        <5> QED
          BY <5>3, <5>4
      <4>8. Ascends(r, U)
        BY <4>4, <4>6, <4>7 DEF Ascends
      <4> QED
        BY <4>8, <2>4
    <3> QED
      BY <3>3, <3>4
  <2> QED
    BY <2>5, <2>6
<1> QED
  BY <1>1

\* The pages a new attempt has before it: each page that is not checkpointed, once.
LEMMA PendingPages ==
  ASSUME NEW S \in SUBSET PageIds
  PROVE  LET q == Ascending(S) IN
         /\ q \in Seq(PageIds)
         /\ \A i \in 1 .. Len(q) : q[i] \in S
         /\ \A i, j \in 1 .. Len(q) : q[i] = q[j] => i = j
         /\ \A p \in S : \E i \in 1 .. Len(q) : q[i] = p
<1>1. \E q : Ascends(q, S)
  BY AscendingExists, BatchAssumption DEF PageIds
<1>2. PICK q : q = Ascending(S)
  OBVIOUS
<1>3. Ascends(q, S)
  BY <1>1, <1>2 DEF Ascends, Ascending
<1>4. IsFiniteSet(S)
  <2>1. Pages - 1 \in Int /\ IsFiniteSet(0 .. Pages - 1)
    BY FS_Interval, BatchAssumption
  <2> QED
    BY <2>1, FS_Subset DEF PageIds
<1>5. PICK c \in Nat : c = Cardinality(S)
  BY <1>4, FS_CardinalityType
<1>6. q \in [1 .. c -> S] /\ \A i, j \in 1 .. c : i < j => q[i] < q[j]
  BY <1>3, <1>5 DEF Ascends
<1>7. q \in Seq(S) /\ Len(q) = c
  BY <1>6
<1>8. \A i, j \in 1 .. c : q[i] = q[j] => i = j
  <2> SUFFICES ASSUME NEW i \in 1 .. c, NEW j \in 1 .. c, q[i] = q[j], i # j PROVE FALSE
    OBVIOUS
  <2>1. q[i] \in PageIds /\ (i < j \/ j < i)
    BY <1>6
  <2>2. q[i] \in Int
    BY <2>1, BatchAssumption DEF PageIds
  <2> QED
    BY <2>1, <2>2, <1>6
<1>9. q \in Surjection(1 .. c, S)
  <2>1. q \in Injection(1 .. c, S)
    BY <1>6, <1>8 DEF Injection, IsInjective
  <2>2. Cardinality(1 .. c) = c
    BY FS_Interval
  <2> QED
    BY <2>1, <2>2, <1>4, <1>5, FS_Injection
<1>10. \A p \in S : \E i \in 1 .. c : q[i] = p
  BY <1>9 DEF Surjection
<1> QED
  BY <1>2, <1>6, <1>7, <1>8, <1>10

InHand == {"load", "body"}
Moving == {"next", "load", "body"}

LoopRecord ==
    [pc : {"none", "run", "failed", "ended", "dead"}, committed : SUBSET PageIds,
     pending : Seq(PageIds), cursor : Nat, failed : SUBSET PageIds, aborted : BOOLEAN,
     chain : Seq(SUBSET PageIds), broken : BOOLEAN]
RunnerRecord ==
    [pc : {"off", "next", "load", "body", "done", "rejected"}, page : PageIds \cup {0}]

\* The shape of the state; attempts that have not begun are blank.
BatchShape ==
    /\ checkpointRow \subseteq PageIds
    /\ attempt \in 0 .. BatchAttempts
    /\ loopOf \in [Attempts -> LoopRecord]
    /\ runner \in [Attempts -> [Runners -> RunnerRecord]]
    /\ bodies \in [Attempts -> [PageIds -> Nat]]
    /\ batchFaults \in 0 .. MaxBatchFaults
    /\ continueOnError \in BOOLEAN
    /\ \A a \in Attempts : a <= attempt <=> loopOf[a].pc # "none"
    /\ \A a \in Attempts : loopOf[a].pc \in {"none", "dead"} =>
         /\ \A w \in Runners : runner[a][w].pc = "off"
         /\ loopOf[a].chain = <<>>
    /\ \A a \in Attempts : loopOf[a].pc = "none" => \A i \in PageIds : bodies[a][i] = 0

\* Pages that no runner of the attempt has taken yet.
Ahead(L) == {L.pending[c] : c \in L.cursor + 1 .. Len(L.pending)}

\* A page is ahead, in the hands of one runner, or through: what attempt L with
\* runners R has done so often with each page as B says.
PagesApart(L, R, B) ==
    /\ L.cursor <= Len(L.pending)
    /\ \A c, d \in 1 .. Len(L.pending) : L.pending[c] = L.pending[d] => c = d
    /\ \A i \in Ahead(L) : i \notin L.committed /\ B[i] = 0
    /\ \A w \in Runners : R[w].pc \in InHand =>
         R[w].page \in PageIds /\ R[w].page \notin Ahead(L) \cup L.committed
    /\ \A w \in Runners : R[w].pc = "load" => B[R[w].page] = 0
    /\ \A v, w \in Runners :
         R[v].pc \in InHand /\ R[w].pc \in InHand /\ R[v].page = R[w].page => v = w
    /\ \A i \in PageIds : B[i] <= 1
    /\ Len(L.chain) <= Cardinality(L.committed)

\* Until its worker dies an attempt loses sight of no page.
PagesCovered(L, R) ==
    L.pc \in {"run", "failed", "ended"} =>
        /\ \A i \in PageIds \ (L.committed \cup L.failed \cup Ahead(L)) :
             \E w \in Runners : R[w].pc \in InHand \cup {"rejected"} /\ R[w].page = i
        /\ L.aborted => L.failed # {}
        /\ \A w \in Runners : R[w].pc = "done" => L.aborted \/ Ahead(L) = {}
        /\ L.pc = "ended" => \A w \in Runners : R[w].pc = "done"

\* What an attempt that can still write will write is true of the collection as
\* it is now.
CommitsHonest ==
    /\ CheckpointHonest
    /\ \A a \in Attempts :
         /\ \A c \in 1 .. Len(loopOf[a].chain) :
              loopOf[a].chain[c] \subseteq processed \cup inherited
         /\ a = attempt \/ (\E w \in Runners : runner[a][w].pc \in Moving) =>
              loopOf[a].committed \subseteq processed \cup inherited

\* With the older attempts dead, the last write of the present one is of
\* everything it has committed.
LastWriteIsAll ==
    \A a \in Attempts :
      (/\ a = attempt /\ loopOf[a].pc # "dead" /\ ~loopOf[a].broken
       /\ \A b \in 1 .. a - 1 : loopOf[b].pc = "dead")
      => LET q == loopOf[a].chain IN
         loopOf[a].committed \subseteq IF q = <<>> THEN checkpointRow ELSE q[Len(q)]

BatchInv ==
    /\ BatchShape
    /\ \A a \in Attempts : PagesApart(loopOf[a], runner[a], bodies[a])
    /\ \A a \in Attempts : PagesCovered(loopOf[a], runner[a])
    /\ CommitsHonest
    /\ LastWriteIsAll

\* The next page ahead, when it is taken.
LEMMA TakesFromAhead ==
  ASSUME NEW L \in LoopRecord, L.cursor < Len(L.pending),
         \A c, d \in 1 .. Len(L.pending) : L.pending[c] = L.pending[d] => c = d
  PROVE  LET p == L.pending[L.cursor + 1]
             M == [L EXCEPT !.cursor = @ + 1] IN
         p \in PageIds /\ p \in Ahead(L) /\ Ahead(M) = Ahead(L) \ {p}
<1> DEFINE p == L.pending[L.cursor + 1]
           M == [L EXCEPT !.cursor = @ + 1]
<1>1. L.pending \in Seq(PageIds) /\ L.cursor \in Nat /\ Len(L.pending) \in Nat
  BY DEF LoopRecord
<1>2. L.cursor + 1 \in 1 .. Len(L.pending)
  BY <1>1
<1>3. p \in PageIds
  BY <1>1, <1>2
<1>4. p \in Ahead(L)
  BY <1>1, <1>2 DEF Ahead
<1>5. M.cursor = L.cursor + 1 /\ M.pending = L.pending
  BY DEF LoopRecord
<1>6. \A c \in M.cursor + 1 .. Len(M.pending) :
        c \in L.cursor + 1 .. Len(L.pending) /\ L.pending[c] # p
  BY <1>1, <1>2, <1>5
<1>7. \A c \in L.cursor + 1 .. Len(L.pending) :
        L.pending[c] # p => c \in M.cursor + 1 .. Len(M.pending)
  BY <1>1, <1>5
<1> QED
  BY <1>3, <1>4, <1>5, <1>6, <1>7 DEF Ahead

LEMMA AheadIsPending ==
  ASSUME NEW L \in LoopRecord PROVE Ahead(L) \subseteq PageIds
<1>1. L.pending \in Seq(PageIds) /\ L.cursor \in Nat /\ Len(L.pending) \in Nat
  BY DEF LoopRecord
<1> QED
  BY <1>1 DEF Ahead

LEMMA TakeKeeps ==
  ASSUME NEW L \in LoopRecord, NEW R \in [Runners -> RunnerRecord], NEW B, NEW w \in Runners,
         PagesApart(L, R, B), PagesCovered(L, R), R[w].pc = "next", L.cursor < Len(L.pending)
  PROVE  LET M == [L EXCEPT !.cursor = @ + 1]
             Q == [R EXCEPT ![w] = [pc |-> "load", page |-> L.pending[L.cursor + 1]]] IN
         PagesApart(M, Q, B) /\ PagesCovered(M, Q)
<1> DEFINE p == L.pending[L.cursor + 1]
           M == [L EXCEPT !.cursor = @ + 1]
           Q == [R EXCEPT ![w] = [pc |-> "load", page |-> p]]
<1>1. p \in PageIds /\ p \in Ahead(L) /\ Ahead(M) = Ahead(L) \ {p}
  BY TakesFromAhead DEF PagesApart
<1>2. /\ M.cursor = L.cursor + 1 /\ M.pending = L.pending /\ M.committed = L.committed
      /\ M.failed = L.failed /\ M.pc = L.pc /\ M.aborted = L.aborted /\ M.chain = L.chain
      /\ L.cursor \in Nat /\ Len(L.pending) \in Nat
  BY DEF LoopRecord
<1>3. Q[w] = [pc |-> "load", page |-> p] /\ \A v \in Runners \ {w} : Q[v] = R[v]
  OBVIOUS
<1> HIDE DEF p, M, Q
<1>4. PagesApart(M, Q, B)
  BY <1>1, <1>2, <1>3 DEF PagesApart, InHand
<1>5. PagesCovered(M, Q)
  <2> SUFFICES ASSUME L.pc \in {"run", "failed", "ended"} PROVE PagesCovered(M, Q)
    BY <1>2 DEF PagesCovered
  <2>1. \A i \in PageIds \ (M.committed \cup M.failed \cup Ahead(M)) :
          \E v \in Runners : Q[v].pc \in InHand \cup {"rejected"} /\ Q[v].page = i
    <3> SUFFICES ASSUME NEW i \in PageIds \ (M.committed \cup M.failed \cup Ahead(M))
                 PROVE  \E v \in Runners : Q[v].pc \in InHand \cup {"rejected"} /\ Q[v].page = i
      OBVIOUS
    <3>1. CASE i = p
      BY <3>1, <1>3 DEF InHand
    <3>2. CASE i # p
      <4>1. PICK v \in Runners : R[v].pc \in InHand \cup {"rejected"} /\ R[v].page = i
        BY <3>2, <1>1, <1>2 DEF PagesCovered
      <4>2. v # w
        BY <4>1 DEF InHand
      <4> QED
        BY <4>1, <4>2, <1>3
    <3> QED
      BY <3>1, <3>2
  <2>2. M.pc # "ended"
    BY <1>2 DEF PagesCovered
  <2>3. /\ M.aborted => M.failed # {}
        /\ \A v \in Runners : Q[v].pc = "done" => M.aborted \/ Ahead(M) = {}
    BY <1>1, <1>2, <1>3 DEF PagesCovered
  <2> QED
    BY <2>1, <2>2, <2>3 DEF PagesCovered
<1> QED
  BY <1>4, <1>5 DEF M, Q, p

\* A runner goes on without anything changing for the pages: it comes to the end,
\* or gives up with its page in its hands.
LEMMA RunnerStops ==
  ASSUME NEW L \in LoopRecord, NEW R \in [Runners -> RunnerRecord], NEW B, NEW w \in Runners,
         PagesApart(L, R, B), PagesCovered(L, R),
         NEW to, (/\ to = "done" /\ R[w].pc = "next"
                  /\ (L.aborted \/ L.cursor = Len(L.pending)))
                 \/ (to = "rejected" /\ R[w].pc = "load")
  PROVE  LET Q == [R EXCEPT ![w].pc = to] IN PagesApart(L, Q, B) /\ PagesCovered(L, Q)
<1> DEFINE Q == [R EXCEPT ![w].pc = to]
<1>1. Q[w].pc = to /\ Q[w].page = R[w].page /\ \A v \in Runners \ {w} : Q[v] = R[v]
  BY DEF RunnerRecord
<1>2. L.cursor = Len(L.pending) => Ahead(L) = {}
  BY DEF Ahead, LoopRecord
<1> HIDE DEF Q
<1>3. PagesApart(L, Q, B)
  BY <1>1 DEF PagesApart, InHand
<1>4. PagesCovered(L, Q)
  BY <1>1, <1>2 DEF PagesCovered, InHand
<1> QED
  BY <1>3, <1>4 DEF Q

LEMMA LoadKeeps ==
  ASSUME NEW L \in LoopRecord, NEW R \in [Runners -> RunnerRecord],
         NEW B \in [PageIds -> Nat], NEW w \in Runners,
         PagesApart(L, R, B), PagesCovered(L, R), R[w].pc = "load"
  PROVE  LET Q == [R EXCEPT ![w].pc = "body"]
             C == [B EXCEPT ![R[w].page] = @ + 1] IN
         PagesApart(L, Q, C) /\ PagesCovered(L, Q)
<1> DEFINE Q == [R EXCEPT ![w].pc = "body"]
           C == [B EXCEPT ![R[w].page] = @ + 1]
<1>1. Q[w].pc = "body" /\ Q[w].page = R[w].page /\ \A v \in Runners \ {w} : Q[v] = R[v]
  BY DEF RunnerRecord
<1>2. R[w].page \in PageIds /\ B[R[w].page] = 0
  BY DEF PagesApart, InHand
<1>3. C[R[w].page] = 1 /\ \A i \in PageIds \ {R[w].page} : C[i] = B[i]
  BY <1>2
<1>4. Ahead(L) \subseteq PageIds
  BY AheadIsPending
<1> HIDE DEF Q, C
<1>5. PagesApart(L, Q, C)
  BY <1>1, <1>2, <1>3, <1>4 DEF PagesApart, InHand
<1>6. PagesCovered(L, Q)
  BY <1>1 DEF PagesCovered, InHand
<1> QED
  BY <1>5, <1>6 DEF Q, C

LEMMA CommittedFinite ==
  ASSUME NEW L \in LoopRecord
  PROVE  IsFiniteSet(L.committed) /\ Cardinality(L.committed) \in Nat
<1>1. Pages - 1 \in Int /\ IsFiniteSet(0 .. Pages - 1)
  BY FS_Interval, BatchAssumption
<1>2. L.committed \subseteq 0 .. Pages - 1
  BY DEF LoopRecord, PageIds
<1> QED
  BY <1>1, <1>2, FS_Subset, FS_CardinalityType

LEMMA BodyDoneKeeps ==
  ASSUME NEW L \in LoopRecord, NEW R \in [Runners -> RunnerRecord], NEW B, NEW w \in Runners,
         PagesApart(L, R, B), PagesCovered(L, R), R[w].pc = "body"
  PROVE  LET all == L.committed \cup {R[w].page}
             M == [L EXCEPT !.committed = all, !.chain = Append(@, all)]
             Q == [R EXCEPT ![w].pc = "next"] IN
         PagesApart(M, Q, B) /\ PagesCovered(M, Q)
<1> DEFINE all == L.committed \cup {R[w].page}
           M == [L EXCEPT !.committed = all, !.chain = Append(@, all)]
           Q == [R EXCEPT ![w].pc = "next"]
<1>1. Q[w].pc = "next" /\ Q[w].page = R[w].page /\ \A v \in Runners \ {w} : Q[v] = R[v]
  BY DEF RunnerRecord
<1>2. /\ M.committed = all /\ M.chain = Append(L.chain, all) /\ M.cursor = L.cursor
      /\ M.pending = L.pending /\ M.failed = L.failed /\ M.pc = L.pc /\ M.aborted = L.aborted
  BY DEF LoopRecord
<1>3. Ahead(M) = Ahead(L)
  BY <1>2 DEF Ahead
<1>4. Len(M.chain) <= Cardinality(M.committed)
  <2>1. L.committed \subseteq PageIds /\ L.chain \in Seq(SUBSET PageIds)
    BY DEF LoopRecord
  <2>3. IsFiniteSet(L.committed)
    BY CommittedFinite
  <2>4. R[w].page \in PageIds /\ R[w].page \notin L.committed
    BY DEF PagesApart, InHand
  <2>5. Cardinality(all) = Cardinality(L.committed) + 1 /\ Cardinality(L.committed) \in Nat
    BY <2>3, <2>4, FS_AddElement, FS_CardinalityType
  <2>6. Len(M.chain) = Len(L.chain) + 1 /\ Len(L.chain) \in Nat
    BY <1>2, <2>1, <2>4
  <2> QED
    BY <1>2, <2>5, <2>6 DEF PagesApart
<1> HIDE DEF M, Q
<1>5. PagesApart(M, Q, B)
  BY <1>1, <1>2, <1>3, <1>4 DEF PagesApart, InHand
<1>6. PagesCovered(M, Q)
  BY <1>1, <1>2, <1>3 DEF PagesCovered, InHand
<1> QED
  BY <1>5, <1>6 DEF M, Q

LEMMA BodyFailsKeeps ==
  ASSUME NEW L, NEW R, NEW B, NEW w \in Runners,
         PagesApart(L, R, B), PagesCovered(L, R), R[w].pc = "body",
         NEW M, M.committed = L.committed, M.chain = L.chain, M.cursor = L.cursor,
         M.pending = L.pending, M.failed = L.failed \cup {R[w].page}, M.pc = L.pc,
         L.aborted => M.aborted,
         NEW Q, Q[w].pc \in {"next", "rejected"}, Q[w].page = R[w].page,
         \A v \in Runners \ {w} : Q[v] = R[v]
  PROVE  PagesApart(M, Q, B) /\ PagesCovered(M, Q)
<1>1. Ahead(M) = Ahead(L)
  BY DEF Ahead
<1>2. PagesApart(M, Q, B)
  BY <1>1 DEF PagesApart, InHand
<1>3. PagesCovered(M, Q)
  BY <1>1 DEF PagesCovered, InHand
<1> QED
  BY <1>2, <1>3

LEMMA CursorMoves ==
  ASSUME NEW L \in LoopRecord PROVE [L EXCEPT !.cursor = @ + 1] \in LoopRecord
<1>1. L.cursor + 1 \in Nat
  BY DEF LoopRecord
<1> QED
  BY <1>1 DEF LoopRecord

\* An attempt before another is an attempt.
LEMMA Older == \A b \in Attempts : \A e \in 1 .. b - 1 : e \in Attempts
BY BatchAssumption DEF Attempts

LEMMA BatchStarts == BatchInit => BatchInv
<1> SUFFICES ASSUME BatchInit PROVE BatchInv
  OBVIOUS
<1> USE DEF BatchInit
<1>1. NoAttempt \in LoopRecord /\ IdleRunner \in RunnerRecord
  BY DEF NoAttempt, LoopRecord, IdleRunner, RunnerRecord
<1>2. BatchShape
  <2>1. /\ loopOf \in [Attempts -> LoopRecord]
        /\ runner \in [Attempts -> [Runners -> RunnerRecord]]
        /\ bodies \in [Attempts -> [PageIds -> Nat]]
    BY <1>1
  <2>2. \A a \in Attempts : loopOf[a].pc = "none" /\ ~ (a <= attempt) /\ loopOf[a].chain = <<>>
    BY BatchAssumption DEF NoAttempt, Attempts
  <2>3. \A a \in Attempts, w \in Runners : runner[a][w].pc = "off"
    BY DEF IdleRunner
  <2>4. checkpointRow \subseteq PageIds /\ attempt \in 0 .. BatchAttempts
        /\ batchFaults \in 0 .. MaxBatchFaults /\ continueOnError \in BOOLEAN
    BY BatchAssumption
  <2> QED
    BY <2>1, <2>2, <2>3, <2>4 DEF BatchShape
<1>3. ASSUME NEW a \in Attempts
      PROVE  PagesApart(loopOf[a], runner[a], bodies[a]) /\ PagesCovered(loopOf[a], runner[a])
  <2>1. Ahead(NoAttempt) = {}
    BY DEF Ahead, NoAttempt
  <2>2. Cardinality(NoAttempt.committed) = 0
    BY FS_EmptySet DEF NoAttempt
  <2>3. \A w \in Runners : runner[a][w].pc = "off"
    BY DEF IdleRunner
  <2>4. PagesApart(NoAttempt, runner[a], bodies[a])
    BY <2>1, <2>2, <2>3 DEF PagesApart, NoAttempt, InHand
  <2>5. PagesCovered(NoAttempt, runner[a])
    BY DEF PagesCovered, NoAttempt
  <2> QED
    BY <2>4, <2>5
<1>4. CommitsHonest
  BY DEF CommitsHonest, CheckpointHonest, NoAttempt
<1>5. LastWriteIsAll
  BY DEF LastWriteIsAll, Attempts
<1> QED
  BY <1>2, <1>3, <1>4, <1>5 DEF BatchInv

\* A step of attempt a leaves the pages of the others alone.
LEMMA OtherAttempts ==
  ASSUME BatchInv, NEW a \in Attempts,
         \A b \in Attempts \ {a} : /\ loopOf'[b] = loopOf[b] /\ runner'[b] = runner[b]
                                   /\ bodies'[b] = bodies[b],
         PagesApart(loopOf'[a], runner'[a], bodies'[a]), PagesCovered(loopOf'[a], runner'[a])
  PROVE  /\ (\A b \in Attempts : PagesApart(loopOf[b], runner[b], bodies[b]))'
         /\ (\A b \in Attempts : PagesCovered(loopOf[b], runner[b]))'
<1>1. ASSUME NEW b \in Attempts
      PROVE  PagesApart(loopOf'[b], runner'[b], bodies'[b]) /\ PagesCovered(loopOf'[b], runner'[b])
  BY DEF BatchInv
<1> QED
  BY <1>1

\* The attempt that takes a step is one that has begun and that has not died.
LEMMA OnlyBegun ==
  ASSUME BatchInv, NEW a \in Attempts, NEW w \in Runners, runner[a][w].pc # "off"
  PROVE  loopOf[a].pc \notin {"none", "dead"} /\ a <= attempt
BY DEF BatchInv, BatchShape

\* The shape is kept by a step of an attempt that is under way before and after.
LEMMA ShapeKept ==
  ASSUME BatchShape, NEW a \in Attempts,
         loopOf[a].pc \notin {"none", "dead"}, loopOf'[a].pc \notin {"none", "dead"},
         \A b \in Attempts \ {a} : /\ loopOf'[b] = loopOf[b] /\ runner'[b] = runner[b]
                                   /\ bodies'[b] = bodies[b],
         loopOf' \in [Attempts -> LoopRecord],
         runner' \in [Attempts -> [Runners -> RunnerRecord]],
         bodies' \in [Attempts -> [PageIds -> Nat]],
         checkpointRow' \in SUBSET PageIds, batchFaults' \in 0 .. MaxBatchFaults,
         UNCHANGED <<attempt, continueOnError>>
  PROVE  BatchShape'
<1>1. \A b \in Attempts : b <= attempt' <=> loopOf'[b].pc # "none"
  BY DEF BatchShape
<1>2. ASSUME NEW b \in Attempts, loopOf'[b].pc \in {"none", "dead"}
      PROVE  (\A w \in Runners : runner'[b][w].pc = "off") /\ loopOf'[b].chain = <<>>
  <2>1. loopOf'[b] = loopOf[b] /\ runner'[b] = runner[b]
    BY <1>2
  <2> QED
    BY <2>1, <1>2 DEF BatchShape
<1>3. ASSUME NEW b \in Attempts, loopOf'[b].pc = "none"
      PROVE  \A i \in PageIds : bodies'[b][i] = 0
  <2>1. loopOf'[b] = loopOf[b] /\ bodies'[b] = bodies[b]
    BY <1>3
  <2> QED
    BY <2>1, <1>3 DEF BatchShape
<1>4. attempt' \in 0 .. BatchAttempts /\ continueOnError' \in BOOLEAN
  BY DEF BatchShape
<1> QED
  BY <1>1, <1>2, <1>3, <1>4 DEF BatchShape

\* A runner at another place in its loop is a runner.
LEMMA RunnerMoves ==
  ASSUME runner \in [Attempts -> [Runners -> RunnerRecord]], NEW a \in Attempts,
         NEW w \in Runners,
         NEW to \in {"off", "next", "load", "body", "done", "rejected"}
  PROVE  [runner EXCEPT ![a][w].pc = to] \in [Attempts -> [Runners -> RunnerRecord]]
<1>1. [runner[a][w] EXCEPT !.pc = to] \in RunnerRecord
  BY DEF RunnerRecord
<1> QED
  BY <1>1

\* A runner's step that changes no page: Take at the end, LoadFails.
LEMMA StopPreserves ==
  ASSUME BatchInv, NEW a \in Attempts, NEW w \in Runners, NEW to,
         (/\ to = "done" /\ runner[a][w].pc = "next"
          /\ (loopOf[a].aborted \/ loopOf[a].cursor = Len(loopOf[a].pending)))
         \/ (to = "rejected" /\ runner[a][w].pc = "load"),
         runner' = [runner EXCEPT ![a][w].pc = to],
         batchFaults' \in 0 .. MaxBatchFaults,
         UNCHANGED <<continueOnError, checkpointRow, attempt, loopOf, batchGhosts>>
  PROVE  BatchInv'
<1>1. BatchShape /\ PagesApart(loopOf[a], runner[a], bodies[a])
      /\ PagesCovered(loopOf[a], runner[a]) /\ CommitsHonest /\ LastWriteIsAll
  BY DEF BatchInv
<1>2. /\ loopOf[a] \in LoopRecord /\ runner[a] \in [Runners -> RunnerRecord]
      /\ runner \in [Attempts -> [Runners -> RunnerRecord]]
  BY <1>1 DEF BatchShape
<1>3. /\ runner'[a] = [runner[a] EXCEPT ![w].pc = to]
      /\ \A b \in Attempts \ {a} : runner'[b] = runner[b]
  BY <1>2
<1>4. PagesApart(loopOf[a], runner'[a], bodies[a]) /\ PagesCovered(loopOf[a], runner'[a])
  BY <1>1, <1>2, <1>3, RunnerStops
<1>5. /\ (\A b \in Attempts : PagesApart(loopOf[b], runner[b], bodies[b]))'
      /\ (\A b \in Attempts : PagesCovered(loopOf[b], runner[b]))'
  BY <1>3, <1>4, OtherAttempts DEF batchGhosts
<1>6. loopOf[a].pc \notin {"none", "dead"}
  BY OnlyBegun
<1>7. runner' \in [Attempts -> [Runners -> RunnerRecord]]
  BY <1>2, RunnerMoves
<1>8. BatchShape'
  BY <1>1, <1>3, <1>6, <1>7, ShapeKept DEF BatchShape, batchGhosts
<1>9. CommitsHonest'
  <2>1. \A b \in Attempts, v \in Runners :
          runner'[b][v].pc \in Moving => runner[b][v].pc \in Moving
    BY <1>2, <1>3 DEF Moving, RunnerRecord
  <2> QED
    BY <2>1, <1>1 DEF CommitsHonest, CheckpointHonest, batchGhosts
<1>10. LastWriteIsAll'
  BY <1>1 DEF LastWriteIsAll
<1> QED
  BY <1>5, <1>8, <1>9, <1>10 DEF BatchInv

LEMMA TakePreserves ==
  ASSUME BatchInv, NEW a \in Attempts, NEW w \in Runners, Take(a, w),
         UNCHANGED continueOnError
  PROVE  BatchInv'
<1>1. BatchShape /\ PagesApart(loopOf[a], runner[a], bodies[a])
      /\ PagesCovered(loopOf[a], runner[a]) /\ CommitsHonest /\ LastWriteIsAll
  BY DEF BatchInv
<1>2. /\ loopOf[a] \in LoopRecord /\ runner[a] \in [Runners -> RunnerRecord]
      /\ loopOf \in [Attempts -> LoopRecord]
      /\ runner \in [Attempts -> [Runners -> RunnerRecord]]
      /\ batchFaults \in 0 .. MaxBatchFaults
  BY <1>1 DEF BatchShape
<1>3. CASE loopOf[a].aborted \/ loopOf[a].cursor = Len(loopOf[a].pending)
  BY <1>2, <1>3, StopPreserves DEF Take
<1>4. CASE ~ (loopOf[a].aborted \/ loopOf[a].cursor = Len(loopOf[a].pending))
  <2> DEFINE p == loopOf[a].pending[loopOf[a].cursor + 1]
  <2>1. /\ runner[a][w].pc = "next"
        /\ runner' = [runner EXCEPT ![a][w] = [pc |-> "load", page |-> p]]
        /\ loopOf' = [loopOf EXCEPT ![a].cursor = @ + 1]
        /\ UNCHANGED <<checkpointRow, attempt, batchFaults, batchGhosts>>
    BY <1>4 DEF Take
  <2>2. loopOf[a].cursor < Len(loopOf[a].pending)
    BY <1>1, <1>2, <1>4 DEF PagesApart, LoopRecord
  <2>3. /\ runner'[a] = [runner[a] EXCEPT ![w] = [pc |-> "load", page |-> p]]
        /\ loopOf'[a] = [loopOf[a] EXCEPT !.cursor = @ + 1]
        /\ \A b \in Attempts \ {a} : runner'[b] = runner[b] /\ loopOf'[b] = loopOf[b]
    BY <1>2, <2>1
  <2>4. PagesApart(loopOf'[a], runner'[a], bodies[a]) /\ PagesCovered(loopOf'[a], runner'[a])
    BY <1>1, <1>2, <2>1, <2>2, <2>3, TakeKeeps
  <2>5. /\ (\A b \in Attempts : PagesApart(loopOf[b], runner[b], bodies[b]))'
        /\ (\A b \in Attempts : PagesCovered(loopOf[b], runner[b]))'
    BY <2>1, <2>3, <2>4, OtherAttempts DEF batchGhosts
  <2>6. p \in PageIds
    BY <1>1, <1>2, <2>2, TakesFromAhead DEF PagesApart
  <2>7. /\ runner' \in [Attempts -> [Runners -> RunnerRecord]]
        /\ loopOf' \in [Attempts -> LoopRecord]
    <3>1. [pc |-> "load", page |-> p] \in RunnerRecord
      BY <2>6 DEF RunnerRecord
    <3>2. loopOf'[a] \in LoopRecord
      BY <1>2, <2>3, CursorMoves
    <3> QED
      BY <1>2, <2>1, <2>3, <3>1, <3>2
  <2>8. \A b \in Attempts : /\ loopOf'[b].pc = loopOf[b].pc /\ loopOf'[b].chain = loopOf[b].chain
                            /\ loopOf'[b].committed = loopOf[b].committed
                            /\ loopOf'[b].broken = loopOf[b].broken
    <3>1. /\ loopOf'[a].pc = loopOf[a].pc /\ loopOf'[a].chain = loopOf[a].chain
          /\ loopOf'[a].committed = loopOf[a].committed
          /\ loopOf'[a].broken = loopOf[a].broken
      BY <1>2, <2>3 DEF LoopRecord
    <3> QED
      BY <3>1, <2>3
  <2>9. loopOf[a].pc \notin {"none", "dead"}
    BY <2>1, OnlyBegun
  <2>10. BatchShape'
    BY <1>1, <2>1, <2>3, <2>7, <2>8, <2>9, ShapeKept DEF BatchShape, batchGhosts
  <2>11. CommitsHonest'
    <3>1. \A b \in Attempts, v \in Runners :
            runner'[b][v].pc \in Moving => \E u \in Runners : runner[b][u].pc \in Moving
      BY <1>2, <2>1, <2>3 DEF Moving
    <3> QED
      BY <3>1, <2>1, <2>8, <1>1 DEF CommitsHonest, CheckpointHonest, batchGhosts
  <2>12. LastWriteIsAll'
    BY <1>1, <2>1, <2>8, Older DEF LastWriteIsAll
  <2> QED
    BY <2>5, <2>10, <2>11, <2>12 DEF BatchInv
<1> QED
  BY <1>3, <1>4

LEMMA LoadPreserves ==
  ASSUME BatchInv, NEW a \in Attempts, NEW w \in Runners, Load(a, w),
         UNCHANGED continueOnError
  PROVE  BatchInv'
<1>1. BatchShape /\ PagesApart(loopOf[a], runner[a], bodies[a])
      /\ PagesCovered(loopOf[a], runner[a]) /\ CommitsHonest /\ LastWriteIsAll
  BY DEF BatchInv
<1>2. /\ loopOf[a] \in LoopRecord /\ runner[a] \in [Runners -> RunnerRecord]
      /\ runner \in [Attempts -> [Runners -> RunnerRecord]]
      /\ bodies \in [Attempts -> [PageIds -> Nat]] /\ bodies[a] \in [PageIds -> Nat]
  BY <1>1 DEF BatchShape
<1>3. /\ runner[a][w].pc = "load"
      /\ runner' = [runner EXCEPT ![a][w].pc = "body"]
      /\ bodies' = [bodies EXCEPT ![a][runner[a][w].page] = @ + 1]
      /\ UNCHANGED <<checkpointRow, attempt, loopOf, batchFaults, processed, inherited>>
  BY DEF Load
<1>4. /\ runner'[a] = [runner[a] EXCEPT ![w].pc = "body"]
      /\ bodies'[a] = [bodies[a] EXCEPT ![runner[a][w].page] = @ + 1]
      /\ \A b \in Attempts \ {a} : runner'[b] = runner[b] /\ bodies'[b] = bodies[b]
  BY <1>2, <1>3
<1>5. PagesApart(loopOf[a], runner'[a], bodies'[a]) /\ PagesCovered(loopOf[a], runner'[a])
  BY <1>1, <1>2, <1>3, <1>4, LoadKeeps
<1>6. /\ (\A b \in Attempts : PagesApart(loopOf[b], runner[b], bodies[b]))'
      /\ (\A b \in Attempts : PagesCovered(loopOf[b], runner[b]))'
  BY <1>3, <1>4, <1>5, OtherAttempts
<1>7. loopOf[a].pc \notin {"none", "dead"}
  BY <1>3, OnlyBegun
<1>8. BatchShape'
  <2>1. runner' \in [Attempts -> [Runners -> RunnerRecord]]
    BY <1>2, <1>3, RunnerMoves
  <2>2. bodies' \in [Attempts -> [PageIds -> Nat]]
    <3>1. runner[a][w].page \in PageIds
      BY <1>1, <1>3 DEF PagesApart, InHand
    <3>2. bodies[a][runner[a][w].page] + 1 \in Nat
      BY <3>1, <1>2
    <3>3. bodies'[a] \in [PageIds -> Nat]
      BY <3>1, <3>2, <1>2, <1>4
    <3> QED
      BY <3>3, <1>2, <1>3
  <2> QED
    BY <1>1, <1>2, <1>3, <1>4, <1>7, <2>1, <2>2, ShapeKept DEF BatchShape
<1>9. CommitsHonest'
  <2>1. \A b \in Attempts, v \in Runners :
          runner'[b][v].pc \in Moving => runner[b][v].pc \in Moving
    BY <1>2, <1>3, <1>4 DEF Moving, RunnerRecord
  <2> QED
    BY <2>1, <1>1, <1>3 DEF CommitsHonest, CheckpointHonest
<1>10. LastWriteIsAll'
  BY <1>1, <1>3 DEF LastWriteIsAll
<1> QED
  BY <1>6, <1>8, <1>9, <1>10 DEF BatchInv

LEMMA BodyDonePreserves ==
  ASSUME BatchInv, NEW a \in Attempts, NEW w \in Runners, BodyDone(a, w),
         UNCHANGED continueOnError
  PROVE  BatchInv'
<1>1. BatchShape /\ PagesApart(loopOf[a], runner[a], bodies[a])
      /\ PagesCovered(loopOf[a], runner[a]) /\ CommitsHonest /\ LastWriteIsAll
  BY DEF BatchInv
<1>2. /\ loopOf[a] \in LoopRecord /\ runner[a] \in [Runners -> RunnerRecord]
      /\ loopOf \in [Attempts -> LoopRecord]
      /\ runner \in [Attempts -> [Runners -> RunnerRecord]]
      /\ bodies \in [Attempts -> [PageIds -> Nat]] /\ batchFaults \in 0 .. MaxBatchFaults
  BY <1>1 DEF BatchShape
<1> DEFINE L == loopOf[a]
           p == runner[a][w].page
           all == L.committed \cup {p}
<1>3. /\ runner[a][w].pc = "body"
      /\ loopOf' = [loopOf EXCEPT ![a].committed = all, ![a].chain = Append(@, all)]
      /\ runner' = [runner EXCEPT ![a][w].pc = "next"]
      /\ processed' = processed \cup {p}
      /\ UNCHANGED <<checkpointRow, attempt, batchFaults, bodies, inherited>>
  BY DEF BodyDone
<1>4. /\ runner'[a] = [runner[a] EXCEPT ![w].pc = "next"]
      /\ loopOf'[a] = [L EXCEPT !.committed = all, !.chain = Append(@, all)]
      /\ \A b \in Attempts \ {a} : runner'[b] = runner[b] /\ loopOf'[b] = loopOf[b]
  BY <1>2, <1>3
<1>5. PagesApart(loopOf'[a], runner'[a], bodies[a]) /\ PagesCovered(loopOf'[a], runner'[a])
  BY <1>1, <1>2, <1>3, <1>4, BodyDoneKeeps
<1>6. /\ (\A b \in Attempts : PagesApart(loopOf[b], runner[b], bodies[b]))'
      /\ (\A b \in Attempts : PagesCovered(loopOf[b], runner[b]))'
  BY <1>3, <1>4, <1>5, OtherAttempts
<1>7. loopOf[a].pc \notin {"none", "dead"}
  BY <1>3, OnlyBegun
<1>8. all \in SUBSET PageIds /\ L.chain \in Seq(SUBSET PageIds)
  <2>1. p \in PageIds
    BY <1>1, <1>3 DEF PagesApart, InHand
  <2> QED
    BY <2>1, <1>2 DEF LoopRecord
<1>9. /\ loopOf'[a].pc = L.pc /\ loopOf'[a].chain = Append(L.chain, all)
      /\ loopOf'[a].committed = all /\ loopOf'[a].broken = L.broken
  BY <1>2, <1>4 DEF LoopRecord
<1>10. Append(L.chain, all) \in Seq(SUBSET PageIds)
  BY <1>8
<1>11. BatchShape'
  <2>1. runner' \in [Attempts -> [Runners -> RunnerRecord]]
    BY <1>2, <1>3, RunnerMoves
  <2>2. loopOf'[a] \in LoopRecord
    BY <1>2, <1>4, <1>8, <1>10 DEF LoopRecord
  <2>3. loopOf' \in [Attempts -> LoopRecord]
    BY <2>2, <1>2, <1>3
  <2>4. \A b \in Attempts : loopOf'[b].pc = loopOf[b].pc
    BY <1>4, <1>9
  <2> QED
    BY <1>1, <1>2, <1>3, <1>4, <1>7, <2>1, <2>3, <2>4, ShapeKept DEF BatchShape
<1>12. CommitsHonest'
  <2>1. L.committed \subseteq processed \cup inherited
    BY <1>1, <1>3 DEF CommitsHonest, Moving
  <2>2. all \subseteq processed' \cup inherited'
    BY <2>1, <1>3
  <2>3. ASSUME NEW c \in 1 .. Len(loopOf'[a].chain)
        PROVE  loopOf'[a].chain[c] \subseteq processed' \cup inherited'
    <3>1. c \in 1 .. Len(L.chain) + 1
      BY <1>8, <1>9
    <3>2. CASE c = Len(L.chain) + 1
      BY <3>2, <1>8, <1>9, <2>2
    <3>3. CASE c # Len(L.chain) + 1
      <4>1. c \in 1 .. Len(L.chain) /\ loopOf'[a].chain[c] = L.chain[c]
        BY <3>1, <3>3, <1>8, <1>9
      <4> QED
        BY <4>1, <1>1, <1>3 DEF CommitsHonest
    <3> QED
      BY <3>2, <3>3
  <2>4. ASSUME NEW b \in Attempts \ {a},
               b = attempt \/ \E v \in Runners : runner'[b][v].pc \in Moving
        PROVE  loopOf'[b].committed \subseteq processed' \cup inherited'
    BY <2>4, <1>1, <1>3, <1>4 DEF CommitsHonest
  <2>5. \A b \in Attempts \ {a} : \A c \in 1 .. Len(loopOf'[b].chain) :
          loopOf'[b].chain[c] \subseteq processed' \cup inherited'
    BY <1>1, <1>3, <1>4 DEF CommitsHonest
  <2>6. CheckpointHonest'
    BY <1>1, <1>3 DEF CommitsHonest, CheckpointHonest
  <2> QED
    BY <1>3, <1>9, <2>2, <2>3, <2>4, <2>5, <2>6 DEF CommitsHonest
<1>13. LastWriteIsAll'
  <2>1. loopOf'[a].chain # <<>> /\ loopOf'[a].chain[Len(loopOf'[a].chain)] = all
    BY <1>8, <1>9
  <2>2. \A b \in Attempts : loopOf'[b].pc = loopOf[b].pc
    BY <1>4, <1>9
  <2> SUFFICES ASSUME NEW b \in Attempts, b = attempt, loopOf[b].pc # "dead", ~loopOf'[b].broken,
                      \A e \in 1 .. b - 1 : loopOf'[e].pc = "dead"
               PROVE  LET q == loopOf'[b].chain IN
                      loopOf'[b].committed \subseteq IF q = <<>> THEN checkpointRow
                                                    ELSE q[Len(q)]
    BY <1>3, <2>2 DEF LastWriteIsAll
  <2>3. CASE b = a
    BY <2>3, <2>1, <1>9
  <2>4. CASE b # a
    <3>1. \A e \in 1 .. b - 1 : loopOf[e].pc = "dead"
      <4>1. \A e \in 1 .. b - 1 : e \in Attempts
        BY Older
      <4> QED
        BY <4>1, <2>2
    <3> QED
      BY <3>1, <2>4, <1>1, <1>4 DEF LastWriteIsAll
  <2> QED
    BY <2>3, <2>4
<1> QED
  BY <1>6, <1>11, <1>12, <1>13 DEF BatchInv

LEMMA BodyFailsPreserves ==
  ASSUME BatchInv, NEW a \in Attempts, NEW w \in Runners, BodyFails(a, w),
         UNCHANGED continueOnError
  PROVE  BatchInv'
<1>1. BatchShape /\ PagesApart(loopOf[a], runner[a], bodies[a])
      /\ PagesCovered(loopOf[a], runner[a]) /\ CommitsHonest /\ LastWriteIsAll
  BY DEF BatchInv
<1>2. /\ loopOf[a] \in LoopRecord /\ runner[a] \in [Runners -> RunnerRecord]
      /\ loopOf \in [Attempts -> LoopRecord]
      /\ runner \in [Attempts -> [Runners -> RunnerRecord]]
      /\ bodies \in [Attempts -> [PageIds -> Nat]] /\ batchFaults \in 0 .. MaxBatchFaults
  BY <1>1 DEF BatchShape
<1> DEFINE L == loopOf[a]
           p == runner[a][w].page
<1> PICK stop \in BOOLEAN : stop = ~continueOnError
  OBVIOUS
<1>3. PICK to \in {"next", "rejected"} :
      /\ runner[a][w].pc = "body"
      /\ loopOf' = [loopOf EXCEPT ![a].failed = @ \cup {p}, ![a].aborted = @ \/ stop]
      /\ runner' = [runner EXCEPT ![a][w].pc = to]
      /\ batchFaults' \in 0 .. MaxBatchFaults
      /\ UNCHANGED <<checkpointRow, attempt, batchGhosts>>
  <2>1. batchFaults' \in 0 .. MaxBatchFaults
    BY <1>2, BatchAssumption DEF BodyFails, BatchFault
  <2> QED
    BY <2>1 DEF BodyFails
<1>4. /\ runner'[a] = [runner[a] EXCEPT ![w].pc = to]
      /\ loopOf'[a] = [L EXCEPT !.failed = @ \cup {p}, !.aborted = @ \/ stop]
      /\ \A b \in Attempts \ {a} : runner'[b] = runner[b] /\ loopOf'[b] = loopOf[b]
  BY <1>2, <1>3
<1>7. loopOf[a].pc \notin {"none", "dead"}
  BY <1>3, OnlyBegun
<1>14. p \in PageIds
  BY <1>1, <1>3 DEF PagesApart, InHand
<1> DEFINE M == loopOf'[a]
<1>15. /\ M \in LoopRecord /\ M.pc = L.pc /\ M.chain = L.chain
       /\ M.committed = L.committed /\ M.broken = L.broken /\ M.pending = L.pending
       /\ M.cursor = L.cursor /\ M.failed = L.failed \cup {p} /\ (L.aborted => M.aborted)
  <2> PICK gone \in BOOLEAN : gone = (L.aborted \/ stop)
    OBVIOUS
  <2>1. M = [L EXCEPT !.failed = L.failed \cup {p}, !.aborted = gone]
    BY <1>4
  <2>2. /\ M.pc = L.pc /\ M.chain = L.chain /\ M.committed = L.committed
        /\ M.broken = L.broken /\ M.pending = L.pending /\ M.cursor = L.cursor
        /\ M.failed = L.failed \cup {p} /\ M.aborted = gone
    BY <1>2, <2>1 DEF LoopRecord
  <2>3. L.failed \cup {p} \in SUBSET PageIds
    BY <1>2, <1>14 DEF LoopRecord
  <2>4. M \in LoopRecord
    BY <1>2, <2>1, <2>3 DEF LoopRecord
  <2> QED
    BY <2>2, <2>4
<1>5. PagesApart(loopOf'[a], runner'[a], bodies[a]) /\ PagesCovered(loopOf'[a], runner'[a])
  <2>1. /\ runner'[a][w].pc = to /\ runner'[a][w].page = p
        /\ \A v \in Runners \ {w} : runner'[a][v] = runner[a][v]
    BY <1>2, <1>4 DEF RunnerRecord
  <2>2. runner'[a][w].pc \in {"next", "rejected"} /\ runner[a][w].pc = "body"
    BY <2>1, <1>3
  <2> PICK before, after, R, Q, B : /\ before = L /\ after = M /\ R = runner[a]
                                   /\ Q = runner'[a] /\ B = bodies[a]
    OBVIOUS
  <2>3. /\ PagesApart(before, R, B) /\ PagesCovered(before, R) /\ R[w].pc = "body"
        /\ Q[w].pc \in {"next", "rejected"} /\ Q[w].page = R[w].page
        /\ \A v \in Runners \ {w} : Q[v] = R[v]
    BY <2>1, <2>2, <1>1
  <2>4. /\ after.committed = before.committed /\ after.chain = before.chain
        /\ after.cursor = before.cursor /\ after.pending = before.pending
        /\ after.failed = before.failed \cup {R[w].page} /\ after.pc = before.pc
        /\ before.aborted => after.aborted
    BY <1>15
  <2>5. PagesApart(after, Q, B) /\ PagesCovered(after, Q)
    BY <2>3, <2>4, BodyFailsKeeps
  <2> QED
    BY <2>5
<1>6. /\ (\A b \in Attempts : PagesApart(loopOf[b], runner[b], bodies[b]))'
      /\ (\A b \in Attempts : PagesCovered(loopOf[b], runner[b]))'
  BY <1>3, <1>4, <1>5, OtherAttempts DEF batchGhosts
<1>8. \A b \in Attempts : /\ loopOf'[b].pc = loopOf[b].pc /\ loopOf'[b].chain = loopOf[b].chain
                         /\ loopOf'[b].committed = loopOf[b].committed
                         /\ loopOf'[b].broken = loopOf[b].broken
  BY <1>4, <1>15
<1>9. BatchShape'
  <2>1. runner' \in [Attempts -> [Runners -> RunnerRecord]]
    BY <1>2, <1>3, RunnerMoves
  <2>4. loopOf' \in [Attempts -> LoopRecord]
    BY <1>2, <1>3, <1>4, <1>15
  <2> QED
    BY <1>1, <1>2, <1>3, <1>4, <1>7, <1>8, <2>1, <2>4, ShapeKept DEF BatchShape, batchGhosts
<1>10. CommitsHonest'
  <2>1. \A b \in Attempts, v \in Runners :
          runner'[b][v].pc \in Moving => \E u \in Runners : runner[b][u].pc \in Moving
    BY <1>2, <1>3, <1>4 DEF Moving
  <2> QED
    BY <2>1, <1>1, <1>3, <1>8 DEF CommitsHonest, CheckpointHonest, batchGhosts
<1>11. LastWriteIsAll'
  <2>1. \A b \in Attempts : \A e \in 1 .. b - 1 : loopOf'[e].pc = loopOf[e].pc
    BY <1>8, Older
  <2> SUFFICES ASSUME NEW b \in Attempts, b = attempt, loopOf'[b].pc # "dead", ~loopOf'[b].broken,
                      \A e \in 1 .. b - 1 : loopOf'[e].pc = "dead"
               PROVE  LET q == loopOf'[b].chain IN
                      loopOf'[b].committed \subseteq IF q = <<>> THEN checkpointRow ELSE q[Len(q)]
    BY <1>3 DEF LastWriteIsAll
  <2>2. \A e \in 1 .. b - 1 : loopOf[e].pc = "dead"
    BY <2>1
  <2>3. LET q == loopOf[b].chain IN
        loopOf[b].committed \subseteq IF q = <<>> THEN checkpointRow ELSE q[Len(q)]
    BY <2>2, <1>1, <1>8 DEF LastWriteIsAll
  <2> QED
    BY <2>3, <1>8
<1> QED
  BY <1>6, <1>9, <1>10, <1>11 DEF BatchInv

LEMMA WriteCheckpointPreserves ==
  ASSUME BatchInv, NEW a \in Attempts, WriteCheckpoint(a), UNCHANGED continueOnError
  PROVE  BatchInv'
<1>1. BatchShape /\ PagesApart(loopOf[a], runner[a], bodies[a])
      /\ PagesCovered(loopOf[a], runner[a]) /\ CommitsHonest /\ LastWriteIsAll
  BY DEF BatchInv
<1>2. /\ loopOf[a] \in LoopRecord /\ runner[a] \in [Runners -> RunnerRecord]
      /\ loopOf \in [Attempts -> LoopRecord]
      /\ runner \in [Attempts -> [Runners -> RunnerRecord]]
      /\ bodies \in [Attempts -> [PageIds -> Nat]] /\ batchFaults \in 0 .. MaxBatchFaults
  BY <1>1 DEF BatchShape
<1> DEFINE L == loopOf[a]
<1>3. /\ L.pc \notin {"none", "dead"} /\ L.chain # <<>>
      /\ checkpointRow' = Head(L.chain)
      /\ loopOf' = [loopOf EXCEPT ![a].chain = Tail(@)]
      /\ UNCHANGED <<attempt, runner, batchFaults, batchGhosts>>
  BY DEF WriteCheckpoint, LiveAttempt
<1>4. /\ loopOf'[a] = [L EXCEPT !.chain = Tail(@)]
      /\ \A b \in Attempts \ {a} : loopOf'[b] = loopOf[b]
  BY <1>2, <1>3
<1>5. L.chain \in Seq(SUBSET PageIds) /\ Tail(L.chain) \in Seq(SUBSET PageIds)
      /\ Head(L.chain) \in SUBSET PageIds /\ Head(L.chain) = L.chain[1]
      /\ Len(Tail(L.chain)) = Len(L.chain) - 1 /\ Len(L.chain) \in Nat \ {0}
      /\ \A c \in 1 .. Len(L.chain) - 1 : Tail(L.chain)[c] = L.chain[c + 1]
  <2>1. L.chain \in Seq(SUBSET PageIds)
    BY <1>2 DEF LoopRecord
  <2> QED
    BY <2>1, <1>3
<1> DEFINE M == loopOf'[a]
<1>6. /\ M \in LoopRecord /\ M.pc = L.pc /\ M.committed = L.committed
      /\ M.pending = L.pending /\ M.cursor = L.cursor /\ M.failed = L.failed
      /\ M.aborted = L.aborted /\ M.chain = Tail(L.chain) /\ M.broken = L.broken
      /\ Ahead(M) = Ahead(L)
  <2>1. /\ M.pc = L.pc /\ M.committed = L.committed
        /\ M.pending = L.pending /\ M.cursor = L.cursor /\ M.failed = L.failed
        /\ M.aborted = L.aborted /\ M.chain = Tail(L.chain) /\ M.broken = L.broken
    BY <1>2, <1>4 DEF LoopRecord
  <2>2. M \in LoopRecord
    BY <1>2, <1>4, <1>5 DEF LoopRecord
  <2>3. Ahead(M) = Ahead(L)
    BY <2>1 DEF Ahead
  <2> QED
    BY <2>1, <2>2, <2>3
<1>7. PagesApart(loopOf'[a], runner[a], bodies[a]) /\ PagesCovered(loopOf'[a], runner[a])
  <2>1. Len(Tail(L.chain)) <= Cardinality(L.committed)
    <3>1. Len(L.chain) <= Cardinality(L.committed)
      BY <1>1 DEF PagesApart
    <3>2. Cardinality(L.committed) \in Nat
      BY <1>2, CommittedFinite
    <3> QED
      BY <3>1, <3>2, <1>5
  <2> QED
    BY <2>1, <1>1, <1>6 DEF PagesApart, PagesCovered
<1>8. /\ (\A b \in Attempts : PagesApart(loopOf[b], runner[b], bodies[b]))'
      /\ (\A b \in Attempts : PagesCovered(loopOf[b], runner[b]))'
  BY <1>3, <1>4, <1>7, OtherAttempts DEF batchGhosts
<1>9. BatchShape'
  <2>2. loopOf' \in [Attempts -> LoopRecord]
    BY <1>2, <1>3, <1>4, <1>6
  <2>3. \A b \in Attempts : loopOf'[b].pc = loopOf[b].pc
    BY <1>4, <1>6
  <2> QED
    BY <1>1, <1>2, <1>3, <1>4, <1>5, <2>2, <2>3, ShapeKept DEF BatchShape, batchGhosts
<1>10. CommitsHonest'
  <2>1. 1 \in 1 .. Len(L.chain)
    BY <1>5
  <2>2. CheckpointHonest'
    BY <2>1, <1>1, <1>3, <1>5 DEF CommitsHonest, CheckpointHonest, batchGhosts
  <2>3. ASSUME NEW c \in 1 .. Len(loopOf'[a].chain)
        PROVE  loopOf'[a].chain[c] \subseteq processed \cup inherited
    <3>1. c + 1 \in 1 .. Len(L.chain) /\ loopOf'[a].chain[c] = L.chain[c + 1]
      BY <1>5, <1>6
    <3> QED
      BY <3>1, <1>1 DEF CommitsHonest
  <2> QED
    BY <2>2, <2>3, <1>1, <1>3, <1>4, <1>6 DEF CommitsHonest, batchGhosts
<1>12. IF Len(L.chain) = 1 THEN Tail(L.chain) = <<>>
       ELSE Tail(L.chain) # <<>> /\ Tail(L.chain)[Len(Tail(L.chain))] = L.chain[Len(L.chain)]
  <2> PICK q : q = L.chain
    OBVIOUS
  <2> SUFFICES IF Len(q) = 1 THEN Tail(q) = <<>>
               ELSE Tail(q) # <<>> /\ Tail(q)[Len(Tail(q))] = q[Len(q)]
    OBVIOUS
  <2>1. q \in Seq(SUBSET PageIds) /\ q # <<>>
    BY <1>3, <1>5
  <2>2. PICK n \in Nat : n = Len(q)
    BY <2>1
  <2>3. Tail(q) \in Seq(SUBSET PageIds) /\ Len(Tail(q)) = n - 1 /\ n # 0
    BY <2>1, <2>2
  <2>4. CASE n = 1
    <3>1. PICK r : r = Tail(q)
      OBVIOUS
    <3>2. r \in Seq(SUBSET PageIds) /\ Len(r) = 0
      BY <2>3, <2>4, <3>1
    <3>3. r = <<>>
      BY <3>2
    <3> QED
      BY <2>2, <2>4, <3>1, <3>3
  <2>5. CASE n # 1
    <3>1. n - 1 \in 1 .. n - 1 /\ n - 1 # 0
      BY <2>3, <2>5
    <3>2. Tail(q)[n - 1] = q[n]
      BY <2>1, <2>2, <3>1
    <3>3. Tail(q) # <<>>
      BY <2>3, <3>1
    <3> QED
      BY <2>2, <2>3, <2>5, <3>2, <3>3
  <2> QED
    BY <2>4, <2>5
<1>11. LastWriteIsAll'
  <2>1. \A b \in Attempts : loopOf'[b].pc = loopOf[b].pc
    BY <1>4, <1>6
  <2> SUFFICES ASSUME NEW b \in Attempts, b = attempt, loopOf[b].pc # "dead", ~loopOf'[b].broken,
                      \A e \in 1 .. b - 1 : loopOf'[e].pc = "dead"
               PROVE  LET q == loopOf'[b].chain IN
                      loopOf'[b].committed \subseteq IF q = <<>> THEN checkpointRow'
                                                    ELSE q[Len(q)]
    BY <1>3, <2>1 DEF LastWriteIsAll
  <2>2. \A e \in 1 .. b - 1 : e \in Attempts /\ loopOf[e].pc = "dead"
    BY <2>1, Older
  <2>3. a = b
    <3>1. a <= attempt
      BY <1>1, <1>3 DEF BatchShape
    <3> QED
      BY <3>1, <2>2, <1>3 DEF Attempts
  <2>4. L.committed \subseteq L.chain[Len(L.chain)]
    BY <2>2, <2>3, <1>1, <1>3, <1>6 DEF LastWriteIsAll
  <2>5. CASE Len(L.chain) = 1
    BY <2>3, <2>4, <2>5, <1>3, <1>5, <1>6, <1>12
  <2>6. CASE Len(L.chain) # 1
    BY <2>3, <2>4, <2>6, <1>6, <1>12
  <2> QED
    BY <2>5, <2>6
<1> QED
  BY <1>8, <1>9, <1>10, <1>11 DEF BatchInv

LEMMA WriteFailsPreserves ==
  ASSUME BatchInv, NEW a \in Attempts, WriteFails(a), UNCHANGED continueOnError
  PROVE  BatchInv'
<1>1. BatchShape /\ PagesApart(loopOf[a], runner[a], bodies[a])
      /\ PagesCovered(loopOf[a], runner[a]) /\ CommitsHonest /\ LastWriteIsAll
  BY DEF BatchInv
<1>2. /\ loopOf[a] \in LoopRecord /\ runner[a] \in [Runners -> RunnerRecord]
      /\ loopOf \in [Attempts -> LoopRecord]
      /\ runner \in [Attempts -> [Runners -> RunnerRecord]]
      /\ bodies \in [Attempts -> [PageIds -> Nat]] /\ batchFaults \in 0 .. MaxBatchFaults
  BY <1>1 DEF BatchShape
<1> DEFINE L == loopOf[a]
           M == loopOf'[a]
<1>3. /\ L.pc \notin {"none", "dead"}
      /\ batchFaults' \in 0 .. MaxBatchFaults
      /\ loopOf' = [loopOf EXCEPT ![a].broken = TRUE, ![a].chain = <<>>]
      /\ UNCHANGED <<checkpointRow, attempt, runner, batchGhosts>>
  <2>1. batchFaults' \in 0 .. MaxBatchFaults
    BY <1>2, BatchAssumption DEF WriteFails, BatchFault
  <2> QED
    BY <2>1 DEF WriteFails, LiveAttempt
<1>4. /\ M = [L EXCEPT !.broken = TRUE, !.chain = <<>>]
      /\ \A b \in Attempts \ {a} : loopOf'[b] = loopOf[b]
  BY <1>2, <1>3
<1>5. /\ M.pc = L.pc /\ M.committed = L.committed /\ M.pending = L.pending
      /\ M.cursor = L.cursor /\ M.failed = L.failed /\ M.aborted = L.aborted
      /\ M.chain = <<>> /\ M.broken = TRUE
  BY <1>2, <1>4 DEF LoopRecord
<1>6. M \in LoopRecord
  <2> PICK none : none = <<>>
    OBVIOUS
  <2>1. none \in Seq(SUBSET PageIds)
    OBVIOUS
  <2>2. M = [L EXCEPT !.broken = TRUE, !.chain = none]
    BY <1>4
  <2> QED
    BY <1>2, <2>1, <2>2 DEF LoopRecord
<1>7. Ahead(M) = Ahead(L)
  BY <1>5 DEF Ahead
<1>8. PagesApart(M, runner[a], bodies[a]) /\ PagesCovered(M, runner[a])
  <2>1. Len(M.chain) <= Cardinality(M.committed)
    BY <1>2, <1>5, CommittedFinite
  <2> QED
    BY <2>1, <1>1, <1>5, <1>7 DEF PagesApart, PagesCovered
<1>9. /\ (\A b \in Attempts : PagesApart(loopOf[b], runner[b], bodies[b]))'
      /\ (\A b \in Attempts : PagesCovered(loopOf[b], runner[b]))'
  BY <1>3, <1>4, <1>8, OtherAttempts DEF batchGhosts
<1>10. BatchShape'
  <2>1. loopOf' \in [Attempts -> LoopRecord]
    BY <1>2, <1>3, <1>4, <1>6
  <2> QED
    BY <1>1, <1>2, <1>3, <1>4, <1>5, <2>1, ShapeKept DEF BatchShape, batchGhosts
<1>11. CommitsHonest'
  <2>1. Len(M.chain) = 0
    BY <1>5
  <2>2. CheckpointHonest'
    BY <1>1, <1>3 DEF CommitsHonest, CheckpointHonest, batchGhosts
  <2>3. \A b \in Attempts : \A c \in 1 .. Len(loopOf'[b].chain) :
          loopOf'[b].chain[c] \subseteq processed' \cup inherited'
    <3>1. \A c \in 1 .. Len(M.chain) : FALSE
      BY <2>1
    <3>2. \A b \in Attempts \ {a} : loopOf'[b].chain = loopOf[b].chain
      BY <1>4
    <3>3. processed' = processed /\ inherited' = inherited
      BY <1>3 DEF batchGhosts
    <3> QED
      BY <3>1, <3>2, <3>3, <1>1 DEF CommitsHonest
  <2>4. \A b \in Attempts : loopOf'[b].committed = loopOf[b].committed
    BY <1>4, <1>5
  <2> QED
    BY <2>2, <2>3, <2>4, <1>1, <1>3 DEF CommitsHonest, batchGhosts
<1>12. LastWriteIsAll'
  <2>1. \A b \in Attempts : loopOf'[b].pc = loopOf[b].pc
    BY <1>4, <1>5
  <2> SUFFICES ASSUME NEW b \in Attempts, b = attempt, loopOf'[b].pc # "dead", ~loopOf'[b].broken,
                      \A e \in 1 .. b - 1 : loopOf'[e].pc = "dead"
               PROVE  LET q == loopOf'[b].chain IN
                      loopOf'[b].committed \subseteq IF q = <<>> THEN checkpointRow ELSE q[Len(q)]
    BY <1>3 DEF LastWriteIsAll
  <2>2. \A e \in 1 .. b - 1 : loopOf[e].pc = "dead"
    BY <2>1, Older
  <2>3. b # a
    BY <1>5
  <2> QED
    BY <2>2, <2>3, <1>1, <1>4 DEF LastWriteIsAll
<1> QED
  BY <1>9, <1>10, <1>11, <1>12 DEF BatchInv

LEMMA NodeEndsPreserves ==
  ASSUME BatchInv, NEW a \in Attempts, NodeThrows(a) \/ NodeReturns(a), UNCHANGED continueOnError
  PROVE  BatchInv'
<1>1. BatchShape /\ PagesApart(loopOf[a], runner[a], bodies[a])
      /\ PagesCovered(loopOf[a], runner[a]) /\ CommitsHonest /\ LastWriteIsAll
  BY DEF BatchInv
<1>2. /\ loopOf[a] \in LoopRecord /\ runner[a] \in [Runners -> RunnerRecord]
      /\ loopOf \in [Attempts -> LoopRecord]
      /\ runner \in [Attempts -> [Runners -> RunnerRecord]]
      /\ bodies \in [Attempts -> [PageIds -> Nat]] /\ batchFaults \in 0 .. MaxBatchFaults
  BY <1>1 DEF BatchShape
<1> DEFINE L == loopOf[a]
           M == loopOf'[a]
<1>3. PICK to \in {"failed", "ended"} :
      /\ L.pc = "run"
      /\ to = "ended" => \A w \in Runners : runner[a][w].pc = "done"
      /\ loopOf' = [loopOf EXCEPT ![a].pc = to]
      /\ UNCHANGED <<checkpointRow, attempt, runner, batchFaults, batchGhosts>>
  BY DEF NodeThrows, NodeReturns
<1>4. /\ M = [L EXCEPT !.pc = to]
      /\ \A b \in Attempts \ {a} : loopOf'[b] = loopOf[b]
  BY <1>2, <1>3
<1>5. /\ M.pc = to /\ M.committed = L.committed /\ M.pending = L.pending
      /\ M.cursor = L.cursor /\ M.failed = L.failed /\ M.aborted = L.aborted
      /\ M.chain = L.chain /\ M.broken = L.broken
  BY <1>2, <1>4 DEF LoopRecord
<1>6. M \in LoopRecord
  BY <1>2, <1>4 DEF LoopRecord
<1>7. Ahead(M) = Ahead(L)
  BY <1>5 DEF Ahead
<1>8. PagesApart(M, runner[a], bodies[a]) /\ PagesCovered(M, runner[a])
  BY <1>1, <1>3, <1>5, <1>7 DEF PagesApart, PagesCovered
<1>9. /\ (\A b \in Attempts : PagesApart(loopOf[b], runner[b], bodies[b]))'
      /\ (\A b \in Attempts : PagesCovered(loopOf[b], runner[b]))'
  BY <1>3, <1>4, <1>8, OtherAttempts DEF batchGhosts
<1>10. BatchShape'
  <2>1. loopOf' \in [Attempts -> LoopRecord]
    BY <1>2, <1>3, <1>4, <1>6
  <2> QED
    BY <1>1, <1>2, <1>3, <1>4, <1>5, <2>1, ShapeKept DEF BatchShape, batchGhosts
<1>11. CommitsHonest'
  BY <1>1, <1>3, <1>4, <1>5 DEF CommitsHonest, CheckpointHonest, batchGhosts
<1>12. LastWriteIsAll'
  <2>1. \A b \in Attempts : /\ loopOf'[b].pc = "dead" <=> loopOf[b].pc = "dead"
                            /\ loopOf'[b].committed = loopOf[b].committed
                            /\ loopOf'[b].chain = loopOf[b].chain
                            /\ loopOf'[b].broken = loopOf[b].broken
    BY <1>3, <1>4, <1>5
  <2> SUFFICES ASSUME NEW b \in Attempts, b = attempt, loopOf'[b].pc # "dead", ~loopOf'[b].broken,
                      \A e \in 1 .. b - 1 : loopOf'[e].pc = "dead"
               PROVE  LET q == loopOf'[b].chain IN
                      loopOf'[b].committed \subseteq IF q = <<>> THEN checkpointRow ELSE q[Len(q)]
    BY <1>3 DEF LastWriteIsAll
  <2>2. \A e \in 1 .. b - 1 : loopOf[e].pc = "dead"
    BY <2>1, Older
  <2>3. LET q == loopOf[b].chain IN
        loopOf[b].committed \subseteq IF q = <<>> THEN checkpointRow ELSE q[Len(q)]
    BY <2>1, <2>2, <1>1 DEF LastWriteIsAll
  <2> QED
    BY <2>1, <2>3
<1> QED
  BY <1>9, <1>10, <1>11, <1>12 DEF BatchInv

LEMMA BeginPreserves ==
  ASSUME BatchInv, BeginAttempt, UNCHANGED continueOnError PROVE BatchInv'
<1> DEFINE a == attempt + 1
           renew == attempt > 0 /\ loopOf[attempt].pc = "ended"
           q == Ascending(PageIds \ checkpointRow)
           fresh == [NoAttempt EXCEPT !.pc = "run", !.committed = checkpointRow, !.pending = q]
<1>1. /\ BatchShape /\ CommitsHonest
      /\ \A b \in Attempts : PagesApart(loopOf[b], runner[b], bodies[b])
                           /\ PagesCovered(loopOf[b], runner[b])
  BY DEF BatchInv
<1>2. /\ loopOf \in [Attempts -> LoopRecord] /\ checkpointRow \in SUBSET PageIds
      /\ runner \in [Attempts -> [Runners -> RunnerRecord]]
      /\ bodies \in [Attempts -> [PageIds -> Nat]] /\ batchFaults \in 0 .. MaxBatchFaults
  BY <1>1 DEF BatchShape
<1>3. /\ attempt < BatchAttempts
      /\ renew => \A b \in 1 .. attempt : RunnersQuiet(b)
      /\ inherited' = IF renew THEN checkpointRow ELSE inherited
      /\ processed' = IF renew THEN {} ELSE processed
      /\ attempt' = a
      /\ loopOf' = [loopOf EXCEPT ![a] = fresh]
      /\ runner' = [runner EXCEPT ![a] = [w \in Runners |-> [pc |-> "next", page |-> 0]]]
      /\ UNCHANGED <<checkpointRow, batchFaults, bodies>>
  BY DEF BeginAttempt
<1>4. /\ attempt \in 0 .. BatchAttempts /\ a \in Attempts /\ a \in 0 .. BatchAttempts
      /\ ~ (a <= attempt)
      /\ \A b \in Attempts \ {a} : b <= a <=> b <= attempt
      /\ \A b \in Attempts : b <= attempt => b \in 1 .. attempt
  BY <1>1, <1>3, BatchAssumption DEF BatchShape, Attempts
<1>5. loopOf[a].pc = "none" /\ \A i \in PageIds : bodies[a][i] = 0
  BY <1>1, <1>4 DEF BatchShape
<1>6. /\ q \in Seq(PageIds)
      /\ \A i \in 1 .. Len(q) : q[i] \in PageIds \ checkpointRow
      /\ \A i, j \in 1 .. Len(q) : q[i] = q[j] => i = j
      /\ \A i \in PageIds \ checkpointRow : \E c \in 1 .. Len(q) : q[c] = i
  BY PendingPages
<1> HIDE DEF q
<1>7. /\ fresh.pc = "run" /\ fresh.committed = checkpointRow /\ fresh.pending = q
      /\ fresh.cursor = 0 /\ fresh.failed = {} /\ fresh.aborted = FALSE /\ fresh.chain = <<>>
      /\ fresh \in LoopRecord
  <2>1. NoAttempt \in LoopRecord
    BY DEF NoAttempt, LoopRecord
  <2> PICK N \in LoopRecord : N = NoAttempt
    BY <2>1
  <2>2. N.cursor = 0 /\ N.failed = {} /\ N.aborted = FALSE /\ N.chain = <<>>
    BY DEF NoAttempt
  <2> PICK f : f = [N EXCEPT !.pc = "run", !.committed = checkpointRow, !.pending = q]
    OBVIOUS
  <2>3. f \in LoopRecord
    BY <1>2, <1>6 DEF LoopRecord
  <2>4. /\ f.pc = "run" /\ f.committed = checkpointRow /\ f.pending = q
        /\ f.cursor = N.cursor /\ f.failed = N.failed /\ f.aborted = N.aborted
        /\ f.chain = N.chain
    BY DEF LoopRecord
  <2>5. fresh = f
    OBVIOUS
  <2> HIDE DEF fresh
  <2> QED
    BY <2>2, <2>3, <2>4, <2>5
<1>8. fresh \in LoopRecord
  BY <1>7
<1>9. Ahead(fresh) = PageIds \ checkpointRow
  <2>1. Ahead(fresh) = {q[c] : c \in 1 .. Len(q)}
    <3>1. fresh.cursor = 0 /\ fresh.pending = q
      BY <1>7
    <3> HIDE DEF fresh
    <3>2. Ahead(fresh) = {q[c] : c \in 0 + 1 .. Len(q)}
      BY <3>1 DEF Ahead
    <3> QED
      BY <3>2
  <2> QED
    BY <2>1, <1>6
<1>10. /\ loopOf'[a] = fresh /\ \A w \in Runners : runner'[a][w] = [pc |-> "next", page |-> 0]
       /\ \A b \in Attempts \ {a} : loopOf'[b] = loopOf[b] /\ runner'[b] = runner[b]
  BY <1>2, <1>3, <1>4
<1> HIDE DEF a, fresh
<1>11. PagesApart(fresh, runner'[a], bodies[a]) /\ PagesCovered(fresh, runner'[a])
  <2>1. Len(fresh.chain) <= Cardinality(fresh.committed)
    BY <1>7, <1>8, CommittedFinite
  <2>2. fresh.cursor <= Len(fresh.pending) /\ fresh.pending = q /\ fresh.committed = checkpointRow
        /\ fresh.pc = "run" /\ fresh.failed = {} /\ fresh.aborted = FALSE
    BY <1>6, <1>7
  <2>3. \A w \in Runners : runner'[a][w].pc = "next"
    BY <1>10
  <2>4. PagesApart(fresh, runner'[a], bodies[a])
    BY <2>1, <2>2, <2>3, <1>5, <1>6, <1>9 DEF PagesApart, InHand
  <2>5. PagesCovered(fresh, runner'[a])
    BY <2>2, <2>3, <1>9 DEF PagesCovered
  <2> QED
    BY <2>4, <2>5
<1>12. /\ (\A b \in Attempts : PagesApart(loopOf[b], runner[b], bodies[b]))'
       /\ (\A b \in Attempts : PagesCovered(loopOf[b], runner[b]))'
  BY <1>3, <1>4, <1>10, <1>11, OtherAttempts
<1>13. BatchShape'
  <2>1. loopOf' \in [Attempts -> LoopRecord]
    BY <1>2, <1>3, <1>8
  <2>2. runner' \in [Attempts -> [Runners -> RunnerRecord]]
    <3>1. [pc |-> "next", page |-> 0] \in RunnerRecord
      BY DEF RunnerRecord
    <3> QED
      BY <3>1, <1>2, <1>3
  <2>3. loopOf'[a].pc = "run"
    BY <1>7, <1>10
  <2>4. \A b \in Attempts : b <= attempt' <=> loopOf'[b].pc # "none"
    <3>1. a <= a
      BY <1>4 DEF a
    <3> QED
      BY <3>1, <2>3, <1>1, <1>3, <1>4, <1>10 DEF BatchShape
  <2>5. \A b \in Attempts \ {a} : loopOf'[b].pc \in {"none", "dead"} =>
          /\ \A w \in Runners : runner'[b][w].pc = "off"
          /\ loopOf'[b].chain = <<>>
    BY <1>1, <1>10 DEF BatchShape
  <2>6. \A b \in Attempts \ {a} : loopOf'[b].pc = "none" => \A i \in PageIds : bodies'[b][i] = 0
    BY <1>1, <1>3, <1>10 DEF BatchShape
  <2>7. checkpointRow' \subseteq PageIds /\ attempt' \in 0 .. BatchAttempts
        /\ bodies' \in [Attempts -> [PageIds -> Nat]] /\ batchFaults' \in 0 .. MaxBatchFaults
        /\ continueOnError' \in BOOLEAN
    BY <1>1, <1>2, <1>3, <1>4 DEF BatchShape
  <2> QED
    BY <2>1, <2>2, <2>3, <2>4, <2>5, <2>6, <2>7 DEF BatchShape
<1>14. CommitsHonest'
  <2>1. checkpointRow \subseteq processed' \cup inherited'
    BY <1>1, <1>3 DEF CommitsHonest, CheckpointHonest
  <2>2. ASSUME NEW b \in Attempts \ {a}
        PROVE  /\ \A c \in 1 .. Len(loopOf[b].chain) :
                    loopOf[b].chain[c] \subseteq processed' \cup inherited'
               /\ (\E w \in Runners : runner[b][w].pc \in Moving) =>
                    loopOf[b].committed \subseteq processed' \cup inherited'
    <3>1. CASE ~renew
      BY <3>1, <1>1, <1>3 DEF CommitsHonest
    <3>2. CASE renew
      <4>1. loopOf[b].chain = <<>> /\ \A w \in Runners : runner[b][w].pc \notin Moving
        <5>1. CASE b <= attempt
          BY <5>1, <3>2, <1>3, <1>4 DEF RunnersQuiet, Moving
        <5>2. CASE ~ (b <= attempt)
          BY <5>2, <1>1 DEF BatchShape, Moving
        <5> QED
          BY <5>1, <5>2
      <4> QED
        BY <4>1
    <3> QED
      BY <3>1, <3>2
  <2>3. loopOf'[a].committed = checkpointRow /\ Len(loopOf'[a].chain) = 0
    BY <1>7, <1>10
  <2> QED
    BY <2>1, <2>2, <2>3, <1>3, <1>10 DEF CommitsHonest, CheckpointHonest
<1>15. LastWriteIsAll'
  BY <1>3, <1>7, <1>10 DEF LastWriteIsAll
<1> QED
  BY <1>12, <1>13, <1>14, <1>15 DEF BatchInv

LEMMA DiesPreserves ==
  ASSUME BatchInv, WorkerDies, UNCHANGED continueOnError PROVE BatchInv'
<1>1. /\ BatchShape /\ CommitsHonest
      /\ \A b \in Attempts : PagesApart(loopOf[b], runner[b], bodies[b])
  BY DEF BatchInv
<1>2. /\ loopOf \in [Attempts -> LoopRecord] /\ attempt \in 0 .. BatchAttempts
      /\ batchFaults \in 0 .. MaxBatchFaults
  BY <1>1 DEF BatchShape
<1>3. /\ attempt > 0
      /\ batchFaults' \in 0 .. MaxBatchFaults
      /\ loopOf' = [a \in Attempts |-> IF loopOf[a].pc = "none" THEN loopOf[a]
                                       ELSE [loopOf[a] EXCEPT !.pc = "dead", !.chain = <<>>]]
      /\ runner' = [a \in Attempts |-> [w \in Runners |-> IdleRunner]]
      /\ UNCHANGED <<checkpointRow, attempt, batchGhosts>>
  <2>1. batchFaults' \in 0 .. MaxBatchFaults
    <3>1. batchFaults < MaxBatchFaults /\ batchFaults' = batchFaults + 1
      BY DEF WorkerDies, BatchFault
    <3> QED
      BY <3>1, <1>2, BatchAssumption
  <2> QED
    BY <2>1 DEF WorkerDies
<1>4. ASSUME NEW a \in Attempts
      PROVE  /\ loopOf'[a] \in LoopRecord
             /\ loopOf'[a].pc = IF loopOf[a].pc = "none" THEN "none" ELSE "dead"
             /\ loopOf'[a].committed = loopOf[a].committed
             /\ loopOf'[a].pending = loopOf[a].pending /\ loopOf'[a].cursor = loopOf[a].cursor
             /\ loopOf'[a].chain = <<>>
  <2>1. loopOf[a] \in LoopRecord
    BY <1>2
  <2>2. CASE loopOf[a].pc = "none"
    BY <2>1, <2>2, <1>1, <1>3 DEF BatchShape
  <2>3. CASE loopOf[a].pc # "none"
    <3> PICK none : none = <<>>
      OBVIOUS
    <3>1. loopOf'[a] = [loopOf[a] EXCEPT !.pc = "dead", !.chain = none]
      BY <2>3, <1>3
    <3>2. none \in Seq(SUBSET PageIds)
      OBVIOUS
    <3>3. loopOf'[a] \in LoopRecord
      BY <2>1, <3>1, <3>2 DEF LoopRecord
    <3>4. /\ loopOf'[a].pc = "dead" /\ loopOf'[a].committed = loopOf[a].committed
          /\ loopOf'[a].pending = loopOf[a].pending /\ loopOf'[a].cursor = loopOf[a].cursor
          /\ loopOf'[a].chain = none
      BY <2>1, <3>1 DEF LoopRecord
    <3> QED
      BY <2>3, <3>3, <3>4
  <2> QED
    BY <2>2, <2>3
<1>5. \A a \in Attempts, w \in Runners : runner'[a][w] = [pc |-> "off", page |-> 0]
  BY <1>3 DEF IdleRunner
<1>6. ASSUME NEW a \in Attempts
      PROVE  PagesApart(loopOf'[a], runner'[a], bodies'[a]) /\ PagesCovered(loopOf'[a], runner'[a])
  <2>1. Ahead(loopOf'[a]) = Ahead(loopOf[a])
    BY <1>4 DEF Ahead
  <2>2. Len(loopOf'[a].chain) <= Cardinality(loopOf'[a].committed)
    BY <1>4, CommittedFinite
  <2>3. \A w \in Runners : runner'[a][w].pc = "off"
    BY <1>5
  <2>4. PagesApart(loopOf'[a], runner'[a], bodies[a])
    BY <2>1, <2>2, <2>3, <1>1, <1>4 DEF PagesApart, InHand
  <2>5. PagesCovered(loopOf'[a], runner'[a])
    BY <1>4 DEF PagesCovered
  <2> QED
    BY <2>4, <2>5, <1>3 DEF batchGhosts
<1>7. BatchShape'
  <2>1. loopOf' \in [Attempts -> LoopRecord]
    BY <1>3, <1>4
  <2>2. runner' \in [Attempts -> [Runners -> RunnerRecord]]
    <3>1. IdleRunner \in RunnerRecord
      BY DEF IdleRunner, RunnerRecord
    <3> QED
      BY <3>1, <1>3
  <2>3. \A a \in Attempts, w \in Runners : runner'[a][w].pc = "off"
    BY <1>5
  <2>4. /\ checkpointRow' \subseteq PageIds /\ attempt' \in 0 .. BatchAttempts
        /\ bodies' = bodies /\ bodies \in [Attempts -> [PageIds -> Nat]]
        /\ continueOnError' \in BOOLEAN
    BY <1>1, <1>3 DEF BatchShape, batchGhosts
  <2>5. \A a \in Attempts : /\ loopOf'[a].chain = <<>>
                            /\ loopOf'[a].pc = "none" <=> loopOf[a].pc = "none"
    BY <1>4
  <2>6. \A a \in Attempts : a <= attempt' <=> loopOf'[a].pc # "none"
    BY <2>5, <1>1, <1>3 DEF BatchShape
  <2>7. \A a \in Attempts : loopOf'[a].pc = "none" => \A i \in PageIds : bodies'[a][i] = 0
    BY <2>4, <2>5, <1>1 DEF BatchShape
  <2> QED
    BY <2>1, <2>2, <2>3, <2>4, <2>5, <2>6, <2>7, <1>3 DEF BatchShape
<1>8. CommitsHonest'
  <2>1. \A a \in Attempts, w \in Runners : runner'[a][w].pc \notin Moving
    BY <1>5 DEF Moving
  <2>2. \A a \in Attempts : Len(loopOf'[a].chain) = 0
    BY <1>4
  <2>3. processed' = processed /\ inherited' = inherited /\ attempt' = attempt
    BY <1>3 DEF batchGhosts
  <2>4. CheckpointHonest'
    BY <2>3, <1>1, <1>3 DEF CommitsHonest, CheckpointHonest
  <2>5. \A a \in Attempts : \A c \in 1 .. Len(loopOf'[a].chain) :
          loopOf'[a].chain[c] \subseteq processed' \cup inherited'
    BY <2>2
  <2>6. \A a \in Attempts : a = attempt' => loopOf'[a].committed \subseteq processed' \cup inherited'
    BY <2>3, <1>1, <1>4 DEF CommitsHonest
  <2> QED
    BY <2>1, <2>4, <2>5, <2>6 DEF CommitsHonest
<1>9. LastWriteIsAll'
  <2>1. \A a \in Attempts : a = attempt => loopOf'[a].pc = "dead"
    <3>1. \A a \in Attempts : a = attempt => a <= attempt
      BY <1>2, BatchAssumption
    <3> QED
      BY <3>1, <1>1, <1>4 DEF BatchShape
  <2> QED
    BY <2>1, <1>3 DEF LastWriteIsAll
<1> QED
  BY <1>6, <1>7, <1>8, <1>9 DEF BatchInv

LEMMA BatchStepPreserves == BatchInv /\ [BatchNext]_batchVars => BatchInv'
<1> SUFFICES ASSUME BatchInv, [BatchNext]_batchVars PROVE BatchInv'
  OBVIOUS
<1>1. CASE UNCHANGED batchVars
  BY <1>1 DEF batchVars, batchGhosts, BatchInv, BatchShape, CommitsHonest, CheckpointHonest,
              LastWriteIsAll
<1>2. CASE BatchNext
  <2>1. UNCHANGED continueOnError
    BY <1>2 DEF BatchNext
  <2>2. CASE BeginAttempt
    BY <2>1, <2>2, BeginPreserves
  <2>3. CASE WorkerDies
    BY <2>1, <2>3, DiesPreserves
  <2>4. ASSUME NEW a \in Attempts, WriteCheckpoint(a) PROVE BatchInv'
    BY <2>1, <2>4, WriteCheckpointPreserves
  <2>5. ASSUME NEW a \in Attempts, WriteFails(a) PROVE BatchInv'
    BY <2>1, <2>5, WriteFailsPreserves
  <2>6. ASSUME NEW a \in Attempts, NodeThrows(a) \/ NodeReturns(a) PROVE BatchInv'
    BY <2>1, <2>6, NodeEndsPreserves
  <2>7. ASSUME NEW a \in Attempts, NEW w \in Runners, Take(a, w) PROVE BatchInv'
    BY <2>1, <2>7, TakePreserves
  <2>8. ASSUME NEW a \in Attempts, NEW w \in Runners, Load(a, w) PROVE BatchInv'
    BY <2>1, <2>8, LoadPreserves
  <2>9. ASSUME NEW a \in Attempts, NEW w \in Runners, LoadFails(a, w) PROVE BatchInv'
    <3>1. batchFaults' \in 0 .. MaxBatchFaults
      BY <2>9, BatchAssumption DEF LoadFails, BatchFault, BatchInv, BatchShape
    <3> QED
      BY <2>1, <2>9, <3>1, StopPreserves DEF LoadFails
  <2>10. ASSUME NEW a \in Attempts, NEW w \in Runners, BodyDone(a, w) PROVE BatchInv'
    BY <2>1, <2>10, BodyDonePreserves
  <2>11. ASSUME NEW a \in Attempts, NEW w \in Runners, BodyFails(a, w) PROVE BatchInv'
    BY <2>1, <2>11, BodyFailsPreserves
  <2> QED
    BY <1>2, <2>2, <2>3, <2>4, <2>5, <2>6, <2>7, <2>8, <2>9, <2>10, <2>11
    DEF BatchNext, BatchStep
<1> QED
  BY <1>1, <1>2

LEMMA BatchInvIsSafe == BatchInv => BatchSafe
<1> SUFFICES ASSUME BatchInv PROVE BatchSafe
  OBVIOUS
<1>1. BatchShape /\ CommitsHonest /\ LastWriteIsAll
  BY DEF BatchInv
<1>2. BatchTypeOK
  <2>1. ASSUME NEW a \in Attempts
        PROVE  /\ loopOf[a] \in LoopRecord /\ runner[a] \in [Runners -> RunnerRecord]
               /\ loopOf[a].cursor \in 0 .. Len(loopOf[a].pending)
               /\ Len(loopOf[a].chain) <= Pages
    <3>1. loopOf[a] \in LoopRecord /\ runner[a] \in [Runners -> RunnerRecord]
      BY <1>1 DEF BatchShape
    <3>2. /\ loopOf[a].cursor <= Len(loopOf[a].pending)
          /\ Len(loopOf[a].chain) <= Cardinality(loopOf[a].committed)
      BY DEF BatchInv, PagesApart
    <3>3. /\ loopOf[a].pending \in Seq(PageIds) /\ loopOf[a].cursor \in Nat
          /\ loopOf[a].chain \in Seq(SUBSET PageIds) /\ loopOf[a].committed \subseteq PageIds
      BY <3>1 DEF LoopRecord
    <3>4. IsFiniteSet(0 .. Pages - 1) /\ Cardinality(0 .. Pages - 1) = Pages
      BY FS_Interval, BatchAssumption
    <3>5. Cardinality(loopOf[a].committed) <= Pages /\ Cardinality(loopOf[a].committed) \in Nat
      <4>1. loopOf[a].committed \subseteq 0 .. Pages - 1
        BY <3>3 DEF PageIds
      <4>2. Cardinality(loopOf[a].committed) <= Cardinality(0 .. Pages - 1)
        BY <3>4, <4>1, FS_Subset
      <4> QED
        BY <4>2, <3>1, <3>4, CommittedFinite
    <3>6. Len(loopOf[a].chain) \in Nat /\ Len(loopOf[a].pending) \in Nat
      BY <3>3
    <3>7. Len(loopOf[a].chain) <= Pages
      BY <3>2, <3>5, <3>6, BatchAssumption
    <3> QED
      BY <3>1, <3>2, <3>3, <3>6, <3>7
  <2> QED
    BY <2>1, <1>1 DEF BatchTypeOK, BatchShape, LoopRecord, RunnerRecord
<1>3. CheckpointHonest
  BY <1>1 DEF CommitsHonest
<1>4. SummaryHonest
  <2> SUFFICES ASSUME NEW a \in Attempts, a = attempt, loopOf[a].pc = "ended",
                      loopOf[a].failed = {}
               PROVE  PageIds \subseteq processed \cup inherited
    BY DEF SummaryHonest
  <2>1. PagesCovered(loopOf[a], runner[a])
    BY DEF BatchInv
  <2>2. PICK w \in Runners : TRUE
    BY BatchAssumption
  <2>3. (\A v \in Runners : runner[a][v].pc = "done") /\ Ahead(loopOf[a]) = {}
    BY <2>1, <2>2 DEF PagesCovered
  <2>4. PageIds \subseteq loopOf[a].committed
    BY <2>1, <2>3 DEF PagesCovered, InHand
  <2> QED
    BY <2>4, <1>1 DEF CommitsHonest
<1>5. OncePerAttempt
  BY DEF BatchInv, PagesApart, OncePerAttempt
<1>6. ProgressKept
  <2> SUFFICES ASSUME attempt > 0, loopOf[attempt].pc \in {"ended", "failed"},
                      ~loopOf[attempt].broken, RunnersQuiet(attempt),
                      \A b \in 1 .. attempt - 1 : loopOf[b].pc = "dead"
               PROVE  loopOf[attempt].committed \subseteq checkpointRow
    <3>1. attempt > 0 => attempt \in 1 .. attempt
      BY <1>1 DEF BatchShape
    <3> QED
      BY <3>1 DEF ProgressKept
  <2>1. attempt \in Attempts
    BY <1>1, BatchAssumption DEF BatchShape, Attempts
  <2>2. loopOf[attempt].chain = <<>>
    BY DEF RunnersQuiet
  <2> QED
    BY <2>1, <2>2, <1>1 DEF LastWriteIsAll
<1> QED
  BY <1>2, <1>3, <1>4, <1>5, <1>6 DEF BatchSafe

\* foreach_batch (forEachBatchPlugin) keeps a checkpoint that can be trusted,
\* for any number of pages, runners and attempts: only pages whose body ran to
\* its end are in it, none is lost by an attempt that ended, no attempt starts a
\* page twice, and a summary without failed pages is the truth.
THEOREM BatchLoopIsSafe == BatchSpec => []BatchSafe
<1>1. BatchSpec => []BatchInv
  BY BatchStarts, BatchStepPreserves, PTL DEF BatchSpec
<1> QED
  BY <1>1, BatchInvIsSafe, PTL

-----------------------------------------------------------------------------
(* Datasets: the tables.                                                   *)

Ids == DatasetIds \cup {NoId}
Vers == DatasetVersions \cup {NoId}

DatasetRecord ==
    [scope : Scopes \cup {"", "deleted"}, archived : BOOLEAN, current : Vers]
VersionRecord == [of : Ids, label : Nat]
EditRecord ==
    [step : {"idle", "count", "insert", "current", "alias", "delete"}, of : Ids,
     first : BOOLEAN, count : Nat, label : Nat, version : Vers]
LookupRecord ==
    [step : {"idle", "bound", "environment", "tenant", "global", "alias", "version", "done"},
     of : Ids, current : Vers, version : Vers]

\* A dataset is there in the table ds.
Live(ds, d) == ds[d].scope \in Scopes

DatasetsShape ==
    /\ datasets \in [DatasetIds -> DatasetRecord]
    /\ versionRow \in [DatasetVersions -> VersionRecord]
    /\ stable \in [DatasetIds -> Vers]
    /\ bound \in [Tiers -> Ids]
    /\ editor \in [Editors -> EditRecord]
    /\ edits \in 0 .. MaxEdits /\ drops \in 0 .. MaxDrops
    /\ firsts \in [DatasetIds -> Nat]

\* The foreign keys, and rows that are not there hold nothing.
Keys ==
    /\ \A d \in DatasetIds :
         /\ datasets[d].current # NoId => versionRow[datasets[d].current].of = d
         /\ stable[d] # NoId => versionRow[stable[d]].of = d
         /\ ~Exists(d) => /\ datasets[d] \in {NoDataset, GoneDataset}
                          /\ stable[d] = NoId
         /\ datasets[d] = NoDataset => firsts[d] = 0
         /\ IsFiniteSet(VersionsOf(d))
    /\ \A v \in DatasetVersions : versionRow[v].of # NoId => Live(datasets, versionRow[v].of)
    /\ \A t \in Tiers : bound[t] # NoId => Live(datasets, bound[t])

\* What a request x holds: a dataset that was there in the table ds, and a
\* version of it in the table vr.
HoldsRows(x, ds, vr) ==
    /\ x.step = "idle" => x = NoEdit
    /\ x.step # "idle" => /\ x.of \in DatasetIds
                          /\ ds[x.of] # NoDataset
    /\ x.step \in {"current", "alias"} =>
         /\ x.first /\ x.version \in DatasetVersions
         /\ Live(ds, x.of) => vr[x.version].of = x.of
    /\ x.step = "delete" => ~x.first

\* The labels of a dataset are dense, and no request has counted too many.
Dense(d) ==
    d \notin touched =>
        /\ {versionRow[v].label : v \in VersionsOf(d)} = 1 .. Cardinality(VersionsOf(d))
        /\ \A e \in Editors : editor[e].of = d =>
             /\ editor[e].label = 0
             /\ (editor[e].step = "insert" /\ Exists(d)) =>
                    editor[e].count <= Cardinality(VersionsOf(d))

\* A request for dataset d that saw no current version.
FirstOf(e, d) == editor[e].of = d /\ editor[e].first

\* A version that is neither current nor stable is in the hands of a request.
VersionInHand(d) ==
    /\ VersionsOf(d) # {} /\ datasets[d].current = NoId =>
         \E e \in Editors : editor[e].of = d /\ editor[e].step = "current"
    /\ VersionsOf(d) # {} /\ stable[d] = NoId =>
         \E e \in Editors : editor[e].of = d /\ editor[e].step \in {"current", "alias"}
    /\ \A e \in Editors :
         (editor[e].of = d /\ ~editor[e].first /\ editor[e].step \in {"count", "insert"}) =>
            datasets[d].current # NoId

\* One request at most that saw no current version sets both to the same.
SetOnce(d) ==
    firsts[d] <= 1 =>
        /\ \A e, f \in Editors : FirstOf(e, d) /\ FirstOf(f, d) => e = f
        /\ firsts[d] = 0 => \A e \in Editors : ~FirstOf(e, d)
        /\ \A e \in Editors :
             (FirstOf(e, d) /\ editor[e].step \in {"count", "insert", "current"}) =>
                datasets[d].current = NoId /\ stable[d] = NoId
        /\ \A e \in Editors :
             (editor[e].of = d /\ editor[e].step = "alias") =>
                editor[e].version = datasets[d].current
        /\ \/ datasets[d].current = stable[d]
           \/ \E e \in Editors : editor[e].of = d /\ editor[e].step = "alias"

Settles(d) == d \notin touched /\ Exists(d) => VersionInHand(d) /\ SetOnce(d)

TablesInv ==
    /\ DatasetsShape /\ Keys
    /\ \A e \in Editors : HoldsRows(editor[e], datasets, versionRow)
    /\ \A d \in DatasetIds : Dense(d) /\ Settles(d)

LEMMA DatasetConstants ==
    /\ NoId = 0 /\ NoId \notin DatasetIds /\ NoId \notin DatasetVersions
    /\ DatasetIds \subseteq Nat /\ DatasetVersions \subseteq Nat
    /\ 1 \in DatasetIds /\ 2 \in DatasetIds /\ 1 \in DatasetVersions /\ 2 \in DatasetVersions
    /\ MaxEdits \in Nat /\ MaxDrops \in Nat /\ ChosenLabels \subseteq Nat \ {0}
    /\ NoId \in Ids /\ NoId \in Vers
    /\ Scopes = {"environment", "tenant", "global"} /\ Tiers = {"environment", "tenant"}
<1>1. NoId = 0
  BY DEF NoId
<1> QED
  BY <1>1, DatasetsConstants DEF Ids, Vers, Scopes, Tiers

LEMMA Blanks ==
    /\ NoDataset \in DatasetRecord /\ GoneDataset \in DatasetRecord
    /\ NoDataset.scope = "" /\ GoneDataset.scope = "deleted"
    /\ NoDataset.current = NoId /\ GoneDataset.current = NoId
    /\ NoVersion \in VersionRecord /\ NoVersion.of = NoId
    /\ NoEdit \in EditRecord /\ NoEdit.step = "idle" /\ NoEdit.of = NoId /\ ~NoEdit.first
<1>1. /\ NoDataset \in DatasetRecord /\ NoDataset.scope = "" /\ NoDataset.current = NoId
  BY DatasetConstants DEF NoDataset, DatasetRecord
<1>2. /\ GoneDataset \in DatasetRecord /\ GoneDataset.scope = "deleted"
      /\ GoneDataset.current = NoId
  BY DatasetConstants DEF GoneDataset, NoDataset, DatasetRecord
<1>3. NoVersion \in VersionRecord /\ NoVersion.of = NoId
  BY DatasetConstants DEF NoVersion, VersionRecord
<1>4. NoEdit \in EditRecord /\ NoEdit.step = "idle" /\ NoEdit.of = NoId /\ ~NoEdit.first
  BY DatasetConstants DEF NoEdit, EditRecord
<1> QED
  BY <1>1, <1>2, <1>3, <1>4

\* The fields of the rows.
LEMMA RowTypes ==
    ASSUME DatasetsShape
    PROVE  /\ \A d \in DatasetIds :
                /\ datasets[d] \in DatasetRecord /\ datasets[d].current \in Vers
                /\ stable[d] \in Vers /\ firsts[d] \in Nat
           /\ \A v \in DatasetVersions :
                /\ versionRow[v] \in VersionRecord /\ versionRow[v].of \in Ids
                /\ versionRow[v].label \in Nat
           /\ \A e \in Editors :
                /\ editor[e] \in EditRecord /\ editor[e].of \in Ids
                /\ editor[e].first \in BOOLEAN /\ editor[e].count \in Nat
                /\ editor[e].label \in Nat /\ editor[e].version \in Vers
<1>1. ASSUME NEW d \in DatasetIds
      PROVE  /\ datasets[d] \in DatasetRecord /\ datasets[d].current \in Vers
             /\ stable[d] \in Vers /\ firsts[d] \in Nat
  BY DEF DatasetsShape, DatasetRecord
<1>2. ASSUME NEW v \in DatasetVersions
      PROVE  /\ versionRow[v] \in VersionRecord /\ versionRow[v].of \in Ids
             /\ versionRow[v].label \in Nat
  BY DEF DatasetsShape, VersionRecord
<1>3. ASSUME NEW e \in Editors
      PROVE  /\ editor[e] \in EditRecord /\ editor[e].of \in Ids
             /\ editor[e].first \in BOOLEAN /\ editor[e].count \in Nat
             /\ editor[e].label \in Nat /\ editor[e].version \in Vers
  BY DEF DatasetsShape, EditRecord
<1> QED
  BY <1>1, <1>2, <1>3

LEMMA TablesStart == DatasetsInit => TablesInv
<1> SUFFICES ASSUME DatasetsInit PROVE TablesInv
  OBVIOUS
<1>1. PICK built \in SUBSET {1, 2}, overridden \in BOOLEAN :
        /\ datasets = [d \in DatasetIds |->
               IF d \notin {1, 2} THEN NoDataset
               ELSE [scope |-> IF d = 1 THEN "tenant" ELSE "global", archived |-> FALSE,
                     current |-> IF d \in built THEN d ELSE NoId]]
        /\ versionRow = [v \in DatasetVersions |->
               IF v \in built THEN [of |-> v, label |-> 1] ELSE NoVersion]
        /\ stable = [d \in DatasetIds |-> IF d \in built THEN d ELSE NoId]
        /\ bound = [t \in Tiers |-> IF ~overridden THEN NoId
                                    ELSE IF t = "environment" THEN 1 ELSE 2]
        /\ editor = [e \in Editors |-> NoEdit]
        /\ edits = MaxEdits /\ drops = MaxDrops
        /\ firsts = [d \in DatasetIds |-> 0] /\ touched = {}
  BY DEF DatasetsInit
<1>2. built \subseteq DatasetIds /\ built \subseteq DatasetVersions
  BY DatasetConstants
<1>3. \A d \in DatasetIds : d \in {1, 2} =>
        /\ datasets[d].scope = (IF d = 1 THEN "tenant" ELSE "global")
        /\ datasets[d].current = (IF d \in built THEN d ELSE NoId)
        /\ Exists(d) /\ datasets[d] # NoDataset
  <2> SUFFICES ASSUME NEW d \in DatasetIds, d \in {1, 2}
               PROVE  /\ datasets[d].scope = (IF d = 1 THEN "tenant" ELSE "global")
                      /\ datasets[d].current = (IF d \in built THEN d ELSE NoId)
                      /\ Exists(d) /\ datasets[d] # NoDataset
    OBVIOUS
  <2>1. datasets[d] = [scope |-> IF d = 1 THEN "tenant" ELSE "global", archived |-> FALSE,
                       current |-> IF d \in built THEN d ELSE NoId]
    BY <1>1
  <2>2. /\ datasets[d].scope = (IF d = 1 THEN "tenant" ELSE "global")
        /\ datasets[d].current = (IF d \in built THEN d ELSE NoId)
    BY <2>1
  <2> QED
    BY <2>2, DatasetConstants, Blanks DEF Exists
<1>4. \A d \in DatasetIds : d \notin {1, 2} => datasets[d] = NoDataset /\ ~Exists(d)
  BY <1>1, DatasetConstants, Blanks DEF Exists
<1>5. \A v \in DatasetVersions :
        /\ v \in built => versionRow[v].of = v /\ versionRow[v].label = 1
        /\ v \notin built => versionRow[v].of = NoId
  BY <1>1, Blanks
<1>6. \A d \in DatasetIds : VersionsOf(d) = {d} \cap built
  <2> TAKE d \in DatasetIds
  <2>1. ASSUME NEW v \in DatasetVersions PROVE versionRow[v].of = d <=> v = d /\ v \in built
    BY <1>5, DatasetConstants
  <2> QED
    BY <1>2, <2>1 DEF VersionsOf
<1>7. DatasetsShape
  <2>1. datasets \in [DatasetIds -> DatasetRecord]
    <3> SUFFICES ASSUME NEW d \in DatasetIds PROVE datasets[d] \in DatasetRecord
      BY <1>1
    <3>1. CASE d \in {1, 2}
      <4>1. (IF d \in built THEN d ELSE NoId) \in Vers
        BY <1>2, DatasetConstants DEF Vers
      <4> QED
        BY <3>1, <4>1, <1>1, DatasetConstants DEF DatasetRecord
    <3>2. CASE d \notin {1, 2}
      BY <3>2, <1>4, Blanks
    <3> QED
      BY <3>1, <3>2
  <2>2. versionRow \in [DatasetVersions -> VersionRecord]
    <3> SUFFICES ASSUME NEW v \in DatasetVersions PROVE versionRow[v] \in VersionRecord
      BY <1>1
    <3>1. v \in built => v \in Ids
      BY <1>2 DEF Ids
    <3> QED
      BY <3>1, <1>1, Blanks DEF VersionRecord
  <2>3. stable \in [DatasetIds -> Vers] /\ bound \in [Tiers -> Ids]
    BY <1>1, <1>2, DatasetConstants DEF Vers, Ids
  <2>4. editor \in [Editors -> EditRecord] /\ firsts \in [DatasetIds -> Nat]
    BY <1>1, Blanks
  <2> QED
    BY <2>1, <2>2, <2>3, <2>4, <1>1, DatasetConstants DEF DatasetsShape
<1>8. Keys
  <2>1. ASSUME NEW d \in DatasetIds
        PROVE  /\ datasets[d].current # NoId => versionRow[datasets[d].current].of = d
               /\ stable[d] # NoId => versionRow[stable[d]].of = d
               /\ ~Exists(d) => /\ datasets[d] \in {NoDataset, GoneDataset}
                                /\ stable[d] = NoId
               /\ datasets[d] = NoDataset => firsts[d] = 0
    <3>1. stable[d] = (IF d \in built THEN d ELSE NoId) /\ firsts[d] = 0
      BY <1>1
    <3>2. CASE d \in {1, 2}
      BY <3>1, <3>2, <1>2, <1>3, <1>5
    <3>3. CASE d \notin {1, 2}
      BY <3>1, <3>3, <1>4, Blanks
    <3> QED
      BY <3>2, <3>3
  <2>2. ASSUME NEW d \in DatasetIds PROVE IsFiniteSet(VersionsOf(d))
    <3>1. IsFiniteSet({d})
      BY FS_Singleton
    <3> QED
      BY <3>1, <1>6, FS_Subset
  <2>3. ASSUME NEW v \in DatasetVersions, versionRow[v].of # NoId PROVE Live(datasets, versionRow[v].of)
    BY <2>3, <1>2, <1>3, <1>5 DEF Live, Exists
  <2>4. ASSUME NEW t \in Tiers, bound[t] # NoId PROVE Live(datasets, bound[t])
    <3>1. bound[t] \in {1, 2} /\ bound[t] \in DatasetIds
      BY <2>4, <1>1, DatasetConstants
    <3> QED
      BY <3>1, <1>3 DEF Live, Exists
  <2> QED
    BY <2>1, <2>2, <2>3, <2>4 DEF Keys
<1>9. \A e \in Editors : editor[e] = NoEdit
  BY <1>1
<1>10. \A e \in Editors : HoldsRows(editor[e], datasets, versionRow)
  BY <1>9, Blanks DEF HoldsRows
<1>11. ASSUME NEW d \in DatasetIds PROVE Dense(d)
  <2>1. \A e \in Editors : editor[e].of # d
    BY <1>9, Blanks, DatasetConstants
  <2>2. CASE d \in built
    <3>1. VersionsOf(d) = {d} /\ versionRow[d].label = 1
      BY <2>2, <1>2, <1>5, <1>6
    <3>2. Cardinality(VersionsOf(d)) = 1
      BY <3>1, FS_Singleton
    <3>3. {versionRow[v].label : v \in VersionsOf(d)} = {1} /\ 1 .. 1 = {1}
      BY <3>1
    <3> QED
      BY <2>1, <3>2, <3>3 DEF Dense
  <2>3. CASE d \notin built
    <3>1. VersionsOf(d) = {}
      BY <2>3, <1>6
    <3>2. Cardinality(VersionsOf(d)) = 0
      BY <3>1, FS_EmptySet
    <3>3. {versionRow[v].label : v \in VersionsOf(d)} = {} /\ 1 .. 0 = {}
      BY <3>1
    <3> QED
      BY <2>1, <3>2, <3>3 DEF Dense
  <2> QED
    BY <2>2, <2>3
<1>12. ASSUME NEW d \in DatasetIds PROVE Settles(d)
  <2>1. \A e \in Editors : editor[e].of # d
    BY <1>9, Blanks, DatasetConstants
  <2>2. Exists(d) => d \in {1, 2}
    BY <1>4
  <2>3. stable[d] = (IF d \in built THEN d ELSE NoId)
    BY <1>1
  <2>4. Exists(d) => datasets[d].current = stable[d] /\ (VersionsOf(d) # {} => stable[d] # NoId)
    BY <2>2, <2>3, <1>3, <1>6, DatasetConstants
  <2> QED
    BY <2>1, <2>4 DEF Settles, VersionInHand, SetOnce, FirstOf
<1> QED
  BY <1>7, <1>8, <1>10, <1>11, <1>12 DEF TablesInv

-----------------------------------------------------------------------------
(* The requests.                                                           *)

\* What a step leaves alone of dataset d: its versions, its current version
\* and alias, its existence, and the requests for it.
Spared(d) ==
    /\ Exists(d)' = Exists(d) /\ datasets'[d].current = datasets[d].current
    /\ stable'[d] = stable[d] /\ firsts'[d] = firsts[d]
    /\ VersionsOf(d)' = VersionsOf(d)
    /\ \A v \in VersionsOf(d) : versionRow'[v] = versionRow[v]
    /\ d \in touched => d \in touched'
    /\ \A e \in Editors : editor[e].of = d \/ editor'[e].of = d => editor'[e] = editor[e]

LEMMA SparedKeeps ==
    ASSUME NEW d \in DatasetIds, Dense(d), Settles(d), Spared(d)
    PROVE  Dense(d)' /\ Settles(d)'
<1>1. Dense(d)'
  <2> SUFFICES ASSUME d \notin touched'
               PROVE  /\ {versionRow'[v].label : v \in VersionsOf(d)'} = 1 .. Cardinality(VersionsOf(d)')
                      /\ \A e \in Editors : editor'[e].of = d =>
                           /\ editor'[e].label = 0
                           /\ (editor'[e].step = "insert" /\ Exists(d)') =>
                                  editor'[e].count <= Cardinality(VersionsOf(d)')
    BY DEF Dense
  <2>1. d \notin touched
    BY DEF Spared
  <2>2. {versionRow'[v].label : v \in VersionsOf(d)'} = {versionRow[v].label : v \in VersionsOf(d)}
    BY DEF Spared
  <2>3. ASSUME NEW e \in Editors, editor'[e].of = d
        PROVE  /\ editor'[e].label = 0
               /\ (editor'[e].step = "insert" /\ Exists(d)') =>
                      editor'[e].count <= Cardinality(VersionsOf(d)')
    BY <2>1, <2>3 DEF Spared, Dense
  <2> QED
    BY <2>1, <2>2, <2>3 DEF Dense, Spared
<1>2. Settles(d)'
  <2> SUFFICES ASSUME d \notin touched', Exists(d)' PROVE VersionInHand(d)' /\ SetOnce(d)'
    BY DEF Settles
  <2>1. VersionInHand(d) /\ SetOnce(d)
    BY DEF Settles, Spared
  <2>2. VersionInHand(d)'
    BY <2>1 DEF VersionInHand, Spared
  <2>3. SetOnce(d)'
    BY <2>1 DEF SetOnce, FirstOf, Spared
  <2> QED
    BY <2>2, <2>3
<1> QED
  BY <1>1, <1>2

\* A step that leaves the tables alone.
LEMMA TablesAlone ==
    ASSUME TablesInv, UNCHANGED <<datasetRows, editor, firsts, touched>>,
           edits' \in 0 .. MaxEdits, drops' \in 0 .. MaxDrops
    PROVE  TablesInv'
<1>u. UNCHANGED <<datasets, versionRow, stable, bound, editor, firsts, touched>>
  BY DEF datasetRows
<1>1. DatasetsShape'
  BY <1>u DEF TablesInv, DatasetsShape
<1>2. \A d \in DatasetIds : Exists(d)' = Exists(d) /\ VersionsOf(d)' = VersionsOf(d)
  BY <1>u DEF Exists, VersionsOf
<1>3. Keys'
  BY <1>2, <1>u DEF TablesInv, Keys
<1>4. \A e \in Editors : HoldsRows(editor'[e], datasets', versionRow')
  BY <1>u DEF TablesInv
<1>5. ASSUME NEW d \in DatasetIds PROVE Dense(d)' /\ Settles(d)'
  <2>1. Spared(d)
    BY <1>u, <1>2 DEF Spared
  <2> QED
    BY <2>1, SparedKeeps DEF TablesInv
<1> QED
  BY <1>1, <1>3, <1>4, <1>5, <1>u DEF TablesInv

LEMMA EditCounted == ASSUME DatasetsShape, EditRequest PROVE edits' \in 0 .. MaxEdits
  BY DatasetConstants DEF DatasetsShape, EditRequest

LEMMA CreateDatasetKeeps ==
    ASSUME TablesInv, NEW s \in Scopes, CreateDataset(s) PROVE TablesInv'
<1>s. DatasetsShape /\ Keys
  BY DEF TablesInv
<1>1. PICK d \in FreshDataset : datasets' = [datasets EXCEPT ![d] = [NoDataset EXCEPT !.scope = s]]
  BY DEF CreateDataset
<1>2. PICK z : z = [NoDataset EXCEPT !.scope = s]
  OBVIOUS
<1>3. z \in DatasetRecord /\ z.scope = s /\ z.current = NoId
  BY <1>2, Blanks DEF DatasetRecord
<1>4. /\ d \in DatasetIds /\ datasets[d] = NoDataset /\ ~Exists(d)
      /\ datasets[d].current = NoId
  BY Blanks, DatasetConstants DEF FreshDataset, Exists
<1>5. datasets' = [datasets EXCEPT ![d] = z]
  BY <1>1, <1>2
<1>6. datasets'[d] = z /\ \A e \in DatasetIds : e # d => datasets'[e] = datasets[e]
  BY <1>s, <1>4, <1>5 DEF DatasetsShape
<1>u. /\ UNCHANGED <<versionRow, stable, bound, touched, editor, drops, firsts>>
      /\ edits' \in 0 .. MaxEdits
  BY <1>s, EditCounted DEF CreateDataset, Rest
<1>7. DatasetsShape'
  <2>1. datasets' \in [DatasetIds -> DatasetRecord]
    BY <1>s, <1>3, <1>5 DEF DatasetsShape
  <2> QED
    BY <2>1, <1>s, <1>u DEF DatasetsShape
<1>8. Exists(d)' /\ z # NoDataset
  BY <1>3, <1>6, Blanks, DatasetConstants DEF Exists
<1>9. \A e \in DatasetIds : e # d => Exists(e)' = Exists(e)
  BY <1>6 DEF Exists
<1>10. \A e : VersionsOf(e)' = VersionsOf(e)
  BY <1>u DEF VersionsOf
<1>11. Keys'
  <2>1. ASSUME NEW e \in DatasetIds
        PROVE  /\ datasets'[e].current # NoId => versionRow'[datasets'[e].current].of = e
               /\ stable'[e] # NoId => versionRow'[stable'[e]].of = e
               /\ ~Exists(e)' => /\ datasets'[e] \in {NoDataset, GoneDataset}
                                 /\ stable'[e] = NoId
               /\ datasets'[e] = NoDataset => firsts'[e] = 0
               /\ IsFiniteSet(VersionsOf(e)')
    <3>1. CASE e = d
      BY <3>1, <1>3, <1>4, <1>6, <1>8, <1>10, <1>s, <1>u DEF Keys
    <3>2. CASE e # d
      BY <3>2, <1>6, <1>9, <1>10, <1>s, <1>u DEF Keys
    <3> QED
      BY <3>1, <3>2
  <2>2. ASSUME NEW v \in DatasetVersions, versionRow[v].of # NoId PROVE Live(datasets', versionRow[v].of)
    <3>1. Live(datasets, versionRow[v].of) /\ versionRow[v].of \in DatasetIds
      BY <2>2, <1>s, RowTypes DEF Keys, Ids
    <3> QED
      BY <3>1, <1>4, <1>6 DEF Live, Exists
  <2>3. ASSUME NEW t \in Tiers, bound[t] # NoId PROVE Live(datasets', bound[t])
    <3>1. Live(datasets, bound[t]) /\ bound[t] \in DatasetIds
      BY <2>3, <1>s DEF Keys, DatasetsShape, Ids
    <3> QED
      BY <3>1, <1>4, <1>6 DEF Live, Exists
  <2> QED
    BY <2>1, <2>2, <2>3, <1>u DEF Keys
<1>12. ASSUME NEW e \in Editors PROVE HoldsRows(editor'[e], datasets', versionRow') /\ editor[e].of # d
  <2>0. HoldsRows(editor[e], datasets, versionRow)
    BY DEF TablesInv
  <2>1. editor[e].of # d
    BY <2>0, <1>4, Blanks, DatasetConstants DEF HoldsRows
  <2>2. editor[e].of \in DatasetIds =>
           /\ datasets'[editor[e].of] = datasets[editor[e].of]
           /\ Live(datasets', editor[e].of) = Live(datasets, editor[e].of)
    BY <2>1, <1>6 DEF Live
  <2>3. editor'[e] = editor[e] /\ versionRow' = versionRow
    BY <1>u
  <2>4. HoldsRows(editor[e], datasets', versionRow')
    BY <2>0, <2>2, <2>3 DEF HoldsRows
  <2> QED
    BY <2>1, <2>3, <2>4
<1>13. ASSUME NEW e \in DatasetIds PROVE Dense(e)' /\ Settles(e)'
  <2>1. CASE e # d
    <3>1. Spared(e)
      BY <2>1, <1>6, <1>9, <1>10, <1>u DEF Spared
    <3> QED
      BY <3>1, SparedKeeps DEF TablesInv
  <2>2. CASE e = d
    <3>0. VersionsOf(d) = {}
      <4>1. ASSUME NEW v \in VersionsOf(d) PROVE FALSE
        <5>1. v \in DatasetVersions /\ versionRow[v].of = d
          BY <4>1 DEF VersionsOf
        <5>2. Live(datasets, versionRow[v].of)
          BY <5>1, <1>4, <1>s, DatasetConstants DEF Keys
        <5> QED
          BY <5>1, <5>2, <1>4 DEF Live, Exists
      <4> QED
        BY <4>1
    <3>1. \A f \in Editors : editor[f].of # d /\ editor'[f].of # d
      BY <1>12, <1>u
    <3>2. Dense(d)'
      <4>1. Dense(d)
        BY <1>4 DEF TablesInv
      <4>2. \A v : versionRow'[v].label = versionRow[v].label
        BY <1>u
      <4>3. {versionRow'[v].label : v \in VersionsOf(d)'} = {versionRow[v].label : v \in VersionsOf(d)}
        BY <4>2, <1>10
      <4> QED
        BY <3>1, <4>1, <4>3, <1>10, <1>u DEF Dense
    <3>3. stable'[d] = NoId /\ datasets'[d].current = NoId
      BY <1>3, <1>4, <1>6, <1>s, <1>u DEF Keys
    <3>4. Settles(d)'
      BY <3>0, <3>1, <3>3, <1>10 DEF Settles, VersionInHand, SetOnce, FirstOf
    <3> QED
      BY <2>2, <3>2, <3>4
  <2> QED
    BY <2>1, <2>2
<1> QED
  BY <1>7, <1>11, <1>12, <1>13 DEF TablesInv

\* A dataset is archived or taken back: nothing refers to that.
LEMMA PatchArchivedKeeps ==
    ASSUME TablesInv, NEW d \in DatasetIds, NEW a \in BOOLEAN, PatchArchived(d, a)
    PROVE  TablesInv'
<1>s. DatasetsShape /\ Keys
  BY DEF TablesInv
<1>1. PICK z : z = [datasets[d] EXCEPT !.archived = a]
  OBVIOUS
<1>2. datasets[d] \in DatasetRecord
  BY <1>s, RowTypes
<1>3. z \in DatasetRecord /\ z.scope = datasets[d].scope /\ z.current = datasets[d].current
  BY <1>1, <1>2 DEF DatasetRecord
<1>4. datasets' = [datasets EXCEPT ![d] = z]
  BY <1>1, <1>2, <1>s DEF PatchArchived, DatasetsShape, DatasetRecord
<1>5. /\ datasets' \in [DatasetIds -> DatasetRecord]
      /\ datasets'[d] = z /\ \A e \in DatasetIds : e # d => datasets'[e] = datasets[e]
  BY <1>s, <1>3, <1>4 DEF DatasetsShape
<1>u. /\ UNCHANGED <<versionRow, stable, bound, touched, editor, drops, firsts>>
      /\ edits' \in 0 .. MaxEdits /\ Exists(d)
  BY <1>s, EditCounted DEF PatchArchived, Rest
<1>6. \A e \in DatasetIds :
         /\ datasets'[e].scope = datasets[e].scope /\ datasets'[e].current = datasets[e].current
         /\ Live(datasets', e) = Live(datasets, e) /\ Exists(e)' = Exists(e)
         /\ ~Exists(e) => datasets'[e] = datasets[e]
  BY <1>3, <1>5, <1>u DEF Live, Exists
<1>7. \A e \in DatasetIds : Exists(e) => datasets[e] # NoDataset /\ datasets'[e] # NoDataset
  BY <1>6, Blanks, DatasetConstants DEF Exists
<1>8. \A e : VersionsOf(e)' = VersionsOf(e)
  BY <1>u DEF VersionsOf
<1>9. DatasetsShape'
  BY <1>s, <1>5, <1>u DEF DatasetsShape
<1>10. Keys'
  <2>1. ASSUME NEW e \in DatasetIds
        PROVE  /\ datasets'[e].current # NoId => versionRow'[datasets'[e].current].of = e
               /\ stable'[e] # NoId => versionRow'[stable'[e]].of = e
               /\ ~Exists(e)' => /\ datasets'[e] \in {NoDataset, GoneDataset}
                                 /\ stable'[e] = NoId
               /\ datasets'[e] = NoDataset => firsts'[e] = 0
               /\ IsFiniteSet(VersionsOf(e)')
    BY <1>6, <1>7, <1>8, <1>s, <1>u DEF Keys
  <2>2. ASSUME NEW v \in DatasetVersions, versionRow[v].of # NoId
        PROVE  Live(datasets', versionRow[v].of)
    <3>1. Live(datasets, versionRow[v].of) /\ versionRow[v].of \in DatasetIds
      BY <2>2, <1>s, RowTypes DEF Keys, Ids
    <3> QED
      BY <3>1, <1>6
  <2>3. ASSUME NEW t \in Tiers, bound[t] # NoId PROVE Live(datasets', bound[t])
    <3>1. Live(datasets, bound[t]) /\ bound[t] \in DatasetIds
      BY <2>3, <1>s DEF Keys, DatasetsShape, Ids
    <3> QED
      BY <3>1, <1>6
  <2> QED
    BY <2>1, <2>2, <2>3, <1>u DEF Keys
<1>11. ASSUME NEW e \in Editors PROVE HoldsRows(editor'[e], datasets', versionRow')
  <2>0. HoldsRows(editor[e], datasets, versionRow)
    BY DEF TablesInv
  <2>1. editor[e].of \in DatasetIds =>
           /\ Live(datasets', editor[e].of) = Live(datasets, editor[e].of)
           /\ datasets[editor[e].of] # NoDataset => datasets'[editor[e].of] # NoDataset
    BY <1>6, <1>7
  <2> QED
    BY <2>0, <2>1, <1>u DEF HoldsRows
<1>12. ASSUME NEW e \in DatasetIds PROVE Dense(e)' /\ Settles(e)'
  <2>1. Spared(e)
    BY <1>6, <1>8, <1>u DEF Spared
  <2> QED
    BY <2>1, SparedKeeps DEF TablesInv
<1> QED
  BY <1>9, <1>10, <1>11, <1>12 DEF TablesInv

-----------------------------------------------------------------------------
(* Steps that leave the datasets and the version rows alone.               *)

LEMMA KeysStay ==
    ASSUME DatasetsShape, Keys, UNCHANGED <<datasets, versionRow>>,
           \A d \in DatasetIds :
              \/ stable'[d] = stable[d]
              \/ Exists(d) /\ (stable'[d] # NoId => versionRow[stable'[d]].of = d),
           \A t \in Tiers : bound'[t] # NoId => bound'[t] = bound[t] \/ Live(datasets, bound'[t]),
           \A d \in DatasetIds : datasets[d] = NoDataset => firsts'[d] = firsts[d]
    PROVE  Keys'
<1>1. \A d : VersionsOf(d)' = VersionsOf(d) /\ Exists(d)' = Exists(d)
  BY DEF VersionsOf, Exists
<1>2. ASSUME NEW d \in DatasetIds
      PROVE  /\ datasets'[d].current # NoId => versionRow'[datasets'[d].current].of = d
             /\ stable'[d] # NoId => versionRow'[stable'[d]].of = d
             /\ ~Exists(d)' => /\ datasets'[d] \in {NoDataset, GoneDataset}
                               /\ stable'[d] = NoId
             /\ datasets'[d] = NoDataset => firsts'[d] = 0
             /\ IsFiniteSet(VersionsOf(d)')
  BY <1>1 DEF Keys
<1>3. \A v \in DatasetVersions : versionRow'[v].of # NoId => Live(datasets', versionRow'[v].of)
  BY DEF Keys
<1>4. \A t \in Tiers : bound'[t] # NoId => Live(datasets', bound'[t])
  BY DEF Keys
<1> QED
  BY <1>2, <1>3, <1>4 DEF Keys

\* One request goes on to y, the tables being as they are.
LEMMA RequestsStay ==
    ASSUME TablesInv, NEW e \in Editors, NEW y \in EditRecord,
           editor' = [editor EXCEPT ![e] = y],
           UNCHANGED <<datasets, versionRow>>, HoldsRows(y, datasets, versionRow)
    PROVE  /\ editor' \in [Editors -> EditRecord]
           /\ editor'[e] = y /\ \A f \in Editors : f # e => editor'[f] = editor[f]
           /\ \A f \in Editors : HoldsRows(editor'[f], datasets', versionRow')
<1>1. /\ editor' \in [Editors -> EditRecord]
      /\ editor'[e] = y /\ \A f \in Editors : f # e => editor'[f] = editor[f]
  BY DEF TablesInv, DatasetsShape
<1> QED
  BY <1>1 DEF TablesInv

\* The steps of the routes that write no row but the alias and the overrides.
LEMMA PatchAliasKeeps ==
    ASSUME TablesInv, NEW d \in DatasetIds, NEW v \in DatasetVersions, PatchAlias(d, v)
    PROVE  TablesInv'
<1>s. DatasetsShape /\ Keys
  BY DEF TablesInv
<1>u. /\ UNCHANGED <<datasets, versionRow, bound, editor, drops, firsts>>
      /\ edits' \in 0 .. MaxEdits /\ stable' = [stable EXCEPT ![d] = v]
      /\ touched' = touched \cup {d} /\ v \in VersionsOf(d)
  BY <1>s, EditCounted DEF PatchAlias, Rest
<1>1. versionRow[v].of = d /\ v # NoId
  BY <1>u, DatasetConstants DEF VersionsOf
<1>2. /\ stable' \in [DatasetIds -> Vers] /\ stable'[d] = v
      /\ \A e \in DatasetIds : e # d => stable'[e] = stable[e]
  BY <1>s, <1>u DEF DatasetsShape, Vers
<1>3. DatasetsShape'
  BY <1>s, <1>2, <1>u DEF DatasetsShape
<1>4. Exists(d)
  BY <1>1, <1>s, DatasetConstants DEF Keys, Live, Exists
<1>5. Keys'
  <2>1. \A t \in Tiers : bound'[t] = bound[t]
    BY <1>u
  <2>2. \A e \in DatasetIds : firsts'[e] = firsts[e]
    BY <1>u
  <2> QED
    BY <2>1, <2>2, <1>s, <1>u, <1>1, <1>2, <1>4, KeysStay
<1>6. \A e \in Editors : HoldsRows(editor'[e], datasets', versionRow')
  BY <1>u DEF TablesInv
<1>7. ASSUME NEW e \in DatasetIds PROVE Dense(e)' /\ Settles(e)'
  <2>1. CASE e = d
    BY <2>1, <1>u DEF Dense, Settles
  <2>2. CASE e # d
    <3>1. Spared(e)
      BY <2>2, <1>2, <1>u DEF Spared, Exists, VersionsOf
    <3> QED
      BY <3>1, SparedKeeps DEF TablesInv
  <2> QED
    BY <2>1, <2>2
<1> QED
  BY <1>3, <1>5, <1>6, <1>7 DEF TablesInv

LEMMA PutBindingKeeps ==
    ASSUME TablesInv, NEW t \in Tiers, NEW d \in DatasetIds \cup {NoId}, PutBinding(t, d)
    PROVE  TablesInv'
<1>s. DatasetsShape /\ Keys
  BY DEF TablesInv
<1>u. /\ UNCHANGED <<datasets, versionRow, stable, touched, editor, drops, firsts>>
      /\ edits' \in 0 .. MaxEdits /\ bound' = [bound EXCEPT ![t] = d]
      /\ d # NoId => Exists(d)
  BY <1>s, EditCounted DEF PutBinding, Rest
<1>1. bound' \in [Tiers -> Ids] /\ \A u \in Tiers : bound'[u] = bound[u] \/ bound'[u] = d
  BY <1>s, <1>u DEF DatasetsShape, Ids
<1>2. DatasetsShape'
  BY <1>s, <1>1, <1>u DEF DatasetsShape
<1>3. Keys'
  <2>1. \A u \in Tiers : bound'[u] # NoId => bound'[u] = bound[u] \/ Live(datasets, bound'[u])
    BY <1>1, <1>u DEF Exists, Live
  <2>2. \A e \in DatasetIds : stable'[e] = stable[e] /\ firsts'[e] = firsts[e]
    BY <1>u
  <2> QED
    BY <2>1, <2>2, <1>s, <1>u, KeysStay
<1>4. \A e \in Editors : HoldsRows(editor'[e], datasets', versionRow')
  BY <1>u DEF TablesInv
<1>5. ASSUME NEW e \in DatasetIds PROVE Dense(e)' /\ Settles(e)'
  <2>1. Spared(e)
    BY <1>u DEF Spared, Exists, VersionsOf
  <2> QED
    BY <2>1, SparedKeeps DEF TablesInv
<1> QED
  BY <1>2, <1>3, <1>4, <1>5 DEF TablesInv

\* A request goes on, or ends, without a write: for every dataset but its own
\* nothing has changed.
LEMMA RequestGoes ==
    ASSUME TablesInv, NEW e \in Editors, NEW y \in EditRecord, NEW d \in DatasetIds,
           editor' = [editor EXCEPT ![e] = y], HoldsRows(y, datasets, versionRow),
           editor[e].of \in {NoId, d}, y.of \in {NoId, d},
           UNCHANGED <<datasets, versionRow, stable, bound>>,
           edits' \in 0 .. MaxEdits, drops' \in 0 .. MaxDrops,
           firsts' \in [DatasetIds -> Nat],
           \A c \in DatasetIds : c # d => firsts'[c] = firsts[c] /\ (c \in touched => c \in touched'),
           datasets[d] = NoDataset => firsts'[d] = firsts[d],
           Dense(d)' /\ Settles(d)'
    PROVE  TablesInv'
<1>s. DatasetsShape /\ Keys
  BY DEF TablesInv
<1>1. /\ editor' \in [Editors -> EditRecord]
      /\ editor'[e] = y /\ \A f \in Editors : f # e => editor'[f] = editor[f]
      /\ \A f \in Editors : HoldsRows(editor'[f], datasets', versionRow')
  BY RequestsStay
<1>2. DatasetsShape'
  BY <1>s, <1>1 DEF DatasetsShape
<1>3. Keys'
  <2>1. \A c \in DatasetIds : datasets[c] = NoDataset => firsts'[c] = firsts[c]
    OBVIOUS
  <2>2. /\ \A c \in DatasetIds : stable'[c] = stable[c]
        /\ \A t \in Tiers : bound'[t] # NoId => bound'[t] = bound[t]
    OBVIOUS
  <2> QED
    BY <2>1, <2>2, <1>s, KeysStay
<1>4. ASSUME NEW c \in DatasetIds PROVE Dense(c)' /\ Settles(c)'
  <2>1. CASE c # d
    <3>1. editor[e].of # c /\ editor'[e].of # c
      BY <2>1, <1>1, DatasetConstants
    <3>2. Spared(c)
      BY <2>1, <3>1, <1>1 DEF Spared, Exists, VersionsOf
    <3> QED
      BY <3>2, SparedKeeps DEF TablesInv
  <2> QED
    BY <2>1
<1> QED
  BY <1>1, <1>2, <1>3, <1>4 DEF TablesInv

LEMMA BeginVersionKeeps ==
    ASSUME TablesInv, NEW e \in Editors, NEW d \in DatasetIds, NEW l \in ChosenLabels \cup {0},
           BeginVersion(e, d, l)
    PROVE  TablesInv'
<1>s. DatasetsShape /\ Keys /\ HoldsRows(editor[e], datasets, versionRow)
  BY DEF TablesInv
<1>1. PICK none \in BOOLEAN : none = (datasets[d].current = NoId)
  OBVIOUS
<1>2. PICK y : y = [NoEdit EXCEPT !.step = "count", !.of = d, !.label = l, !.first = none]
  OBVIOUS
<1>u. /\ UNCHANGED <<datasets, versionRow, stable, bound, drops>>
      /\ edits' \in 0 .. MaxEdits /\ editor[e].step = "idle" /\ Exists(d)
      /\ firsts' = (IF none THEN [firsts EXCEPT ![d] = @ + 1] ELSE firsts)
      /\ touched' = (IF l # 0 THEN touched \cup {d} ELSE touched)
      /\ editor' = [editor EXCEPT ![e] = y]
  BY <1>s, <1>1, <1>2, EditCounted DEF BeginVersion, EditStep, datasetRows
<1>3. l \in Nat
  BY DatasetConstants
<1>4. /\ y \in EditRecord /\ y.step = "count" /\ y.of = d /\ y.label = l /\ y.first = none
  BY <1>2, <1>3, Blanks DEF EditRecord, Ids, NoEdit
<1>5. editor[e] = NoEdit /\ editor[e].of = NoId /\ ~editor[e].first
  BY <1>s, <1>u, Blanks DEF HoldsRows
<1>6. HoldsRows(y, datasets, versionRow)
  BY <1>4, <1>u, Blanks, DatasetConstants DEF HoldsRows, Exists
<1>7. /\ editor'[e] = y /\ \A f \in Editors : f # e => editor'[f] = editor[f]
  BY <1>s, <1>u DEF DatasetsShape
<1>8. /\ firsts' \in [DatasetIds -> Nat] /\ firsts[d] \in Nat
      /\ firsts'[d] = (IF none THEN firsts[d] + 1 ELSE firsts[d])
      /\ \A c \in DatasetIds : c # d => firsts'[c] = firsts[c]
  BY <1>s, <1>u DEF DatasetsShape
<1>9. Exists(d)' /\ VersionsOf(d)' = VersionsOf(d)
  BY <1>u DEF Exists, VersionsOf
<1>10. Dense(d)'
  <2> SUFFICES ASSUME d \notin touched' PROVE Dense(d)'
    BY DEF Dense
  <2>1. d \notin touched /\ l = 0
    BY <1>u
  <2>2. \A f \in Editors : f # e => editor'[f] = editor[f]
    BY <1>7
  <2>3. {versionRow'[v].label : v \in VersionsOf(d)'} = {versionRow[v].label : v \in VersionsOf(d)}
    BY <1>9, <1>u
  <2>4. Dense(d)
    BY DEF TablesInv
  <2>5. ASSUME NEW f \in Editors, editor'[f].of = d
        PROVE  /\ editor'[f].label = 0
               /\ (editor'[f].step = "insert" /\ Exists(d)') =>
                      editor'[f].count <= Cardinality(VersionsOf(d)')
    <3>1. CASE f = e
      BY <3>1, <2>1, <1>4, <1>7
    <3>2. CASE f # e
      BY <3>2, <2>1, <2>2, <2>4, <2>5, <1>9, <1>u DEF Dense
    <3> QED
      BY <3>1, <3>2
  <2> QED
    BY <2>1, <2>3, <2>4, <2>5, <1>9 DEF Dense
<1>11. Settles(d)'
  <2> SUFFICES ASSUME d \notin touched' PROVE VersionInHand(d)' /\ SetOnce(d)'
    BY DEF Settles
  <2>1. VersionInHand(d) /\ SetOnce(d) /\ d \notin touched
    BY <1>u DEF TablesInv, Settles
  <2>2. VersionInHand(d)'
    <3>1. ASSUME NEW f \in Editors, editor[f].of = d PROVE editor'[f] = editor[f]
      BY <3>1, <1>5, <1>7, DatasetConstants
    <3>2. ASSUME NEW f \in Editors, editor'[f].of = d, ~editor'[f].first,
                 editor'[f].step \in {"count", "insert"}
          PROVE  datasets[d].current # NoId
      BY <3>2, <2>1, <1>1, <1>4, <1>7 DEF VersionInHand
    <3>3. \A f \in Editors : (editor[f].of = d /\ editor[f].step \in {"current", "alias"}) =>
             editor'[f].of = d /\ editor'[f].step = editor[f].step
      BY <3>1
    <3> QED
      BY <2>1, <3>2, <3>3, <1>9, <1>u DEF VersionInHand
  <2>3. SetOnce(d)'
    <3> SUFFICES ASSUME firsts'[d] <= 1 PROVE SetOnce(d)'
      BY DEF SetOnce
    <3>1. firsts[d] <= 1 /\ (none => firsts[d] = 0)
      BY <1>1, <1>8
    <3>2. \A f \in Editors : FirstOf(f, d)' => (f = e /\ none) \/ (f # e /\ FirstOf(f, d))
      BY <1>4, <1>7 DEF FirstOf
    <3>3. \A f, g \in Editors : FirstOf(f, d)' /\ FirstOf(g, d)' => f = g
      <4>1. CASE none
        BY <4>1, <3>1, <3>2, <2>1 DEF SetOnce
      <4>2. CASE ~none
        BY <4>2, <3>1, <3>2, <2>1 DEF SetOnce
      <4> QED
        BY <4>1, <4>2
    <3>4. firsts'[d] = 0 => \A f \in Editors : ~FirstOf(f, d)'
      BY <3>1, <3>2, <2>1, <1>8 DEF SetOnce
    <3>5. none => datasets[d].current = NoId /\ stable[d] = NoId
      <4> SUFFICES ASSUME none PROVE datasets[d].current = NoId /\ stable[d] = NoId
        OBVIOUS
      <4>1. \A f \in Editors : ~FirstOf(f, d)
        BY <3>1, <2>1 DEF SetOnce
      <4>2. \A f \in Editors : ~(editor[f].of = d /\ editor[f].step = "alias")
        BY <4>1 DEF TablesInv, HoldsRows, FirstOf
      <4>3. datasets[d].current = stable[d]
        BY <4>2, <3>1, <2>1 DEF SetOnce
      <4> QED
        BY <4>3, <1>1
    <3>6. ASSUME NEW f \in Editors, FirstOf(f, d)', editor'[f].step \in {"count", "insert", "current"}
          PROVE  datasets[d].current = NoId /\ stable[d] = NoId
      <4>1. CASE f = e
        BY <4>1, <3>2, <3>5, <3>6
      <4>2. CASE f # e
        BY <4>2, <3>1, <3>2, <3>6, <2>1, <1>7 DEF SetOnce
      <4> QED
        BY <4>1, <4>2
    <3>7. ASSUME NEW f \in Editors
          PROVE  (editor'[f].of = d /\ editor'[f].step = "alias") <=>
                 (editor[f].of = d /\ editor[f].step = "alias")
      BY <1>4, <1>5, <1>7, DatasetConstants
    <3>8. ASSUME NEW f \in Editors, editor'[f].of = d, editor'[f].step = "alias"
          PROVE  editor'[f].version = datasets[d].current
      <4>1. f # e
        BY <3>8, <1>4, <1>7
      <4> QED
        BY <4>1, <3>8, <3>1, <2>1, <1>7 DEF SetOnce
    <3>9. \/ datasets[d].current = stable[d]
          \/ \E f \in Editors : editor'[f].of = d /\ editor'[f].step = "alias"
      BY <3>1, <3>7, <2>1 DEF SetOnce
    <3> QED
      BY <3>3, <3>4, <3>6, <3>8, <3>9, <1>u DEF SetOnce
  <2> QED
    BY <2>2, <2>3
<1>12. \A c \in DatasetIds : c # d => (c \in touched => c \in touched')
  BY <1>u
<1>13. datasets[d] # NoDataset
  BY <1>u, Blanks, DatasetConstants DEF Exists
<1>14. drops' \in 0 .. MaxDrops
  BY <1>s, <1>u DEF DatasetsShape
<1> QED
  BY <1>u, <1>4, <1>5, <1>6, <1>8, <1>10, <1>11, <1>12, <1>13, <1>14, RequestGoes

\* A request that had no version in hand goes on without one, or ends.
LEMMA QuietGo ==
    ASSUME TablesInv, NEW e \in Editors, NEW y \in EditRecord, NEW d \in DatasetIds,
           editor' = [editor EXCEPT ![e] = y],
           UNCHANGED <<datasets, versionRow, stable, firsts, touched>>,
           editor[e].step \notin {"current", "alias"}, y.step \notin {"current", "alias"},
           y.of = d => (d \notin touched => y.label = 0),
           (d \notin touched /\ y.step = "insert") => y.count <= Cardinality(VersionsOf(d)),
           (y.of = d /\ y.first) => FirstOf(e, d) /\ editor[e].step \in {"count", "insert"},
           (y.of = d /\ ~y.first /\ y.step \in {"count", "insert"}) =>
               editor[e].of = d /\ ~editor[e].first /\ editor[e].step \in {"count", "insert"}
    PROVE  Dense(d)' /\ Settles(d)'
<1>1. /\ editor'[e] = y /\ \A f \in Editors : f # e => editor'[f] = editor[f]
  BY DEF TablesInv, DatasetsShape
<1>2. Exists(d)' = Exists(d) /\ VersionsOf(d)' = VersionsOf(d)
  BY DEF Exists, VersionsOf
<1>3. Dense(d)'
  <2> SUFFICES ASSUME d \notin touched PROVE Dense(d)'
    BY DEF Dense
  <2>1. Dense(d)
    BY DEF TablesInv
  <2>2. {versionRow'[v].label : v \in VersionsOf(d)'} = {versionRow[v].label : v \in VersionsOf(d)}
    BY <1>2
  <2>3. ASSUME NEW f \in Editors, editor'[f].of = d
        PROVE  /\ editor'[f].label = 0
               /\ (editor'[f].step = "insert" /\ Exists(d)') =>
                      editor'[f].count <= Cardinality(VersionsOf(d)')
    <3>1. CASE f = e
      BY <3>1, <2>3, <1>1, <1>2
    <3>2. CASE f # e
      BY <3>2, <2>1, <2>3, <1>1, <1>2 DEF Dense
    <3> QED
      BY <3>1, <3>2
  <2> QED
    BY <2>1, <2>2, <2>3, <1>2 DEF Dense
<1>4. Settles(d)'
  <2> SUFFICES ASSUME d \notin touched, Exists(d) PROVE VersionInHand(d)' /\ SetOnce(d)'
    BY <1>2 DEF Settles
  <2>1. VersionInHand(d) /\ SetOnce(d)
    BY DEF TablesInv, Settles
  <2>2. \A f \in Editors : \A st \in {"current", "alias"} :
           (editor'[f].of = d /\ editor'[f].step = st) <=> (editor[f].of = d /\ editor[f].step = st)
    BY <1>1
  <2>3. \A f \in Editors : FirstOf(f, d)' => FirstOf(f, d)
    BY <1>1 DEF FirstOf
  <2>4. VersionInHand(d)'
    <3>1. ASSUME NEW f \in Editors, editor'[f].of = d, ~editor'[f].first,
                 editor'[f].step \in {"count", "insert"}
          PROVE  datasets[d].current # NoId
      BY <3>1, <2>1, <1>1 DEF VersionInHand
    <3>2. (VersionsOf(d) # {} /\ datasets[d].current = NoId) =>
            \E f \in Editors : editor'[f].of = d /\ editor'[f].step = "current"
      BY <2>1, <2>2 DEF VersionInHand
    <3>3. (VersionsOf(d) # {} /\ stable[d] = NoId) =>
            \E f \in Editors : editor'[f].of = d /\ editor'[f].step \in {"current", "alias"}
      BY <2>1, <2>2 DEF VersionInHand
    <3> QED
      BY <3>1, <3>2, <3>3, <1>2 DEF VersionInHand
  <2>5. SetOnce(d)'
    <3> SUFFICES ASSUME firsts[d] <= 1 PROVE SetOnce(d)'
      BY DEF SetOnce
    <3>1. \A f, g \in Editors : FirstOf(f, d)' /\ FirstOf(g, d)' => f = g
      BY <2>1, <2>3 DEF SetOnce
    <3>2. firsts[d] = 0 => \A f \in Editors : ~FirstOf(f, d)'
      BY <2>1, <2>3 DEF SetOnce
    <3>3. ASSUME NEW f \in Editors, FirstOf(f, d)', editor'[f].step \in {"count", "insert", "current"}
          PROVE  datasets[d].current = NoId /\ stable[d] = NoId
      <4>1. CASE f = e
        <5>1. FirstOf(e, d) /\ editor[e].step \in {"count", "insert"}
          BY <4>1, <3>3, <1>1 DEF FirstOf
        <5> QED
          BY <5>1, <2>1 DEF SetOnce
      <4>2. CASE f # e
        BY <4>2, <3>3, <2>1, <2>3, <1>1 DEF SetOnce
      <4> QED
        BY <4>1, <4>2
    <3>4. ASSUME NEW f \in Editors, editor'[f].of = d, editor'[f].step = "alias"
          PROVE  editor'[f].version = datasets[d].current
      <4>1. f # e
        BY <3>4, <1>1
      <4> QED
        BY <4>1, <3>4, <2>1, <1>1 DEF SetOnce
    <3>5. \/ datasets[d].current = stable[d]
          \/ \E f \in Editors : editor'[f].of = d /\ editor'[f].step = "alias"
      BY <2>1, <2>2 DEF SetOnce
    <3> QED
      BY <3>1, <3>2, <3>3, <3>4, <3>5 DEF SetOnce
  <2> QED
    BY <2>4, <2>5
<1> QED
  BY <1>3, <1>4

\* The dataset of a request that is under way.
LEMMA Subject ==
    ASSUME TablesInv, NEW e \in Editors, editor[e].step # "idle"
    PROVE  /\ editor[e] \in EditRecord /\ HoldsRows(editor[e], datasets, versionRow)
           /\ editor[e].of \in DatasetIds /\ datasets[editor[e].of] # NoDataset
<1>1. editor[e] \in EditRecord /\ HoldsRows(editor[e], datasets, versionRow)
  BY RowTypes DEF TablesInv
<1> QED
  BY <1>1 DEF HoldsRows

LEMMA CountVersionsKeeps == ASSUME TablesInv, NEW e \in Editors, CountVersions(e) PROVE TablesInv'
<1>s. DatasetsShape /\ Keys
  BY DEF TablesInv
<1>1. PICK d : d = editor[e].of
  OBVIOUS
<1>2. PICK n : n = Cardinality(VersionsOf(d))
  OBVIOUS
<1>3. PICK y : y = [editor[e] EXCEPT !.step = "insert", !.count = n]
  OBVIOUS
<1>u. /\ UNCHANGED <<datasets, versionRow, stable, bound, drops, edits, firsts, touched>>
      /\ editor[e].step = "count" /\ editor' = [editor EXCEPT ![e] = y]
  BY <1>1, <1>2, <1>3 DEF CountVersions, EditStep, datasetRows
<1>4. /\ editor[e] \in EditRecord /\ HoldsRows(editor[e], datasets, versionRow)
      /\ d \in DatasetIds /\ datasets[d] # NoDataset
  BY <1>u, <1>1, Subject
<1>5. n \in Nat
  BY <1>4, <1>2, <1>s, FS_CardinalityType DEF Keys
<1>6. /\ y \in EditRecord /\ y.step = "insert" /\ y.count = n /\ y.of = d
      /\ y.label = editor[e].label /\ y.first = editor[e].first
  BY <1>1, <1>3, <1>4, <1>5 DEF EditRecord
<1>7. HoldsRows(y, datasets, versionRow)
  BY <1>6, <1>4 DEF HoldsRows
<1>8. d \notin touched => y.label = 0
  BY <1>1, <1>4, <1>6 DEF TablesInv, Dense
<1>9. n <= n
  BY <1>5
<1>10. Dense(d)' /\ Settles(d)'
  BY <1>u, <1>1, <1>2, <1>4, <1>6, <1>8, <1>9, QuietGo DEF FirstOf
<1>11. edits' \in 0 .. MaxEdits /\ drops' \in 0 .. MaxDrops /\ firsts' \in [DatasetIds -> Nat]
  BY <1>s, <1>u DEF DatasetsShape
<1> QED
  BY <1>u, <1>1, <1>4, <1>6, <1>7, <1>10, <1>11, RequestGoes

LEMMA BeginDatasetDeleteKeeps ==
    ASSUME TablesInv, NEW e \in Editors, NEW d \in DatasetIds, NEW force \in BOOLEAN,
           BeginDatasetDelete(e, d, force)
    PROVE  TablesInv'
<1>s. DatasetsShape /\ Keys /\ HoldsRows(editor[e], datasets, versionRow)
  BY DEF TablesInv
<1>1. PICK y : y = [NoEdit EXCEPT !.step = "delete", !.of = d]
  OBVIOUS
<1>u. /\ UNCHANGED <<datasets, versionRow, stable, bound, drops, firsts, touched>>
      /\ edits' \in 0 .. MaxEdits /\ editor[e].step = "idle" /\ Exists(d)
      /\ editor' = [editor EXCEPT ![e] = y]
  BY <1>s, <1>1, EditCounted DEF BeginDatasetDelete, EditStep, datasetRows
<1>2. y \in EditRecord /\ y.step = "delete" /\ y.of = d /\ y.label = 0 /\ ~y.first
  BY <1>1, Blanks DEF EditRecord, Ids, NoEdit
<1>3. editor[e].of = NoId
  BY <1>s, <1>u, Blanks DEF HoldsRows
<1>4. HoldsRows(y, datasets, versionRow)
  BY <1>2, <1>u, Blanks, DatasetConstants DEF HoldsRows, Exists
<1>5. Dense(d)' /\ Settles(d)'
  BY <1>u, <1>2, QuietGo
<1>6. drops' \in 0 .. MaxDrops /\ firsts' \in [DatasetIds -> Nat]
  BY <1>s, <1>u DEF DatasetsShape
<1> QED
  BY <1>u, <1>2, <1>3, <1>4, <1>5, <1>6, RequestGoes

\* A request that ends where it is, without a version in hand or with its
\* dataset gone or accounted for.
LEMMA RequestEnds ==
    ASSUME TablesInv, NEW e \in Editors, editor[e].step # "idle",
           editor' = [editor EXCEPT ![e] = NoEdit],
           UNCHANGED <<datasets, versionRow, stable, bound, edits, firsts>>,
           drops' \in 0 .. MaxDrops,
           touched' \in {touched, touched \cup {editor[e].of}},
           \/ editor[e].step \notin {"current", "alias"}
           \/ ~Live(datasets, editor[e].of)
           \/ editor[e].of \in touched'
    PROVE  TablesInv'
<1>s. DatasetsShape /\ Keys
  BY DEF TablesInv
<1>1. PICK d : d = editor[e].of
  OBVIOUS
<1>2. d \in DatasetIds
  BY <1>1, Subject
<1>3. HoldsRows(NoEdit, datasets, versionRow) /\ NoEdit.of = NoId /\ NoEdit \in EditRecord
  BY Blanks DEF HoldsRows
<1>4. /\ editor'[e] = NoEdit /\ \A f \in Editors : f # e => editor'[f] = editor[f]
  BY <1>s DEF DatasetsShape
<1>5. Exists(d)' = Exists(d) /\ VersionsOf(d)' = VersionsOf(d) /\ Exists(d) = Live(datasets, d)
  BY DEF Exists, VersionsOf, Live
<1>6. CASE d \in touched'
  <2>1. Dense(d)' /\ Settles(d)'
    BY <1>6 DEF Dense, Settles
  <2>2. /\ edits' \in 0 .. MaxEdits /\ firsts' \in [DatasetIds -> Nat]
    BY <1>s DEF DatasetsShape
  <2> QED
    BY <2>1, <2>2, <1>1, <1>2, <1>3, RequestGoes
<1>7. CASE d \notin touched'
  <2>0. touched' = touched
    BY <1>1, <1>7
  <2>1. Dense(d)' /\ Settles(d)'
    <3>1. CASE editor[e].step \notin {"current", "alias"}
      BY <3>1, <2>0, <1>2, <1>3, Blanks, DatasetConstants, QuietGo
    <3>2. CASE ~Live(datasets, d)
      <4>1. Settles(d)'
        BY <3>2, <1>5 DEF Settles
      <4>2. Dense(d)
        BY <1>2 DEF TablesInv
      <4>3. {versionRow'[v].label : v \in VersionsOf(d)'} = {versionRow[v].label : v \in VersionsOf(d)}
        BY <1>5
      <4>4. \A f \in Editors : editor'[f].of = d => editor'[f].label = 0
        BY <4>2, <2>0, <1>2, <1>3, <1>4, <1>7, DatasetConstants DEF Dense
      <4>5. Dense(d)'
        BY <4>2, <4>3, <4>4, <3>2, <2>0, <1>5 DEF Dense
      <4> QED
        BY <4>1, <4>5
    <3> QED
      BY <3>1, <3>2, <1>1, <1>7
  <2>2. /\ edits' \in 0 .. MaxEdits /\ firsts' \in [DatasetIds -> Nat]
    BY <1>s DEF DatasetsShape
  <2> QED
    BY <2>0, <2>1, <2>2, <1>1, <1>2, <1>3, RequestGoes
<1> QED
  BY <1>6, <1>7

LEMMA DropRequestKeeps == ASSUME TablesInv, NEW e \in Editors, DropRequest(e) PROVE TablesInv'
<1>1. drops' \in 0 .. MaxDrops
  BY DatasetConstants DEF TablesInv, DatasetsShape, DropRequest
<1> QED
  BY <1>1, RequestEnds DEF DropRequest, datasetRows

\* One label more, the one a request counted.
LEMMA DenseGrows ==
    ASSUME NEW n \in Nat, NEW k \in Nat, NEW L, L = 1 .. n, k <= n, k + 1 \notin L
    PROVE  L \cup {k + 1} = 1 .. n + 1 /\ n + 1 \in Nat
<1>1. k = n
  OBVIOUS
<1> QED
  BY <1>1

LEMMA VersionInserted ==
    ASSUME TablesInv, NEW e \in Editors, NEW d \in DatasetIds, NEW v \in DatasetVersions, NEW y, NEW z,
           d = editor[e].of, editor[e].step = "insert", Exists(d),
           \A w \in VersionsOf(d) : versionRow[w].label # Label(editor[e]),
           versionRow[v] = NoVersion,
           z = [of |-> d, label |-> Label(editor[e])],
           y = IF editor[e].first THEN [editor[e] EXCEPT !.step = "current", !.version = v]
               ELSE NoEdit,
           versionRow' = [versionRow EXCEPT ![v] = z], editor' = [editor EXCEPT ![e] = y],
           UNCHANGED <<datasets, stable, bound, drops, edits, firsts, touched>>
    PROVE  TablesInv'
<1>s. DatasetsShape /\ Keys
  BY DEF TablesInv
<1>1. editor[e] \in EditRecord /\ editor[e].count \in Nat /\ editor[e].label \in Nat
  BY <1>s, RowTypes
<1>2. Label(editor[e]) \in Nat
  BY <1>1 DEF Label
<1>3. z \in VersionRecord /\ z.of = d /\ z.label = Label(editor[e])
  BY <1>2 DEF VersionRecord, Ids
<1>4. /\ y \in EditRecord /\ y.step \in {"idle", "current"}
      /\ y.step = "idle" => y = NoEdit /\ ~editor[e].first
      /\ y.step = "current" => /\ editor[e].first /\ y.first /\ y.version = v
                               /\ y.of = d /\ y.label = editor[e].label
  <2>1. CASE editor[e].first
    BY <2>1, <1>1 DEF EditRecord, Vers
  <2>2. CASE ~editor[e].first
    BY <2>2, Blanks
  <2> QED
    BY <2>1, <2>2
<1>5. /\ versionRow'[v] = z /\ \A w \in DatasetVersions : w # v => versionRow'[w] = versionRow[w]
      /\ editor'[e] = y /\ \A f \in Editors : f # e => editor'[f] = editor[f]
  BY <1>s DEF DatasetsShape
<1>6. versionRow[v].of = NoId /\ v \notin VersionsOf(d)
  BY Blanks, DatasetConstants DEF VersionsOf
<1>7. DatasetsShape'
  <2>1. versionRow' \in [DatasetVersions -> VersionRecord]
    BY <1>s, <1>3 DEF DatasetsShape
  <2>2. editor' \in [Editors -> EditRecord]
    BY <1>s, <1>4 DEF DatasetsShape
  <2> QED
    BY <2>1, <2>2, <1>s DEF DatasetsShape
<1>8. \A c : Exists(c)' = Exists(c)
  BY DEF Exists
<1>9. VersionsOf(d)' = VersionsOf(d) \cup {v}
  BY <1>3, <1>5 DEF VersionsOf
<1>10. ASSUME NEW c \in DatasetIds, c # d PROVE VersionsOf(c)' = VersionsOf(c)
  <2>1. ASSUME NEW w \in DatasetVersions PROVE versionRow'[w].of = c <=> versionRow[w].of = c
    BY <1>10, <1>3, <1>5, <1>6, DatasetConstants
  <2> QED
    BY <2>1 DEF VersionsOf
<1>11. \A w \in DatasetVersions : \A c \in DatasetIds : versionRow[w].of = c => versionRow'[w].of = c
  BY <1>5, <1>6, DatasetConstants
<1>12. /\ IsFiniteSet(VersionsOf(d)) /\ Cardinality(VersionsOf(d)) \in Nat
       /\ IsFiniteSet(VersionsOf(d)')
       /\ Cardinality(VersionsOf(d)') = Cardinality(VersionsOf(d)) + 1
  BY <1>s, <1>6, <1>9, FS_AddElement, FS_CardinalityType DEF Keys
<1>13. Keys'
  <2>1. ASSUME NEW c \in DatasetIds
        PROVE  /\ datasets'[c].current # NoId => versionRow'[datasets'[c].current].of = c
               /\ stable'[c] # NoId => versionRow'[stable'[c]].of = c
               /\ ~Exists(c)' => /\ datasets'[c] \in {NoDataset, GoneDataset}
                                 /\ stable'[c] = NoId
               /\ datasets'[c] = NoDataset => firsts'[c] = 0
               /\ IsFiniteSet(VersionsOf(c)')
    <3>1. datasets[c].current \in Vers /\ stable[c] \in Vers
      BY <1>s, RowTypes
    <3>2. /\ datasets[c].current # NoId => versionRow'[datasets[c].current].of = c
          /\ stable[c] # NoId => versionRow'[stable[c]].of = c
      BY <3>1, <1>s, <1>11 DEF Keys, Vers
    <3>3. IsFiniteSet(VersionsOf(c)')
      BY <1>s, <1>10, <1>12 DEF Keys
    <3> QED
      BY <3>2, <3>3, <1>s, <1>8 DEF Keys
  <2>2. ASSUME NEW w \in DatasetVersions, versionRow'[w].of # NoId PROVE Live(datasets', versionRow'[w].of)
    <3>1. CASE w = v
      BY <3>1, <1>3, <1>5 DEF Live, Exists
    <3>2. CASE w # v
      BY <3>2, <2>2, <1>5, <1>s DEF Keys
    <3> QED
      BY <3>1, <3>2
  <2>3. \A t \in Tiers : bound'[t] # NoId => Live(datasets', bound'[t])
    BY <1>s DEF Keys
  <2> QED
    BY <2>1, <2>2, <2>3 DEF Keys
<1>14. ASSUME NEW f \in Editors PROVE HoldsRows(editor'[f], datasets', versionRow')
  <2>0. HoldsRows(editor[f], datasets, versionRow)
    BY DEF TablesInv
  <2>1. CASE f = e
    <3>1. datasets[d] # NoDataset
      BY Blanks, DatasetConstants DEF Exists
    <3>2. CASE y.step = "idle"
      <4>1. HoldsRows(NoEdit, datasets, versionRow')
        BY Blanks DEF HoldsRows
      <4> QED
        BY <3>2, <4>1, <1>4, <1>5, <2>1
    <3>3. CASE y.step = "current"
      <4>1. versionRow'[v].of = d /\ y.first /\ y.version = v /\ y.of = d
        BY <3>3, <1>3, <1>4, <1>5
      <4>2. HoldsRows(y, datasets, versionRow')
        BY <3>1, <3>3, <4>1 DEF HoldsRows
      <4> QED
        BY <4>2, <1>5, <2>1
    <3> QED
      BY <3>2, <3>3, <1>4
  <2>2. CASE f # e
    <3>1. editor'[f] = editor[f]
      BY <2>2, <1>5
    <3>2. HoldsRows(editor[f], datasets, versionRow')
      BY <2>0, <1>11 DEF HoldsRows
    <3> QED
      BY <3>1, <3>2
  <2> QED
    BY <2>1, <2>2
<1>15. Dense(d)'
  <2> SUFFICES ASSUME d \notin touched PROVE Dense(d)'
    BY DEF Dense
  <2>1. PICK n \in Nat : n = Cardinality(VersionsOf(d))
    BY <1>12
  <2>2. PICK L : L = {versionRow[w].label : w \in VersionsOf(d)}
    OBVIOUS
  <2>3. PICK k \in Nat : k = editor[e].count
    BY <1>1
  <2>4. Dense(d)
    BY DEF TablesInv
  <2>5. L = 1 .. n /\ editor[e].label = 0 /\ k <= n
    BY <2>1, <2>2, <2>3, <2>4 DEF Dense
  <2>6. Label(editor[e]) = k + 1 /\ k + 1 \notin L
    BY <2>2, <2>3, <2>5 DEF Label
  <2>7. L \cup {k + 1} = 1 .. n + 1 /\ n + 1 \in Nat
    BY <2>5, <2>6, DenseGrows
  <2>8. {versionRow'[w].label : w \in VersionsOf(d)'} = L \cup {k + 1}
    <3>1. \A w \in VersionsOf(d) : versionRow'[w].label = versionRow[w].label
      BY <1>5, <1>6 DEF VersionsOf
    <3>2. versionRow'[v].label = k + 1
      BY <1>3, <1>5, <2>6
    <3>3. {versionRow'[w].label : w \in VersionsOf(d) \cup {v}} = L \cup {k + 1}
      BY <3>1, <3>2, <2>2
    <3> QED
      BY <3>3, <1>9
  <2>9. ASSUME NEW f \in Editors, editor'[f].of = d
        PROVE  /\ editor'[f].label = 0
               /\ (editor'[f].step = "insert" /\ Exists(d)') =>
                      editor'[f].count <= Cardinality(VersionsOf(d)')
    <3>1. CASE f = e
      <4>1. y.of = d /\ editor'[f] = y
        BY <3>1, <2>9, <1>5
      <4>2. y.step = "current"
        BY <4>1, <1>4, Blanks, DatasetConstants
      <4>3. y.label = 0
        BY <4>2, <2>5, <1>4
      <4> QED
        BY <4>1, <4>2, <4>3
    <3>2. CASE f # e
      <4>1. editor'[f] = editor[f] /\ editor[f].count \in Nat
        BY <3>2, <1>5, <1>s, RowTypes
      <4>2. /\ editor[f].label = 0
            /\ editor[f].step = "insert" => editor[f].count <= n
        BY <4>1, <2>4, <2>9, <2>1 DEF Dense
      <4> QED
        BY <4>1, <4>2, <2>1, <1>12
    <3> QED
      BY <3>1, <3>2
  <2> QED
    BY <2>1, <2>7, <2>8, <2>9, <1>12 DEF Dense
<1>16. Settles(d)'
  <2> SUFFICES ASSUME d \notin touched PROVE VersionInHand(d)' /\ SetOnce(d)'
    BY DEF Settles
  <2>1. VersionInHand(d) /\ SetOnce(d)
    BY DEF TablesInv, Settles
  <2>2. VersionInHand(d)'
    <3>1. editor[e].first \/ datasets[d].current # NoId
      BY <2>1 DEF VersionInHand
    <3>2. datasets[d].current # NoId => VersionsOf(d) # {}
      BY <1>s, RowTypes DEF Keys, VersionsOf, Vers
    <3>3. \A f \in Editors : f # e => editor'[f] = editor[f]
      BY <1>5
    <3>4. editor[e].first => editor'[e].of = d /\ editor'[e].step = "current"
      BY <1>4, <1>5
    <3>5. datasets[d].current = NoId => \E f \in Editors : editor'[f].of = d /\ editor'[f].step = "current"
      BY <3>1, <3>4
    <3>6. stable[d] = NoId => \E f \in Editors : editor'[f].of = d /\ editor'[f].step \in {"current", "alias"}
      <4>1. CASE editor[e].first
        BY <4>1, <3>4
      <4>2. CASE ~editor[e].first
        <5> SUFFICES ASSUME stable[d] = NoId
                     PROVE  \E f \in Editors : editor'[f].of = d /\ editor'[f].step \in {"current", "alias"}
          OBVIOUS
        <5>1. PICK f \in Editors : editor[f].of = d /\ editor[f].step \in {"current", "alias"}
          BY <4>2, <3>1, <3>2, <2>1 DEF VersionInHand
        <5> QED
          BY <5>1, <3>3
      <4> QED
        BY <4>1, <4>2
    <3>7. ASSUME NEW f \in Editors, editor'[f].of = d, ~editor'[f].first, editor'[f].step \in {"count", "insert"}
          PROVE  datasets[d].current # NoId
      BY <3>7, <3>3, <2>1, <1>4, <1>5 DEF VersionInHand
    <3> QED
      BY <3>5, <3>6, <3>7 DEF VersionInHand
  <2>3. SetOnce(d)'
    <3> SUFFICES ASSUME firsts[d] <= 1 PROVE SetOnce(d)'
      BY DEF SetOnce
    <3>1. \A f \in Editors : FirstOf(f, d)' => FirstOf(f, d)
      BY <1>4, <1>5, Blanks DEF FirstOf
    <3>2. \A f, g \in Editors : FirstOf(f, d)' /\ FirstOf(g, d)' => f = g
      BY <3>1, <2>1 DEF SetOnce
    <3>3. firsts[d] = 0 => \A f \in Editors : ~FirstOf(f, d)'
      BY <3>1, <2>1 DEF SetOnce
    <3>4. ASSUME NEW f \in Editors, FirstOf(f, d)', editor'[f].step \in {"count", "insert", "current"}
          PROVE  datasets[d].current = NoId /\ stable[d] = NoId
      BY <3>1, <3>4, <2>1, <1>5 DEF SetOnce
    <3>5. \A f \in Editors : (editor'[f].of = d /\ editor'[f].step = "alias")
                             <=> (editor[f].of = d /\ editor[f].step = "alias")
      BY <1>4, <1>5
    <3>6. ASSUME NEW f \in Editors, editor'[f].of = d, editor'[f].step = "alias"
          PROVE  editor'[f].version = datasets[d].current
      <4>1. f # e
        BY <3>6, <1>4, <1>5
      <4> QED
        BY <4>1, <3>6, <2>1, <1>5 DEF SetOnce
    <3>7. \/ datasets[d].current = stable[d]
          \/ \E f \in Editors : editor'[f].of = d /\ editor'[f].step = "alias"
      BY <3>5, <2>1 DEF SetOnce
    <3> QED
      BY <3>2, <3>3, <3>4, <3>6, <3>7 DEF SetOnce
  <2> QED
    BY <2>2, <2>3
<1>17. ASSUME NEW c \in DatasetIds, c # d PROVE Dense(c)' /\ Settles(c)'
  <2>1. \A w \in VersionsOf(c) : versionRow'[w] = versionRow[w]
    BY <1>5, <1>6, DatasetConstants DEF VersionsOf
  <2>0. y.of # c
    BY <1>17, <1>4, Blanks, DatasetConstants
  <2>2. \A f \in Editors : editor[f].of = c \/ editor'[f].of = c => editor'[f] = editor[f]
    BY <1>17, <2>0, <1>5
  <2>3. Spared(c)
    BY <1>17, <2>1, <2>2, <1>8, <1>10 DEF Spared
  <2> QED
    BY <2>3, SparedKeeps DEF TablesInv
<1> QED
  BY <1>7, <1>13, <1>14, <1>15, <1>16, <1>17 DEF TablesInv

\* The insert: a version row more, the least that is free.
LEMMA InsertVersionKeeps == ASSUME TablesInv, NEW e \in Editors, InsertVersion(e) PROVE TablesInv'
<1>s. DatasetsShape /\ Keys
  BY DEF TablesInv
<1>1. PICK d : d = editor[e].of
  OBVIOUS
<1>2. /\ editor[e] \in EditRecord /\ HoldsRows(editor[e], datasets, versionRow)
      /\ d \in DatasetIds /\ datasets[d] # NoDataset /\ editor[e].step = "insert"
  BY <1>1, Subject DEF InsertVersion
<1>u. /\ UNCHANGED <<datasets, stable, bound, drops, edits, firsts, touched>>
      /\ edits' \in 0 .. MaxEdits /\ drops' \in 0 .. MaxDrops
  BY <1>s DEF InsertVersion, EditStep, DatasetsShape
<1>3. CASE ~Exists(d) \/ \E v \in VersionsOf(d) : versionRow[v].label = Label(editor[e])
  <2>1. editor' = [editor EXCEPT ![e] = NoEdit] /\ UNCHANGED versionRow
    BY <1>3, <1>1 DEF InsertVersion, EditStep
  <2> QED
    BY <2>1, <1>2, <1>u, RequestEnds
<1>4. CASE Exists(d) /\ ~ \E v \in VersionsOf(d) : versionRow[v].label = Label(editor[e])
  <2>1. PICK fresh : fresh = {v \in DatasetVersions : versionRow[v] = NoVersion}
    OBVIOUS
  <2>2. PICK v : v = CHOOSE w \in fresh : \A x \in fresh : w <= x
    OBVIOUS
  <2>3. PICK y : y = IF editor[e].first THEN [editor[e] EXCEPT !.step = "current", !.version = v]
                     ELSE NoEdit
    OBVIOUS
  <2>4. v \in DatasetVersions /\ versionRow[v] = NoVersion
    <3>1. fresh # {} /\ fresh \subseteq Nat
      BY <2>1, DatasetConstants DEF InsertVersion
    <3>2. \E w \in fresh : \A x \in fresh : w <= x
      BY <3>1, LeastNat
    <3> QED
      BY <2>1, <2>2, <3>2
  <2>5. PICK z : z = [of |-> d, label |-> Label(editor[e])]
    OBVIOUS
  <2>6. versionRow' = [versionRow EXCEPT ![v] = z] /\ editor' = [editor EXCEPT ![e] = y]
    BY <1>1, <1>4, <2>1, <2>2, <2>3, <2>5 DEF InsertVersion, EditStep
  <2> QED
    BY <1>1, <1>2, <1>4, <1>u, <2>3, <2>4, <2>5, <2>6, VersionInserted
<1> QED
  BY <1>3, <1>4

\* A request sets the version it has made current, the alias being next.
LEMMA SetCurrentKeeps == ASSUME TablesInv, NEW e \in Editors, SetCurrent(e) PROVE TablesInv'
<1>s. DatasetsShape /\ Keys
  BY DEF TablesInv
<1>1. PICK d : d = editor[e].of
  OBVIOUS
<1>2. /\ editor[e] \in EditRecord /\ HoldsRows(editor[e], datasets, versionRow)
      /\ d \in DatasetIds /\ datasets[d] # NoDataset /\ editor[e].step = "current"
  BY <1>1, Subject DEF SetCurrent
<1>u. /\ UNCHANGED <<versionRow, stable, bound, drops, edits, firsts, touched>>
      /\ edits' \in 0 .. MaxEdits /\ drops' \in 0 .. MaxDrops
  BY <1>s DEF SetCurrent, EditStep, DatasetsShape
<1>3. CASE ~Exists(d)
  <2>1. editor' = [editor EXCEPT ![e] = NoEdit] /\ UNCHANGED datasets
    BY <1>3, <1>1 DEF SetCurrent, EditStep
  <2> QED
    BY <2>1, <1>1, <1>2, <1>3, <1>u, RequestEnds DEF Live, Exists
<1>4. CASE Exists(d)
  <2>1. PICK v : v = editor[e].version
    OBVIOUS
  <2>2. PICK y : y = [editor[e] EXCEPT !.step = "alias"]
    OBVIOUS
  <2>3. PICK z : z = [datasets[d] EXCEPT !.current = v]
    OBVIOUS
  <2>4. v \in DatasetVersions /\ versionRow[v].of = d /\ editor[e].first
    BY <2>1, <1>1, <1>2, <1>4 DEF HoldsRows, Live, Exists
  <2>5. /\ y \in EditRecord /\ y.step = "alias" /\ y.of = d /\ y.first /\ y.version = v
        /\ y.label = editor[e].label
    BY <2>1, <2>2, <2>4, <1>1, <1>2 DEF EditRecord
  <2>6. /\ datasets' = [datasets EXCEPT ![d] = z] /\ editor' = [editor EXCEPT ![e] = y]
    BY <2>1, <2>2, <2>3, <1>1, <1>4 DEF SetCurrent, EditStep
  <2>7. datasets[d] \in DatasetRecord
    BY <1>s, <1>2, RowTypes
  <2>8. z \in DatasetRecord /\ z.scope = datasets[d].scope /\ z.current = v
    BY <2>3, <2>4, <2>7 DEF DatasetRecord, Vers
  <2>9. /\ datasets'[d] = z /\ \A c \in DatasetIds : c # d => datasets'[c] = datasets[c]
        /\ editor'[e] = y /\ \A f \in Editors : f # e => editor'[f] = editor[f]
    BY <2>6, <1>s, <1>2 DEF DatasetsShape
  <2>10. DatasetsShape'
    <3>1. datasets' \in [DatasetIds -> DatasetRecord] /\ editor' \in [Editors -> EditRecord]
      BY <2>5, <2>6, <2>8, <1>s DEF DatasetsShape
    <3> QED
      BY <3>1, <1>s, <1>u DEF DatasetsShape
  <2>11. \A c \in DatasetIds :
           /\ Exists(c)' = Exists(c) /\ Live(datasets', c) = Live(datasets, c)
           /\ (c = d => datasets[c] # NoDataset /\ datasets'[c] # NoDataset)
    <3>1. datasets'[d] # NoDataset /\ datasets[d] # NoDataset
      BY <2>8, <2>9, <1>4, Blanks, DatasetConstants DEF Exists
    <3> QED
      BY <3>1, <2>8, <2>9 DEF Exists, Live
  <2>12. \A c : VersionsOf(c)' = VersionsOf(c)
    BY <1>u DEF VersionsOf
  <2>13. Keys'
    <3>1. ASSUME NEW c \in DatasetIds
          PROVE  /\ datasets'[c].current # NoId => versionRow'[datasets'[c].current].of = c
                 /\ stable'[c] # NoId => versionRow'[stable'[c]].of = c
                 /\ ~Exists(c)' => /\ datasets'[c] \in {NoDataset, GoneDataset}
                                   /\ stable'[c] = NoId
                 /\ datasets'[c] = NoDataset => firsts'[c] = 0
                 /\ IsFiniteSet(VersionsOf(c)')
      <4>1. CASE c = d
        BY <4>1, <1>4, <1>s, <1>u, <2>4, <2>8, <2>9, <2>11, <2>12 DEF Keys
      <4>2. CASE c # d
        BY <4>2, <1>s, <1>u, <2>9, <2>11, <2>12 DEF Keys
      <4> QED
        BY <4>1, <4>2
    <3>2. ASSUME NEW w \in DatasetVersions, versionRow[w].of # NoId
          PROVE  Live(datasets', versionRow[w].of)
      <4>1. Live(datasets, versionRow[w].of) /\ versionRow[w].of \in DatasetIds
        BY <3>2, <1>s, RowTypes DEF Keys, Ids
      <4> QED
        BY <4>1, <2>11
    <3>3. ASSUME NEW t \in Tiers, bound[t] # NoId PROVE Live(datasets', bound[t])
      <4>1. Live(datasets, bound[t]) /\ bound[t] \in DatasetIds
        BY <3>3, <1>s DEF Keys, DatasetsShape, Ids
      <4> QED
        BY <4>1, <2>11
    <3> QED
      BY <3>1, <3>2, <3>3, <1>u DEF Keys
  <2>14. ASSUME NEW f \in Editors PROVE HoldsRows(editor'[f], datasets', versionRow')
    <3>1. CASE f = e
      <4>1. HoldsRows(y, datasets', versionRow)
        BY <2>4, <2>5, <2>11, <1>2 DEF HoldsRows
      <4> QED
        BY <3>1, <4>1, <2>9, <1>u
    <3>2. CASE f # e
      <4>1. HoldsRows(editor[f], datasets, versionRow)
        BY DEF TablesInv
      <4>2. editor[f].of \in DatasetIds =>
              /\ Live(datasets', editor[f].of) = Live(datasets, editor[f].of)
              /\ datasets[editor[f].of] # NoDataset => datasets'[editor[f].of] # NoDataset
        BY <2>9, <2>11
      <4>3. HoldsRows(editor[f], datasets', versionRow)
        BY <4>1, <4>2 DEF HoldsRows
      <4> QED
        BY <3>2, <4>3, <2>9, <1>u
    <3> QED
      BY <3>1, <3>2
  <2>15. Dense(d)'
    <3> SUFFICES ASSUME d \notin touched PROVE Dense(d)'
      BY <1>u DEF Dense
    <3>1. Dense(d)
      BY <1>2 DEF TablesInv
    <3>2. {versionRow'[w].label : w \in VersionsOf(d)'} = {versionRow[w].label : w \in VersionsOf(d)}
      BY <2>12, <1>u
    <3>3. ASSUME NEW f \in Editors, editor'[f].of = d
          PROVE  /\ editor'[f].label = 0
                 /\ (editor'[f].step = "insert" /\ Exists(d)') =>
                        editor'[f].count <= Cardinality(VersionsOf(d)')
      <4>1. CASE f = e
        BY <4>1, <3>1, <2>5, <2>9, <1>1 DEF Dense
      <4>2. CASE f # e
        BY <4>2, <3>1, <3>3, <2>9, <2>12, <1>4 DEF Dense
      <4> QED
        BY <4>1, <4>2
    <3> QED
      BY <3>1, <3>2, <3>3, <2>12, <1>u DEF Dense
  <2>16. Settles(d)'
    <3> SUFFICES ASSUME d \notin touched PROVE VersionInHand(d)' /\ SetOnce(d)'
      BY <1>u DEF Settles
    <3>1. VersionInHand(d) /\ SetOnce(d)
      BY <1>2, <1>4 DEF TablesInv, Settles
    <3>2. datasets'[d].current = v /\ v # NoId
      BY <2>4, <2>8, <2>9, DatasetConstants
    <3>3. editor'[e].of = d /\ editor'[e].step = "alias"
      BY <2>5, <2>9
    <3>4. VersionInHand(d)'
      BY <3>2, <3>3 DEF VersionInHand
    <3>5. SetOnce(d)'
      <4> SUFFICES ASSUME firsts[d] <= 1 PROVE SetOnce(d)'
        BY <1>u DEF SetOnce
      <4>1. \A f \in Editors : FirstOf(f, d)' <=> FirstOf(f, d)
        BY <2>4, <2>5, <2>9, <1>1 DEF FirstOf
      <4>2. FirstOf(e, d)
        BY <2>4, <1>1 DEF FirstOf
      <4>3. \A f \in Editors : FirstOf(f, d)' => f = e
        BY <4>1, <4>2, <3>1 DEF SetOnce
      <4>4. firsts[d] # 0
        BY <4>2, <3>1 DEF SetOnce
      <4>5. ASSUME NEW f \in Editors, editor'[f].of = d, editor'[f].step = "alias"
            PROVE  f = e
        BY <4>5, <4>3, <2>14 DEF HoldsRows, FirstOf
      <4>6. editor'[e].version = v
        BY <2>5, <2>9
      <4> QED
        BY <3>2, <3>3, <4>3, <4>4, <4>5, <4>6, <1>u DEF SetOnce
    <3> QED
      BY <3>4, <3>5
  <2>17. ASSUME NEW c \in DatasetIds, c # d PROVE Dense(c)' /\ Settles(c)'
    <3>1. \A f \in Editors : editor[f].of = c \/ editor'[f].of = c => editor'[f] = editor[f]
      BY <2>17, <2>5, <2>9, <1>1
    <3>2. Spared(c)
      BY <2>17, <3>1, <2>9, <2>11, <2>12, <1>u DEF Spared
    <3> QED
      BY <3>2, SparedKeeps DEF TablesInv
  <2> QED
    BY <2>10, <2>13, <2>14, <2>15, <2>16, <2>17 DEF TablesInv
<1> QED
  BY <1>3, <1>4

\* A request points the alias at the version it has made, and ends.
LEMMA SetStableKeeps == ASSUME TablesInv, NEW e \in Editors, SetStable(e) PROVE TablesInv'
<1>s. DatasetsShape /\ Keys
  BY DEF TablesInv
<1>1. PICK d : d = editor[e].of
  OBVIOUS
<1>2. /\ editor[e] \in EditRecord /\ HoldsRows(editor[e], datasets, versionRow)
      /\ d \in DatasetIds /\ datasets[d] # NoDataset /\ editor[e].step = "alias"
  BY <1>1, Subject DEF SetStable
<1>u. /\ UNCHANGED <<datasets, versionRow, bound, drops, edits, firsts, touched>>
      /\ edits' \in 0 .. MaxEdits /\ drops' \in 0 .. MaxDrops
      /\ editor' = [editor EXCEPT ![e] = NoEdit]
  BY <1>s DEF SetStable, EditStep, DatasetsShape
<1>3. CASE ~Exists(d)
  <2>1. UNCHANGED stable
    BY <1>3, <1>1 DEF SetStable
  <2> QED
    BY <2>1, <1>1, <1>2, <1>3, <1>u, RequestEnds DEF Live, Exists
<1>4. CASE Exists(d)
  <2>1. PICK v : v = editor[e].version
    OBVIOUS
  <2>2. v \in DatasetVersions /\ versionRow[v].of = d /\ editor[e].first
    BY <2>1, <1>1, <1>2, <1>4 DEF HoldsRows, Live, Exists
  <2>3. stable' = [stable EXCEPT ![d] = v]
    BY <2>1, <1>1, <1>4 DEF SetStable
  <2>4. /\ stable' \in [DatasetIds -> Vers] /\ stable'[d] = v
        /\ \A c \in DatasetIds : c # d => stable'[c] = stable[c]
    BY <2>2, <2>3, <1>s, <1>2 DEF DatasetsShape, Vers
  <2>5. NoEdit \in EditRecord /\ HoldsRows(NoEdit, datasets, versionRow)
    BY Blanks DEF HoldsRows
  <2>6. /\ editor' \in [Editors -> EditRecord]
        /\ editor'[e] = NoEdit /\ \A f \in Editors : f # e => editor'[f] = editor[f]
        /\ \A f \in Editors : HoldsRows(editor'[f], datasets', versionRow')
    BY <2>5, <1>u, RequestsStay
  <2>7. DatasetsShape'
    BY <2>4, <2>6, <1>s, <1>u DEF DatasetsShape
  <2>8. Keys'
    <3>1. \A c \in DatasetIds :
            \/ stable'[c] = stable[c]
            \/ Exists(c) /\ (stable'[c] # NoId => versionRow[stable'[c]].of = c)
      BY <2>2, <2>4, <1>4
    <3>2. \A t \in Tiers : bound'[t] # NoId => bound'[t] = bound[t] \/ Live(datasets, bound'[t])
      BY <1>u
    <3>3. \A c \in DatasetIds : datasets[c] = NoDataset => firsts'[c] = firsts[c]
      BY <1>u
    <3> QED
      BY <3>1, <3>2, <3>3, <1>s, <1>u, KeysStay
  <2>9. \A c : Exists(c)' = Exists(c) /\ VersionsOf(c)' = VersionsOf(c)
    BY <1>u DEF Exists, VersionsOf
  <2>10. Dense(d)'
    <3> SUFFICES ASSUME d \notin touched PROVE Dense(d)'
      BY <1>u DEF Dense
    <3>1. Dense(d)
      BY <1>2 DEF TablesInv
    <3>2. {versionRow'[w].label : w \in VersionsOf(d)'} = {versionRow[w].label : w \in VersionsOf(d)}
      BY <2>9, <1>u
    <3>3. \A f \in Editors : editor'[f].of = d => editor'[f] = editor[f]
      BY <2>6, <1>2, Blanks, DatasetConstants
    <3>4. ASSUME NEW f \in Editors, editor'[f].of = d
          PROVE  /\ editor'[f].label = 0
                 /\ (editor'[f].step = "insert" /\ Exists(d)') =>
                        editor'[f].count <= Cardinality(VersionsOf(d)')
      BY <3>1, <3>3, <3>4, <2>9 DEF Dense
    <3> QED
      BY <3>1, <3>2, <3>4, <2>9, <1>u DEF Dense
  <2>11. Settles(d)'
    <3> SUFFICES ASSUME d \notin touched PROVE VersionInHand(d)' /\ SetOnce(d)'
      BY <1>u DEF Settles
    <3>1. VersionInHand(d) /\ SetOnce(d)
      BY <1>2, <1>4 DEF TablesInv, Settles
    <3>2. stable'[d] = v /\ v # NoId
      BY <2>2, <2>4, DatasetConstants
    <3>3. \A f \in Editors : editor'[f].of = d => f # e /\ editor'[f] = editor[f]
      BY <2>6, <1>2, Blanks, DatasetConstants
    <3>4. \A f \in Editors : (editor[f].of = d /\ editor[f].step = "current") =>
             editor'[f].of = d /\ editor'[f].step = "current"
      BY <2>6, <1>2
    <3>5. VersionInHand(d)'
      <4>1. (VersionsOf(d) # {} /\ datasets[d].current = NoId) =>
               \E f \in Editors : editor'[f].of = d /\ editor'[f].step = "current"
        BY <3>1, <3>4 DEF VersionInHand
      <4>2. \A f \in Editors :
              (editor'[f].of = d /\ ~editor'[f].first /\ editor'[f].step \in {"count", "insert"}) =>
                 datasets[d].current # NoId
        BY <3>1, <3>3 DEF VersionInHand
      <4> QED
        BY <4>1, <4>2, <3>2, <2>9, <1>u DEF VersionInHand
    <3>6. SetOnce(d)'
      <4> SUFFICES ASSUME firsts[d] <= 1 PROVE SetOnce(d)'
        BY <1>u DEF SetOnce
      <4>1. FirstOf(e, d) /\ \A f \in Editors : FirstOf(f, d) => f = e
        BY <2>2, <1>1, <3>1 DEF FirstOf, SetOnce
      <4>2. \A f \in Editors : ~FirstOf(f, d)'
        BY <4>1, <3>3 DEF FirstOf
      <4>3. \A f \in Editors : ~(editor'[f].of = d /\ editor'[f].step = "alias")
        BY <4>2, <2>6 DEF HoldsRows, FirstOf
      <4>4. datasets[d].current = v
        BY <3>1, <2>1, <1>1, <1>2 DEF SetOnce
      <4> QED
        BY <4>2, <4>3, <4>4, <3>2, <1>u DEF SetOnce
    <3> QED
      BY <3>5, <3>6
  <2>12. ASSUME NEW c \in DatasetIds, c # d PROVE Dense(c)' /\ Settles(c)'
    <3>1. \A f \in Editors : editor[f].of = c \/ editor'[f].of = c => editor'[f] = editor[f]
      BY <2>12, <2>6, <1>1, Blanks, DatasetConstants
    <3>2. Spared(c)
      BY <2>12, <3>1, <2>4, <2>9, <1>u DEF Spared
    <3> QED
      BY <3>2, SparedKeeps DEF TablesInv
  <2> QED
    BY <2>6, <2>7, <2>8, <2>10, <2>11, <2>12 DEF TablesInv
<1> QED
  BY <1>3, <1>4

\* The delete: the versions, the alias and the overrides go with the row.
LEMMA DeleteDatasetKeeps == ASSUME TablesInv, NEW e \in Editors, DeleteDataset(e) PROVE TablesInv'
<1>s. DatasetsShape /\ Keys
  BY DEF TablesInv
<1>1. PICK d : d = editor[e].of
  OBVIOUS
<1>2. /\ editor[e] \in EditRecord /\ d \in DatasetIds /\ datasets[d] # NoDataset
      /\ editor[e].step = "delete"
  BY <1>1, Subject DEF DeleteDataset
<1>u. /\ UNCHANGED <<drops, edits, firsts, touched>>
      /\ edits' \in 0 .. MaxEdits /\ drops' \in 0 .. MaxDrops
      /\ editor' = [editor EXCEPT ![e] = NoEdit]
      /\ datasets' = [datasets EXCEPT ![d] = GoneDataset]
      /\ stable' = [stable EXCEPT ![d] = NoId]
  BY <1>s, <1>1 DEF DeleteDataset, EditStep, DatasetsShape
<1>3. /\ versionRow' = [v \in DatasetVersions |->
             IF versionRow[v].of = d THEN [versionRow[v] EXCEPT !.of = NoId] ELSE versionRow[v]]
      /\ bound' = [t \in Tiers |-> IF bound[t] = d THEN NoId ELSE bound[t]]
  BY <1>1 DEF DeleteDataset
<1>4. \A v \in DatasetVersions :
         /\ versionRow'[v] \in VersionRecord
         /\ versionRow[v].of = d => versionRow'[v].of = NoId
         /\ versionRow[v].of # d => versionRow'[v] = versionRow[v]
  <2> TAKE v \in DatasetVersions
  <2>1. versionRow[v] \in VersionRecord
    BY <1>s, RowTypes
  <2>2. CASE versionRow[v].of = d
    <3>1. versionRow'[v] = [versionRow[v] EXCEPT !.of = NoId]
      BY <2>2, <1>3
    <3> QED
      BY <2>1, <2>2, <3>1, DatasetConstants DEF VersionRecord
  <2>3. CASE versionRow[v].of # d
    BY <2>1, <2>3, <1>3
  <2> QED
    BY <2>2, <2>3
<1>5. /\ datasets'[d] = GoneDataset /\ \A c \in DatasetIds : c # d => datasets'[c] = datasets[c]
      /\ stable'[d] = NoId /\ \A c \in DatasetIds : c # d => stable'[c] = stable[c]
      /\ editor'[e] = NoEdit /\ \A f \in Editors : f # e => editor'[f] = editor[f]
  BY <1>s, <1>2, <1>u DEF DatasetsShape
<1>6. \A t \in Tiers : bound'[t] \in Ids /\ (bound'[t] # NoId => bound'[t] = bound[t] /\ bound[t] # d)
  BY <1>s, <1>3, DatasetConstants DEF DatasetsShape
<1>7. DatasetsShape'
  <2>1. versionRow' \in [DatasetVersions -> VersionRecord] /\ bound' \in [Tiers -> Ids]
    BY <1>3, <1>4, <1>6
  <2>2. datasets' \in [DatasetIds -> DatasetRecord] /\ stable' \in [DatasetIds -> Vers]
    BY <1>s, <1>u, Blanks, DatasetConstants DEF DatasetsShape
  <2>3. editor' \in [Editors -> EditRecord]
    BY <1>s, <1>u, Blanks DEF DatasetsShape
  <2> QED
    BY <2>1, <2>2, <2>3, <1>s, <1>u DEF DatasetsShape
<1>8. /\ ~Exists(d)' /\ GoneDataset # NoDataset
      /\ \A c \in DatasetIds : c # d => /\ Exists(c)' = Exists(c)
                                        /\ Live(datasets', c) = Live(datasets, c)
  <2>1. GoneDataset # NoDataset
    BY Blanks
  <2>2. datasets'[d].scope = "deleted"
    BY <1>5, Blanks
  <2>3. ~Exists(d)'
    BY <2>2, DatasetConstants DEF Exists
  <2>4. \A c \in DatasetIds : c # d => /\ Exists(c)' = Exists(c)
                                      /\ Live(datasets', c) = Live(datasets, c)
    BY <1>5 DEF Exists, Live
  <2> QED
    BY <2>1, <2>3, <2>4
<1>9. VersionsOf(d)' = {}
  <2>1. NoId # d
    BY <1>2, DatasetConstants
  <2>2. \A v \in DatasetVersions : versionRow'[v].of # d
    BY <2>1, <1>4
  <2> QED
    BY <2>2 DEF VersionsOf
<1>10. ASSUME NEW c \in DatasetIds, c # d PROVE VersionsOf(c)' = VersionsOf(c)
  <2>1. ASSUME NEW v \in DatasetVersions PROVE versionRow'[v].of = c <=> versionRow[v].of = c
    BY <1>10, <1>4, DatasetConstants
  <2> QED
    BY <2>1 DEF VersionsOf
<1>11. Keys'
  <2>1. ASSUME NEW c \in DatasetIds
        PROVE  /\ datasets'[c].current # NoId => versionRow'[datasets'[c].current].of = c
               /\ stable'[c] # NoId => versionRow'[stable'[c]].of = c
               /\ ~Exists(c)' => /\ datasets'[c] \in {NoDataset, GoneDataset}
                                 /\ stable'[c] = NoId
               /\ datasets'[c] = NoDataset => firsts'[c] = 0
               /\ IsFiniteSet(VersionsOf(c)')
    <3>1. CASE c = d
      BY <3>1, <1>5, <1>8, <1>9, Blanks, FS_EmptySet
    <3>2. CASE c # d
      <4>1. datasets[c].current \in Vers /\ stable[c] \in Vers
        BY <1>s, RowTypes
      <4>2. /\ datasets[c].current # NoId => versionRow'[datasets[c].current].of = c
            /\ stable[c] # NoId => versionRow'[stable[c]].of = c
        BY <3>2, <4>1, <1>s, <1>4 DEF Keys, Vers
      <4>3. IsFiniteSet(VersionsOf(c)')
        BY <3>2, <1>s, <1>10 DEF Keys
      <4> QED
        BY <3>2, <4>2, <4>3, <1>s, <1>5, <1>8, <1>u DEF Keys
    <3> QED
      BY <3>1, <3>2
  <2>2. ASSUME NEW v \in DatasetVersions, versionRow'[v].of # NoId PROVE Live(datasets', versionRow'[v].of)
    <3>1. versionRow'[v].of = versionRow[v].of /\ versionRow[v].of # d
      BY <2>2, <1>4
    <3>2. Live(datasets, versionRow[v].of) /\ versionRow[v].of \in DatasetIds
      BY <2>2, <3>1, <1>s, RowTypes DEF Keys, Ids
    <3> QED
      BY <3>1, <3>2, <1>8
  <2>3. ASSUME NEW t \in Tiers, bound'[t] # NoId PROVE Live(datasets', bound'[t])
    <3>1. Live(datasets, bound[t]) /\ bound[t] \in DatasetIds /\ bound[t] # d /\ bound'[t] = bound[t]
      BY <2>3, <1>6, <1>s DEF Keys, Ids
    <3> QED
      BY <3>1, <1>8
  <2> QED
    BY <2>1, <2>2, <2>3 DEF Keys
<1>12. ASSUME NEW f \in Editors PROVE HoldsRows(editor'[f], datasets', versionRow')
  <2>1. CASE f = e
    <3>1. HoldsRows(NoEdit, datasets', versionRow')
      BY Blanks DEF HoldsRows
    <3> QED
      BY <2>1, <3>1, <1>5
  <2>2. CASE f # e
    <3>0. HoldsRows(editor[f], datasets, versionRow)
      BY DEF TablesInv
    <3>1. \A c \in DatasetIds : /\ datasets[c] # NoDataset => datasets'[c] # NoDataset
                                /\ Live(datasets', c) => c # d /\ Live(datasets, c)
      BY <1>5, <1>8 DEF Live, Exists
    <3>2. HoldsRows(editor[f], datasets', versionRow')
      BY <3>0, <3>1, <1>4 DEF HoldsRows
    <3> QED
      BY <2>2, <3>2, <1>5
  <2> QED
    BY <2>1, <2>2
<1>13. ASSUME NEW c \in DatasetIds
       PROVE  \A f \in Editors : editor'[f].of = c => editor'[f] = editor[f]
  <2>1. editor'[e].of # c
    BY <1>5, Blanks, DatasetConstants
  <2> QED
    BY <2>1, <1>5
<1>14. Dense(d)' /\ Settles(d)'
  <2>1. Settles(d)'
    BY <1>8 DEF Settles
  <2>2. Dense(d)'
    <3> SUFFICES ASSUME d \notin touched PROVE Dense(d)'
      BY <1>u DEF Dense
    <3>1. Dense(d)
      BY <1>2 DEF TablesInv
    <3>0. \A f \in Editors : editor'[f].of = d => editor'[f] = editor[f]
      BY <1>13, <1>2
    <3>2. \A f \in Editors : editor'[f].of = d => editor'[f].label = 0
      BY <3>0, <3>1 DEF Dense
    <3>3. {versionRow'[v].label : v \in VersionsOf(d)'} = {} /\ 1 .. 0 = {}
      BY <1>9
    <3>4. Cardinality(VersionsOf(d)') = 0
      BY <1>9, FS_EmptySet
    <3> QED
      BY <3>2, <3>3, <3>4, <1>8 DEF Dense
  <2> QED
    BY <2>1, <2>2
<1>15. ASSUME NEW c \in DatasetIds, c # d PROVE Dense(c)' /\ Settles(c)'
  <2>1. \A f \in Editors : editor[f].of = c \/ editor'[f].of = c => editor'[f] = editor[f]
    <3>1. \A f \in Editors : editor[f].of = c => editor'[f] = editor[f]
      BY <1>15, <1>1, <1>5
    <3> QED
      BY <3>1, <1>13
  <2>2. \A v \in VersionsOf(c) : versionRow'[v] = versionRow[v]
    BY <1>15, <1>4 DEF VersionsOf
  <2>3. Spared(c)
    BY <1>15, <2>1, <2>2, <1>5, <1>8, <1>10, <1>u DEF Spared
  <2> QED
    BY <2>3, SparedKeeps DEF TablesInv
<1> QED
  BY <1>7, <1>11, <1>12, <1>14, <1>15 DEF TablesInv

LEMMA TablesStep == ASSUME TablesInv, [DatasetsNext]_datasetVars PROVE TablesInv'
<1>s. DatasetsShape
  BY DEF TablesInv
<1>1. ASSUME NEW s \in Scopes, CreateDataset(s) PROVE TablesInv'
  BY <1>1, CreateDatasetKeeps
<1>2. ASSUME NEW d \in DatasetIds, NEW a \in BOOLEAN, PatchArchived(d, a) PROVE TablesInv'
  BY <1>2, PatchArchivedKeeps
<1>3. ASSUME NEW d \in DatasetIds, NEW v \in DatasetVersions, PatchAlias(d, v) PROVE TablesInv'
  BY <1>3, PatchAliasKeeps
<1>4. ASSUME NEW t \in Tiers, NEW d \in DatasetIds \cup {NoId}, PutBinding(t, d) PROVE TablesInv'
  BY <1>4, PutBindingKeeps
<1>5. ASSUME NEW e \in Editors, NEW d \in DatasetIds, NEW l \in ChosenLabels \cup {0},
             BeginVersion(e, d, l)
      PROVE  TablesInv'
  BY <1>5, BeginVersionKeeps
<1>6. ASSUME NEW e \in Editors, NEW d \in DatasetIds, NEW force \in BOOLEAN,
             BeginDatasetDelete(e, d, force)
      PROVE  TablesInv'
  BY <1>6, BeginDatasetDeleteKeeps
<1>7. ASSUME NEW e \in Editors,
             \/ CountVersions(e) \/ InsertVersion(e) \/ SetCurrent(e) \/ SetStable(e)
             \/ DeleteDataset(e) \/ DropRequest(e)
      PROVE  TablesInv'
  BY <1>7, CountVersionsKeeps, InsertVersionKeeps, SetCurrentKeeps, SetStableKeeps,
     DeleteDatasetKeeps, DropRequestKeeps
<1>8. ASSUME DatasetResolver PROVE TablesInv'
  <2>1. UNCHANGED <<datasetRows, editor, edits, firsts, touched>>
    BY <1>8 DEF DatasetResolver, StartResolve, GetBound, ResolveSlug, ResolveAlias, GetVersion,
                ResolveFails, ResolveAgain, LookupStep
  <2>2. drops' = drops \/ (drops > 0 /\ drops' = drops - 1)
    BY <1>8 DEF DatasetResolver, StartResolve, GetBound, ResolveSlug, ResolveAlias, GetVersion,
                ResolveFails, ResolveAgain, LookupStep
  <2>3. edits' \in 0 .. MaxEdits /\ drops' \in 0 .. MaxDrops
    BY <2>1, <2>2, <1>s, DatasetConstants DEF DatasetsShape
  <2> QED
    BY <2>1, <2>3, TablesAlone
<1>9. ASSUME UNCHANGED datasetVars PROVE TablesInv'
  <2>1. UNCHANGED <<datasetRows, editor, edits, drops, firsts, touched>>
    BY <1>9 DEF datasetVars, datasetRows
  <2> QED
    BY <2>1, <1>s, TablesAlone DEF DatasetsShape
<1> QED
  BY <1>1, <1>2, <1>3, <1>4, <1>5, <1>6, <1>7, <1>8, <1>9 DEF DatasetsNext, DatasetRoutes

-----------------------------------------------------------------------------
(* resolve(): what it is bound to answer when nothing more is written.     *)
(* The tables are parameters, so that two states of them can be compared.  *)

Open(ds, s) == {d \in DatasetIds : ds[d].scope = s /\ ~ds[d].archived}

Ans(ds, st, d) ==
    IF st[d] # NoId THEN <<"ok", d, st[d]>>
    ELSE IF ds[d].current # NoId THEN <<"ok", d, ds[d].current>> ELSE <<"unbuilt", d, NoId>>

FromGlobal(ds, st) ==
    IF Open(ds, "global") # {} THEN Ans(ds, st, FirstRow(Open(ds, "global"))) ELSE NoAnswer
FromTenant(ds, st) ==
    IF Open(ds, "tenant") # {} THEN Ans(ds, st, FirstRow(Open(ds, "tenant")))
    ELSE FromGlobal(ds, st)
FromEnv(ds, st) ==
    IF Open(ds, "environment") # {} THEN Ans(ds, st, FirstRow(Open(ds, "environment")))
    ELSE FromTenant(ds, st)

Over(b) == IF b["environment"] # NoId THEN b["environment"] ELSE b["tenant"]
RightOf(ds, st, b) == IF Over(b) # NoId THEN Ans(ds, st, Over(b)) ELSE FromEnv(ds, st)

AfterVersion(d, v, vr) == IF vr[v].of # NoId THEN <<"ok", d, v>> ELSE NoAnswer
AfterAlias(d, cur, vr, st) ==
    IF st[d] # NoId THEN AfterVersion(d, st[d], vr)
    ELSE IF cur # NoId THEN AfterVersion(d, cur, vr) ELSE <<"unbuilt", d, NoId>>

\* The answer resolve() comes to from l, the tables staying as they are.
Fate(l, ds, vr, st) ==
    IF l.step = "bound"
    THEN IF l.of # NoId /\ Live(ds, l.of) THEN Ans(ds, st, l.of) ELSE FromEnv(ds, st)
    ELSE IF l.step = "environment" THEN FromEnv(ds, st)
    ELSE IF l.step = "tenant" THEN FromTenant(ds, st)
    ELSE IF l.step = "global" THEN FromGlobal(ds, st)
    ELSE IF l.step = "alias" THEN AfterAlias(l.of, l.current, vr, st)
    ELSE AfterVersion(l.of, l.version, vr)

Underway == {"bound", "environment", "tenant", "global", "alias", "version"}

\* Nothing has been written yet: l holds what the tables say.
Held(l, ds, vr, st, b) ==
    /\ l.step = "bound" => l.of = Over(b)
    /\ l.step \in Scopes => Over(b) = NoId
    /\ l.step \in {"tenant", "global"} => Open(ds, "environment") = {}
    /\ l.step = "global" => Open(ds, "tenant") = {}
    /\ l.step \in {"alias", "version"} =>
         /\ l.of \in DatasetIds /\ Live(ds, l.of)
         /\ \A aliases : RightOf(ds, aliases, b) = Ans(ds, aliases, l.of)
    /\ l.step = "alias" => l.current = ds[l.of].current
    /\ l.step = "version" => /\ l.version \in DatasetVersions /\ vr[l.version].of = l.of
                             /\ RightOf(ds, st, b) = <<"ok", l.of, l.version>>

\* The dataset held is gone, and nothing is found in it.
Lost(l, ds, vr, st) ==
    l.step \in {"alias", "version"} /\ ~Live(ds, l.of) /\ Fate(l, ds, vr, st)[1] # "ok"

\* The override's target is gone before it is read.
Unbound(l, ds) == l.step = "bound" /\ l.of # NoId /\ ~Live(ds, l.of)

\* The foreign keys of the tables.
RowsKeyed(ds, vr, st, b) ==
    /\ \A d \in DatasetIds : /\ ds[d].current # NoId => vr[ds[d].current].of = d
                             /\ st[d] # NoId => vr[st[d]].of = d
                             /\ st[d] \in Vers /\ ds[d].current \in Vers
    /\ \A t \in Tiers : b[t] # NoId => b[t] \in DatasetIds /\ Live(ds, b[t])

ResolveInv ==
    /\ lookup \in LookupRecord /\ changes \in Nat
    /\ lookup.of # NoId => datasets[lookup.of] # NoDataset
    /\ lookup.step \in {"alias", "version"} => lookup.of # NoId
    /\ lookup.step \in {"idle", "bound"} => bySlug = {}
    /\ (lookup.step \in Underway /\ changes = 0) =>
         /\ RightOf(datasets, stable, bound) \in right
         /\ Held(lookup, datasets, versionRow, stable, bound)
    /\ (lookup.step \in Underway /\ changes = 1) =>
         \/ Fate(lookup, datasets, versionRow, stable) \in right \cup bySlug
         \/ Lost(lookup, datasets, versionRow, stable)
         \/ Unbound(lookup, datasets)
    /\ (lookup.step = "done" /\ answer[1] # "failed" /\ changes <= 1) =>
         \/ answer \in right \cup bySlug
         \/ answer[1] # "ok" /\ lookup.of # NoId /\ ~Live(datasets, lookup.of)

LEMMA OpenIds ==
    ASSUME NEW ds, NEW s, Open(ds, s) # {}
    PROVE  /\ FirstRow(Open(ds, s)) \in DatasetIds /\ FirstRow(Open(ds, s)) # NoId
           /\ ds[FirstRow(Open(ds, s))].scope = s
<1>1. FirstRow(Open(ds, s)) \in Open(ds, s)
  BY DEF FirstRow
<1> QED
  BY <1>1, DatasetConstants DEF Open

\* The views of the specification, now and after a step.
LEMMA Views ==
    /\ \A s : At(s) = Open(datasets, s)
    /\ \A d : Exists(d) = Live(datasets, d) /\ AnswerOf(d) = Ans(datasets, stable, d)
    /\ Override = Over(bound)
<1>1. ASSUME NEW d PROVE Exists(d) = Live(datasets, d) /\ AnswerOf(d) = Ans(datasets, stable, d)
  BY DEF Exists, Live, AnswerOf, Ans
<1> QED
  BY <1>1 DEF At, Open, Override, Over

LEMMA SlugView == SlugAnswer = FromEnv(datasets, stable)
<1>1. Scopes = {"environment", "tenant", "global"}
  BY DEF Scopes
<1>2. \A s : At(s) = Open(datasets, s)
  BY Views
<1>3. Narrowest = IF Open(datasets, "environment") # {} THEN FirstRow(Open(datasets, "environment"))
                  ELSE IF Open(datasets, "tenant") # {} THEN FirstRow(Open(datasets, "tenant"))
                  ELSE IF Open(datasets, "global") # {} THEN FirstRow(Open(datasets, "global"))
                  ELSE NoId
  BY <1>1, <1>2 DEF Narrowest
<1>4. \A d : AnswerOf(d) = Ans(datasets, stable, d)
  BY Views
<1>5. \A s \in Scopes : Open(datasets, s) # {} => FirstRow(Open(datasets, s)) # NoId
  BY OpenIds
<1> QED
  BY <1>1, <1>3, <1>4, <1>5 DEF SlugAnswer, FromEnv, FromTenant, FromGlobal

LEMMA RightView == RightAnswer = RightOf(datasets, stable, bound)
  BY SlugView, Views DEF RightAnswer, RightOf

LEMMA AliasFate ==
    ASSUME NEW ds, NEW vr, NEW st, NEW b, RowsKeyed(ds, vr, st, b), NEW d \in DatasetIds
    PROVE  AfterAlias(d, ds[d].current, vr, st) = Ans(ds, st, d)
  BY DatasetConstants DEF RowsKeyed, AfterAlias, AfterVersion, Ans

LEMMA OverLive ==
    ASSUME NEW ds, NEW vr, NEW st, NEW b, RowsKeyed(ds, vr, st, b), Over(b) # NoId
    PROVE  Over(b) \in DatasetIds /\ Live(ds, Over(b))
  BY DatasetConstants DEF RowsKeyed, Over

\* While nothing is written, the answer to come is the right one.
LEMMA FateRight ==
    ASSUME NEW ds, NEW vr, NEW st, NEW b, NEW l, RowsKeyed(ds, vr, st, b),
           Held(l, ds, vr, st, b), l.step \in Underway
    PROVE  Fate(l, ds, vr, st) = RightOf(ds, st, b)
<1>1. CASE l.step = "bound"
  BY <1>1, OverLive DEF Held, Fate, RightOf
<1>2. CASE l.step = "environment"
  BY <1>2, DatasetConstants DEF Held, Fate, RightOf
<1>3. CASE l.step = "tenant"
  BY <1>3, DatasetConstants DEF Held, Fate, RightOf, FromEnv
<1>4. CASE l.step = "global"
  BY <1>4, DatasetConstants DEF Held, Fate, RightOf, FromEnv, FromTenant
<1>5. CASE l.step = "alias"
  BY <1>5, AliasFate DEF Held, Fate
<1>6. CASE l.step = "version"
  BY <1>6, DatasetConstants DEF Held, Fate, AfterVersion
<1> QED
  BY <1>1, <1>2, <1>3, <1>4, <1>5, <1>6 DEF Underway

LEMMA RightViewNext == RightAnswer' = RightOf(datasets', stable', bound')
<1>1. (RightAnswer = RightOf(datasets, stable, bound))'
  BY RightView, PTL
<1> QED
  BY <1>1

\* What a write leaves resolve(): the fate it had, the right answer after the
\* write, or a row that is gone.
Told(l, ds, vr, st, b, ds2, vr2, st2, b2) ==
    \/ Held(l, ds2, vr2, st2, b2)
    \/ Fate(l, ds2, vr2, st2) = Fate(l, ds, vr, st)
    \/ Lost(l, ds2, vr2, st2)
    \/ Unbound(l, ds2)

LEMMA ToldByOverride ==
    ASSUME NEW l, NEW ds, NEW vr, NEW st, NEW b, NEW b2
    PROVE  Told(l, ds, vr, st, b, ds, vr, st, b2)
BY DEF Told

\* A dataset d is made, archived or taken back in its scope.
LEMMA ToldByScope ==
    ASSUME NEW l, NEW ds, NEW vr, NEW st, NEW b, NEW ds2, NEW d \in DatasetIds,
           l.step \in Underway, Held(l, ds, vr, st, b),
           \A c \in DatasetIds : c # d => ds2[c] = ds[c],
           Live(ds, d) => ds2[d].scope = ds[d].scope,
           ds2[d].scope \in Scopes, ds2[d].current = ds[d].current
    PROVE  Told(l, ds, vr, st, b, ds2, vr, st, b)
<1>1. ASSUME NEW s \in Scopes, s # ds2[d].scope PROVE Open(ds2, s) = Open(ds, s)
  <2>1. ASSUME NEW c \in DatasetIds
        PROVE  (ds2[c].scope = s /\ ~ds2[c].archived) <=> (ds[c].scope = s /\ ~ds[c].archived)
    BY <1>1 DEF Live
  <2> QED
    BY <2>1 DEF Open
<1>2. \A c \in DatasetIds : Ans(ds2, st, c) = Ans(ds, st, c)
  <2> TAKE c \in DatasetIds
  <2>1. ds2[c].current = ds[c].current
    OBVIOUS
  <2> QED
    BY <2>1 DEF Ans
<1>3. ds2[d].scope # "global" => FromGlobal(ds2, st) = FromGlobal(ds, st)
  BY <1>1, <1>2, OpenIds, DatasetConstants DEF FromGlobal
<1>4. ds2[d].scope \notin {"tenant", "global"} => FromTenant(ds2, st) = FromTenant(ds, st)
  BY <1>1, <1>2, <1>3, OpenIds, DatasetConstants DEF FromTenant
<1>5. CASE l.step \in {"bound", "environment"}
  <2>1. Held(l, ds2, vr, st, b)
    BY <1>5, DatasetConstants DEF Held
  <2> QED
    BY <2>1 DEF Told
<1>6. CASE l.step = "tenant"
  <2>1. CASE ds2[d].scope = "environment"
    <3>1. Fate(l, ds2, vr, st) = Fate(l, ds, vr, st)
      BY <1>6, <2>1, <1>4 DEF Fate
    <3> QED
      BY <3>1 DEF Told
  <2>2. CASE ds2[d].scope # "environment"
    <3>1. Open(ds2, "environment") = {}
      BY <1>6, <2>2, <1>1, DatasetConstants DEF Held
    <3>2. Held(l, ds2, vr, st, b)
      BY <1>6, <3>1, DatasetConstants DEF Held
    <3> QED
      BY <3>2 DEF Told
  <2> QED
    BY <2>1, <2>2
<1>7. CASE l.step = "global"
  <2>1. CASE ds2[d].scope # "global"
    <3>1. Fate(l, ds2, vr, st) = Fate(l, ds, vr, st)
      BY <1>7, <2>1, <1>3 DEF Fate
    <3> QED
      BY <3>1 DEF Told
  <2>2. CASE ds2[d].scope = "global"
    <3>1. Open(ds2, "environment") = {} /\ Open(ds2, "tenant") = {}
      BY <1>7, <2>2, <1>1, DatasetConstants DEF Held
    <3>2. Held(l, ds2, vr, st, b)
      BY <1>7, <3>1, DatasetConstants DEF Held
    <3> QED
      BY <3>2 DEF Told
  <2> QED
    BY <2>1, <2>2
<1>8. CASE l.step \in {"alias", "version"}
  <2>1. Fate(l, ds2, vr, st) = Fate(l, ds, vr, st)
    BY <1>8 DEF Fate
  <2> QED
    BY <2>1 DEF Told
<1> QED
  BY <1>5, <1>6, <1>7, <1>8 DEF Underway

\* A version is inserted or made current: the alias stays.
LEMMA ToldByVersion ==
    ASSUME NEW l, NEW ds, NEW vr, NEW st, NEW b, NEW ds2, NEW vr2,
           l.step \in Underway, Held(l, ds, vr, st, b), RowsKeyed(ds, vr, st, b),
           \A c \in DatasetIds : /\ ds2[c].scope = ds[c].scope
                                 /\ ds2[c].archived = ds[c].archived,
           \A v \in DatasetVersions : vr[v].of # NoId => vr2[v].of = vr[v].of
    PROVE  Told(l, ds, vr, st, b, ds2, vr2, st, b)
<1>1. \A s : Open(ds2, s) = Open(ds, s)
  BY DEF Open
<1>2. CASE l.step \in {"bound", "environment", "tenant", "global"}
  <2>1. Held(l, ds2, vr2, st, b)
    BY <1>1, <1>2, DatasetConstants DEF Held
  <2> QED
    BY <2>1 DEF Told
<1>3. CASE l.step = "alias"
  <2>1. /\ l.of \in DatasetIds /\ st[l.of] \in Vers /\ l.current \in Vers
        /\ st[l.of] # NoId => vr[st[l.of]].of # NoId
        /\ l.current # NoId => vr[l.current].of # NoId
    <3>1. l.of \in DatasetIds /\ l.of # NoId /\ l.current = ds[l.of].current
      BY <1>3, DatasetConstants DEF Held
    <3> QED
      BY <3>1 DEF RowsKeyed
  <2>2. AfterAlias(l.of, l.current, vr2, st) = AfterAlias(l.of, l.current, vr, st)
    BY <2>1 DEF AfterAlias, AfterVersion, Vers
  <2>3. Fate(l, ds2, vr2, st) = Fate(l, ds, vr, st)
    BY <1>3, <2>2 DEF Fate
  <2> QED
    BY <2>3 DEF Told
<1>4. CASE l.step = "version"
  <2>1. l.version \in DatasetVersions /\ vr[l.version].of # NoId
    BY <1>4, DatasetConstants DEF Held
  <2>2. AfterVersion(l.of, l.version, vr2) = AfterVersion(l.of, l.version, vr)
    BY <2>1 DEF AfterVersion
  <2>3. Fate(l, ds2, vr2, st) = Fate(l, ds, vr, st)
    BY <1>4, <2>2 DEF Fate
  <2> QED
    BY <2>3 DEF Told
<1> QED
  BY <1>2, <1>3, <1>4 DEF Underway

\* The alias of a dataset d is set.
LEMMA ToldByAlias ==
    ASSUME NEW l, NEW ds, NEW vr, NEW st, NEW b, NEW st2, NEW d \in DatasetIds,
           l.step \in Underway, Held(l, ds, vr, st, b),
           \A c \in DatasetIds : c # d => st2[c] = st[c]
    PROVE  Told(l, ds, vr, st, b, ds, vr, st2, b)
<1>2. CASE l.step \in {"bound", "environment", "tenant", "global"}
  <2>1. Held(l, ds, vr, st2, b)
    BY <1>2, DatasetConstants DEF Held
  <2> QED
    BY <2>1 DEF Told
<1>3. CASE l.step = "alias"
  <2>1. PICK c \in DatasetIds : c = l.of
    BY <1>3 DEF Held
  <2>2. CASE c # d
    <3>1. Fate(l, ds, vr, st2) = Fate(l, ds, vr, st)
      BY <1>3, <2>1, <2>2 DEF Fate, AfterAlias
    <3> QED
      BY <3>1 DEF Told
  <2>3. CASE c = d
    <3>1. Held(l, ds, vr, st2, b)
      BY <1>3, DatasetConstants DEF Held
    <3> QED
      BY <3>1 DEF Told
  <2> QED
    BY <2>2, <2>3
<1>4. CASE l.step = "version"
  <2>1. Fate(l, ds, vr, st2) = Fate(l, ds, vr, st)
    BY <1>4 DEF Fate
  <2> QED
    BY <2>1 DEF Told
<1> QED
  BY <1>2, <1>3, <1>4 DEF Underway

\* A dataset d is deleted, with its versions, alias and overrides.
LEMMA ToldByDelete ==
    ASSUME NEW l, NEW ds, NEW vr, NEW st, NEW b, NEW ds2, NEW vr2, NEW st2, NEW b2,
           NEW d \in DatasetIds,
           l.step \in Underway, Held(l, ds, vr, st, b), RowsKeyed(ds, vr, st, b),
           \A c \in DatasetIds : c # d => ds2[c] = ds[c] /\ st2[c] = st[c],
           ~Live(ds2, d), st2[d] = NoId,
           \A v \in DatasetVersions : vr[v].of = d => vr2[v].of = NoId,
           \A v \in DatasetVersions : vr[v].of # d => vr2[v].of = vr[v].of,
           \A t \in Tiers : b2[t] # NoId => b2[t] = b[t]
    PROVE  Told(l, ds, vr, st, b, ds2, vr2, st2, b2)
<1>1. ASSUME NEW s \in Scopes, Open(ds, s) = {} PROVE Open(ds2, s) = {}
  <2>1. ASSUME NEW c \in DatasetIds, ds2[c].scope = s, ~ds2[c].archived PROVE FALSE
    <3>1. c # d
      BY <2>1 DEF Live
    <3> QED
      BY <2>1, <3>1, <1>1 DEF Open
  <2> QED
    BY <2>1 DEF Open
<1>2. Over(b) = NoId => Over(b2) = NoId
  BY DatasetConstants DEF Over
<1>3. CASE l.step = "bound"
  <2>1. CASE l.of = NoId
    <3>1. Held(l, ds2, vr2, st2, b2)
      BY <1>3, <2>1, <1>2, DatasetConstants DEF Held
    <3> QED
      BY <3>1 DEF Told
  <2>2. CASE l.of = d
    <3>1. Unbound(l, ds2)
      BY <1>3, <2>2, DatasetConstants DEF Unbound
    <3> QED
      BY <3>1 DEF Told
  <2>3. CASE l.of \notin {NoId, d}
    <3>1. l.of \in DatasetIds /\ Live(ds, l.of)
      BY <1>3, <2>3, OverLive DEF Held
    <3>2. Live(ds2, l.of) /\ Ans(ds2, st2, l.of) = Ans(ds, st, l.of)
      BY <3>1, <2>3 DEF Live, Ans
    <3>3. Fate(l, ds2, vr2, st2) = Fate(l, ds, vr, st)
      BY <1>3, <2>3, <3>1, <3>2 DEF Fate
    <3> QED
      BY <3>3 DEF Told
  <2> QED
    BY <2>1, <2>2, <2>3
<1>4. CASE l.step \in {"environment", "tenant", "global"}
  <2>1. Held(l, ds2, vr2, st2, b2)
    BY <1>1, <1>2, <1>4, DatasetConstants DEF Held
  <2> QED
    BY <2>1 DEF Told
<1>5. CASE l.step = "alias"
  <2>1. /\ l.of \in DatasetIds /\ st[l.of] \in Vers /\ l.current \in Vers
        /\ st[l.of] # NoId => vr[st[l.of]].of = l.of
        /\ l.current # NoId => vr[l.current].of = l.of
    BY <1>5, DatasetConstants DEF Held, RowsKeyed
  <2>2. CASE l.of = d
    <3>1. AfterAlias(l.of, l.current, vr2, st2) \in {NoAnswer, <<"unbuilt", d, NoId>>}
      BY <2>1, <2>2 DEF AfterAlias, AfterVersion, Vers
    <3>2. Lost(l, ds2, vr2, st2)
      BY <1>5, <2>2, <3>1 DEF Lost, Fate, NoAnswer
    <3> QED
      BY <3>2 DEF Told
  <2>3. CASE l.of # d
    <3>1. AfterAlias(l.of, l.current, vr2, st2) = AfterAlias(l.of, l.current, vr, st)
      BY <2>1, <2>3 DEF AfterAlias, AfterVersion, Vers
    <3>2. Fate(l, ds2, vr2, st2) = Fate(l, ds, vr, st)
      BY <1>5, <3>1 DEF Fate
    <3> QED
      BY <3>2 DEF Told
  <2> QED
    BY <2>2, <2>3
<1>6. CASE l.step = "version"
  <2>1. l.version \in DatasetVersions /\ vr[l.version].of = l.of
    BY <1>6, DatasetConstants DEF Held
  <2>2. CASE l.of = d
    <3>1. AfterVersion(l.of, l.version, vr2) = NoAnswer
      BY <2>1, <2>2 DEF AfterVersion
    <3>2. Lost(l, ds2, vr2, st2)
      BY <1>6, <2>2, <3>1 DEF Lost, Fate, NoAnswer
    <3> QED
      BY <3>2 DEF Told
  <2>3. CASE l.of # d
    <3>1. AfterVersion(l.of, l.version, vr2) = AfterVersion(l.of, l.version, vr)
      BY <2>1, <2>3 DEF AfterVersion
    <3>2. Fate(l, ds2, vr2, st2) = Fate(l, ds, vr, st)
      BY <1>6, <3>1 DEF Fate
    <3> QED
      BY <3>2 DEF Told
  <2> QED
    BY <2>2, <2>3
<1> QED
  BY <1>3, <1>4, <1>5, <1>6 DEF Underway

LEMMA KeyedRows == ASSUME TablesInv PROVE RowsKeyed(datasets, versionRow, stable, bound)
<1>1. DatasetsShape /\ Keys
  BY DEF TablesInv
<1>2. \A t \in Tiers : bound[t] # NoId => bound[t] \in DatasetIds /\ Live(datasets, bound[t])
  BY <1>1 DEF Keys, DatasetsShape, Ids
<1>3. ASSUME NEW d \in DatasetIds
      PROVE  /\ datasets[d].current # NoId => versionRow[datasets[d].current].of = d
             /\ stable[d] # NoId => versionRow[stable[d]].of = d
             /\ stable[d] \in Vers /\ datasets[d].current \in Vers
  BY <1>1, RowTypes DEF Keys
<1> QED
  BY <1>2, <1>3 DEF RowsKeyed

LEMMA KeyedRowsNext == ASSUME TablesInv' PROVE RowsKeyed(datasets', versionRow', stable', bound')
<1>1. (TablesInv => RowsKeyed(datasets, versionRow, stable, bound))'
  BY KeyedRows, PTL
<1> QED
  BY <1>1

\* A row that is gone stays gone, and a row is not taken back to before it was.
GoneStays ==
    \A d \in DatasetIds :
        datasets[d] # NoDataset =>
            datasets'[d] # NoDataset /\ (Live(datasets', d) => Live(datasets, d))

\* A step of the routes, watched.
RouteStep == UNCHANGED <<lookup, answer, bySlug>> /\ Watch

LEMMA WatchedCount ==
    ASSUME RouteStep, lookup \in LookupRecord, changes \in Nat
    PROVE  /\ lookup.step \in Underway =>
                /\ right' = right \cup {RightOf(datasets', stable', bound')}
                /\ changes' \in Nat
                /\ changes' = 0 => changes = 0 /\ datasetRows' = datasetRows
                /\ changes' = 1 => \/ changes = 1 /\ datasetRows' = datasetRows
                                   \/ changes = 0
           /\ lookup.step \notin Underway => right' = right /\ changes' = changes
<1>1. lookup.step \in Underway <=> Resolving
  BY DEF LookupRecord, Underway, Resolving
<1>2. right' = IF lookup.step \in Underway THEN right \cup {RightOf(datasets', stable', bound')} ELSE right
  BY <1>1, RightViewNext DEF RouteStep, Watch
<1>3. changes' = IF lookup.step \in Underway /\ datasetRows' # datasetRows THEN changes + 1 ELSE changes
  BY <1>1 DEF RouteStep, Watch
<1> QED
  BY <1>2, <1>3

LEMMA RouteKeeps ==
    ASSUME TablesInv, TablesInv', ResolveInv, RouteStep, GoneStays,
           (lookup.step \in Underway /\ Held(lookup, datasets, versionRow, stable, bound)) =>
              Told(lookup, datasets, versionRow, stable, bound,
                   datasets', versionRow', stable', bound')
    PROVE  ResolveInv'
<1>s. lookup \in LookupRecord /\ changes \in Nat
  BY DEF ResolveInv
<1>k. /\ RowsKeyed(datasets, versionRow, stable, bound)
      /\ RowsKeyed(datasets', versionRow', stable', bound')
  BY KeyedRows, KeyedRowsNext
<1>1. lookup' = lookup /\ answer' = answer /\ bySlug' = bySlug
  BY DEF RouteStep
<1>2. lookup.of # NoId => lookup.of \in DatasetIds /\ datasets[lookup.of] # NoDataset
  BY <1>s DEF ResolveInv, LookupRecord, Ids
<1>3. lookup.of # NoId => /\ datasets'[lookup.of] # NoDataset
                          /\ ~Live(datasets, lookup.of) => ~Live(datasets', lookup.of)
  BY <1>2 DEF GoneStays
<1>4. changes' \in Nat
  BY <1>s, WatchedCount
<1>5. lookup.step = "done" => changes' = changes /\ right' = right
  BY <1>s, WatchedCount DEF Underway
<1>6. ASSUME lookup.step \in Underway, changes' = 0
      PROVE  /\ RightOf(datasets', stable', bound') \in right'
             /\ Held(lookup, datasets', versionRow', stable', bound')
  <2>1. changes = 0 /\ UNCHANGED <<datasets, versionRow, stable, bound>>
    BY <1>6, <1>s, WatchedCount DEF datasetRows
  <2>2. RightOf(datasets', stable', bound') \in right'
    BY <1>6, <1>s, WatchedCount
  <2> QED
    BY <2>1, <2>2, <1>6 DEF ResolveInv
<1>7. ASSUME lookup.step \in Underway, changes' = 1
      PROVE  \/ Fate(lookup, datasets', versionRow', stable') \in right' \cup bySlug
             \/ Lost(lookup, datasets', versionRow', stable')
             \/ Unbound(lookup, datasets')
  <2>1. right' = right \cup {RightOf(datasets', stable', bound')}
    BY <1>7, <1>s, WatchedCount
  <2>2. CASE changes = 1 /\ datasetRows' = datasetRows
    <3>1. UNCHANGED <<datasets, versionRow, stable, bound>>
      BY <2>2 DEF datasetRows
    <3> QED
      BY <3>1, <2>1, <2>2, <1>7 DEF ResolveInv
  <2>3. CASE changes = 0
    <3>1. /\ RightOf(datasets, stable, bound) \in right
          /\ Held(lookup, datasets, versionRow, stable, bound)
      BY <2>3, <1>7 DEF ResolveInv
    <3>2. Fate(lookup, datasets, versionRow, stable) = RightOf(datasets, stable, bound)
      BY <3>1, <1>7, <1>k, FateRight
    <3>3. CASE Held(lookup, datasets', versionRow', stable', bound')
      <4>1. Fate(lookup, datasets', versionRow', stable') = RightOf(datasets', stable', bound')
        BY <3>3, <1>7, <1>k, FateRight
      <4> QED
        BY <4>1, <2>1
    <3> QED
      BY <3>1, <3>2, <3>3, <2>1, <1>7 DEF Told
  <2> QED
    BY <2>2, <2>3, <1>7, <1>s, WatchedCount
<1>8. (lookup.step = "done" /\ answer[1] # "failed" /\ changes' <= 1) =>
         \/ answer \in right' \cup bySlug
         \/ answer[1] # "ok" /\ lookup.of # NoId /\ ~Live(datasets', lookup.of)
  BY <1>3, <1>5 DEF ResolveInv
<1> QED
  BY <1>1, <1>s, <1>3, <1>4, <1>6, <1>7, <1>8 DEF ResolveInv

LEMMA WatchedAlone ==
    ASSUME TablesInv, TablesInv', ResolveInv, RouteStep, UNCHANGED datasetRows
    PROVE  ResolveInv'
<1>1. UNCHANGED <<datasets, versionRow, stable, bound>>
  BY DEF datasetRows
<1>2. GoneStays
  BY <1>1 DEF GoneStays
<1>3. Told(lookup, datasets, versionRow, stable, bound, datasets', versionRow', stable', bound')
  BY <1>1 DEF Told
<1> QED
  BY <1>2, <1>3, RouteKeeps

LEMMA CreateDatasetWatched ==
    ASSUME TablesInv, TablesInv', ResolveInv, NEW s \in Scopes, CreateDataset(s)
    PROVE  ResolveInv'
<1>s. DatasetsShape
  BY DEF TablesInv
<1>1. PICK d \in FreshDataset : datasets' = [datasets EXCEPT ![d] = [NoDataset EXCEPT !.scope = s]]
  BY DEF CreateDataset
<1>2. d \in DatasetIds /\ datasets[d] = NoDataset
  BY DEF FreshDataset
<1>3. PICK z : z = [NoDataset EXCEPT !.scope = s]
  OBVIOUS
<1>4. z.scope = s /\ z.current = NoId
  BY <1>3, Blanks DEF NoDataset
<1>5. datasets'[d] = z /\ \A c \in DatasetIds : c # d => datasets'[c] = datasets[c]
  BY <1>s, <1>1, <1>2, <1>3 DEF DatasetsShape
<1>6. RouteStep /\ UNCHANGED <<versionRow, stable, bound>>
  BY DEF CreateDataset, Rest, RouteStep
<1>7. ~Live(datasets, d)
  BY <1>2, Blanks, DatasetConstants DEF Live
<1>8. GoneStays
  BY <1>2, <1>5 DEF GoneStays, Live
<1>9. datasets'[d].scope \in Scopes /\ datasets'[d].current = datasets[d].current
  BY <1>2, <1>4, <1>5, Blanks
<1>10. (lookup.step \in Underway /\ Held(lookup, datasets, versionRow, stable, bound)) =>
         Told(lookup, datasets, versionRow, stable, bound,
              datasets', versionRow, stable, bound)
  BY <1>2, <1>5, <1>7, <1>9, ToldByScope
<1> QED
  BY <1>6, <1>8, <1>10, RouteKeeps

LEMMA PatchArchivedWatched ==
    ASSUME TablesInv, TablesInv', ResolveInv, NEW d \in DatasetIds, NEW a \in BOOLEAN,
           PatchArchived(d, a)
    PROVE  ResolveInv'
<1>s. DatasetsShape
  BY DEF TablesInv
<1>1. PICK z : z = [datasets[d] EXCEPT !.archived = a]
  OBVIOUS
<1>2. datasets[d] \in DatasetRecord /\ Live(datasets, d)
  BY <1>s, RowTypes DEF PatchArchived, Exists, Live
<1>3. z.scope = datasets[d].scope /\ z.current = datasets[d].current
  BY <1>1, <1>2 DEF DatasetRecord
<1>4. datasets' = [datasets EXCEPT ![d] = z]
  BY <1>1, <1>2, <1>s DEF PatchArchived, DatasetsShape, DatasetRecord
<1>5. datasets'[d] = z /\ \A c \in DatasetIds : c # d => datasets'[c] = datasets[c]
  BY <1>s, <1>4 DEF DatasetsShape
<1>6. RouteStep /\ UNCHANGED <<versionRow, stable, bound>>
  BY DEF PatchArchived, Rest, RouteStep
<1>7. datasets'[d] # NoDataset
  BY <1>2, <1>3, <1>5, Blanks, DatasetConstants DEF Live
<1>8. GoneStays
  BY <1>2, <1>5, <1>7 DEF GoneStays, Live
<1>9. /\ datasets'[d].scope \in Scopes /\ datasets'[d].current = datasets[d].current
      /\ datasets'[d].scope = datasets[d].scope
  BY <1>2, <1>3, <1>5 DEF Live
<1>10. (lookup.step \in Underway /\ Held(lookup, datasets, versionRow, stable, bound)) =>
         Told(lookup, datasets, versionRow, stable, bound,
              datasets', versionRow, stable, bound)
  BY <1>5, <1>9, ToldByScope
<1> QED
  BY <1>6, <1>8, <1>10, RouteKeeps

\* The writes of the alias and of the overrides.
LEMMA PatchAliasWatched ==
    ASSUME TablesInv, TablesInv', ResolveInv, NEW d \in DatasetIds, NEW v \in DatasetVersions,
           PatchAlias(d, v)
    PROVE  ResolveInv'
<1>1. RouteStep /\ UNCHANGED <<datasets, versionRow, bound>>
  BY DEF PatchAlias, Rest, RouteStep
<1>2. \A c \in DatasetIds : c # d => stable'[c] = stable[c]
  BY DEF PatchAlias, TablesInv, DatasetsShape
<1>3. GoneStays
  BY <1>1 DEF GoneStays
<1>4. (lookup.step \in Underway /\ Held(lookup, datasets, versionRow, stable, bound)) =>
         Told(lookup, datasets, versionRow, stable, bound,
              datasets, versionRow, stable', bound)
  BY <1>2, ToldByAlias
<1> QED
  BY <1>1, <1>3, <1>4, RouteKeeps

LEMMA SetStableWatched ==
    ASSUME TablesInv, TablesInv', ResolveInv, NEW e \in Editors, SetStable(e)
    PROVE  ResolveInv'
<1>1. RouteStep /\ UNCHANGED <<datasets, versionRow, bound>>
  BY DEF SetStable, EditStep, RouteStep
<1>2. PICK d \in DatasetIds : d = editor[e].of
  BY Subject DEF SetStable
<1>3. \A c \in DatasetIds : c # d => stable'[c] = stable[c]
  BY <1>2 DEF SetStable, TablesInv, DatasetsShape
<1>4. GoneStays
  BY <1>1 DEF GoneStays
<1>5. (lookup.step \in Underway /\ Held(lookup, datasets, versionRow, stable, bound)) =>
         Told(lookup, datasets, versionRow, stable, bound,
              datasets, versionRow, stable', bound)
  BY <1>3, ToldByAlias
<1> QED
  BY <1>1, <1>4, <1>5, RouteKeeps

LEMMA PutBindingWatched ==
    ASSUME TablesInv, TablesInv', ResolveInv, NEW t \in Tiers, NEW d \in DatasetIds \cup {NoId},
           PutBinding(t, d)
    PROVE  ResolveInv'
<1>1. RouteStep /\ UNCHANGED <<datasets, versionRow, stable>>
  BY DEF PutBinding, Rest, RouteStep
<1>2. GoneStays
  BY <1>1 DEF GoneStays
<1>3. Told(lookup, datasets, versionRow, stable, bound, datasets, versionRow, stable, bound')
  BY ToldByOverride
<1> QED
  BY <1>1, <1>2, <1>3, RouteKeeps

LEMMA SetCurrentWatched ==
    ASSUME TablesInv, TablesInv', ResolveInv, NEW e \in Editors, SetCurrent(e)
    PROVE  ResolveInv'
<1>s. DatasetsShape
  BY DEF TablesInv
<1>1. RouteStep /\ UNCHANGED <<versionRow, stable, bound>>
  BY DEF SetCurrent, EditStep, RouteStep
<1>2. PICK d \in DatasetIds : d = editor[e].of
  BY Subject DEF SetCurrent
<1>3. CASE ~Exists(d)
  <2>1. UNCHANGED datasetRows
    BY <1>1, <1>2, <1>3 DEF SetCurrent, datasetRows
  <2> QED
    BY <2>1, <1>1, WatchedAlone
<1>4. CASE Exists(d)
  <2>1. PICK z : z = [datasets[d] EXCEPT !.current = editor[e].version]
    OBVIOUS
  <2>2. z.scope = datasets[d].scope /\ z.archived = datasets[d].archived
    BY <2>1, <1>s, RowTypes DEF DatasetRecord
  <2>3. datasets' = [datasets EXCEPT ![d] = z]
    BY <2>1, <1>2, <1>4 DEF SetCurrent
  <2>4. datasets'[d] = z /\ \A c \in DatasetIds : c # d => datasets'[c] = datasets[c]
    BY <2>3, <1>s DEF DatasetsShape
  <2>5. \A c \in DatasetIds : /\ datasets'[c].scope = datasets[c].scope
                              /\ datasets'[c].archived = datasets[c].archived
    BY <2>2, <2>4
  <2>6. z # NoDataset
    BY <2>2, <1>4, Blanks, DatasetConstants DEF Exists
  <2>7. GoneStays
    BY <2>4, <2>5, <2>6 DEF GoneStays, Live
  <2>8. (lookup.step \in Underway /\ Held(lookup, datasets, versionRow, stable, bound)) =>
          Told(lookup, datasets, versionRow, stable, bound,
               datasets', versionRow, stable, bound)
    BY <2>5, KeyedRows, ToldByVersion
  <2> QED
    BY <2>7, <2>8, <1>1, RouteKeeps
<1> QED
  BY <1>3, <1>4

LEMMA InsertVersionWatched ==
    ASSUME TablesInv, TablesInv', ResolveInv, NEW e \in Editors, InsertVersion(e)
    PROVE  ResolveInv'
<1>1. RouteStep /\ UNCHANGED <<datasets, stable, bound>>
  BY DEF InsertVersion, EditStep, RouteStep
<1>2. PICK fresh : fresh = {v \in DatasetVersions : versionRow[v] = NoVersion}
  OBVIOUS
<1>3. PICK v : v = CHOOSE w \in fresh : \A x \in fresh : w <= x
  OBVIOUS
<1>4. v \in fresh
  <2>1. fresh # {} /\ fresh \subseteq Nat
    BY <1>2, DatasetConstants DEF InsertVersion
  <2>2. \E w \in fresh : \A x \in fresh : w <= x
    BY <2>1, LeastNat
  <2> QED
    BY <1>3, <2>2
<1>5. PICK z : z = [of |-> editor[e].of, label |-> Label(editor[e])]
  OBVIOUS
<1>6. versionRow' = versionRow \/ versionRow' = [versionRow EXCEPT ![v] = z]
  BY <1>2, <1>3, <1>5 DEF InsertVersion
<1>7. ASSUME NEW w \in DatasetVersions, versionRow[w].of # NoId PROVE versionRow'[w].of = versionRow[w].of
  <2>1. w # v
    BY <1>2, <1>4, <1>7, Blanks
  <2> QED
    BY <2>1, <1>6 DEF TablesInv, DatasetsShape
<1>8. GoneStays
  BY <1>1 DEF GoneStays
<1>9. (lookup.step \in Underway /\ Held(lookup, datasets, versionRow, stable, bound)) =>
        Told(lookup, datasets, versionRow, stable, bound,
             datasets, versionRow', stable, bound)
  BY <1>7, KeyedRows, ToldByVersion
<1> QED
  BY <1>1, <1>8, <1>9, RouteKeeps

LEMMA DeleteDatasetWatched ==
    ASSUME TablesInv, TablesInv', ResolveInv, NEW e \in Editors, DeleteDataset(e)
    PROVE  ResolveInv'
<1>s. DatasetsShape
  BY DEF TablesInv
<1>1. RouteStep
  BY DEF DeleteDataset, EditStep, RouteStep
<1>2. PICK d \in DatasetIds : d = editor[e].of
  BY Subject DEF DeleteDataset
<1>3. /\ datasets' = [datasets EXCEPT ![d] = GoneDataset]
      /\ versionRow' = [v \in DatasetVersions |->
             IF versionRow[v].of = d THEN [versionRow[v] EXCEPT !.of = NoId] ELSE versionRow[v]]
      /\ stable' = [stable EXCEPT ![d] = NoId]
      /\ bound' = [t \in Tiers |-> IF bound[t] = d THEN NoId ELSE bound[t]]
  BY <1>2 DEF DeleteDataset
<1>4. /\ datasets'[d] = GoneDataset /\ stable'[d] = NoId
      /\ \A c \in DatasetIds : c # d => datasets'[c] = datasets[c] /\ stable'[c] = stable[c]
  BY <1>3, <1>s DEF DatasetsShape
<1>5. ASSUME NEW v \in DatasetVersions
      PROVE  /\ versionRow[v].of = d => versionRow'[v].of = NoId
             /\ versionRow[v].of # d => versionRow'[v].of = versionRow[v].of
  <2>1. versionRow[v] \in VersionRecord
    BY <1>s, RowTypes
  <2>2. CASE versionRow[v].of = d
    <3>1. versionRow'[v] = [versionRow[v] EXCEPT !.of = NoId]
      BY <2>2, <1>3
    <3> QED
      BY <2>1, <2>2, <3>1 DEF VersionRecord
  <2>3. CASE versionRow[v].of # d
    BY <2>3, <1>3
  <2> QED
    BY <2>2, <2>3
<1>6. \A t \in Tiers : bound'[t] # NoId => bound'[t] = bound[t]
  BY <1>3
<1>7. ~Live(datasets', d) /\ GoneDataset # NoDataset
  <2>1. datasets'[d].scope = "deleted"
    BY <1>4, Blanks
  <2>2. GoneDataset # NoDataset
    BY Blanks
  <2> QED
    BY <2>1, <2>2, DatasetConstants DEF Live
<1>8. GoneStays
  BY <1>4, <1>7 DEF GoneStays, Live
<1>9. (lookup.step \in Underway /\ Held(lookup, datasets, versionRow, stable, bound)) =>
        Told(lookup, datasets, versionRow, stable, bound,
             datasets', versionRow', stable', bound')
  BY <1>4, <1>5, <1>6, <1>7, KeyedRows, ToldByDelete
<1> QED
  BY <1>1, <1>8, <1>9, RouteKeeps

-----------------------------------------------------------------------------
(* The steps of resolve().                                                 *)

Tables == <<datasets, versionRow, stable, bound>>

LEMMA ResolveWatched ==
    ASSUME ResolveInv, lookup.step \in Underway, Watch, UNCHANGED datasetRows
    PROVE  changes' = changes /\ right \subseteq right' /\ UNCHANGED Tables
           /\ (RightOf(datasets, stable, bound) \in right => RightOf(datasets', stable', bound') \in right')
<1>1. Resolving
  BY DEF Underway, Resolving
<1>2. UNCHANGED Tables
  BY DEF Tables, datasetRows
<1> QED
  BY <1>1, <1>2 DEF Watch, Tables

\* resolve() goes on to y: its fate is what it was.
LEMMA ResolveGoes ==
    ASSUME TablesInv, ResolveInv, lookup.step \in Underway, Watch, UNCHANGED datasetRows,
           NEW y \in LookupRecord, lookup' = y, y.step \in Underway \ {"bound"},
           y.of # NoId => datasets[y.of] # NoDataset,
           y.step \in {"alias", "version"} => y.of # NoId,
           Held(lookup, datasets, versionRow, stable, bound) =>
               Held(y, datasets, versionRow, stable, bound),
           Fate(y, datasets, versionRow, stable) = Fate(lookup, datasets, versionRow, stable),
           Lost(lookup, datasets, versionRow, stable) => Lost(y, datasets, versionRow, stable),
           Unbound(lookup, datasets) => Fate(y, datasets, versionRow, stable) \in bySlug',
           bySlug \subseteq bySlug'
    PROVE  ResolveInv'
<1>1. changes' = changes /\ right \subseteq right' /\ UNCHANGED <<datasets, versionRow, stable, bound>>
      /\ (RightOf(datasets, stable, bound) \in right => RightOf(datasets', stable', bound') \in right')
  BY ResolveWatched DEF Tables
<1>2. changes = 0 => /\ RightOf(datasets', stable', bound') \in right'
                     /\ Held(y, datasets, versionRow, stable, bound)
  BY <1>1 DEF ResolveInv
<1>3. changes = 1 => \/ Fate(y, datasets, versionRow, stable) \in right' \cup bySlug'
                     \/ Lost(y, datasets, versionRow, stable)
  BY <1>1 DEF ResolveInv
<1>4. y.step \notin {"idle", "bound", "done"} /\ changes \in Nat
  BY DEF Underway, ResolveInv
<1> QED
  BY <1>1, <1>2, <1>3, <1>4 DEF ResolveInv

\* resolve() ends with the answer it was bound to come to.
LEMMA ResolveEnds ==
    ASSUME TablesInv, ResolveInv, lookup.step \in Underway \ {"bound"}, Watch, UNCHANGED datasetRows,
           NEW y \in LookupRecord, lookup' = y, y.step = "done", y.of = lookup.of,
           answer' = Fate(lookup, datasets, versionRow, stable), bySlug' = bySlug
    PROVE  ResolveInv'
<1>1. changes' = changes /\ right \subseteq right' /\ UNCHANGED <<datasets, versionRow, stable, bound>>
  BY ResolveWatched DEF Tables
<1>2. changes = 0 => answer' \in right
  BY KeyedRows, FateRight DEF ResolveInv
<1>3. changes = 1 => \/ answer' \in right \cup bySlug
                     \/ Lost(lookup, datasets, versionRow, stable)
  BY DEF ResolveInv, Unbound
<1>4. Lost(lookup, datasets, versionRow, stable) =>
         answer'[1] # "ok" /\ lookup.of # NoId /\ ~Live(datasets, lookup.of)
  BY DEF ResolveInv, Lost
<1>5. y.step \notin Underway /\ y.step \notin {"idle", "bound", "alias", "version"} /\ changes \in Nat
  BY DEF Underway, ResolveInv
<1>6. changes' <= 1 => \/ answer' \in right' \cup bySlug'
                       \/ answer'[1] # "ok" /\ y.of # NoId /\ ~Live(datasets', y.of)
  BY <1>1, <1>2, <1>3, <1>4, <1>5
<1>7. y.of # NoId => datasets'[y.of] # NoDataset
  BY <1>1 DEF ResolveInv
<1> QED
  BY <1>1, <1>5, <1>6, <1>7 DEF ResolveInv

LEMMA StartResolveKeeps ==
    ASSUME TablesInv, ResolveInv, StartResolve PROVE ResolveInv'
<1>1. PICK y : y = [lookup EXCEPT !.step = "bound", !.of = Override]
  OBVIOUS
<1>2. Override = Over(bound) /\ RightAnswer = RightOf(datasets, stable, bound)
  BY Views, RightView
<1>3. lookup \in LookupRecord /\ lookup.step = "idle" /\ bySlug = {}
  BY DEF ResolveInv, StartResolve
<1>4. Over(bound) # NoId => Over(bound) \in DatasetIds /\ Live(datasets, Over(bound))
  BY KeyedRows, OverLive
<1>5. Over(bound) \in Ids
  BY <1>4, DatasetConstants DEF Ids
<1>6. y \in LookupRecord /\ y.step = "bound" /\ y.of = Over(bound)
  BY <1>1, <1>2, <1>3, <1>5 DEF LookupRecord
<1>7. /\ lookup' = y /\ UNCHANGED <<datasets, versionRow, stable, bound>>
      /\ right' = {RightOf(datasets, stable, bound)} /\ changes' = 0 /\ bySlug' = {}
  BY <1>1, <1>2, <1>3 DEF StartResolve, LookupStep, datasetRows
<1>8. Held(y, datasets, versionRow, stable, bound)
  BY <1>6, DatasetConstants DEF Held
<1>9. y.of # NoId => datasets[y.of] # NoDataset
  BY <1>4, <1>6, Blanks, DatasetConstants DEF Live
<1> QED
  BY <1>6, <1>7, <1>8, <1>9 DEF ResolveInv

LEMMA FoundRow ==
    ASSUME TablesInv, ResolveInv, NEW d \in DatasetIds, Live(datasets, d)
    PROVE  /\ Found(d) \in LookupRecord /\ Found(d).step = "alias" /\ Found(d).of = d
           /\ Found(d).current = datasets[d].current /\ datasets[d] # NoDataset
<1>1. lookup \in LookupRecord
  BY DEF ResolveInv
<1>2. datasets[d].current \in Vers
  BY RowTypes DEF TablesInv
<1>3. datasets[d] # NoDataset
  BY Blanks, DatasetConstants DEF Live
<1>4. PICK y : y = Found(d)
  OBVIOUS
<1>5. y \in LookupRecord /\ y.step = "alias" /\ y.of = d /\ y.current = datasets[d].current
  BY <1>1, <1>2, <1>4 DEF Found, LookupRecord, Ids
<1> QED
  BY <1>3, <1>4, <1>5

LEMMA GetBoundKeeps == ASSUME TablesInv, ResolveInv, GetBound PROVE ResolveInv'
<1>k. RowsKeyed(datasets, versionRow, stable, bound)
  BY KeyedRows
<1>1. /\ lookup \in LookupRecord /\ lookup.step = "bound" /\ bySlug = {}
      /\ lookup.step \in Underway /\ Watch /\ UNCHANGED datasetRows
  BY DEF ResolveInv, GetBound, LookupStep, Underway
<1>2. lookup.of # NoId => lookup.of \in DatasetIds
  BY <1>1 DEF LookupRecord, Ids
<1>3. Exists(lookup.of) = Live(datasets, lookup.of)
  BY Views
<1>4. ~Lost(lookup, datasets, versionRow, stable)
  BY <1>1 DEF Lost
<1>5. CASE lookup.of # NoId /\ Live(datasets, lookup.of)
  <2>1. PICK y : y = Found(lookup.of)
    OBVIOUS
  <2>2. lookup' = y
    BY <1>3, <1>5, <2>1 DEF GetBound, LookupStep
  <2>3. /\ y \in LookupRecord /\ y.step = "alias" /\ y.of = lookup.of
        /\ y.current = datasets[lookup.of].current /\ datasets[lookup.of] # NoDataset
    BY <1>2, <1>5, <2>1, FoundRow
  <2>4. Held(lookup, datasets, versionRow, stable, bound) => Held(y, datasets, versionRow, stable, bound)
    <3> SUFFICES ASSUME Held(lookup, datasets, versionRow, stable, bound)
                 PROVE  Held(y, datasets, versionRow, stable, bound)
      OBVIOUS
    <3>1. Over(bound) = y.of /\ y.of # NoId
      BY <1>1, <1>5, <2>3 DEF Held
    <3>2. \A aliases : RightOf(datasets, aliases, bound) = Ans(datasets, aliases, y.of)
      BY <3>1 DEF RightOf
    <3> QED
      BY <3>2, <1>2, <1>5, <2>3, DatasetConstants DEF Held
  <2>5. Fate(y, datasets, versionRow, stable) = Fate(lookup, datasets, versionRow, stable)
    BY <1>k, <1>1, <1>2, <1>5, <2>3, AliasFate DEF Fate
  <2>6. ~Unbound(lookup, datasets)
    BY <1>5 DEF Unbound
  <2> QED
    BY <1>1, <1>4, <1>5, <2>2, <2>3, <2>4, <2>5, <2>6, ResolveGoes DEF Underway
<1>6. CASE ~(lookup.of # NoId /\ Live(datasets, lookup.of))
  <2>1. PICK y : y = [lookup EXCEPT !.step = "environment"]
    OBVIOUS
  <2>2. lookup' = y
    BY <1>3, <1>6, <2>1 DEF GetBound, LookupStep
  <2>3. y \in LookupRecord /\ y.step = "environment" /\ y.of = lookup.of
    BY <1>1, <2>1 DEF LookupRecord
  <2>4. Held(lookup, datasets, versionRow, stable, bound) => Held(y, datasets, versionRow, stable, bound)
    <3> SUFFICES ASSUME Held(lookup, datasets, versionRow, stable, bound)
                 PROVE  Held(y, datasets, versionRow, stable, bound)
      OBVIOUS
    <3>1. Over(bound) = NoId
      BY <1>k, <1>1, <1>6, OverLive DEF Held
    <3> QED
      BY <3>1, <2>3, DatasetConstants DEF Held
  <2>5. Fate(y, datasets, versionRow, stable) = Fate(lookup, datasets, versionRow, stable)
    BY <1>1, <1>6, <2>3 DEF Fate
  <2>6. Unbound(lookup, datasets) => Fate(y, datasets, versionRow, stable) \in bySlug'
    <3> SUFFICES ASSUME Unbound(lookup, datasets)
                 PROVE  Fate(y, datasets, versionRow, stable) \in bySlug'
      OBVIOUS
    <3>1. bySlug' = {SlugAnswer}
      BY <1>3 DEF Unbound, GetBound
    <3> QED
      BY <3>1, <2>3, SlugView DEF Fate
  <2>7. y.of # NoId => datasets[y.of] # NoDataset
    BY <2>3 DEF ResolveInv
  <2> QED
    BY <1>1, <1>4, <2>2, <2>3, <2>4, <2>5, <2>6, <2>7, ResolveGoes DEF Underway
<1> QED
  BY <1>5, <1>6

\* The query of one scope finds a row, or the next scope is asked.
LEMMA SlugFound ==
    ASSUME TablesInv, ResolveInv, ResolveSlug, At(lookup.step) # {} PROVE ResolveInv'
<1>k. RowsKeyed(datasets, versionRow, stable, bound)
  BY KeyedRows
<1>1. PICK s \in Scopes : s = lookup.step
  BY DEF ResolveSlug
<1>2. At(s) = Open(datasets, s) /\ Open(datasets, s) # {}
  BY <1>1, Views
<1>3. PICK d : d = FirstRow(Open(datasets, s))
  OBVIOUS
<1>4. d \in DatasetIds /\ d # NoId /\ Live(datasets, d)
  BY <1>2, <1>3, OpenIds DEF Live
<1>5. PICK y : y = Found(d)
  OBVIOUS
<1>6. /\ y \in LookupRecord /\ y.step = "alias" /\ y.of = d
      /\ y.current = datasets[d].current /\ datasets[d] # NoDataset
  BY <1>4, <1>5, FoundRow
<1>7. /\ lookup' = y /\ bySlug' = bySlug /\ Watch /\ UNCHANGED datasetRows
  BY <1>1, <1>2, <1>3, <1>5 DEF ResolveSlug, LookupStep
<1>8. \A aliases : Ans(datasets, aliases, d) =
          IF s = "environment" THEN FromEnv(datasets, aliases)
          ELSE IF s = "tenant" THEN FromTenant(datasets, aliases) ELSE FromGlobal(datasets, aliases)
  BY <1>2, <1>3, DatasetConstants DEF FromEnv, FromTenant, FromGlobal
<1>9. Fate(y, datasets, versionRow, stable) = Fate(lookup, datasets, versionRow, stable)
  <2>1. Fate(y, datasets, versionRow, stable) = Ans(datasets, stable, d)
    BY <1>k, <1>4, <1>6, AliasFate DEF Fate
  <2> QED
    BY <2>1, <1>1, <1>8, DatasetConstants DEF Fate
<1>10. Held(lookup, datasets, versionRow, stable, bound) => Held(y, datasets, versionRow, stable, bound)
  <2> SUFFICES ASSUME Held(lookup, datasets, versionRow, stable, bound)
               PROVE  Held(y, datasets, versionRow, stable, bound)
    OBVIOUS
  <2>1. /\ Over(bound) = NoId
        /\ s \in {"tenant", "global"} => Open(datasets, "environment") = {}
        /\ s = "global" => Open(datasets, "tenant") = {}
    BY <1>1 DEF Held
  <2>2. \A aliases : RightOf(datasets, aliases, bound) = FromEnv(datasets, aliases)
    BY <2>1 DEF RightOf
  <2>3. \A aliases : FromEnv(datasets, aliases) = Ans(datasets, aliases, d)
    <3>1. CASE s = "environment"
      BY <3>1, <1>8
    <3>2. CASE s = "tenant"
      BY <3>2, <2>1, <1>8 DEF FromEnv
    <3>3. CASE s = "global"
      BY <3>3, <2>1, <1>8 DEF FromEnv, FromTenant
    <3> QED
      BY <3>1, <3>2, <3>3, <1>1, DatasetConstants
  <2>4. \A aliases : RightOf(datasets, aliases, bound) = Ans(datasets, aliases, d)
    BY <2>2, <2>3
  <2> QED
    BY <2>4, <1>4, <1>6, DatasetConstants DEF Held
<1>11. ~Lost(lookup, datasets, versionRow, stable) /\ ~Unbound(lookup, datasets)
  BY <1>1, DatasetConstants DEF Lost, Unbound
<1>12. lookup.step \in Underway /\ y.step \in Underway \ {"bound"}
  BY <1>1, <1>6, DatasetConstants DEF Underway
<1> QED
  BY <1>4, <1>6, <1>7, <1>9, <1>10, <1>11, <1>12, ResolveGoes

LEMMA SlugMissed ==
    ASSUME TablesInv, ResolveInv, ResolveSlug, At(lookup.step) = {} PROVE ResolveInv'
<1>1. PICK s \in Scopes : s = lookup.step
  BY DEF ResolveSlug
<1>2. At(s) = {} /\ Open(datasets, s) = {}
  BY <1>1, Views
<1>3. PICK n : n = NextScope[s]
  OBVIOUS
<1>4. /\ s = "environment" => n = "tenant"
      /\ s = "tenant" => n = "global"
      /\ s = "global" => n = "done"
  BY <1>3 DEF NextScope
<1>5. PICK y : y = [lookup EXCEPT !.step = n]
  OBVIOUS
<1>6. lookup \in LookupRecord
  BY DEF ResolveInv
<1>7. y \in LookupRecord /\ y.step = n /\ y.of = lookup.of
  BY <1>1, <1>4, <1>5, <1>6, DatasetConstants DEF LookupRecord
<1>8. lookup' = y
  <2>1. lookup' = [lookup EXCEPT !.step = NextScope[@]]
    BY <1>1, <1>2 DEF ResolveSlug, LookupStep
  <2>2. [lookup EXCEPT !.step = NextScope[@]] = [lookup EXCEPT !.step = NextScope[lookup.step]]
    BY <1>6 DEF LookupRecord
  <2> QED
    BY <2>1, <2>2, <1>1, <1>3, <1>5
<1>9. bySlug' = bySlug /\ Watch /\ UNCHANGED datasetRows
  BY DEF ResolveSlug, LookupStep
<1>10. lookup.step \in Underway \ {"bound"}
  BY <1>1, DatasetConstants DEF Underway
<1>11. CASE s = "global"
  <2>1. answer' = NoAnswer
    BY <1>1, <1>2, <1>11 DEF ResolveSlug
  <2>2. Fate(lookup, datasets, versionRow, stable) = NoAnswer
    BY <1>1, <1>2, <1>11 DEF Fate, FromGlobal
  <2> QED
    BY <2>1, <2>2, <1>4, <1>7, <1>8, <1>9, <1>10, <1>11, ResolveEnds
<1>12. CASE s # "global"
  <2>1. n \in {"tenant", "global"}
    BY <1>4, <1>12, <1>1, DatasetConstants
  <2>2. Fate(y, datasets, versionRow, stable) = Fate(lookup, datasets, versionRow, stable)
    <3>1. CASE s = "environment"
      BY <3>1, <1>1, <1>2, <1>4, <1>7 DEF Fate, FromEnv
    <3>2. CASE s = "tenant"
      BY <3>2, <1>1, <1>2, <1>4, <1>7 DEF Fate, FromTenant
    <3> QED
      BY <3>1, <3>2, <1>12, DatasetConstants
  <2>3. Held(lookup, datasets, versionRow, stable, bound) => Held(y, datasets, versionRow, stable, bound)
    <3>1. CASE s = "environment"
      BY <3>1, <1>1, <1>2, <1>4, <1>7, DatasetConstants DEF Held
    <3>2. CASE s = "tenant"
      BY <3>2, <1>1, <1>2, <1>4, <1>7, DatasetConstants DEF Held
    <3> QED
      BY <3>1, <3>2, <1>12, DatasetConstants
  <2>4. ~Lost(lookup, datasets, versionRow, stable) /\ ~Unbound(lookup, datasets)
    BY <1>1, DatasetConstants DEF Lost, Unbound
  <2>5. y.of # NoId => datasets[y.of] # NoDataset
    BY <1>7 DEF ResolveInv
  <2>6. y.step \in Underway \ {"bound"} /\ y.step \notin {"alias", "version"}
    BY <2>1, <1>7 DEF Underway
  <2> QED
    BY <2>2, <2>3, <2>4, <2>5, <2>6, <1>7, <1>8, <1>9, <1>10, ResolveGoes
<1> QED
  BY <1>11, <1>12

LEMMA ResolveAliasKeeps == ASSUME TablesInv, ResolveInv, ResolveAlias PROVE ResolveInv'
<1>k. RowsKeyed(datasets, versionRow, stable, bound)
  BY KeyedRows
<1>1. /\ lookup \in LookupRecord /\ lookup.step = "alias" /\ lookup.of # NoId
      /\ bySlug' = bySlug /\ Watch /\ UNCHANGED datasetRows
      /\ lookup.step \in Underway \ {"bound"} /\ datasets[lookup.of] # NoDataset
  BY DEF ResolveInv, ResolveAlias, LookupStep, Underway
<1>2. lookup.of \in DatasetIds /\ lookup.current \in Vers
  BY <1>1 DEF LookupRecord, Ids
<1>3. PICK v : v = IF stable[lookup.of] # NoId THEN stable[lookup.of] ELSE lookup.current
  OBVIOUS
<1>4. v \in Vers
  BY <1>2, <1>3, RowTypes DEF TablesInv
<1>5. PICK y : y = [lookup EXCEPT !.version = v, !.step = IF v = NoId THEN "done" ELSE "version"]
  OBVIOUS
<1>6. /\ y \in LookupRecord /\ y.of = lookup.of /\ y.version = v
      /\ y.step = IF v = NoId THEN "done" ELSE "version"
  BY <1>1, <1>4, <1>5 DEF LookupRecord
<1>7. /\ lookup' = y
      /\ v = NoId => answer' = <<"unbuilt", lookup.of, NoId>>
  BY <1>3, <1>5 DEF ResolveAlias, LookupStep
<1>8. Fate(lookup, datasets, versionRow, stable) =
         IF v = NoId THEN <<"unbuilt", lookup.of, NoId>> ELSE AfterVersion(lookup.of, v, versionRow)
  BY <1>1, <1>3 DEF Fate, AfterAlias
<1>9. CASE v = NoId
  <2>1. y.step = "done" /\ answer' = Fate(lookup, datasets, versionRow, stable)
    BY <1>6, <1>7, <1>8, <1>9
  <2> QED
    BY <2>1, <1>1, <1>6, <1>7, ResolveEnds
<1>10. CASE v # NoId
  <2>1. y.step = "version" /\ y.step \in Underway \ {"bound"}
    BY <1>6, <1>10 DEF Underway
  <2>2. Fate(y, datasets, versionRow, stable) = Fate(lookup, datasets, versionRow, stable)
    BY <2>1, <1>6, <1>8, <1>10 DEF Fate
  <2>3. Held(lookup, datasets, versionRow, stable, bound) => Held(y, datasets, versionRow, stable, bound)
    <3> SUFFICES ASSUME Held(lookup, datasets, versionRow, stable, bound)
                 PROVE  Held(y, datasets, versionRow, stable, bound)
      OBVIOUS
    <3>1. /\ Live(datasets, lookup.of) /\ lookup.current = datasets[lookup.of].current
          /\ \A aliases : RightOf(datasets, aliases, bound) = Ans(datasets, aliases, lookup.of)
      BY <1>1 DEF Held
    <3>2. v \in DatasetVersions /\ versionRow[v].of = lookup.of
      BY <3>1, <1>k, <1>2, <1>3, <1>4, <1>10 DEF RowsKeyed, Vers
    <3>3. RightOf(datasets, stable, bound) = <<"ok", lookup.of, v>>
      BY <3>1, <1>3, <1>10 DEF Ans
    <3> QED
      BY <3>1, <3>2, <3>3, <2>1, <1>2, <1>6, DatasetConstants DEF Held
  <2>4. Lost(lookup, datasets, versionRow, stable) => Lost(y, datasets, versionRow, stable)
    BY <2>1, <2>2, <1>6 DEF Lost
  <2>5. ~Unbound(lookup, datasets)
    BY <1>1 DEF Unbound
  <2> QED
    BY <2>1, <2>2, <2>3, <2>4, <2>5, <1>1, <1>6, <1>7, ResolveGoes
<1> QED
  BY <1>9, <1>10

LEMMA GetVersionKeeps == ASSUME TablesInv, ResolveInv, GetVersion PROVE ResolveInv'
<1>1. /\ lookup \in LookupRecord /\ lookup.step = "version"
      /\ bySlug' = bySlug /\ Watch /\ UNCHANGED datasetRows
      /\ lookup.step \in Underway \ {"bound"}
  BY DEF ResolveInv, GetVersion, LookupStep, Underway
<1>2. PICK y : y = [lookup EXCEPT !.step = "done"]
  OBVIOUS
<1>3. y \in LookupRecord /\ y.step = "done" /\ y.of = lookup.of /\ lookup' = y
  BY <1>1, <1>2 DEF LookupRecord, GetVersion, LookupStep
<1>4. answer' = Fate(lookup, datasets, versionRow, stable)
  BY <1>1 DEF GetVersion, Fate, AfterVersion
<1> QED
  BY <1>1, <1>3, <1>4, ResolveEnds

\* The executor goes on without a dataset, or to its next node.
LEMMA ResolveFailsKeeps == ASSUME TablesInv, ResolveInv, ResolveFails PROVE ResolveInv'
<1>1. PICK y : y = [lookup EXCEPT !.step = "done"]
  OBVIOUS
<1>2. lookup \in LookupRecord /\ changes \in Nat /\ datasetRows' = datasetRows
  BY DEF ResolveInv, ResolveFails
<1>3. y \in LookupRecord /\ y.step = "done" /\ y.of = lookup.of /\ lookup' = y
  BY <1>1, <1>2 DEF LookupRecord, ResolveFails
<1>4. changes' = changes /\ answer'[1] = "failed" /\ datasets' = datasets
  BY <1>2 DEF ResolveFails, Watch, datasetRows
<1>5. y.of # NoId => datasets'[y.of] # NoDataset
  BY <1>3, <1>4 DEF ResolveInv
<1>6. y.step \notin Underway
  BY <1>3 DEF Underway
<1> QED
  BY <1>2, <1>3, <1>4, <1>5, <1>6 DEF ResolveInv

LEMMA ResolveAgainKeeps == ASSUME ResolveInv, ResolveAgain PROVE ResolveInv'
<1>1. PICK y : y = [step |-> "idle", of |-> NoId, current |-> NoId, version |-> NoId]
  OBVIOUS
<1>2. y \in LookupRecord /\ y.step = "idle" /\ y.of = NoId
  BY <1>1, DatasetConstants DEF LookupRecord
<1>3. lookup' = y /\ changes' = 0 /\ bySlug' = {}
  BY <1>1 DEF ResolveAgain, LookupStep
<1>4. y.step \notin Underway
  BY <1>2 DEF Underway
<1> QED
  BY <1>2, <1>3, <1>4 DEF ResolveInv

-----------------------------------------------------------------------------

LEMMA ResolveStarts == DatasetsInit => ResolveInv
<1> SUFFICES ASSUME DatasetsInit PROVE ResolveInv
  OBVIOUS
<1>1. PICK y : y = [step |-> "idle", of |-> NoId, current |-> NoId, version |-> NoId]
  OBVIOUS
<1>2. y \in LookupRecord /\ y.step = "idle" /\ y.of = NoId
  BY <1>1, DatasetConstants DEF LookupRecord
<1>3. lookup = y /\ changes = 0 /\ bySlug = {}
  BY <1>1 DEF DatasetsInit
<1>4. y.step \notin Underway
  BY <1>2 DEF Underway
<1> QED
  BY <1>2, <1>3, <1>4 DEF ResolveInv

LEMMA ResolveStep ==
    ASSUME TablesInv, TablesInv', ResolveInv, [DatasetsNext]_datasetVars PROVE ResolveInv'
<1>1. ASSUME NEW s \in Scopes, CreateDataset(s) PROVE ResolveInv'
  BY <1>1, CreateDatasetWatched
<1>2. ASSUME NEW d \in DatasetIds, NEW a \in BOOLEAN, PatchArchived(d, a) PROVE ResolveInv'
  BY <1>2, PatchArchivedWatched
<1>3. ASSUME NEW d \in DatasetIds, NEW v \in DatasetVersions, PatchAlias(d, v) PROVE ResolveInv'
  BY <1>3, PatchAliasWatched
<1>4. ASSUME NEW t \in Tiers, NEW d \in DatasetIds \cup {NoId}, PutBinding(t, d) PROVE ResolveInv'
  BY <1>4, PutBindingWatched
<1>5. ASSUME NEW e \in Editors, NEW d \in DatasetIds, NEW l \in ChosenLabels \cup {0},
             BeginVersion(e, d, l)
      PROVE  ResolveInv'
  <2>1. RouteStep /\ UNCHANGED datasetRows
    BY <1>5 DEF BeginVersion, EditStep, RouteStep
  <2> QED
    BY <2>1, WatchedAlone
<1>6. ASSUME NEW e \in Editors, NEW d \in DatasetIds, NEW force \in BOOLEAN,
             BeginDatasetDelete(e, d, force)
      PROVE  ResolveInv'
  <2>1. RouteStep /\ UNCHANGED datasetRows
    BY <1>6 DEF BeginDatasetDelete, EditStep, RouteStep
  <2> QED
    BY <2>1, WatchedAlone
<1>7. ASSUME NEW e \in Editors, CountVersions(e) \/ DropRequest(e) PROVE ResolveInv'
  <2>1. RouteStep /\ UNCHANGED datasetRows
    BY <1>7 DEF CountVersions, DropRequest, EditStep, RouteStep
  <2> QED
    BY <2>1, WatchedAlone
<1>8. ASSUME NEW e \in Editors,
             InsertVersion(e) \/ SetCurrent(e) \/ SetStable(e) \/ DeleteDataset(e)
      PROVE  ResolveInv'
  BY <1>8, InsertVersionWatched, SetCurrentWatched, SetStableWatched, DeleteDatasetWatched
<1>9. ASSUME DatasetResolver PROVE ResolveInv'
  <2>1. ASSUME ResolveSlug PROVE ResolveInv'
    BY <2>1, SlugFound, SlugMissed
  <2> QED
    BY <1>9, <2>1, StartResolveKeeps, GetBoundKeeps, ResolveAliasKeeps, GetVersionKeeps,
       ResolveFailsKeeps, ResolveAgainKeeps DEF DatasetResolver
<1>10. ASSUME UNCHANGED datasetVars PROVE ResolveInv'
  BY <1>10 DEF datasetVars, ResolveInv
<1> QED
  BY <1>1, <1>2, <1>3, <1>4, <1>5, <1>6, <1>7, <1>8, <1>9, <1>10 DEF DatasetsNext, DatasetRoutes

LEMMA DatasetsInvIsSafe == TablesInv /\ ResolveInv => DatasetsSafe
<1> SUFFICES ASSUME TablesInv, ResolveInv PROVE DatasetsSafe
  OBVIOUS
<1>s. DatasetsShape /\ Keys
  BY DEF TablesInv
<1>1. DatasetsTypeOK
  <2>1. ASSUME NEW d \in DatasetIds
        PROVE  /\ {datasets[d].current, stable[d]} \subseteq VersionsOf(d) \cup {NoId}
               /\ ~Exists(d) => stable[d] = NoId
    <3>1. datasets[d].current \in Vers /\ stable[d] \in Vers
      BY <1>s, RowTypes
    <3>2. /\ datasets[d].current # NoId => versionRow[datasets[d].current].of = d
          /\ stable[d] # NoId => versionRow[stable[d]].of = d
          /\ ~Exists(d) => stable[d] = NoId
      BY <1>s DEF Keys
    <3>3. datasets[d].current \in VersionsOf(d) \cup {NoId} /\ stable[d] \in VersionsOf(d) \cup {NoId}
      BY <3>1, <3>2 DEF VersionsOf, Vers
    <3> QED
      BY <3>2, <3>3
  <2>2. \A v \in DatasetVersions : versionRow[v].of # NoId => Exists(versionRow[v].of)
    BY <1>s DEF Keys, Live, Exists
  <2>3. \A t \in Tiers : bound[t] # NoId => Exists(bound[t])
    BY <1>s DEF Keys, Live, Exists
  <2>4. lookup.step \in {"idle", "bound", "environment", "tenant", "global", "alias", "version", "done"}
    BY DEF ResolveInv, LookupRecord
  <2> QED
    BY <2>1, <2>2, <2>3, <2>4, <1>s DEF DatasetsTypeOK, DatasetsShape
<1>2. ResolveExplained
  <2>1. Exists(lookup.of) = Live(datasets, lookup.of)
    BY Views
  <2> QED
    BY <2>1 DEF ResolveInv, ResolveExplained
<1>3. FirstVersionSettles
  <2> SUFFICES ASSUME NEW d \in DatasetIds, Exists(d), VersionsOf(d) # {}, d \notin touched,
                      \A e \in Editors : editor[e].of # d
               PROVE  /\ datasets[d].current # NoId /\ stable[d] # NoId
                      /\ firsts[d] <= 1 => datasets[d].current = stable[d]
    BY DEF FirstVersionSettles
  <2>1. VersionInHand(d) /\ SetOnce(d)
    BY DEF TablesInv, Settles
  <2> QED
    BY <2>1 DEF VersionInHand, SetOnce
<1>4. LabelsAreDense
  BY DEF TablesInv, Dense, LabelsAreDense
<1> QED
  BY <1>1, <1>2, <1>3, <1>4 DEF DatasetsSafe

\* The dataset routes and resolve(), for every number of datasets, versions and
\* requests: the keys hold, versions that are made settle what is current and
\* stable, labels are dense, and an answer of resolve() into which at most one
\* write falls was right at some moment of the call, but for the two deletions
\* that the property names.
THEOREM DatasetsAreSafe == DatasetsSpec => []DatasetsSafe
<1>1. TablesInv /\ ResolveInv /\ [DatasetsNext]_datasetVars => (TablesInv /\ ResolveInv)'
  BY TablesStep, ResolveStep
<1>2. DatasetsSpec => [](TablesInv /\ ResolveInv)
  BY <1>1, TablesStart, ResolveStarts, PTL DEF DatasetsSpec
<1> QED
  BY <1>2, DatasetsInvIsSafe, PTL
=============================================================================
