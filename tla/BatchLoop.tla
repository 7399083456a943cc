----------------------------- MODULE BatchLoop -----------------------------
(***************************************************************************)
(* stage_collection and foreach_batch (plugins/builtin-rag/src/plugins/    *)
(* batching.ts): a collection staged into pages, one subgraph run per page *)
(* by a few concurrent runners, and a checkpoint of the pages done, kept   *)
(* under resumeKey in the pipeline's ingest state, so that a run that      *)
(* failed or whose worker died is resumed.                                 *)
(*                                                                         *)
(* Attempts of the node follow one another: a failed or killed run is      *)
(* submitted again over the same staged pages.  Runners of an attempt that *)
(* has failed are not stopped; the ones still working go on beside the     *)
(* next attempt when the worker process lives on.                          *)
(***************************************************************************)
EXTENDS Naturals, FiniteSets, Sequences

CONSTANTS
    Pages,          \* how many pages the collection was staged into
    Runners,        \* the runners of an attempt (its concurrency)
    BatchAttempts,  \* bound: attempts of the node
    MaxBatchFaults  \* bound: failing pages, writes and crashes

ASSUME BatchAssumption ==
    /\ Pages \in Nat /\ BatchAttempts \in Nat \ {0} /\ MaxBatchFaults \in Nat
    /\ Runners # {}

VARIABLES
    continueOnError,  \* the node's setting of that name
    checkpointRow,    \* the pages recorded under resumeKey
    attempt,          \* the number of the attempt under way
    loopOf,           \* loopOf[a]: the state of attempt a of foreach_batch
    runner,           \* runner[a][w]: what runner w of attempt a does
    batchFaults,
    bodies,           \* ghost: bodies[a][i], how often attempt a started page i's body
    processed,        \* ghost: the pages whose body has run to its end
    inherited         \* ghost: pages checkpointed for an earlier collection

batchGhosts == <<bodies, processed, inherited>>
batchVars == <<continueOnError, checkpointRow, attempt, loopOf, runner, batchFaults,
               batchGhosts>>

PageIds == 0 .. Pages - 1
Attempts == 1 .. BatchAttempts
IdleRunner == [pc |-> "off", page |-> 0]
NoAttempt == [pc |-> "none", committed |-> {}, pending |-> <<>>, cursor |-> 0,
              failed |-> {}, aborted |-> FALSE, chain |-> <<>>, broken |-> FALSE]

BatchInit ==
    /\ continueOnError \in BOOLEAN
    /\ checkpointRow = {}
    /\ attempt = 0
    /\ loopOf = [a \in Attempts |-> NoAttempt]
    /\ runner = [a \in Attempts |-> [w \in Runners |-> IdleRunner]]
    /\ batchFaults = 0
    /\ bodies = [a \in Attempts |-> [i \in PageIds |-> 0]]
    /\ processed = {}
    /\ inherited = {}

BatchFault ==
    /\ batchFaults < MaxBatchFaults
    /\ batchFaults' = batchFaults + 1

LiveAttempt(a) == loopOf[a].pc \notin {"none", "dead"}

\* Nothing of attempt a is under way any more.
RunnersQuiet(a) == /\ \A w \in Runners : runner[a][w].pc \in {"off", "done", "rejected"}
            /\ loopOf[a].chain = <<>>

\* The numbers of a set in ascending order.
Ascending(S) ==
    CHOOSE q \in [1 .. Cardinality(S) -> S] :
        \A i, j \in DOMAIN q : i < j => q[i] < q[j]

\* The first attempt, or the resubmission of one that has failed: list() the
\* checkpoint, then start the runners over the pages it does not have.  After
\* one that returned, the next run of the pipeline stages a new collection;
\* the checkpoint of the old one is still there.
BeginAttempt ==
    LET a == attempt + 1
        pending == Ascending(PageIds \ checkpointRow)
        renew == attempt > 0 /\ loopOf[attempt].pc = "ended"
    IN /\ attempt < BatchAttempts
       /\ attempt > 0 => loopOf[attempt].pc \in {"failed", "dead", "ended"}
       /\ renew => \A b \in 1..attempt : RunnersQuiet(b)
       /\ inherited' = IF renew THEN checkpointRow ELSE inherited
       /\ processed' = IF renew THEN {} ELSE processed
       /\ attempt' = a
       /\ loopOf' = [loopOf EXCEPT ![a] = [NoAttempt EXCEPT
                      !.pc = "run", !.committed = checkpointRow,
                      !.pending = pending]]
       /\ runner' = [runner EXCEPT ![a] =
                       [w \in Runners |-> [pc |-> "next", page |-> 0]]]
       /\ UNCHANGED <<checkpointRow, batchFaults, bodies>>

\* The head of a runner's loop: take the next pending page, moving the
\* shared cursor before the first await.
Take(a, w) ==
    /\ runner[a][w].pc = "next"
    /\ IF loopOf[a].aborted \/ loopOf[a].cursor = Len(loopOf[a].pending)
       THEN /\ runner' = [runner EXCEPT ![a][w].pc = "done"]
            /\ UNCHANGED loopOf
       ELSE /\ runner' = [runner EXCEPT ![a][w] =
                 [pc |-> "load", page |-> loopOf[a].pending[loopOf[a].cursor + 1]]]
            /\ loopOf' = [loopOf EXCEPT ![a].cursor = @ + 1]
    /\ UNCHANGED <<checkpointRow, attempt, batchFaults, batchGhosts>>

\* loadBatch returns and the body is started.
Load(a, w) ==
    /\ runner[a][w].pc = "load"
    /\ runner' = [runner EXCEPT ![a][w].pc = "body"]
    /\ bodies' = [bodies EXCEPT ![a][runner[a][w].page] = @ + 1]
    /\ UNCHANGED <<checkpointRow, attempt, loopOf, batchFaults, processed, inherited>>

\* loadBatch throws, outside the runner's try: the runner is rejected and
\* aborted is not set, so the others go on.
LoadFails(a, w) ==
    /\ runner[a][w].pc = "load"
    /\ BatchFault
    /\ runner' = [runner EXCEPT ![a][w].pc = "rejected"]
    /\ UNCHANGED <<checkpointRow, attempt, loopOf, batchGhosts>>

\* MUTANT of BodyDone: only the page just done is written.
BodyDoneAlone(a, w) ==
    /\ runner[a][w].pc = "body"
    /\ loopOf' = [loopOf EXCEPT ![a].committed = @ \cup {runner[a][w].page},
                            ![a].chain = Append(@, {runner[a][w].page})]
    /\ processed' = processed \cup {runner[a][w].page}
    /\ runner' = [runner EXCEPT ![a][w].pc = "next"]
    /\ UNCHANGED <<checkpointRow, attempt, batchFaults, bodies, inherited>>

\* The subgraph completes: checkpoint(i) adds the page and chains a write of
\* the whole set as it is now.
BodyDone(a, w) ==
    /\ runner[a][w].pc = "body"
    /\ LET committed == loopOf[a].committed \cup {runner[a][w].page}
       IN loopOf' = [loopOf EXCEPT ![a].committed = committed,
                               ![a].chain = Append(@, committed)]
    /\ processed' = processed \cup {runner[a][w].page}
    /\ runner' = [runner EXCEPT ![a][w].pc = "next"]
    /\ UNCHANGED <<checkpointRow, attempt, batchFaults, bodies, inherited>>

\* The subgraph fails: recorded, and fatal unless continueOnError.
BodyFails(a, w) ==
    /\ runner[a][w].pc = "body"
    /\ BatchFault
    /\ loopOf' = [loopOf EXCEPT ![a].failed = @ \cup {runner[a][w].page},
                            ![a].aborted = @ \/ ~continueOnError]
    /\ runner' = [runner EXCEPT ![a][w].pc =
                    IF continueOnError THEN "next" ELSE "rejected"]
    /\ UNCHANGED <<checkpointRow, attempt, batchGhosts>>

\* The next checkpoint write of the chain: a wholesale replaceAll.
WriteCheckpoint(a) ==
    /\ LiveAttempt(a) /\ loopOf[a].chain # <<>> /\ ~loopOf[a].broken
    /\ checkpointRow' = Head(loopOf[a].chain)
    /\ loopOf' = [loopOf EXCEPT ![a].chain = Tail(@)]
    /\ UNCHANGED <<attempt, runner, batchFaults, batchGhosts>>

\* A checkpoint write is rejected: every later link of the chain is skipped.
WriteFails(a) ==
    /\ LiveAttempt(a) /\ loopOf[a].chain # <<>> /\ ~loopOf[a].broken
    /\ BatchFault
    /\ loopOf' = [loopOf EXCEPT ![a].broken = TRUE, ![a].chain = <<>>]
    /\ UNCHANGED <<checkpointRow, attempt, runner, batchGhosts>>

Flushed(a) == loopOf[a].chain = <<>> \/ loopOf[a].broken

\* Promise.all rejects with the first rejected runner; the chain is awaited
\* and the node throws.
NodeThrows(a) ==
    /\ loopOf[a].pc = "run"
    /\ \E w \in Runners : runner[a][w].pc = "rejected"
    /\ Flushed(a)
    /\ loopOf' = [loopOf EXCEPT ![a].pc = "failed"]
    /\ UNCHANGED <<checkpointRow, attempt, runner, batchFaults, batchGhosts>>

\* Every runner is through: the chain is awaited and the summary returned.
NodeReturns(a) ==
    /\ loopOf[a].pc = "run"
    /\ \A w \in Runners : runner[a][w].pc = "done"
    /\ Flushed(a)
    /\ loopOf' = [loopOf EXCEPT ![a].pc = "ended"]
    /\ UNCHANGED <<checkpointRow, attempt, runner, batchFaults, batchGhosts>>

\* The worker process dies with everything it had under way.
WorkerDies ==
    /\ attempt > 0 /\ loopOf[attempt].pc = "run"
    /\ BatchFault
    /\ loopOf' = [a \in Attempts |-> IF loopOf[a].pc = "none" THEN loopOf[a]
                                   ELSE [loopOf[a] EXCEPT !.pc = "dead", !.chain = <<>>]]
    /\ runner' = [a \in Attempts |-> [w \in Runners |-> IdleRunner]]
    /\ UNCHANGED <<checkpointRow, attempt, batchGhosts>>

BatchStep ==
    \/ BeginAttempt \/ WorkerDies
    \/ \E a \in Attempts :
        \/ WriteCheckpoint(a) \/ WriteFails(a) \/ NodeThrows(a) \/ NodeReturns(a)
        \/ \E w \in Runners :
            Take(a, w) \/ Load(a, w) \/ LoadFails(a, w)
              \/ BodyDone(a, w) \/ BodyFails(a, w)

BatchNext == BatchStep /\ UNCHANGED continueOnError

BatchSpec == BatchInit /\ [][BatchNext]_batchVars

----------------------------------------------------------------------------
(* Properties.                                                             *)

\* Type correctness of the attempts, their runners and the checkpoint.
BatchTypeOK ==
    /\ checkpointRow \subseteq PageIds
    /\ attempt \in 0..BatchAttempts
    /\ \A a \in Attempts :
        /\ loopOf[a].pc \in {"none", "run", "failed", "ended", "dead"}
        /\ loopOf[a].committed \subseteq PageIds
        /\ loopOf[a].pending \in Seq(PageIds)
        /\ loopOf[a].cursor \in 0..Len(loopOf[a].pending)
        /\ loopOf[a].failed \subseteq PageIds
        /\ Len(loopOf[a].chain) <= Pages
        /\ \A w \in Runners :
            /\ runner[a][w].pc \in {"off", "next", "load", "body", "done",
                                    "rejected"}
            /\ runner[a][w].page \in PageIds \cup {0}
    /\ batchFaults \in 0..MaxBatchFaults

\* Nothing is checkpointed that has not been processed: whatever runners,
\* failures, crashes and leftovers of failed attempts do, a page the next
\* attempt will skip has had its body run to the end, or was skipped for an
\* earlier collection already (checkpoint() after runSubgraph).
CheckpointHonest == checkpointRow \subseteq processed \cup inherited

\* A summary with no failed pages is the truth: every page of the collection
\* has been processed, now or by an earlier attempt, apart from the ones the
\* checkpoint of an earlier collection hides (the shared cursor).
SummaryHonest ==
    \A a \in Attempts :
      (a = attempt /\ loopOf[a].pc = "ended" /\ loopOf[a].failed = {})
      => PageIds \subseteq processed \cup inherited

\* No page's body is started twice by one attempt, however its runners
\* interleave (the cursor moves before the first await).
OncePerAttempt == \A a \in Attempts, i \in PageIds : bodies[a][i] <= 1

\* Progress is kept: an attempt whose writes all succeeded and that ended,
\* failed or not, with no older attempt still writing, has left every page
\* it or an earlier attempt committed in the checkpoint.
ProgressKept ==
    (/\ attempt > 0 /\ loopOf[attempt].pc \in {"ended", "failed"}
     /\ ~loopOf[attempt].broken /\ \A b \in 1..attempt : RunnersQuiet(b)
     /\ \A b \in 1..(attempt - 1) : loopOf[b].pc = "dead")
    => loopOf[attempt].committed \subseteq checkpointRow

\* Whatever fails or dies, the checkpoint names finished pages only and enough
\* of them, a page is run once per attempt, and the summary is true
\* (forEachBatchPlugin).
BatchSafe ==
    /\ BatchTypeOK /\ CheckpointHonest /\ SummaryHonest /\ OncePerAttempt
    /\ ProgressKept
============================================================================
