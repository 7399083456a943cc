----------------------------- MODULE DagExecutor -----------------------------
(***************************************************************************)
(* One run inside DagExecutor.execute, from the moment runDag is called:   *)
(* batches of ready nodes run under Promise.all, nodes skip when no        *)
(* incoming edge is live, outputs are evicted once every consumer has      *)
(* resolved, a failing node rejects the run while its siblings go on, and  *)
(* the catch and finally blocks close the run.                             *)
(*                                                                         *)
(* An edge is a pair of nodes: it stands for all the port wirings between  *)
(* the two, and is live when one of them carries a value.  Each action     *)
(* ends at an `await`.                                                     *)
(***************************************************************************)
EXTENDS Naturals, FiniteSets

CONSTANTS
    Nodes,        \* node ids
    Graphs,       \* edge sets of the specs considered (validated: acyclic)
    External,     \* nodes whose sidecar plugin gets a refresh grant
    Streaming,    \* nodes marked `stream: true`
    Loops,        \* nodes whose plugin calls runSubgraph
    Bindable,     \* nodes with a `binding:`
    MaxRetries,   \* maxRetries of the executor
    MayAbort,     \* can the run be cancelled, or have a deadline
    NoNode        \* no `output` node in the spec

ASSUME DagConstants ==
    /\ NoNode \notin Nodes
    /\ Graphs \subseteq SUBSET (Nodes \X Nodes)
    /\ MaxRetries \in Nat
    /\ MayAbort \in BOOLEAN

\* validatePipelineSpec refuses a cycle: some node of any set has no upstream in it.
ASSUME Acyclic ==
    \A g \in Graphs : \A S \in SUBSET Nodes :
        S # {} => \E n \in S : \A m \in S : <<m, n>> \notin g

VARIABLES
    edges,       \* the spec's edges
    outNode,     \* its first `output` node, if any
    phase,       \* where execute stands
    batch,       \* the nodes of the current Promise.all
    npc,         \* npc[n]: where node n's async function stands
    completed, skipped,  \* the sets of runDag
    feeds,       \* feeds[n]: the consumers n's output carries a value for
    outputs,     \* nodes whose output is in the map
    waiting,     \* waiting[n]: consumers behind remainingConsumers(n)
    attempt,     \* attempt[n]: withRetries' counter
    nodeRow,     \* execution_nodes status
    status,      \* the run's status in the executions table
    cause,       \* what the rejection was: nothing, a failure, an abort
    aborted,     \* signal aborted or deadline passed
    bindings,    \* whose bindings currentBindings holds
    bound,       \* history: whose bindings n was resolved against
    grants,      \* nodes holding a live refresh grant
    revoked,     \* was revokeConnectionRefreshGrants carried out
    stepSeq,     \* stepSeq.get(executionId) ?? 0
    frames       \* history: <<node, seq>> of emitted step frames

graph   == <<edges, outNode>>
runVars == <<phase, status, cause>>
data    == <<completed, skipped, feeds, outputs, waiting>>
extras  == <<bindings, bound, grants, revoked, stepSeq, frames>>
vars    == <<edges, outNode, phase, batch, npc, completed, skipped, feeds,
             outputs, waiting, attempt, nodeRow, status, cause, aborted,
             bindings, bound, grants, revoked, stepSeq, frames>>

Phase   == {"launch", "batch", "finish", "complete", "catch", "cleanup", "done"}
Working == {"skipping", "starting", "bind", "mint", "run", "call", "record",
            "deliver", "errored", "cancelled"}
Ended   == {"resolved", "rejected"}

TypeOK ==
    /\ edges \in SUBSET (Nodes \X Nodes)
    /\ outNode \in Nodes \cup {NoNode}
    /\ phase \in Phase
    /\ batch \in SUBSET Nodes
    /\ npc \in [Nodes -> {"idle"} \cup Working \cup Ended]
    /\ completed \in SUBSET Nodes
    /\ skipped \in SUBSET Nodes
    /\ feeds \in [Nodes -> SUBSET Nodes]
    /\ outputs \in SUBSET Nodes
    /\ waiting \in [Nodes -> SUBSET Nodes]
    /\ attempt \in [Nodes -> 0 .. MaxRetries]
    /\ nodeRow \in [Nodes -> {"none", "running", "succeeded", "failed", "skipped"}]
    /\ status \in {"running", "succeeded", "failed", "cancelled"}
    /\ cause \in {"none", "failed", "cancelled"}
    /\ aborted \in BOOLEAN
    /\ bindings \in {"own", "subgraph"}
    /\ bound \in [Nodes -> {"none", "own", "subgraph"}]
    /\ grants \in SUBSET Nodes
    /\ revoked \in BOOLEAN
    /\ stepSeq \in Nat
    /\ frames \in SUBSET (Nodes \X Nat)

Incoming(n) == {m \in Nodes : <<m, n>> \in edges}
Outgoing(n) == {m \in Nodes : <<n, m>> \in edges}
Resolved(n) == n \in completed \cup skipped

\* isEdgeLive: the source ran, its output is still there and carries a value.
EdgeLive(m, n) == m \notin skipped /\ m \in outputs /\ n \in feeds[m]

\* Mutant: one dead edge is enough to skip.
DeadIfAny(n) == \E m \in Incoming(n) : ~EdgeLive(m, n)

\* Every incoming edge is dead; a root never skips.
Dead(n) == Incoming(n) # {} /\ \A m \in Incoming(n) : ~EdgeLive(m, n)

\* The `output` node and its direct sources are never evicted.
Protected == {outNode} \cup {m \in Nodes : <<m, outNode>> \in edges}

Init ==
    /\ edges \in Graphs
    /\ outNode \in Nodes \cup {NoNode}
    /\ phase = "launch"
    /\ batch = {n \in Nodes : Incoming(n) = {}}
    /\ npc = [n \in Nodes |-> "idle"]
    /\ completed = {}
    /\ skipped = {}
    /\ feeds = [n \in Nodes |-> {}]
    /\ outputs = {}
    /\ waiting = [n \in Nodes |-> Outgoing(n)]
    /\ attempt = [n \in Nodes |-> 0]
    /\ nodeRow = [n \in Nodes |-> "none"]
    /\ status = "running"
    /\ cause = "none"
    /\ aborted = FALSE
    /\ bindings = "own"
    /\ bound = [n \in Nodes |-> "none"]
    /\ grants = {}
    /\ revoked = FALSE
    /\ stepSeq = 0
    /\ frames = {}

-----------------------------------------------------------------------------
(* The batch loop of runDag                                                *)

\* The synchronous part of batch.map: skip or start each node; checkAborted
\* throws before a node is started.
Launch ==
    LET stopped == aborted /\ \E n \in batch : ~Dead(n) IN
    /\ phase = "launch"
    /\ npc' = [n \in Nodes |-> IF n \notin batch THEN npc[n]
                               ELSE IF Dead(n) THEN "skipping"
                               ELSE IF aborted THEN "rejected" ELSE "starting"]
    /\ phase' = IF stopped THEN "catch" ELSE "batch"
    /\ cause' = IF stopped THEN "cancelled" ELSE cause
    /\ UNCHANGED <<graph, batch, data, attempt, nodeRow, status, aborted, extras>>

\* Mutant: one resolved upstream is enough.
ReadyEarly ==
    {n \in UNION {Outgoing(m) : m \in batch} :
        ~Resolved(n) /\ \E m \in Incoming(n) : Resolved(m)}

\* A downstream node enters ready when all its upstreams are resolved.
Ready ==
    {n \in UNION {Outgoing(m) : m \in batch} :
        ~Resolved(n) /\ \A m \in Incoming(n) : Resolved(m)}

\* Mutant: evict with one consumer still to run.
SettleEvictsEarly ==
    /\ phase = "batch"
    /\ \A n \in batch : npc[n] = "resolved"
    /\ batch' = Ready
    /\ phase' = IF Ready = {} THEN "finish" ELSE "launch"
    /\ waiting' = IF outNode = NoNode THEN waiting
                  ELSE [m \in Nodes |-> waiting[m] \ batch]
    /\ outputs' = IF outNode = NoNode THEN outputs
                  ELSE {m \in outputs : \/ Outgoing(m) \cap batch = {}
                                        \/ Cardinality(waiting[m] \ batch) > 1
                                        \/ m \in Protected}
    /\ UNCHANGED <<graph, npc, completed, skipped, feeds, attempt, nodeRow,
                   status, cause, aborted, extras>>

\* Mutant: the batch is over with its first node (Promise.race).
SettleRace ==
    /\ phase = "batch"
    /\ \E n \in batch : npc[n] = "resolved"
    /\ batch' = Ready
    /\ phase' = IF Ready = {} THEN "finish" ELSE "launch"
    /\ UNCHANGED <<graph, npc, data, attempt, nodeRow, status, cause, aborted,
                   extras>>

\* Promise.all resolved: refill the ready queue, evict what nobody reads now.
Settle ==
    /\ phase = "batch"
    /\ \A n \in batch : npc[n] = "resolved"
    /\ batch' = Ready
    /\ phase' = IF Ready = {} THEN "finish" ELSE "launch"
    /\ waiting' = IF outNode = NoNode THEN waiting
                  ELSE [m \in Nodes |-> waiting[m] \ batch]
    /\ outputs' = IF outNode = NoNode THEN outputs
                  ELSE {m \in outputs : \/ Outgoing(m) \cap batch = {}
                                        \/ waiting[m] \ batch # {}
                                        \/ m \in Protected}
    /\ UNCHANGED <<graph, npc, completed, skipped, feeds, attempt, nodeRow,
                   status, cause, aborted, extras>>

-----------------------------------------------------------------------------
(* One node of the batch                                                   *)

\* Mutant: nobody awaits the rejected promise.
RejectUnseen(n, kind) ==
    /\ npc' = [npc EXCEPT ![n] = "rejected"]
    /\ UNCHANGED runVars

\* The first rejection rejects Promise.all; a later one changes nothing.
Reject(n, kind) ==
    /\ npc' = [npc EXCEPT ![n] = "rejected"]
    /\ phase' = IF phase = "batch" THEN "catch" ELSE phase
    /\ cause' = IF phase = "batch" THEN kind ELSE cause
    /\ UNCHANGED status

Step(n, from, to) ==
    /\ npc[n] = from
    /\ npc' = [npc EXCEPT ![n] = to]
    /\ UNCHANGED runVars

\* markSkipped: two store writes; an error rejects the run.
Skip(n) ==
    /\ npc[n] = "skipping"
    /\ \/ /\ Step(n, "skipping", "resolved")
          /\ nodeRow' = [nodeRow EXCEPT ![n] = "skipped"]
          /\ skipped' = skipped \cup {n}
       \/ Reject(n, "failed") /\ UNCHANGED <<nodeRow, skipped>>
    /\ UNCHANGED <<graph, batch, completed, feeds, outputs, waiting, attempt,
                   aborted, extras>>

\* store.startNode, outside executeNode's try.
StartNode(n) ==
    /\ npc[n] = "starting"
    /\ \/ /\ Step(n, "starting", "bind")
          /\ nodeRow' = [nodeRow EXCEPT ![n] = "running"]
       \/ Reject(n, "failed") /\ UNCHANGED nodeRow
    /\ UNCHANGED <<graph, batch, data, attempt, aborted, extras>>

\* Look `node.binding` up in currentBindings, resolve dataset and connection.
Bind(n) ==
    /\ \/ Step(n, "bind", IF n \in External THEN "mint" ELSE "run")
       \/ Step(n, "bind", "errored")
    /\ bound' = IF n \in Bindable THEN [bound EXCEPT ![n] = bindings] ELSE bound
    /\ UNCHANGED <<graph, batch, data, attempt, nodeRow, aborted, bindings,
                   grants, revoked, stepSeq, frames>>

\* buildExternalConnectionEnvelope: materialise, then mint a refresh grant.
Mint(n) ==
    /\ \/ Step(n, "mint", "run") /\ grants' = grants \cup {n}
       \/ Step(n, "mint", "run") /\ UNCHANGED grants
       \/ Step(n, "mint", "errored") /\ UNCHANGED grants
    /\ UNCHANGED <<graph, batch, data, attempt, nodeRow, aborted, bindings,
                   bound, revoked, stepSeq, frames>>

\* withRetries, top of an attempt: checkAborted, then call the plugin.
Attempt(n) ==
    /\ Step(n, "run", IF aborted THEN "cancelled" ELSE "call")
    /\ UNCHANGED <<graph, batch, data, attempt, nodeRow, aborted, extras>>

\* A loop plugin enters runSubgraph: runDag replaces currentBindings.
EnterSubgraph(n) ==
    /\ n \in Loops
    /\ npc[n] = "call"
    /\ bindings' = "subgraph"
    /\ UNCHANGED <<graph, runVars, batch, npc, data, attempt, nodeRow, aborted,
                   bound, grants, revoked, stepSeq, frames>>

\* The plugin succeeds, fails and is retried, fails for good (or its result
\* exceeds maxNodeOutputDocs), or lets a nested abort through, which is not
\* retried.
Return(n) ==
    /\ \/ Step(n, "call", "record") /\ UNCHANGED attempt
       \/ /\ Step(n, "call", "run")
          /\ attempt[n] < MaxRetries
          /\ attempt' = [attempt EXCEPT ![n] = @ + 1]
       \/ Step(n, "call", "errored") /\ UNCHANGED attempt
       \/ aborted /\ Step(n, "call", "cancelled") /\ UNCHANGED attempt
    /\ UNCHANGED <<graph, batch, data, nodeRow, aborted, extras>>

\* completeNode and recordUsage, inside the try.
Record(n) ==
    /\ \/ /\ Step(n, "record", "deliver")
          /\ nodeRow' = [nodeRow EXCEPT ![n] = "succeeded"]
       \/ Step(n, "record", "errored") /\ UNCHANGED nodeRow
    /\ UNCHANGED <<graph, batch, data, attempt, aborted, extras>>

\* emitStep for a streaming node, then outputs.set and completed.add.
Deliver(n) ==
    /\ Step(n, "deliver", "resolved")
    /\ completed' = completed \cup {n}
    /\ outputs' = outputs \cup {n}
    /\ \E live \in SUBSET Outgoing(n) : feeds' = [feeds EXCEPT ![n] = live]
    /\ IF n \in Streaming
         THEN /\ stepSeq' = stepSeq + 1
              /\ frames' = frames \cup {<<n, stepSeq + 1>>}
         ELSE UNCHANGED <<stepSeq, frames>>
    /\ UNCHANGED <<graph, batch, skipped, waiting, attempt, nodeRow, aborted,
                   bindings, bound, grants, revoked>>

\* executeNode's catch: completeNode(failed), then rethrow; if that write
\* throws, its error takes the place of the node's.
NodeFails(n) ==
    /\ \/ npc[n] = "errored" /\ Reject(n, "failed")
       \/ npc[n] = "cancelled" /\ Reject(n, "cancelled")
    /\ nodeRow' = [nodeRow EXCEPT ![n] = "failed"]
    /\ UNCHANGED <<graph, batch, data, attempt, aborted, extras>>

NodeWriteFails(n) ==
    /\ npc[n] \in {"errored", "cancelled"}
    /\ Reject(n, "failed")
    /\ UNCHANGED <<graph, batch, data, attempt, nodeRow, aborted, extras>>

-----------------------------------------------------------------------------
(* The run around the nodes                                                *)

\* The caller disconnects or the deadline passes.
Abort ==
    /\ MayAbort
    /\ ~aborted
    /\ phase # "done"
    /\ aborted' = TRUE
    /\ UNCHANGED <<graph, runVars, batch, npc, data, attempt, nodeRow, extras>>

\* onFinish: pass, or force-fail the run.
Finish ==
    /\ phase = "finish"
    /\ \/ phase' = "complete" /\ UNCHANGED cause
       \/ phase' = "catch" /\ cause' = "failed"
    /\ UNCHANGED <<graph, batch, npc, data, attempt, nodeRow, status, aborted,
                   extras>>

\* The terminal success write; if it throws, the catch block is next.
Complete ==
    /\ phase = "complete"
    /\ \/ phase' = "cleanup" /\ status' = "succeeded" /\ UNCHANGED cause
       \/ phase' = "catch" /\ cause' = "failed" /\ UNCHANGED status
    /\ UNCHANGED <<graph, batch, npc, data, attempt, nodeRow, aborted, extras>>

\* Mutant: every rejection is taken for an abort.
CatchCancels ==
    /\ phase = "catch"
    /\ phase' = "cleanup"
    /\ status' \in {"cancelled", status}
    /\ UNCHANGED <<graph, batch, npc, data, attempt, nodeRow, cause, aborted,
                   extras>>

\* The catch block's terminal write, which may fail as well.
Catch ==
    /\ phase = "catch"
    /\ phase' = "cleanup"
    /\ status' \in {cause, status}
    /\ UNCHANGED <<graph, batch, npc, data, attempt, nodeRow, cause, aborted,
                   extras>>

\* finally: forget the step counter, revoke the run's grants (best effort).
Cleanup ==
    /\ phase = "cleanup"
    /\ phase' = "done"
    /\ stepSeq' = 0
    /\ \/ grants' = {} /\ revoked' = TRUE
       \/ UNCHANGED <<grants, revoked>>
    /\ UNCHANGED <<graph, batch, npc, data, attempt, nodeRow, status, cause,
                   aborted, bindings, bound, frames>>

NodeStep(n) ==
    \/ Skip(n) \/ StartNode(n) \/ Bind(n) \/ Mint(n) \/ Attempt(n)
    \/ Return(n) \/ Record(n) \/ Deliver(n) \/ NodeFails(n) \/ NodeWriteFails(n)

RunStep == Launch \/ Settle \/ Finish \/ Complete \/ Catch \/ Cleanup

\* The run has returned and no sibling is left behind.
Quiet == phase = "done" /\ \A n \in Nodes : npc[n] \notin Working

Stop == Quiet /\ UNCHANGED vars

Next ==
    \/ RunStep
    \/ \E n \in Nodes : NodeStep(n) \/ EnterSubgraph(n)
    \/ Abort
    \/ Stop

Spec == Init /\ [][Next]_vars

\* Awaited calls return, and plugins end: the event loop serves every one.
Fairness == WF_vars(RunStep) /\ \A n \in Nodes : WF_vars(NodeStep(n))

FairSpec == Spec /\ Fairness

-----------------------------------------------------------------------------
(* Properties                                                              *)

\* The DAG order: a node leaves `idle` only when every upstream has completed
\* or been skipped, also after a failure elsewhere (the refill of `ready`).
Precedence ==
    \A n \in Nodes : npc[n] # "idle" => \A m \in Incoming(n) : Resolved(m)

\* When the loop ends normally no node was forgotten: skip cascades and
\* converging branches included, each node completed or skipped, never both.
AllResolved ==
    phase \in {"finish", "complete"} =>
        completed \cup skipped = Nodes /\ completed \cap skipped = {}

\* The skipped set is the one the edges and emitted ports define: a node is
\* skipped iff it has upstreams and none of them ran and fed it.  Eviction
\* must not make a live edge look dead (isEdgeLive reads the same map).
SkipExact ==
    phase \in {"finish", "complete"} =>
        \A n \in Nodes : n \in skipped <=>
            /\ Incoming(n) # {}
            /\ \A m \in Incoming(n) : m \in skipped \/ n \notin feeds[m]

\* "evicted outputs are provably unread": an output is dropped only when all
\* its consumers have resolved, and never one pickOutput reads.
EvictionSafe ==
    \A m \in completed \ outputs :
        /\ \A n \in Outgoing(m) : Resolved(n)
        /\ m \notin Protected

\* ... and everything else is dropped: at the end only the protected outputs
\* and the leaves are still held.
EvictionComplete ==
    phase \in {"finish", "complete"} /\ outNode # NoNode =>
        outputs = {m \in completed : m \in Protected \/ Outgoing(m) = {}}

\* `succeeded` is committed only over a finished trace: every node row is
\* terminal, none failed, and a skipped node's row says so.
SuccessIsComplete ==
    status = "succeeded" => \A n \in Nodes :
        nodeRow[n] = IF n \in skipped THEN "skipped" ELSE "succeeded"

\* The trace of a run is exact: no node forgotten, the skips and evictions
\* those the graph and the emitted ports define, and `succeeded` over a
\* complete trace only (runDag's refill, isEdgeLive, complete).
TraceExact == AllResolved /\ SkipExact /\ EvictionComplete /\ SuccessIsComplete

\* `cancelled` is written only for a run that was cancelled or timed out, and
\* a run with a failed node is never `succeeded`.
CauseIsReal ==
    /\ status = "cancelled" => aborted
    /\ (\E n \in Nodes : npc[n] = "rejected") => status # "succeeded"

\* A run that succeeded leaves nothing behind: no refresh grant outlives its
\* revocation, and no step frame repeats a number, though `finally` resets the
\* counter.  (After a failure, siblings still running break both.)
SuccessIsClean ==
    status = "succeeded" =>
        /\ revoked => grants = {}
        /\ \A f, g \in frames : f[2] = g[2] => f = g

\* The run always returns, and the siblings of a failed node end too.
Drains == <>[]Quiet

-----------------------------------------------------------------------------
(* What a comment says, and the code does not do                           *)

\* ADR-0023 -- "`node.binding: <id>` wins over inline".  After a subgraph ran,
\* a node of the outer spec is resolved against the subgraph's bindings.
BindingWins == \A n \in Nodes : bound[n] # "subgraph"
=============================================================================
