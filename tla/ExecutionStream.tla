--------------------------- MODULE ExecutionStream --------------------------
(***************************************************************************)
(* The result stream of one execution: the executor's emitStep, the        *)
(* publishing store that persists a frame and then puts it on the change   *)
(* bus, and GET /api/executions/:id/stream, which replays what is          *)
(* persisted and then tails the bus.  Two processes and a database: every  *)
(* action ends at an `await`.                                              *)
(***************************************************************************)
EXTENDS Naturals, Sequences, FiniteSets

CONSTANTS
    Nodes,     \* nodes of one parallel batch
    Emitters,  \* the nodes whose plugin calls ctx.emit
    MaxOpens   \* bound: streams a client opens one after the other

ASSUME StreamConstants ==
    /\ IsFiniteSet(Nodes) /\ Emitters \subseteq Nodes
    /\ MaxOpens \in Nat

\* A frame: the output of a node with stream:true, which is awaited, or one
\* its plugin emits and does not wait for.
Frames == (Nodes \X {"output"}) \cup (Emitters \X {"emit"})

\* What complete() publishes.
Terminal == <<"run", "terminal">>

NoStream == [pc |-> "closed", seen |-> {}, todo |-> <<>>, queue |-> <<>>,
             out |-> <<>>, ended |-> FALSE, replayed |-> {}, by |-> "none"]

VARIABLES
    streamNode,  \* streamNode[n]: "running", "streaming", "done" or "failed"
    frame,       \* frame[f]: "none", "persist", "publish" or "out"
    stepSeq,     \* the executor's counter for this execution, 0 when forgotten
    seq,         \* seq[f]: the number a frame was given
    emitted,     \* the frames by the time `at` they were given
    inTime,      \* history: how many of them before the run was over
    stepRows,    \* execution_events: frames that are persisted
    executor,    \* the executor: "dag", "complete", "fire", "over" or "crashed"
    execRow,     \* executions.status: "running" or "terminal"
    meta,        \* does the publishing store know the run's tenant
    wire,        \* events on their way from the worker to the API process
    stream,      \* the generator behind the response
    opens,       \* streams that may still be opened
    lossy,       \* may the bus drop events in this behaviour
    settled,     \* history: output frames of nodes that were done at complete()
    missed,      \* history: events dropped or not published, frames not replayed
    runCancelled,   \* did the run end as cancelled
    untagged     \* history: has an event gone out without its tenant in time

worker == <<streamNode, frame, stepSeq, seq, emitted, inTime, stepRows, executor,
            execRow, meta, settled, runCancelled, untagged>>

streamVars == <<worker, wire, stream, opens, lossy, missed>>

StreamTypeOK ==
    /\ streamNode \in [Nodes -> {"running", "streaming", "done", "failed"}]
    /\ frame \in [Frames -> {"none", "persist", "publish", "out"}]
    /\ stepSeq \in 0 .. Cardinality(Frames)
    /\ seq \in [Frames -> 0 .. Cardinality(Frames)]
    /\ stepRows \subseteq Frames
    /\ Len(emitted) <= Cardinality(Frames)
    /\ executor \in {"dag", "complete", "fire", "over", "crashed"}
    /\ execRow \in {"running", "terminal"}
    /\ meta \in BOOLEAN
    /\ stream.pc \in {"closed", "list", "replay", "check", "drain", "tail"}
    /\ stream.seen \subseteq Frames
    /\ stream.ended \in BOOLEAN
    /\ opens \in 0 .. MaxOpens

StreamInit ==
    /\ streamNode = [n \in Nodes |-> "running"]
    /\ frame = [f \in Frames |-> "none"]
    /\ stepSeq = 0
    /\ seq = [f \in Frames |-> 0]
    /\ emitted = <<>>
    /\ inTime = 0
    /\ stepRows = {}
    /\ executor = "dag"
    /\ execRow = "running"
    /\ meta = TRUE
    /\ wire = <<>>
    /\ stream = NoStream
    /\ opens = MaxOpens
    /\ lossy \in BOOLEAN
    /\ settled = {}
    /\ missed = {}
    /\ runCancelled = FALSE
    /\ untagged = FALSE

InSeq(x, s) == \E i \in DOMAIN s : s[i] = x

\* The frames of S in the order of their `at` (two of one millisecond, which come
\* by their random ids, are taken as apart).
ByTime(S) ==
    {q \in [1 .. Cardinality(S) -> S] :
        /\ \A f \in S : InSeq(f, q)
        /\ \A i, j \in DOMAIN q : i < j =>
             \E k, l \in DOMAIN emitted : k < l /\ emitted[k] = q[i] /\ emitted[l] = q[j]}

-----------------------------------------------------------------------------
(* The worker                                                              *)

\* emitStep up to the awaited recordStep: number and time are taken here.
EmitStep(f) ==
    /\ frame[f] = "none"
    /\ stepSeq' = stepSeq + 1
    /\ seq' = [seq EXCEPT ![f] = stepSeq + 1]
    /\ emitted' = Append(emitted, f)
    /\ frame' = [frame EXCEPT ![f] = "persist"]

\* A plugin emits while its node runs, and nobody waits for the frame.
PluginEmit(n) ==
    /\ streamNode[n] = "running"
    /\ executor # "crashed"
    /\ <<n, "emit">> \in Frames
    /\ EmitStep(<<n, "emit">>)
    /\ UNCHANGED <<streamNode, inTime, stepRows, executor, execRow, meta, wire,
                   stream, opens, lossy, settled, missed, runCancelled, untagged>>

\* A node succeeds and streams its output.
NodeOutput(n) ==
    /\ streamNode[n] = "running"
    /\ executor # "crashed"
    /\ streamNode' = [streamNode EXCEPT ![n] = "streaming"]
    /\ EmitStep(<<n, "output">>)
    /\ UNCHANGED <<inTime, stepRows, executor, execRow, meta, wire, stream,
                   opens, lossy, settled, missed, runCancelled, untagged>>

\* A node fails: Promise.all rejects at once, and its siblings go on.
NodeFails(n) ==
    /\ streamNode[n] = "running"
    /\ executor # "crashed"
    /\ streamNode' = [streamNode EXCEPT ![n] = "failed"]
    /\ executor' = IF executor = "dag" THEN "complete" ELSE executor
    /\ settled' = IF executor = "dag" THEN {<<m, "output">> : m \in {k \in Nodes : streamNode[k] = "done"}}
                  ELSE settled
    /\ UNCHANGED <<frame, stepSeq, seq, emitted, inTime, stepRows, execRow,
                   meta, wire, stream, opens, lossy, missed, runCancelled, untagged>>

\* recordStep of the inner store; `at` was taken when the number was.
RecordStep(f) ==
    /\ frame[f] = "persist"
    /\ executor # "crashed"
    /\ stepRows' = stepRows \cup {f}
    /\ frame' = [frame EXCEPT ![f] = "publish"]
    /\ UNCHANGED <<streamNode, stepSeq, seq, emitted, inTime, executor, execRow,
                   meta, wire, stream, opens, lossy, settled, missed, runCancelled, untagged>>

\* An event reaches Redis, or publish fails and fire() swallows it.
FireEvent(event) ==
    \/ wire' = Append(wire, event) /\ UNCHANGED missed
    \/ lossy /\ missed' = missed \cup {event} /\ UNCHANGED wire

\* fire() of a step, tagged with the tenant if the store still knows it; then
\* the node that awaited it is done.
FireStep(f) ==
    /\ frame[f] = "publish"
    /\ executor # "crashed"
    /\ FireEvent(f)
    /\ untagged' = (untagged \/ (~meta /\ execRow = "running"))
    /\ frame' = [frame EXCEPT ![f] = "out"]
    /\ streamNode' = IF f[2] = "output" THEN [streamNode EXCEPT ![f[1]] = "done"] ELSE streamNode
    /\ UNCHANGED <<stepSeq, seq, emitted, inTime, stepRows, executor, execRow,
                   meta, stream, opens, lossy, settled, runCancelled>>

\* Every node has succeeded.
DagDone ==
    /\ executor = "dag"
    /\ \A n \in Nodes : streamNode[n] = "done"
    /\ executor' = "complete"
    /\ settled' = {<<n, "output">> : n \in Nodes}
    /\ UNCHANGED <<streamNode, frame, stepSeq, seq, emitted, inTime, stepRows,
                   execRow, meta, wire, stream, opens, lossy, missed, runCancelled, untagged>>

\* complete() of the publishing store: the row first ...
Complete ==
    /\ executor = "complete"
    /\ execRow' = "terminal"
    /\ executor' = "fire"
    /\ UNCHANGED <<streamNode, frame, stepSeq, seq, emitted, inTime, stepRows,
                   meta, wire, stream, opens, lossy, settled, missed, runCancelled, untagged>>

\* ... then the terminal event, then the tenant is forgotten, and the
\* executor's finally forgets the counter.  The end of a run that was aborted
\* or ran out of time goes out as execution.updated, at which no stream looks.
FireTerminal ==
    /\ executor = "fire"
    /\ \/ FireEvent(Terminal) /\ UNCHANGED runCancelled
       \/ /\ \E n \in Nodes : streamNode[n] = "failed"
          /\ runCancelled' = TRUE
          /\ UNCHANGED <<wire, missed>>
    /\ meta' = FALSE
    /\ stepSeq' = 0
    /\ inTime' = Len(emitted)
    /\ executor' = "over"
    /\ UNCHANGED <<streamNode, frame, seq, emitted, stepRows, execRow, stream,
                   opens, lossy, settled, untagged>>

\* The worker goes away and the stale sweep fails the row; nobody publishes.
WorkerCrash ==
    /\ executor \in {"dag", "complete", "fire"}
    /\ lossy
    /\ executor' = "crashed"
    /\ UNCHANGED <<streamNode, frame, stepSeq, seq, emitted, inTime, stepRows,
                   execRow, meta, wire, stream, opens, lossy, settled, missed,
                   runCancelled, untagged>>

StaleSweep ==
    /\ executor = "crashed"
    /\ execRow = "running"
    /\ execRow' = "terminal"
    /\ UNCHANGED <<streamNode, frame, stepSeq, seq, emitted, inTime, stepRows,
                   executor, meta, wire, stream, opens, lossy, settled, missed,
                   runCancelled, untagged>>

-----------------------------------------------------------------------------
(* The stream                                                              *)

\* Mutant: the bus is subscribed to only after the replay read.
DeliverLate ==
    /\ wire # <<>>
    /\ wire' = Tail(wire)
    /\ stream' =
         IF stream.pc \in {"closed", "list", "replay"} THEN stream
         ELSE IF Head(wire) = Terminal THEN [stream EXCEPT !.ended = TRUE]
         ELSE IF Head(wire) \in stream.seen THEN stream
         ELSE [stream EXCEPT !.seen = @ \cup {Head(wire)}, !.queue = Append(@, Head(wire))]
    /\ UNCHANGED <<worker, opens, lossy, missed>>

\* onEvent: the bus reaches the API process.  Steps are deduplicated and
\* queued; the terminal event ends the tail.
OnEvent ==
    /\ wire # <<>>
    /\ wire' = Tail(wire)
    /\ stream' =
         IF stream.pc = "closed" THEN stream
         ELSE IF Head(wire) = Terminal THEN [stream EXCEPT !.ended = TRUE]
         ELSE IF Head(wire) \in stream.seen THEN stream
         ELSE [stream EXCEPT !.seen = @ \cup {Head(wire)}, !.queue = Append(@, Head(wire))]
    /\ UNCHANGED <<worker, opens, lossy, missed>>

\* The subscriber connection is down: what comes meanwhile is gone.
DropEvent ==
    /\ lossy
    /\ wire # <<>>
    /\ missed' = missed \cup {Head(wire)}
    /\ wire' = Tail(wire)
    /\ UNCHANGED <<worker, stream, opens, lossy>>

\* A client opens the stream: subscribe, then `hello`.
OpenStream ==
    /\ stream.pc = "closed"
    /\ opens > 0
    /\ opens' = opens - 1
    /\ stream' = [NoStream EXCEPT !.pc = "list"]
    /\ UNCHANGED <<worker, wire, lossy, missed>>

\* listStepEvents; if it throws the replay is skipped.
ListSteps ==
    /\ stream.pc = "list"
    /\ \/ /\ \E q \in ByTime(stepRows) :
                stream' = [stream EXCEPT !.pc = "replay", !.replayed = stepRows, !.todo = q]
          /\ UNCHANGED missed
       \/ /\ lossy
          /\ stream' = [stream EXCEPT !.pc = "check"]
          /\ missed' = missed \cup stepRows
    /\ UNCHANGED <<worker, wire, opens, lossy>>

\* One replayed frame, unless an event has brought it meanwhile.
Replay ==
    /\ stream.pc = "replay"
    /\ stream' =
         IF stream.todo = <<>> THEN [stream EXCEPT !.pc = "check"]
         ELSE IF Head(stream.todo) \in stream.seen
                THEN [stream EXCEPT !.todo = Tail(@)]
         ELSE [stream EXCEPT !.todo = Tail(@), !.seen = @ \cup {Head(stream.todo)},
                             !.out = Append(@, Head(stream.todo))]
    /\ UNCHANGED <<worker, wire, opens, lossy, missed>>

\* Mutant: the status is not looked at a second time.
RecheckTails ==
    /\ stream.pc = "check"
    /\ stream' = [stream EXCEPT !.pc = "tail"]
    /\ UNCHANGED <<worker, wire, opens, lossy, missed>>

\* getExecution again: a finished run is drained, any other is tailed.
Recheck ==
    /\ stream.pc = "check"
    /\ stream' = [stream EXCEPT !.pc = IF execRow = "terminal" THEN "drain" ELSE "tail"]
    /\ UNCHANGED <<worker, wire, opens, lossy, missed>>

\* Hand out the queue; with nothing left, `done` after a drain or after the
\* terminal event, else wait.
Yield ==
    /\ stream.pc \in {"drain", "tail"}
    /\ \/ /\ stream.queue # <<>>
          /\ stream' = [stream EXCEPT !.queue = Tail(@), !.out = Append(@, Head(stream.queue))]
       \/ /\ stream.queue = <<>>
          /\ stream.pc = "drain" \/ stream.ended
          /\ stream' = [stream EXCEPT !.pc = "closed", !.by = stream.pc]
    /\ UNCHANGED <<worker, wire, opens, lossy, missed>>

\* The client goes away: the generator's finally unsubscribes.
Disconnect ==
    /\ stream.pc # "closed"
    /\ lossy
    /\ stream' = NoStream
    /\ UNCHANGED <<worker, wire, opens, lossy, missed>>

StreamNext ==
    \/ \E n \in Nodes : PluginEmit(n) \/ NodeOutput(n) \/ NodeFails(n)
    \/ \E f \in Frames : RecordStep(f) \/ FireStep(f)
    \/ DagDone \/ Complete \/ FireTerminal \/ WorkerCrash \/ StaleSweep
    \/ OnEvent \/ DropEvent
    \/ OpenStream \/ ListSteps \/ Replay \/ Recheck \/ Yield \/ Disconnect

StreamSpec == StreamInit /\ [][StreamNext]_streamVars

-----------------------------------------------------------------------------
(* Properties                                                              *)

\* A frame that is persisted, published and replayed around each other comes
\* out of one stream once (`seen`).
FrameOnce ==
    \A i, j \in DOMAIN stream.out : stream.out[i] = stream.out[j] => i = j

\* A stream that has closed by itself has handed out everything its replay
\* read; and one that was closed by the terminal event of a bus that lost
\* nothing has handed out the output of every node that was done when the run
\* completed (subscribe before the replay, persist before publish, complete
\* after the nodes).
ClosedIsComplete ==
    stream.pc = "closed" =>
        /\ \A f \in stream.replayed : InSeq(f, stream.out)
        /\ stream.by = "tail" /\ missed = {} =>
               \A f \in settled : InSeq(f, stream.out)

\* No event leaves without its tenant while the run is still going; only those
\* of siblings that outlive a failed run do (metaByExecution).
UntaggedOnlyLate == ~untagged

\* `seq` orders the frames as the replay does, until the run is over: only a
\* frame emitted after that starts again at 1 (emitStep, stepSeq.delete).
SeqIsReplayOrder ==
    LET n == IF executor = "over" THEN inTime ELSE Len(emitted)
    IN  \A i, j \in 1 .. n : i < j => seq[emitted[i]] < seq[emitted[j]]

\* Every open stream comes to its end when the bus loses nothing, the worker
\* lives and the run is not cancelled (the terminal event, and the second look
\* at the status; the status "cancelled" ends a stream at that look only).
StreamEnds == stream.pc # "closed" /\ ~lossy ~> stream.pc = "closed" \/ runCancelled

\* A stream that replays, tails and loses events sends every frame at most once
\* and, when it ends, all that were on record; frames are numbered and tagged as
\* long as the run lasts (stream route, emitStep, PublishingExecutionStore).
StreamSafe ==
    /\ StreamTypeOK /\ FrameOnce /\ ClosedIsComplete /\ UntaggedOnlyLate
    /\ SeqIsReplayOrder
=============================================================================
