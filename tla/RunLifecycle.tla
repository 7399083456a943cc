---------------------------- MODULE RunLifecycle ----------------------------
(***************************************************************************)
(* The life of a pipeline run: the API or the scheduler publishes a        *)
(* `run_pipeline` job on the JetStream work queue, worker replicas pull    *)
(* and execute it, and the `executions` table records how it went while    *)
(* the platform sweeps work on the same rows.                              *)
(*                                                                         *)
(* A delivery <<j, n>> (the n-th delivery of job j) is an actor of its     *)
(* own: two deliveries of one job may be in progress at once.  Each step   *)
(* below ends at an `await` of the code, so the steps of the API handler,  *)
(* of every delivery and of the sweeps interleave.                         *)
(***************************************************************************)
EXTENDS Naturals, FiniteSets

CONSTANTS
    ApiJobs,          \* jobs published by the API: attempts 1, own executionId
    CronJobs,         \* jobs published by the scheduler: no attempts, no id
    Guarded,          \* jobs with an enqueuedBy block, an authorizer being wired
    Workers,          \* worker replicas
    DefaultAttempts,  \* attempts of a job that does not carry its own
    MaxDeliver,       \* the consumer's max_deliver
    Concurrency,      \* handlers per worker; also consume's max_messages
    MaxCrashes,       \* bound: worker exits per behaviour
    RetentionOn       \* is an `executions` retention cap configured

Jobs       == ApiJobs \cup CronJobs
Nums       == 1 .. MaxDeliver
Deliveries == Jobs \X Nums

ASSUME ConstantsOK ==
    /\ ApiJobs \cap CronJobs = {}
    /\ Guarded \subseteq Jobs
    /\ DefaultAttempts \in Nat \ {0}
    /\ MaxDeliver \in Nat \ {0}
    /\ Concurrency \in Nat \ {0}
    /\ MaxCrashes \in Nat
    /\ RetentionOn \in BOOLEAN

\* The attempts header of the published message.
Attempts(j) == IF j \in ApiJobs THEN 1 ELSE DefaultAttempts

\* The executionId a delivery works under: the payload's, else a fresh one.
ExecOf(j, n) == IF j \in ApiJobs THEN <<j, 0>> ELSE <<j, n>>
Execs        == Jobs \X (0 .. MaxDeliver)

\* max_ack_pending of the durable consumer, shared by every replica.
MaxAckPending == 2 * Concurrency

Absent   == "absent"
Terminal == {"succeeded", "failed", "denied"}
Status   == {Absent, "running"} \cup Terminal

\* Where a delivery stands in processOne / runPipeline / execute.
Handling == {"authorize", "refuse", "prepare", "start", "gate", "deny",
             "dag", "complete", "fail", "ok", "error"}
Settled  == {"acked", "termed", "naked"}
PC       == {"none", "buffered", "lost"} \cup Handling \cup Settled

VARIABLES
    api,         \* api[j]: the publisher of job j
    msg,         \* msg[j]: job j's message, as the stream sees it
    deliveries,  \* deliveries[j]: the message's delivery count
    pc,          \* pc[<<j, n>>]: where that delivery stands
    host,        \* host[<<j, n>>]: the worker it was delivered to
    row,         \* row[e]: status of the executions row
    aged,        \* aged[e]: is the row's started_at beyond its timeout
    crashes,     \* worker exits so far
    ran,         \* history: deliveries that began to run nodes
    okRuns,      \* history: deliveries whose nodes all succeeded
    expired      \* history: deliveries whose ack deadline passed

queueVars == <<msg, deliveries, host, expired>>
rowVars   == <<row, aged>>
history   == <<ran, okRuns>>
vars      == <<api, msg, deliveries, pc, host, row, aged, crashes, ran,
               okRuns, expired>>

TypeOK ==
    /\ api \in [Jobs -> {"idle", "published", "recorded", "gone"}]
    /\ msg \in [Jobs -> {"none", "ready", "pending", "removed"}]
    /\ deliveries \in [Jobs -> 0 .. MaxDeliver]
    /\ pc \in [Deliveries -> PC]
    /\ host \in [Deliveries -> Workers \cup {"none"}]
    /\ row \in [Execs -> Status]
    /\ aged \in [Execs -> BOOLEAN]
    /\ crashes \in 0 .. MaxCrashes
    /\ ran \subseteq Deliveries
    /\ okRuns \subseteq Deliveries
    /\ expired \subseteq Deliveries

Init ==
    /\ api = [j \in Jobs |-> "idle"]
    /\ msg = [j \in Jobs |-> "none"]
    /\ deliveries = [j \in Jobs |-> 0]
    /\ pc = [d \in Deliveries |-> "none"]
    /\ host = [d \in Deliveries |-> "none"]
    /\ row = [e \in Execs |-> Absent]
    /\ aged = [e \in Execs |-> FALSE]
    /\ crashes = 0
    /\ ran = {}
    /\ okRuns = {}
    /\ expired = {}

-----------------------------------------------------------------------------
(* The executions table                                                    *)

\* INSERT ... ON CONFLICT DO UPDATE SET status: an existing row keeps its
\* started_at, a new one gets a fresh started_at.
StoreStart(e) ==
    /\ row' = [row EXCEPT ![e] = "running"]
    /\ aged' = [aged EXCEPT ![e] = @ /\ row[e] # Absent]

\* UPDATE ... WHERE execution_id: unconditional on the status, a no-op when
\* the row is gone.
StoreComplete(e, status) ==
    /\ row' = [row EXCEPT ![e] = IF @ = Absent THEN Absent ELSE status]
    /\ UNCHANGED aged

\* Mutant: the sweep reaches only the rows of scheduled runs.
SweepScheduledOnly ==
    /\ \E e \in CronJobs \X Nums : row[e] = "running" /\ aged[e]
    /\ row' = [e \in Execs |-> IF row[e] = "running" /\ aged[e]
                                  /\ e[1] \in CronJobs
                               THEN "failed" ELSE row[e]]
    /\ UNCHANGED <<api, pc, aged, crashes, queueVars, history>>

\* The stale-execution sweep: every running row past its timeout fails.
StaleExecSweep ==
    /\ \E e \in Execs : row[e] = "running" /\ aged[e]
    /\ row' = [e \in Execs |-> IF row[e] = "running" /\ aged[e]
                               THEN "failed" ELSE row[e]]
    /\ UNCHANGED <<api, pc, aged, crashes, queueVars, history>>

\* The retention sweep deletes rows past a cap, whatever their status.
RetentionSweep(e) ==
    /\ RetentionOn
    /\ row[e] # Absent
    /\ row' = [row EXCEPT ![e] = Absent]
    /\ UNCHANGED <<api, pc, aged, crashes, queueVars, history>>

\* Time passes until now() - started_at exceeds the row's timeout.
Age(e) ==
    /\ row[e] = "running"
    /\ ~aged[e]
    /\ aged' = [aged EXCEPT ![e] = TRUE]
    /\ UNCHANGED <<api, pc, row, crashes, queueVars, history>>

-----------------------------------------------------------------------------
(* Publishers                                                              *)

\* enqueueRun awaits queue.enqueue first, executionStore.start second.
ApiPublish(j) ==
    /\ j \in ApiJobs
    /\ api[j] = "idle"
    /\ api' = [api EXCEPT ![j] = "published"]
    /\ msg' = [msg EXCEPT ![j] = "ready"]
    /\ UNCHANGED <<pc, deliveries, host, expired, rowVars, crashes, history>>

ApiRecord(j) ==
    /\ api[j] = "published"
    /\ api' = [api EXCEPT ![j] = "recorded"]
    /\ StoreStart(<<j, 0>>)
    /\ UNCHANGED <<pc, queueVars, crashes, history>>

\* The API process dies, or the insert fails, after the publish.
ApiAbandon(j) ==
    /\ api[j] = "published"
    /\ api' = [api EXCEPT ![j] = "gone"]
    /\ UNCHANGED <<pc, queueVars, rowVars, crashes, history>>

\* The scheduler's job names neither attempts nor an executionId.
CronPublish(j) ==
    /\ j \in CronJobs
    /\ api[j] = "idle"
    /\ api' = [api EXCEPT ![j] = "recorded"]
    /\ msg' = [msg EXCEPT ![j] = "ready"]
    /\ UNCHANGED <<pc, deliveries, host, expired, rowVars, crashes, history>>

-----------------------------------------------------------------------------
(* JetStream and the consumer loop                                         *)

Buffered(w) == {d \in Deliveries : pc[d] = "buffered" /\ host[d] = w}
Inflight(w) == {d \in Deliveries : pc[d] \in Handling /\ host[d] = w}

\* Delivered, not settled, and still due to be delivered if it expires.
Outstanding ==
    {j \in Jobs : /\ deliveries[j] > 0
                  /\ \/ msg[j] = "pending"
                     \/ msg[j] = "ready" /\ deliveries[j] < MaxDeliver}

\* consume() pulls a message into the worker's local buffer.  JetStream holds
\* back a first delivery at max_ack_pending, never a redelivery.
Pull(w, j) ==
    LET n == deliveries[j] + 1 IN
    /\ msg[j] = "ready"
    /\ n <= MaxDeliver
    /\ n = 1 => Cardinality(Outstanding) < MaxAckPending
    /\ Cardinality(Buffered(w)) < Concurrency
    /\ msg' = [msg EXCEPT ![j] = "pending"]
    /\ deliveries' = [deliveries EXCEPT ![j] = n]
    /\ pc' = [pc EXCEPT ![<<j, n>>] = "buffered"]
    /\ host' = [host EXCEPT ![<<j, n>>] = w]
    /\ UNCHANGED <<api, rowVars, crashes, history, expired>>

\* The drain loop starts processOne, at most Concurrency at a time.  From
\* here on a heartbeat keeps the ack deadline from passing.
Begin(j, n) ==
    /\ pc[<<j, n>>] = "buffered"
    /\ Cardinality(Inflight(host[<<j, n>>])) < Concurrency
    /\ pc' = [pc EXCEPT ![<<j, n>>] = "authorize"]
    /\ UNCHANGED <<api, queueVars, rowVars, crashes, history>>

\* Mutant: no working() heartbeat, so a running handler's deadline passes.
AckDeadlineNoHeartbeat(j) ==
    LET d == <<j, deliveries[j]>> IN
    /\ msg[j] = "pending"
    /\ pc[d] \in Handling \cup {"buffered", "lost"}
    /\ msg' = [msg EXCEPT ![j] = "ready"]
    /\ expired' = IF pc[d] \in Handling THEN expired ELSE expired \cup {d}
    /\ UNCHANGED <<api, pc, deliveries, host, rowVars, crashes, history>>

\* The ack deadline of the latest delivery passes: nobody heartbeats a
\* delivery that is still buffered, or whose worker is gone.
AckDeadline(j) ==
    /\ msg[j] = "pending"
    /\ pc[<<j, deliveries[j]>>] \in {"buffered", "lost"}
    /\ msg' = [msg EXCEPT ![j] = "ready"]
    /\ expired' = expired \cup {<<j, deliveries[j]>>}
    /\ UNCHANGED <<api, pc, deliveries, host, rowVars, crashes, history>>

\* A worker process dies with everything it holds.
Crash(w) ==
    /\ crashes < MaxCrashes
    /\ Buffered(w) \cup Inflight(w) # {}
    /\ pc' = [d \in Deliveries |-> IF d \in Buffered(w) \cup Inflight(w)
                                   THEN "lost" ELSE pc[d]]
    /\ crashes' = crashes + 1
    /\ UNCHANGED <<api, queueVars, rowVars, history>>

\* Mutant: close() acknowledges the messages it drops.
ShutdownAcks(w) ==
    /\ crashes < MaxCrashes
    /\ Buffered(w) # {}
    /\ pc' = [d \in Deliveries |-> IF d \in Buffered(w) THEN "lost" ELSE pc[d]]
    /\ msg' = [j \in Jobs |-> IF \E n \in Nums : <<j, n>> \in Buffered(w)
                              THEN "removed" ELSE msg[j]]
    /\ crashes' = crashes + 1
    /\ UNCHANGED <<api, deliveries, host, expired, rowVars, history>>

\* close(): stop pulling, drop the buffer unsettled, await what is in flight.
Shutdown(w) ==
    /\ crashes < MaxCrashes
    /\ Buffered(w) # {}
    /\ pc' = [d \in Deliveries |-> IF d \in Buffered(w) THEN "lost" ELSE pc[d]]
    /\ crashes' = crashes + 1
    /\ UNCHANGED <<api, queueVars, rowVars, history>>

-----------------------------------------------------------------------------
(* runPipeline and DagExecutor.execute, up to the awaits that matter       *)

\* A step of delivery <<j, n>> that only moves it on.
Goto(j, n, from, to) ==
    /\ pc[<<j, n>>] = from
    /\ pc' = [pc EXCEPT ![<<j, n>>] = to]
    /\ UNCHANGED <<api, queueVars, crashes>>

\* authorizeEnqueuer: a guarded job may be refused, or its grants may fail to
\* load; any other job passes.
Authorize(j, n) ==
    /\ \/ Goto(j, n, "authorize", "prepare")
       \/ j \in Guarded /\ Goto(j, n, "authorize", "refuse")
       \/ j \in Guarded /\ Goto(j, n, "authorize", "error")
    /\ UNCHANGED <<rowVars, history>>

\* recordDenied's start always throws: it names the version "denied", and the
\* column is a uuid that references pipeline_versions.  The error is logged,
\* and the permission error is thrown on.
RecordDenied(j, n) ==
    /\ Goto(j, n, "refuse", "error")
    /\ UNCHANGED <<rowVars, history>>

\* Version resolution, validation and config resolution: each may throw,
\* before anything is written to the store.
Prepare(j, n) ==
    /\ \/ Goto(j, n, "prepare", "start")
       \/ Goto(j, n, "prepare", "error")
    /\ UNCHANGED <<rowVars, history>>

\* execute's store.start, outside its try block.
ExecStart(j, n) ==
    /\ \/ Goto(j, n, "start", "gate") /\ StoreStart(ExecOf(j, n))
       \/ Goto(j, n, "start", "error") /\ UNCHANGED rowVars
    /\ UNCHANGED history

\* The entry permission check and the onStart hook: pass, veto or throw.
Gate(j, n) ==
    /\ \/ Goto(j, n, "gate", "dag") /\ ran' = ran \cup {<<j, n>>}
       \/ Goto(j, n, "gate", "deny") /\ UNCHANGED ran
       \/ Goto(j, n, "gate", "fail") /\ UNCHANGED ran
    /\ UNCHANGED <<rowVars, okRuns>>

\* A veto is written as `denied`; if that write throws, terminalRecorded is
\* still false and the catch block writes `failed`.
Deny(j, n) ==
    /\ \/ Goto(j, n, "deny", "error") /\ StoreComplete(ExecOf(j, n), "denied")
       \/ Goto(j, n, "deny", "fail") /\ UNCHANGED rowVars
    /\ UNCHANGED history

\* Mutant: a node's error is swallowed.
RunDagSwallows(j, n) ==
    /\ \/ Goto(j, n, "dag", "complete") /\ okRuns' = okRuns \cup {<<j, n>>}
       \/ Goto(j, n, "dag", "complete") /\ UNCHANGED okRuns
    /\ UNCHANGED <<rowVars, ran>>

\* runDag and onFinish, seen from outside (see DagExecutor for the inside).
RunDag(j, n) ==
    /\ \/ Goto(j, n, "dag", "complete") /\ okRuns' = okRuns \cup {<<j, n>>}
       \/ Goto(j, n, "dag", "fail") /\ UNCHANGED okRuns
    /\ UNCHANGED <<rowVars, ran>>

\* Mutant: the terminal success write is best-effort.
CompleteBestEffort(j, n) ==
    /\ \/ Goto(j, n, "complete", "ok")
          /\ StoreComplete(ExecOf(j, n), "succeeded")
       \/ Goto(j, n, "complete", "ok") /\ UNCHANGED rowVars
    /\ UNCHANGED history

\* The terminal success write is inside the try: if it throws, catch follows.
Complete(j, n) ==
    /\ \/ Goto(j, n, "complete", "ok")
          /\ StoreComplete(ExecOf(j, n), "succeeded")
       \/ Goto(j, n, "complete", "fail") /\ UNCHANGED rowVars
    /\ UNCHANGED history

\* The catch block's terminal write.
Fail(j, n) ==
    /\ \/ Goto(j, n, "fail", "error") /\ StoreComplete(ExecOf(j, n), "failed")
       \/ Goto(j, n, "fail", "error") /\ UNCHANGED rowVars
    /\ UNCHANGED history

-----------------------------------------------------------------------------
(* Settling the message                                                    *)

\* Mutant: one attempt too many.
OutOfBudgetLate(j, n) == n > Attempts(j)

\* decideRedelivery: out of budget at the attempts-th delivery.
OutOfBudget(j, n) == n >= Attempts(j)

Settle(j, n, to, message) ==
    /\ pc' = [pc EXCEPT ![<<j, n>>] = to]
    /\ msg' = [msg EXCEPT ![j] = message]
    /\ UNCHANGED <<api, deliveries, host, expired, rowVars, crashes, history>>

\* handle resolved: m.ack() removes the message, even for a delivery that is
\* no longer the latest.
Ack(j, n) ==
    /\ pc[<<j, n>>] = "ok"
    /\ Settle(j, n, "acked", "removed")

\* handle rejected: m.term() removes the message ...
Term(j, n) ==
    /\ pc[<<j, n>>] = "error"
    /\ OutOfBudget(j, n)
    /\ Settle(j, n, "termed", "removed")

\* ... or m.nak(delay) has it delivered again.
Nak(j, n) ==
    /\ pc[<<j, n>>] = "error"
    /\ ~OutOfBudget(j, n)
    /\ Settle(j, n, "naked", IF msg[j] = "pending" THEN "ready" ELSE msg[j])

-----------------------------------------------------------------------------
Handle(j, n) ==
    \/ Begin(j, n) \/ Authorize(j, n) \/ RecordDenied(j, n) \/ Prepare(j, n)
    \/ ExecStart(j, n) \/ Gate(j, n) \/ Deny(j, n) \/ RunDag(j, n)
    \/ Complete(j, n) \/ Fail(j, n) \/ Ack(j, n) \/ Term(j, n) \/ Nak(j, n)

\* Job j has come to rest: removed, or delivered max_deliver times in vain.
AtRest(j) == \/ msg[j] = "removed"
             \/ msg[j] = "ready" /\ deliveries[j] = MaxDeliver

\* Everything published is at rest and no row is left running.
Quiet == /\ \A j \in Jobs : api[j] \in {"recorded", "gone"} /\ AtRest(j)
         /\ \A d \in Deliveries : pc[d] \notin Handling \cup {"buffered"}
         /\ \A e \in Execs : row[e] # "running"

\* The only states in which nothing need happen any more.
Stop == Quiet /\ UNCHANGED vars

Next ==
    \/ \E j \in Jobs : \/ ApiPublish(j) \/ ApiRecord(j) \/ ApiAbandon(j)
                       \/ CronPublish(j) \/ AckDeadline(j)
                       \/ \E w \in Workers : Pull(w, j)
                       \/ \E n \in Nums : Handle(j, n)
    \/ \E w \in Workers : Crash(w) \/ Shutdown(w)
    \/ \E e \in Execs : Age(e) \/ RetentionSweep(e)
    \/ StaleExecSweep
    \/ Stop

Spec == Init /\ [][Next]_vars

(***************************************************************************)
(* Fairness.  The consumer loop, a started handler and JetStream's ack     *)
(* timer keep going; clocks advance; the sweep schedule is un-deletable    *)
(* and fires every five minutes.  Publishers, crashes and the retention    *)
(* sweep are never assumed to happen.                                      *)
(***************************************************************************)
Fairness ==
    /\ \A j \in Jobs : /\ WF_vars(\E w \in Workers : Pull(w, j))
                       /\ WF_vars(AckDeadline(j))
                       /\ \A n \in Nums : WF_vars(Handle(j, n))
    /\ \A e \in Execs : WF_vars(Age(e))
    /\ WF_vars(StaleExecSweep)

FairSpec == Spec /\ Fairness

-----------------------------------------------------------------------------
(* Properties                                                              *)

\* At-least-once: a message leaves the work queue only when some delivery of
\* it was handled to the end and settled it with ack or term (processOne).
\* No crash, shutdown or expired deadline makes a run disappear.
SettledWasHandled ==
    \A j \in Jobs : msg[j] = "removed" =>
        \E n \in Nums : pc[<<j, n>>] \in {"acked", "termed"}

\* A row says `succeeded` only if a delivery under that executionId ran every
\* node to success: neither the sweeps, nor a second delivery, nor the API's
\* late start can produce a success nobody earned (execute, store.complete).
NoFalseSuccess ==
    \A e \in Execs : row[e] = "succeeded" =>
        \E d \in okRuns : ExecOf(d[1], d[2]) = e

\* The attempts budget of decideRedelivery: a job is delivered more often
\* than its attempts only after an ack deadline has passed.
RetriesExplained ==
    \A j \in Jobs : deliveries[j] > Attempts(j) =>
        \E n \in Nums : <<j, n>> \in expired

\* The heartbeat: two deliveries of one job are held at the same time only if
\* an ack deadline passed while nobody heartbeat, at the older of the two or
\* before it (a late nak of an expired delivery may cause one more).
OverlapNeedsExpiry ==
    \A j \in Jobs : \A m, n \in Nums :
        /\ m < n
        /\ pc[<<j, m>>] \in Handling \cup {"buffered"}
        /\ pc[<<j, n>>] \in Handling \cup {"buffered"}
        => \E k \in 1 .. m : <<j, k>> \in expired

\* A scheduled run owns its row, so what the worker told the queue and what
\* the row says agree for good: acknowledged means `succeeded`, also when the
\* stale sweep had already failed the row; only retention may delete it.
ScheduledVerdict ==
    \A j \in CronJobs : \A n \in Nums : pc[<<j, n>>] = "acked" =>
        row[<<j, n>>] \in {"succeeded"} \cup (IF RetentionOn THEN {Absent} ELSE {})

\* A scheduled run that is on record as denied never ran a node: a veto comes
\* before any compute (execute's entry check and onStart), never after it.
DeniedNeverRan ==
    \A j \in CronJobs : \A n \in Nums :
        row[<<j, n>>] = "denied" => <<j, n>> \notin ran

\* What is on record of a scheduled run stands: acknowledged means succeeded,
\* denied means that nothing ran (complete, Settle, recordDenied).
VerdictStands == ScheduledVerdict /\ DeniedNeverRan

\* Every run comes to rest: its message is settled or used up, and no row is
\* left `running` for ever, whatever crashed (JetStream redelivery together
\* with the stale-execution sweep).
ComesToRest ==
    <>[](/\ \A j \in Jobs : msg[j] = "none" \/ AtRest(j)
         /\ \A e \in Execs : row[e] # "running")

=============================================================================
