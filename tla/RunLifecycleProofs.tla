------------------------ MODULE RunLifecycleProofs ------------------------
(***************************************************************************)
(* Proofs about RunLifecycle, for any set of jobs and workers and any      *)
(* delivery, concurrency and crash bound.                                  *)
(***************************************************************************)
EXTENDS RunLifecycle, TLAPS

Held == Handling \cup {"buffered"}

\* An ack deadline of job j passed at its n-th delivery or before.
LapsedBy(j, n) == \E k \in 1 .. n : <<j, k>> \in expired

\* Nothing is delivered before it is published.
Sent ==
    \A j \in Jobs : /\ api[j] = "idle" => msg[j] = "none"
                    /\ msg[j] = "none" => deliveries[j] = 0
                    /\ msg[j] = "pending" => deliveries[j] > 0

\* Deliveries are numbered in order.
Fresh ==
    \A j \in Jobs : \A n \in Nums : n > deliveries[j] => pc[<<j, n>>] = "none"

\* About to write `succeeded` means every node succeeded.
CompleteEarned ==
    \A d \in Deliveries : pc[d] = "complete" => d \in okRuns

\* A delivery is held while a newer one exists, or may be made, only after an
\* expiry.
Superseded ==
    \A j \in Jobs : \A n \in Nums :
        pc[<<j, n>>] \in Held /\ (n < deliveries[j] \/ msg[j] = "ready")
            => LapsedBy(j, n)

\* A message whose budget is spent is due again only after an expiry.
Spent ==
    \A j \in Jobs : msg[j] = "ready" /\ deliveries[j] >= Attempts(j)
                    => LapsedBy(j, MaxDeliver)

IndInv == /\ TypeOK /\ Sent /\ Fresh /\ SettledWasHandled
          /\ CompleteEarned /\ NoFalseSuccess
          /\ Superseded /\ Spent /\ RetriesExplained

-----------------------------------------------------------------------------
(* Types and rows                                                          *)

\* Every step keeps the variables in their types.
LEMMA TypeStep ==
  ASSUME TypeOK, Sent, [Next]_vars
  PROVE  TypeOK'
<1> USE ConstantsOK DEF Deliveries, Nums, Execs, PC, Held, Handling, Settled, Status,
           Terminal, Absent, queueVars, rowVars, history, Jobs
<1>1. ASSUME NEW j \in Jobs,
             \/ ApiPublish(j) \/ ApiRecord(j) \/ ApiAbandon(j)
             \/ CronPublish(j)
      PROVE  TypeOK'
  <2>1. CASE ApiPublish(j)
    BY <2>1 DEF ApiPublish, TypeOK
  <2>2. CASE ApiRecord(j)
    <3>1. row' \in [Execs -> Status] /\ aged' \in [Execs -> BOOLEAN]
      BY <2>2 DEF ApiRecord, StoreStart, TypeOK
    <3>2. QED
      BY <2>2, <3>1 DEF ApiRecord, TypeOK
  <2>3. CASE ApiAbandon(j)
    BY <2>3 DEF ApiAbandon, TypeOK
  <2>4. CASE CronPublish(j)
    BY <2>4 DEF CronPublish, TypeOK
  <2>5. QED
    BY <1>1, <2>1, <2>2, <2>3, <2>4
<1>2. ASSUME NEW j \in Jobs, AckDeadline(j)
      PROVE  TypeOK'
  BY <1>2 DEF AckDeadline, TypeOK, Sent
<1>3. ASSUME NEW j \in Jobs, NEW w \in Workers, Pull(w, j)
      PROVE  TypeOK'
  BY <1>3 DEF Pull, TypeOK
<1>4. ASSUME NEW j \in Jobs, NEW n \in Nums,
             \/ Begin(j, n) \/ Authorize(j, n) \/ Prepare(j, n)
      PROVE  TypeOK'
  <2>1. \E to \in PC : pc' = [pc EXCEPT ![<<j, n>>] = to]
    BY <1>4 DEF Begin, Authorize, Prepare, Goto
  <2>2. UNCHANGED <<api, crashes, queueVars, rowVars, history>>
    BY <1>4 DEF Begin, Authorize, Prepare, Goto
  <2>3. QED
    BY <2>1, <2>2 DEF TypeOK
<1>5. ASSUME NEW j \in Jobs, NEW n \in Nums, RecordDenied(j, n) \/ ExecStart(j, n)
      PROVE  TypeOK'
  <2>1. \E to \in PC : pc' = [pc EXCEPT ![<<j, n>>] = to]
    BY <1>5 DEF RecordDenied, ExecStart, Goto
  <2>2. row' \in [Execs -> Status] /\ aged' \in [Execs -> BOOLEAN]
    BY <1>5 DEF TypeOK, RecordDenied, ExecStart, StoreStart
  <2>3. QED
    BY <1>5, <2>1, <2>2 DEF TypeOK, RecordDenied, ExecStart, Goto
<1>6. ASSUME NEW j \in Jobs, NEW n \in Nums, Gate(j, n)
      PROVE  TypeOK'
  <2>1. ran' \in SUBSET Deliveries /\ UNCHANGED okRuns
    BY <1>6 DEF TypeOK, Gate
  <2>2. \E to \in PC : pc' = [pc EXCEPT ![<<j, n>>] = to]
    BY <1>6 DEF Gate, Goto
  <2>3. QED
    BY <1>6, <2>1, <2>2 DEF TypeOK, Gate, Goto
<1>7. ASSUME NEW j \in Jobs, NEW n \in Nums, RunDag(j, n)
      PROVE  TypeOK'
  <2>1. okRuns' \in SUBSET Deliveries /\ UNCHANGED ran
    BY <1>7 DEF TypeOK, RunDag
  <2>2. \E to \in PC : pc' = [pc EXCEPT ![<<j, n>>] = to]
    BY <1>7 DEF RunDag, Goto
  <2>3. QED
    BY <1>7, <2>1, <2>2 DEF TypeOK, RunDag, Goto
<1>8. ASSUME NEW j \in Jobs, NEW n \in Nums,
             \/ Deny(j, n) \/ Complete(j, n) \/ Fail(j, n)
      PROVE  TypeOK'
  <2>1. \E to \in PC : pc' = [pc EXCEPT ![<<j, n>>] = to]
    BY <1>8 DEF Deny, Complete, Fail, Goto
  <2>2. row' \in [Execs -> Status] /\ UNCHANGED aged
    BY <1>8 DEF TypeOK, Deny, Complete, Fail, StoreComplete
  <2>3. QED
    BY <1>8, <2>1, <2>2 DEF TypeOK, Deny, Complete, Fail, Goto
<1>9. ASSUME NEW j \in Jobs, NEW n \in Nums,
             \/ Ack(j, n) \/ Term(j, n) \/ Nak(j, n)
      PROVE  TypeOK'
  <2>1. \E to \in PC : pc' = [pc EXCEPT ![<<j, n>>] = to]
    BY <1>9 DEF Ack, Term, Nak, Settle
  <2>2. msg' \in [Jobs -> {"none", "ready", "pending", "removed"}]
    BY <1>9 DEF TypeOK, Ack, Term, Nak, Settle
  <2>3. QED
    BY <1>9, <2>1, <2>2 DEF TypeOK, Ack, Term, Nak, Settle
<1>10. ASSUME NEW w \in Workers, \/ Crash(w) \/ Shutdown(w)
      PROVE  TypeOK'
  BY <1>10 DEF Crash, Shutdown, TypeOK, Buffered, Inflight
<1>11. ASSUME NEW e \in Execs, Age(e)
      PROVE  TypeOK'
  BY <1>11 DEF Age, TypeOK
<1>12. ASSUME NEW e \in Execs, RetentionSweep(e)
      PROVE  TypeOK'
  BY <1>12 DEF RetentionSweep, TypeOK
<1>13. CASE \/ StaleExecSweep \/ Stop \/ UNCHANGED vars
  BY <1>13 DEF StaleExecSweep, Stop, TypeOK, vars
<1>14. QED
  BY <1>1, <1>2, <1>3, <1>4, <1>5, <1>6, <1>7, <1>8, <1>9, <1>10, <1>11, <1>12, <1>13 DEF Next, Handle

\* Only RunDag leads to the success write.
LEMMA EarnedStep ==
  ASSUME TypeOK, CompleteEarned, [Next]_vars
  PROVE  CompleteEarned'
<1> USE ConstantsOK DEF Deliveries, Nums, Execs, PC, Held, Handling, Settled, Status,
           Terminal, Absent, queueVars, rowVars, history, Jobs, TypeOK, CompleteEarned
<1>1. ASSUME NEW j \in Jobs,
             \/ ApiPublish(j) \/ ApiRecord(j) \/ ApiAbandon(j)
             \/ CronPublish(j) \/ AckDeadline(j)
      PROVE  CompleteEarned'
  BY <1>1 DEF ApiPublish, ApiRecord, ApiAbandon, CronPublish, AckDeadline
<1>2. ASSUME NEW j \in Jobs, NEW w \in Workers, Pull(w, j)
      PROVE  CompleteEarned'
  BY <1>2 DEF Pull
<1>3. ASSUME NEW j \in Jobs, NEW n \in Nums,
             \/ Begin(j, n) \/ Authorize(j, n) \/ RecordDenied(j, n)
             \/ Prepare(j, n)
      PROVE  CompleteEarned'
  <2>1. \E to \in PC \ {"complete"} : pc' = [pc EXCEPT ![<<j, n>>] = to]
    BY <1>3 DEF Begin, Authorize, RecordDenied, Prepare, Goto
  <2>2. okRuns' = okRuns
    BY <1>3 DEF Begin, Authorize, RecordDenied, Prepare, Goto
  <2>3. QED
    BY <2>1, <2>2
<1>4. ASSUME NEW j \in Jobs, NEW n \in Nums,
             \/ ExecStart(j, n) \/ Gate(j, n) \/ Deny(j, n)
      PROVE  CompleteEarned'
  <2>1. \E to \in PC \ {"complete"} : pc' = [pc EXCEPT ![<<j, n>>] = to]
    BY <1>4 DEF ExecStart, Gate, Deny, Goto
  <2>2. okRuns' = okRuns
    BY <1>4 DEF ExecStart, Gate, Deny, Goto
  <2>3. QED
    BY <2>1, <2>2
<1>5. ASSUME NEW j \in Jobs, NEW n \in Nums, RunDag(j, n)
      PROVE  CompleteEarned'
  BY <1>5 DEF RunDag, Goto
<1>6. ASSUME NEW j \in Jobs, NEW n \in Nums,
             \/ Complete(j, n) \/ Fail(j, n)
      PROVE  CompleteEarned'
  <2>1. \E to \in PC \ {"complete"} : pc' = [pc EXCEPT ![<<j, n>>] = to]
    BY <1>6 DEF Complete, Fail, Goto
  <2>2. okRuns' = okRuns
    BY <1>6 DEF Complete, Fail, Goto
  <2>3. QED
    BY <2>1, <2>2
<1>7. ASSUME NEW j \in Jobs, NEW n \in Nums,
             \/ Ack(j, n) \/ Term(j, n) \/ Nak(j, n)
      PROVE  CompleteEarned'
  <2>1. \E to \in PC \ {"complete"} : pc' = [pc EXCEPT ![<<j, n>>] = to]
    BY <1>7 DEF Ack, Term, Nak, Settle
  <2>2. okRuns' = okRuns
    BY <1>7 DEF Ack, Term, Nak, Settle
  <2>3. QED
    BY <2>1, <2>2
<1>8. ASSUME NEW w \in Workers, \/ Crash(w) \/ Shutdown(w)
      PROVE  CompleteEarned'
  BY <1>8 DEF Crash, Shutdown, Buffered, Inflight
<1>9. ASSUME NEW e \in Execs, \/ Age(e) \/ RetentionSweep(e)
      PROVE  CompleteEarned'
  BY <1>9 DEF Age, RetentionSweep
<1>10. CASE \/ StaleExecSweep \/ Stop \/ UNCHANGED vars
  BY <1>10 DEF StaleExecSweep, Stop, vars
<1>11. QED
  BY <1>1, <1>2, <1>3, <1>4, <1>5, <1>6, <1>7, <1>8, <1>9, <1>10 DEF Next, Handle

\* Only Complete writes `succeeded`.
LEMMA SuccessStep ==
  ASSUME TypeOK, CompleteEarned, NoFalseSuccess, [Next]_vars
  PROVE  NoFalseSuccess'
<1> USE ConstantsOK DEF Deliveries, Nums, Execs, PC, Held, Handling, Settled, Status,
           Terminal, Absent, queueVars, rowVars, history, Jobs, TypeOK, NoFalseSuccess
<1>1. ASSUME NEW j \in Jobs,
             \/ ApiPublish(j) \/ ApiRecord(j) \/ ApiAbandon(j)
             \/ CronPublish(j) \/ AckDeadline(j)
      PROVE  NoFalseSuccess'
  BY <1>1 DEF ApiPublish, ApiRecord, ApiAbandon, CronPublish, AckDeadline,
              StoreStart
<1>2. ASSUME NEW j \in Jobs, NEW w \in Workers, Pull(w, j)
      PROVE  NoFalseSuccess'
  BY <1>2 DEF Pull
<1>3. ASSUME NEW j \in Jobs, NEW n \in Nums,
             \/ Begin(j, n) \/ Authorize(j, n) \/ Prepare(j, n)
             \/ Gate(j, n) \/ RunDag(j, n)
      PROVE  NoFalseSuccess'
  BY <1>3 DEF Begin, Authorize, Prepare, Gate, RunDag, Goto
<1>4. ASSUME NEW j \in Jobs, NEW n \in Nums,
             \/ RecordDenied(j, n) \/ ExecStart(j, n) \/ Deny(j, n)
             \/ Fail(j, n)
      PROVE  NoFalseSuccess'
  BY <1>4 DEF RecordDenied, ExecStart, Deny, Fail, Goto, StoreStart,
              StoreComplete
<1>5. ASSUME NEW j \in Jobs, NEW n \in Nums, Complete(j, n)
      PROVE  NoFalseSuccess'
  <2>1. CASE UNCHANGED row
    BY <1>5, <2>1 DEF Complete
  <2>2. CASE ~UNCHANGED row
    <3>1. /\ pc[<<j, n>>] = "complete"
          /\ StoreComplete(ExecOf(j, n), "succeeded")
          /\ UNCHANGED okRuns
      BY <1>5, <2>2 DEF Complete, Goto
    <3>2. <<j, n>> \in okRuns
      BY <3>1 DEF CompleteEarned
    <3>3. ASSUME NEW e \in Execs, row'[e] = "succeeded"
          PROVE  \E d \in okRuns : ExecOf(d[1], d[2]) = e
      <4>1. CASE e = ExecOf(j, n)
        BY <3>2, <4>1
      <4>2. CASE e # ExecOf(j, n)
        BY <3>1, <3>3, <4>2 DEF StoreComplete
      <4>3. QED
        BY <4>1, <4>2
    <3>4. QED
      BY <3>1, <3>3
  <2>3. QED
    BY <2>1, <2>2
<1>6. ASSUME NEW j \in Jobs, NEW n \in Nums,
             \/ Ack(j, n) \/ Term(j, n) \/ Nak(j, n)
      PROVE  NoFalseSuccess'
  BY <1>6 DEF Ack, Term, Nak, Settle
<1>7. ASSUME NEW w \in Workers, \/ Crash(w) \/ Shutdown(w)
      PROVE  NoFalseSuccess'
  BY <1>7 DEF Crash, Shutdown
<1>8. ASSUME NEW e \in Execs, \/ Age(e) \/ RetentionSweep(e)
      PROVE  NoFalseSuccess'
  BY <1>8 DEF Age, RetentionSweep
<1>9. CASE \/ StaleExecSweep \/ Stop \/ UNCHANGED vars
  BY <1>9 DEF StaleExecSweep, Stop, vars
<1>10. QED
  BY <1>1, <1>2, <1>3, <1>4, <1>5, <1>6, <1>7, <1>8, <1>9 DEF Next, Handle

-----------------------------------------------------------------------------
(***************************************************************************)
(* To the queue, a step is one of a few kinds.                             *)
(***************************************************************************)

\* A handler moves a delivery it holds on to its next await.
Moves(j, n) ==
    /\ pc[<<j, n>>] \in Held
    /\ \E to \in Handling : pc' = [pc EXCEPT ![<<j, n>>] = to]
    /\ UNCHANGED <<api, queueVars>>

Publishes(j) ==
    /\ api[j] = "idle"
    /\ \E a \in {"published", "recorded"} : api' = [api EXCEPT ![j] = a]
    /\ msg' = [msg EXCEPT ![j] = "ready"]
    /\ UNCHANGED <<pc, deliveries, host, expired>>

Loses ==
    /\ \E D \in SUBSET Deliveries :
           /\ \A d \in D : pc[d] \in Held
           /\ pc' = [d \in Deliveries |-> IF d \in D THEN "lost" ELSE pc[d]]
    /\ UNCHANGED <<api, queueVars>>

\* The queue is not touched, and nobody un-publishes.
Bystands ==
    /\ UNCHANGED <<pc, queueVars>>
    /\ \A j \in Jobs : api'[j] = "idle" => api[j] = "idle"

Kinds ==
    \/ Bystands
    \/ Loses
    \/ \E j \in Jobs : \/ Publishes(j)
                       \/ AckDeadline(j)
                       \/ \E w \in Workers : Pull(w, j)
                       \/ \E n \in Nums : \/ Moves(j, n) \/ Ack(j, n)
                                          \/ Term(j, n) \/ Nak(j, n)

\* Every step of the specification is of one of these kinds.
LEMMA StepKinds ==
  ASSUME TypeOK, [Next]_vars
  PROVE  Kinds
<1> USE ConstantsOK DEF Deliveries, Nums, Execs, PC, Held, Handling, Settled, Status,
           Terminal, Absent, queueVars, rowVars, history, Jobs
<1>1. ASSUME NEW j \in Jobs, ApiPublish(j) \/ CronPublish(j)
      PROVE  Publishes(j)
  BY <1>1 DEF ApiPublish, CronPublish, Publishes
<1>2. ASSUME NEW j \in Jobs, ApiRecord(j) \/ ApiAbandon(j)
      PROVE  Bystands
  BY <1>2 DEF TypeOK, ApiRecord, ApiAbandon, Bystands
<1>3. ASSUME NEW e \in Execs, Age(e) \/ RetentionSweep(e)
      PROVE  Bystands
  BY <1>3 DEF Age, RetentionSweep, Bystands
<1>4. CASE StaleExecSweep
  BY <1>4 DEF StaleExecSweep, Bystands, Kinds
<1>9. CASE Stop \/ UNCHANGED vars
  BY <1>9 DEF Stop, vars, Bystands, Kinds
<1>5. ASSUME NEW w \in Workers, Crash(w)
      PROVE  Loses
  <2>1. Buffered(w) \cup Inflight(w) \in SUBSET Deliveries
    BY DEF Buffered, Inflight
  <2>2. \A d \in Buffered(w) \cup Inflight(w) : pc[d] \in Held
    BY DEF Buffered, Inflight
  <2>3. QED
    BY <1>5, <2>1, <2>2 DEF Crash, Loses
<1>6. ASSUME NEW w \in Workers, Shutdown(w)
      PROVE  Loses
  <2>1. Buffered(w) \in SUBSET Deliveries
    BY DEF Buffered
  <2>2. \A d \in Buffered(w) : pc[d] \in Held
    BY DEF Buffered
  <2>3. QED
    BY <1>6, <2>1, <2>2 DEF Shutdown, Loses
<1>7. ASSUME NEW j \in Jobs, NEW n \in Nums,
             \/ Begin(j, n) \/ Authorize(j, n) \/ RecordDenied(j, n)
             \/ Prepare(j, n) \/ ExecStart(j, n) \/ Gate(j, n) \/ Deny(j, n)
             \/ RunDag(j, n) \/ Complete(j, n) \/ Fail(j, n)
      PROVE  Moves(j, n)
  <2>1. CASE Begin(j, n)
    BY <2>1 DEF Begin, Moves
  <2>2. ASSUME NEW from \in Handling, NEW to \in Handling, Goto(j, n, from, to)
        PROVE  Moves(j, n)
    BY <2>2 DEF Goto, Moves
  <2>3. CASE ~Begin(j, n)
    BY <1>7, <2>2, <2>3 DEF Authorize, RecordDenied, Prepare, ExecStart, Gate,
                            Deny, RunDag, Complete, Fail
  <2>4. QED
    BY <2>1, <2>3
<1>8. QED
  BY <1>1, <1>2, <1>3, <1>4, <1>5, <1>6, <1>7, <1>9 DEF Next, Handle, Kinds

-----------------------------------------------------------------------------
(* The queue                                                               *)

\* Publication comes first.
LEMMA SentStep ==
  ASSUME TypeOK, Sent, Fresh, [Next]_vars
  PROVE  Sent'
<1> USE ConstantsOK DEF Deliveries, Nums, Execs, PC, Held, Handling, Settled, Status,
           Terminal, Absent, queueVars, rowVars, history, Jobs
<1>0. Kinds
  BY StepKinds
<1>1. CASE Bystands
  BY <1>1 DEF TypeOK, Sent, Bystands
<1>2. CASE Loses
  BY <1>2 DEF TypeOK, Sent, Loses
<1>3. ASSUME NEW j \in Jobs, Publishes(j)
      PROVE  Sent'
  BY <1>3 DEF TypeOK, Sent, Publishes
<1>4. ASSUME NEW j \in Jobs, AckDeadline(j)
      PROVE  Sent'
  BY <1>4 DEF TypeOK, Sent, AckDeadline
<1>5. ASSUME NEW j \in Jobs, NEW w \in Workers, Pull(w, j)
      PROVE  Sent'
  BY <1>5 DEF TypeOK, Sent, Pull
<1>6. ASSUME NEW j \in Jobs, NEW n \in Nums, Moves(j, n)
      PROVE  Sent'
  BY <1>6 DEF TypeOK, Sent, Moves
<1>7. ASSUME NEW j \in Jobs, NEW n \in Nums, Ack(j, n) \/ Term(j, n)
      PROVE  Sent'
  <2>1. pc[<<j, n>>] # "none" /\ msg' = [msg EXCEPT ![j] = "removed"]
        /\ UNCHANGED <<api, deliveries>>
    BY <1>7 DEF Ack, Term, Settle
  <2>2. deliveries[j] > 0
    BY <2>1 DEF TypeOK, Fresh
  <2>3. api[j] # "idle"
    BY <2>2 DEF Sent
  <2>4. QED
    BY <2>1, <2>3 DEF TypeOK, Sent
<1>8. ASSUME NEW j \in Jobs, NEW n \in Nums, Nak(j, n)
      PROVE  Sent'
  BY <1>8 DEF TypeOK, Sent, Nak, Settle
<1>9. QED
  BY <1>0, <1>1, <1>2, <1>3, <1>4, <1>5, <1>6, <1>7, <1>8 DEF Kinds

\* A step touches only deliveries already made, or the next one.
LEMMA FreshStep ==
  ASSUME TypeOK, Fresh, [Next]_vars
  PROVE  Fresh'
<1> USE ConstantsOK DEF Deliveries, Nums, Execs, PC, Held, Handling, Settled, Status,
           Terminal, Absent, queueVars, rowVars, history, Jobs
<1>0. Kinds
  BY StepKinds
<1>1. CASE Bystands
  BY <1>1 DEF TypeOK, Fresh, Bystands
<1>2. CASE Loses
  <2>1. PICK D \in SUBSET Deliveries :
          /\ \A d \in D : pc[d] \in Held
          /\ pc' = [d \in Deliveries |-> IF d \in D THEN "lost" ELSE pc[d]]
    BY <1>2 DEF Loses
  <2>2. \A i \in Jobs : \A m \in Nums :
          pc'[<<i, m>>] = IF <<i, m>> \in D THEN "lost" ELSE pc[<<i, m>>]
    BY <2>1
  <2>3. UNCHANGED <<msg, deliveries, expired>>
    BY <1>2 DEF Loses
  <2>4. QED
    BY <2>1, <2>2, <2>3 DEF TypeOK, Fresh
<1>3. ASSUME NEW j \in Jobs, Publishes(j)
      PROVE  Fresh'
  BY <1>3 DEF TypeOK, Fresh, Publishes
<1>4. ASSUME NEW j \in Jobs, AckDeadline(j)
      PROVE  Fresh'
  BY <1>4 DEF TypeOK, Fresh, AckDeadline
<1>5. ASSUME NEW j \in Jobs, NEW w \in Workers, Pull(w, j)
      PROVE  Fresh'
  BY <1>5 DEF TypeOK, Fresh, Pull
<1>6. ASSUME NEW j \in Jobs, NEW n \in Nums, Moves(j, n)
      PROVE  Fresh'
  BY <1>6 DEF TypeOK, Fresh, Moves
<1>7. ASSUME NEW j \in Jobs, NEW n \in Nums, Ack(j, n) \/ Term(j, n)
      PROVE  Fresh'
  BY <1>7 DEF TypeOK, Fresh, Ack, Term, Settle
<1>8. ASSUME NEW j \in Jobs, NEW n \in Nums, Nak(j, n)
      PROVE  Fresh'
  BY <1>8 DEF TypeOK, Fresh, Nak, Settle
<1>9. QED
  BY <1>0, <1>1, <1>2, <1>3, <1>4, <1>5, <1>6, <1>7, <1>8 DEF Kinds

\* Ack and term are the only ways out of the queue, and both leave a mark.
LEMMA SettledStep ==
  ASSUME TypeOK, SettledWasHandled, [Next]_vars
  PROVE  SettledWasHandled'
<1> USE ConstantsOK DEF Deliveries, Nums, Execs, PC, Held, Handling, Settled, Status,
           Terminal, Absent, queueVars, rowVars, history, Jobs
<1>0. Kinds
  BY StepKinds
<1>1. CASE Bystands
  BY <1>1 DEF TypeOK, SettledWasHandled, Bystands
<1>2. CASE Loses
  <2>1. PICK D \in SUBSET Deliveries :
          /\ \A d \in D : pc[d] \in Held
          /\ pc' = [d \in Deliveries |-> IF d \in D THEN "lost" ELSE pc[d]]
    BY <1>2 DEF Loses
  <2>2. \A i \in Jobs : \A m \in Nums :
          pc'[<<i, m>>] = IF <<i, m>> \in D THEN "lost" ELSE pc[<<i, m>>]
    BY <2>1
  <2>3. UNCHANGED <<msg, deliveries, expired>>
    BY <1>2 DEF Loses
  <2>4. QED
    BY <2>1, <2>2, <2>3 DEF TypeOK, SettledWasHandled
<1>3. ASSUME NEW j \in Jobs, Publishes(j)
      PROVE  SettledWasHandled'
  BY <1>3 DEF TypeOK, SettledWasHandled, Publishes
<1>4. ASSUME NEW j \in Jobs, AckDeadline(j)
      PROVE  SettledWasHandled'
  BY <1>4 DEF TypeOK, SettledWasHandled, AckDeadline
<1>5. ASSUME NEW j \in Jobs, NEW w \in Workers, Pull(w, j)
      PROVE  SettledWasHandled'
  BY <1>5 DEF TypeOK, SettledWasHandled, Pull
<1>6. ASSUME NEW j \in Jobs, NEW n \in Nums, Moves(j, n)
      PROVE  SettledWasHandled'
  <2> SUFFICES ASSUME NEW i \in Jobs, msg'[i] = "removed"
               PROVE  \E m \in Nums : pc'[<<i, m>>] \in {"acked", "termed"}
    BY DEF SettledWasHandled
  <2>1. msg[i] = "removed"
    BY <1>6 DEF Moves
  <2>2. PICK m \in Nums : pc[<<i, m>>] \in {"acked", "termed"}
    BY <2>1 DEF SettledWasHandled
  <2>3. pc'[<<i, m>>] = pc[<<i, m>>]
    BY <1>6, <2>2 DEF TypeOK, Moves
  <2>4. QED
    BY <2>2, <2>3
<1>7. ASSUME NEW j \in Jobs, NEW n \in Nums, Ack(j, n) \/ Term(j, n)
      PROVE  SettledWasHandled'
  <2> SUFFICES ASSUME NEW i \in Jobs, msg'[i] = "removed"
               PROVE  \E m \in Nums : pc'[<<i, m>>] \in {"acked", "termed"}
    BY DEF SettledWasHandled
  <2>1. CASE i = j
    <3>1. pc'[<<j, n>>] \in {"acked", "termed"}
      BY <1>7 DEF TypeOK, Ack, Term, Settle
    <3>2. QED
      BY <2>1, <3>1
  <2>2. CASE i # j
    <3>1. msg[i] = "removed"
      BY <1>7, <2>2 DEF TypeOK, Ack, Term, Settle
    <3>2. PICK m \in Nums : pc[<<i, m>>] \in {"acked", "termed"}
      BY <3>1 DEF SettledWasHandled
    <3>3. pc'[<<i, m>>] = pc[<<i, m>>]
      BY <1>7, <2>2 DEF TypeOK, Ack, Term, Settle
    <3>4. QED
      BY <3>2, <3>3
  <2>3. QED
    BY <2>1, <2>2
<1>8. ASSUME NEW j \in Jobs, NEW n \in Nums, Nak(j, n)
      PROVE  SettledWasHandled'
  BY <1>8 DEF TypeOK, SettledWasHandled, Nak, Settle
<1>9. QED
  BY <1>0, <1>1, <1>2, <1>3, <1>4, <1>5, <1>6, <1>7, <1>8 DEF Kinds

\* A held message is delivered again only after an expiry.
LEMMA SupersededStep ==
  ASSUME TypeOK, Sent, Fresh, Superseded, [Next]_vars
  PROVE  Superseded'
<1> USE ConstantsOK DEF Deliveries, Nums, Execs, PC, Held, Handling, Settled, Status,
           Terminal, Absent, queueVars, rowVars, history, Jobs
<1>0. Kinds
  BY StepKinds
<1>1. CASE Bystands
  BY <1>1 DEF TypeOK, Superseded, Sent, Fresh, LapsedBy, Bystands
<1>2. CASE Loses
  BY <1>2 DEF TypeOK, Superseded, Sent, Fresh, LapsedBy, Loses
<1>3. ASSUME NEW j \in Jobs, Publishes(j)
      PROVE  Superseded'
  BY <1>3 DEF TypeOK, Superseded, Sent, Fresh, LapsedBy, Publishes
<1>4. ASSUME NEW j \in Jobs, AckDeadline(j)
      PROVE  Superseded'
  BY <1>4 DEF TypeOK, Superseded, Sent, Fresh, LapsedBy, AckDeadline
<1>5. ASSUME NEW j \in Jobs, NEW w \in Workers, Pull(w, j)
      PROVE  Superseded'
  BY <1>5 DEF TypeOK, Superseded, Sent, Fresh, LapsedBy, Pull
<1>6. ASSUME NEW j \in Jobs, NEW n \in Nums, Moves(j, n)
      PROVE  Superseded'
  BY <1>6 DEF TypeOK, Superseded, Sent, Fresh, LapsedBy, Moves
<1>7. ASSUME NEW j \in Jobs, NEW n \in Nums, Ack(j, n) \/ Term(j, n)
      PROVE  Superseded'
  <2> SUFFICES ASSUME NEW i \in Jobs, NEW m \in Nums, pc'[<<i, m>>] \in Held,
                      m < deliveries[i] \/ msg'[i] = "ready"
               PROVE  LapsedBy(i, m)
    BY <1>7 DEF Superseded, LapsedBy, Ack, Term, Settle
  <2>1. pc[<<i, m>>] = pc'[<<i, m>>]
    BY <1>7 DEF TypeOK, Ack, Term, Settle
  <2>2. msg'[i] = "ready" => msg[i] = "ready"
    BY <1>7 DEF TypeOK, Ack, Term, Settle
  <2>3. QED
    BY <2>1, <2>2 DEF Superseded
<1>8. ASSUME NEW j \in Jobs, NEW n \in Nums, Nak(j, n)
      PROVE  Superseded'
  <2> SUFFICES ASSUME NEW i \in Jobs, NEW m \in Nums, pc'[<<i, m>>] \in Held,
                      m < deliveries[i] \/ msg'[i] = "ready"
               PROVE  LapsedBy(i, m)
    BY <1>8 DEF Superseded, LapsedBy, Nak, Settle
  <2>1. pc[<<i, m>>] = pc'[<<i, m>>] /\ <<i, m>> # <<j, n>>
    BY <1>8 DEF TypeOK, Nak, Settle
  <2>2. CASE m < deliveries[i] \/ msg[i] = "ready"
    BY <2>1, <2>2 DEF Superseded
  <2>3. CASE ~(m < deliveries[i] \/ msg[i] = "ready")
    <3>1. i = j
      BY <1>8, <2>3 DEF TypeOK, Nak, Settle
    <3>2. m = deliveries[i]
      <4>1. pc[<<i, m>>] # "none"
        BY <2>1
      <4>2. ~(m > deliveries[i])
        BY <4>1 DEF Fresh
      <4>3. m \in Nat /\ deliveries[i] \in Nat
        BY DEF TypeOK
      <4>4. QED
        BY <2>3, <4>2, <4>3
    <3>3. pc[<<j, n>>] = "error"
      BY <1>8 DEF Nak
    <3>4. n <= deliveries[i]
      BY <3>1, <3>3 DEF TypeOK, Fresh
    <3>5. n < m
      <4>1. n # m
        BY <2>1, <3>1
      <4>2. n \in Nat /\ m \in Nat
        OBVIOUS
      <4>3. QED
        BY <3>2, <3>4, <4>1, <4>2
    <3>6. LapsedBy(j, n)
      BY <3>1, <3>2, <3>3, <3>5 DEF Superseded
    <3>7. QED
      BY <3>1, <3>5, <3>6 DEF LapsedBy
  <2>4. QED
    BY <2>2, <2>3
<1>9. QED
  BY <1>0, <1>1, <1>2, <1>3, <1>4, <1>5, <1>6, <1>7, <1>8 DEF Kinds

\* A spent budget is overrun only after an expiry.
LEMMA SpentStep ==
  ASSUME TypeOK, Sent, Fresh, Superseded, Spent, [Next]_vars
  PROVE  Spent'
<1> USE ConstantsOK DEF Deliveries, Nums, Execs, PC, Held, Handling, Settled, Status,
           Terminal, Absent, queueVars, rowVars, history, Jobs
<1>0. Kinds
  BY StepKinds
<1>1. CASE Bystands
  BY <1>1 DEF TypeOK, Spent, Sent, LapsedBy, Bystands
<1>2. CASE Loses
  BY <1>2 DEF TypeOK, Spent, Sent, LapsedBy, Loses
<1>3. ASSUME NEW j \in Jobs, Publishes(j)
      PROVE  Spent'
  <2> SUFFICES ASSUME NEW i \in Jobs, msg'[i] = "ready",
                      deliveries[i] >= Attempts(i)
               PROVE  LapsedBy(i, MaxDeliver)
    BY <1>3 DEF Spent, LapsedBy, Publishes
  <2>1. CASE i = j
    <3>1. deliveries[i] = 0
      BY <1>3, <2>1 DEF Sent, Publishes
    <3>2. QED
      BY <3>1 DEF Attempts
  <2>2. CASE i # j
    BY <1>3, <2>2 DEF TypeOK, Spent, Publishes
  <2>3. QED
    BY <2>1, <2>2
<1>4. ASSUME NEW j \in Jobs, AckDeadline(j)
      PROVE  Spent'
  BY <1>4 DEF TypeOK, Spent, Sent, LapsedBy, AckDeadline
<1>5. ASSUME NEW j \in Jobs, NEW w \in Workers, Pull(w, j)
      PROVE  Spent'
  BY <1>5 DEF TypeOK, Spent, Sent, LapsedBy, Pull
<1>6. ASSUME NEW j \in Jobs, NEW n \in Nums, Moves(j, n)
      PROVE  Spent'
  BY <1>6 DEF TypeOK, Spent, Sent, LapsedBy, Moves
<1>7. ASSUME NEW j \in Jobs, NEW n \in Nums, Ack(j, n) \/ Term(j, n)
      PROVE  Spent'
  BY <1>7 DEF TypeOK, Spent, Sent, LapsedBy, Ack, Term, Settle
<1>8. ASSUME NEW j \in Jobs, NEW n \in Nums, Nak(j, n)
      PROVE  Spent'
  <2> SUFFICES ASSUME NEW i \in Jobs, msg'[i] = "ready",
                      deliveries[i] >= Attempts(i)
               PROVE  LapsedBy(i, MaxDeliver)
    BY <1>8 DEF Spent, LapsedBy, Nak, Settle
  <2>1. CASE msg[i] = "ready"
    BY <2>1 DEF Spent
  <2>2. CASE msg[i] # "ready"
    <3>1. i = j
      BY <1>8, <2>2 DEF TypeOK, Nak, Settle
    <3>2. pc[<<j, n>>] = "error" /\ n < Attempts(j)
      BY <1>8 DEF Nak, OutOfBudget, Attempts
    <3>3. n < deliveries[j]
      BY <3>1, <3>2 DEF TypeOK, Attempts
    <3>4. LapsedBy(j, n)
      BY <3>2, <3>3 DEF Superseded
    <3>5. QED
      BY <3>1, <3>4 DEF LapsedBy
  <2>3. QED
    BY <2>1, <2>2
<1>9. QED
  BY <1>0, <1>1, <1>2, <1>3, <1>4, <1>5, <1>6, <1>7, <1>8 DEF Kinds

\* Only Pull raises the delivery count.
LEMMA RetriesStep ==
  ASSUME TypeOK, Spent, RetriesExplained, [Next]_vars
  PROVE  RetriesExplained'
<1> USE ConstantsOK DEF Deliveries, Nums, Execs, PC, Held, Handling, Settled, Status,
           Terminal, Absent, queueVars, rowVars, history, Jobs
<1>0. Kinds
  BY StepKinds
<1>1. CASE Bystands
  BY <1>1 DEF TypeOK, RetriesExplained, Spent, LapsedBy, Bystands
<1>2. CASE Loses
  BY <1>2 DEF TypeOK, RetriesExplained, Spent, LapsedBy, Loses
<1>3. ASSUME NEW j \in Jobs, Publishes(j)
      PROVE  RetriesExplained'
  BY <1>3 DEF TypeOK, RetriesExplained, Spent, LapsedBy, Publishes
<1>4. ASSUME NEW j \in Jobs, AckDeadline(j)
      PROVE  RetriesExplained'
  BY <1>4 DEF TypeOK, RetriesExplained, Spent, LapsedBy, AckDeadline
<1>5. ASSUME NEW j \in Jobs, NEW w \in Workers, Pull(w, j)
      PROVE  RetriesExplained'
  <2> SUFFICES ASSUME NEW i \in Jobs, deliveries'[i] > Attempts(i)
               PROVE  \E m \in Nums : <<i, m>> \in expired
    BY <1>5 DEF RetriesExplained, Pull
  <2>1. Attempts(i) \in Nat
    BY DEF Attempts
  <2>2. CASE deliveries[i] > Attempts(i)
    BY <2>2 DEF RetriesExplained
  <2>3. CASE ~(deliveries[i] > Attempts(i))
    <3>1. i = j /\ msg[i] = "ready" /\ deliveries[i] >= Attempts(i)
      BY <1>5, <2>1, <2>3 DEF TypeOK, Pull
    <3>2. QED
      BY <3>1 DEF Spent, LapsedBy
  <2>4. QED
    BY <2>2, <2>3
<1>6. ASSUME NEW j \in Jobs, NEW n \in Nums, Moves(j, n)
      PROVE  RetriesExplained'
  BY <1>6 DEF TypeOK, RetriesExplained, Spent, LapsedBy, Moves
<1>7. ASSUME NEW j \in Jobs, NEW n \in Nums, Ack(j, n) \/ Term(j, n)
      PROVE  RetriesExplained'
  BY <1>7 DEF TypeOK, RetriesExplained, Spent, LapsedBy, Ack, Term, Settle
<1>8. ASSUME NEW j \in Jobs, NEW n \in Nums, Nak(j, n)
      PROVE  RetriesExplained'
  BY <1>8 DEF TypeOK, RetriesExplained, Spent, LapsedBy, Nak, Settle
<1>9. QED
  BY <1>0, <1>1, <1>2, <1>3, <1>4, <1>5, <1>6, <1>7, <1>8 DEF Kinds

-----------------------------------------------------------------------------
(***************************************************************************)
(* The inductive invariant, and what follows from it.                      *)
(***************************************************************************)

\* The nine parts hold at the start.
LEMMA InitInv == Init => IndInv
<1> SUFFICES ASSUME Init PROVE IndInv
  OBVIOUS
<1> USE ConstantsOK DEF Deliveries, Nums, Execs, PC, Held, Handling, Settled, Status,
           Terminal, Absent, queueVars, rowVars, history, Jobs
<1>1. TypeOK
  BY DEF Init, TypeOK
<1>2. Sent /\ Fresh /\ SettledWasHandled
  BY DEF Init, Sent, Fresh, SettledWasHandled
<1>3. CompleteEarned /\ NoFalseSuccess
  BY DEF Init, CompleteEarned, NoFalseSuccess
<1>4. Superseded /\ Spent /\ RetriesExplained
  <2>1. Superseded
    BY DEF Init, Superseded
  <2>2. Spent
    BY DEF Init, Spent
  <2>3. RetriesExplained
    BY DEF Init, RetriesExplained, Attempts
  <2>4. QED
    BY <2>1, <2>2, <2>3
<1>5. QED
  BY <1>1, <1>2, <1>3, <1>4 DEF IndInv

\* Every step of the specification keeps all nine parts.
LEMMA StepInv == IndInv /\ [Next]_vars => IndInv'
<1> SUFFICES ASSUME IndInv, [Next]_vars PROVE IndInv'
  OBVIOUS
<1>1. /\ TypeOK /\ Sent /\ Fresh /\ SettledWasHandled /\ CompleteEarned
      /\ NoFalseSuccess /\ Superseded /\ Spent /\ RetriesExplained
  BY DEF IndInv
<1>2. QED
  BY <1>1, TypeStep, SentStep, FreshStep, SettledStep, EarnedStep, SuccessStep,
     SupersededStep, SpentStep, RetriesStep DEF IndInv

\* IndInv is an invariant of the run lifecycle.
THEOREM Invariance == Spec => []IndInv
  BY InitInv, StepInv, PTL DEF Spec

\* Type correctness of the queue, the handlers and the executions table.
THEOREM TypeCorrect == Spec => []TypeOK
<1>1. IndInv => TypeOK
  BY DEF IndInv
<1>2. QED
  BY <1>1, Invariance, PTL

\* No run is lost by the work queue: whatever crashes, a message is removed
\* only by a delivery that was handled to its end.
THEOREM AtLeastOnce == Spec => []SettledWasHandled
<1>1. IndInv => SettledWasHandled
  BY DEF IndInv
<1>2. QED
  BY <1>1, Invariance, PTL

\* Nobody but a delivery whose nodes all succeeded writes `succeeded`.
THEOREM SuccessIsEarned == Spec => []NoFalseSuccess
<1>1. IndInv => NoFalseSuccess
  BY DEF IndInv
<1>2. QED
  BY <1>1, Invariance, PTL

\* decideRedelivery keeps a job within its attempts unless a deadline passed.
THEOREM BudgetKept == Spec => []RetriesExplained
<1>1. IndInv => RetriesExplained
  BY DEF IndInv
<1>2. QED
  BY <1>1, Invariance, PTL

\* Two workers hold one job at once only after an un-heartbeated expiry.
THEOREM OverlapExplained == Spec => []OverlapNeedsExpiry
<1>1. IndInv => OverlapNeedsExpiry
  <2> SUFFICES ASSUME IndInv, NEW j \in Jobs, NEW m \in Nums, NEW n \in Nums,
                      m < n, pc[<<j, m>>] \in Held, pc[<<j, n>>] \in Held
               PROVE  LapsedBy(j, m)
    BY DEF OverlapNeedsExpiry, Held, LapsedBy
  <2> USE ConstantsOK DEF Nums
  <2>1. n <= deliveries[j]
    BY DEF IndInv, TypeOK, Fresh, Held, Handling
  <2>2. m < deliveries[j]
    BY <2>1 DEF IndInv, TypeOK
  <2>3. QED
    BY <2>2 DEF IndInv, Superseded
<1>2. QED
  BY <1>1, Invariance, PTL

-----------------------------------------------------------------------------
(* What is on record of scheduled runs                                     *)

Scheduled == CronJobs \X Nums

\* Before execute's store.start.
Early == {"none", "buffered", "authorize", "refuse", "prepare", "start"}

\* A scheduled delivery alone writes its row, so the row can be told from
\* where the delivery stands.
OwnRow ==
    \A d \in Scheduled :
        /\ pc[d] \in Early => row[d] = Absent /\ d \notin ran
        /\ pc[d] \in {"gate", "deny"} => row[d] # "denied" /\ d \notin ran
        /\ d \in ran => row[d] # "denied"
        /\ pc[d] \in {"gate", "dag", "complete"} => RetentionOn \/ row[d] # Absent
        /\ pc[d] \in {"ok", "acked"} =>
              row[d] = "succeeded" \/ (RetentionOn /\ row[d] = Absent)

\* Every step keeps the rows of scheduled runs in line with their deliveries.
LEMMA OwnRowStep ==
  ASSUME TypeOK, Fresh, OwnRow, [Next]_vars
  PROVE  OwnRow'
<1> USE ConstantsOK DEF queueVars, rowVars, history, Absent
<1>0. /\ Scheduled \subseteq Deliveries /\ Scheduled \subseteq Execs
      /\ \A d \in Scheduled : d = <<d[1], d[2]>> /\ d[1] \in CronJobs /\ d[2] \in Nums
      /\ \A j \in Jobs : \A n \in Nums : <<j, n>> \in Deliveries /\ ExecOf(j, n) \in Execs
      /\ \A j \in Jobs : <<j, 0>> \in Execs /\ <<j, 0>> \notin Scheduled
      /\ \A j \in Jobs : \A n \in Nums : <<j, n>> \in Scheduled => ExecOf(j, n) = <<j, n>>
      /\ \A j \in Jobs : \A n \in Nums :
            <<j, n>> \notin Scheduled => ExecOf(j, n) \notin Scheduled
  BY DEF Scheduled, Deliveries, Execs, Jobs, Nums, ExecOf
<1>1. ASSUME NEW j \in Jobs,
             \/ ApiPublish(j) \/ ApiAbandon(j) \/ CronPublish(j) \/ AckDeadline(j)
      PROVE  OwnRow'
  BY <1>1 DEF ApiPublish, ApiAbandon, CronPublish, AckDeadline, OwnRow
<1>2. ASSUME NEW j \in Jobs, ApiRecord(j)
      PROVE  OwnRow'
  <2>1. \A d \in Scheduled : row'[d] = row[d]
    BY <1>0, <1>2 DEF ApiRecord, StoreStart, TypeOK
  <2>2. QED
    BY <1>2, <2>1 DEF ApiRecord, OwnRow
<1>3. ASSUME NEW j \in Jobs, NEW w \in Workers, Pull(w, j)
      PROVE  OwnRow'
  <2>1. \E n \in Nums : /\ pc' = [pc EXCEPT ![<<j, n>>] = "buffered"]
                         /\ pc[<<j, n>>] = "none"
    <3>1. /\ deliveries[j] + 1 \in Nums
          /\ deliveries[j] + 1 > deliveries[j]
      BY <1>3 DEF Pull, Nums, TypeOK
    <3>2. pc' = [pc EXCEPT ![<<j, deliveries[j] + 1>>] = "buffered"]
      BY <1>3 DEF Pull
    <3>3. QED
      BY <3>1, <3>2 DEF Fresh
  <2>2. UNCHANGED <<row, ran>>
    BY <1>3 DEF Pull
  <2>3. QED
    BY <1>0, <2>1, <2>2 DEF OwnRow, Early, TypeOK
<1>4. ASSUME NEW w \in Workers, Crash(w) \/ Shutdown(w)
      PROVE  OwnRow'
  <2>1. \A d \in Scheduled : pc'[d] \in {pc[d], "lost"}
    BY <1>0, <1>4 DEF Crash, Shutdown
  <2>2. QED
    BY <1>4, <2>1 DEF Crash, Shutdown, OwnRow, Early
<1>5. ASSUME NEW e \in Execs, Age(e) \/ RetentionSweep(e)
      PROVE  OwnRow'
  BY <1>0, <1>5 DEF Age, RetentionSweep, OwnRow, TypeOK
<1>6. CASE StaleExecSweep
  <2>1. \A d \in Scheduled :
           row'[d] = IF row[d] = "running" /\ aged[d] THEN "failed" ELSE row[d]
    BY <1>0, <1>6 DEF StaleExecSweep
  <2>2. UNCHANGED <<pc, ran>>
    BY <1>6 DEF StaleExecSweep
  <2>3. QED
    BY <2>1, <2>2 DEF OwnRow
<1>7. CASE Stop \/ UNCHANGED vars
  BY <1>7 DEF Stop, vars, OwnRow
<1>8. ASSUME NEW j \in Jobs, NEW n \in Nums, Handle(j, n)
      PROVE  OwnRow'
  <2> DEFINE d == <<j, n>>
  <2>0. d \in Deliveries /\ ExecOf(j, n) \in Execs
    BY <1>0
  <2>1. \A e \in Scheduled \ {d} :
           pc'[e] = pc[e] /\ row'[e] = row[e] /\ (e \in ran' <=> e \in ran)
    <3>1. \A e \in Scheduled \ {d} : e # ExecOf(j, n)
      <4>1. CASE d \in Scheduled
        BY <1>0, <4>1
      <4>2. CASE d \notin Scheduled
        BY <1>0, <4>2
      <4>3. QED
        BY <4>1, <4>2
    <3>2. \A e \in Scheduled \ {d} : pc'[e] = pc[e]
      BY <1>0, <1>8, <2>0 DEF TypeOK, Handle, Begin, Authorize, RecordDenied, Prepare,
         ExecStart, Gate, Deny, RunDag, Complete, Fail, Ack, Term, Nak, Goto, Settle
    <3>3. \A e \in Scheduled \ {d} : row'[e] = row[e]
      BY <1>0, <1>8, <2>0, <3>1 DEF TypeOK, Handle, Begin, Authorize, RecordDenied,
         Prepare, ExecStart, Gate, Deny, RunDag, Complete, Fail, Ack, Term, Nak, Settle,
         StoreStart, StoreComplete
    <3>4. ran' = ran \/ ran' = ran \cup {d}
      BY <1>8 DEF Handle, Begin, Authorize, RecordDenied, Prepare,
         ExecStart, Gate, Deny, RunDag, Complete, Fail, Ack, Term, Nak, Settle
    <3>5. QED
      BY <3>2, <3>3, <3>4
  <2>2. CASE d \notin Scheduled
    BY <2>1, <2>2 DEF OwnRow
  <2>3. CASE d \in Scheduled
    <3>0. ExecOf(j, n) = d /\ d \in Execs
      BY <1>0, <2>0, <2>3
    <3>1. CASE Begin(j, n) \/ Authorize(j, n) \/ RecordDenied(j, n) \/ Prepare(j, n)
      <4>1. UNCHANGED <<row, ran>>
        BY <3>1 DEF Begin, Authorize, RecordDenied, Prepare
      <4>2. pc[d] \in Early /\ pc'[d] \in Early \cup {"error"}
        BY <2>0, <3>1 DEF Begin, Authorize, RecordDenied, Prepare, Goto, Early, TypeOK
      <4>3. QED
        BY <2>1, <2>3, <4>1, <4>2 DEF OwnRow, Early
    <3>2. CASE ExecStart(j, n)
      <4>1. /\ ran' = ran /\ pc[d] = "start"
            /\ \/ pc'[d] = "gate" /\ row'[d] = "running"
               \/ pc'[d] = "error" /\ row'[d] = row[d]
        BY <2>0, <3>0, <3>2 DEF ExecStart, Goto, StoreStart, TypeOK
      <4>2. QED
        BY <2>1, <2>3, <4>1 DEF OwnRow, Early
    <3>3. CASE Gate(j, n)
      <4>1. /\ row' = row /\ pc[d] = "gate"
            /\ \/ pc'[d] = "dag" /\ ran' = ran \cup {d}
               \/ pc'[d] \in {"deny", "fail"} /\ ran' = ran
        BY <2>0, <3>3 DEF Gate, Goto, TypeOK
      <4>2. QED
        BY <2>1, <2>3, <4>1 DEF OwnRow, Early
    <3>4. CASE Deny(j, n)
      <4>1. /\ ran' = ran /\ pc[d] = "deny"
            /\ \/ pc'[d] = "error"
               \/ pc'[d] = "fail" /\ row'[d] = row[d]
        BY <2>0, <3>4 DEF Deny, Goto, TypeOK
      <4>2. QED
        BY <2>1, <2>3, <4>1 DEF OwnRow, Early
    <3>5. CASE RunDag(j, n)
      <4>1. /\ UNCHANGED <<row, ran>> /\ pc[d] = "dag"
            /\ pc'[d] \in {"complete", "fail"}
        BY <2>0, <3>5 DEF RunDag, Goto, TypeOK
      <4>2. QED
        BY <2>1, <2>3, <4>1 DEF OwnRow, Early
    <3>6. CASE Complete(j, n)
      <4>1. /\ ran' = ran /\ pc[d] = "complete"
            /\ \/ /\ pc'[d] = "ok"
                  /\ row'[d] = IF row[d] = Absent THEN Absent ELSE "succeeded"
               \/ pc'[d] = "fail" /\ row'[d] = row[d]
        BY <2>0, <3>0, <3>6 DEF Complete, Goto, StoreComplete, TypeOK
      <4>2. QED
        BY <2>1, <2>3, <4>1 DEF OwnRow, Early
    <3>7. CASE Fail(j, n)
      <4>1. /\ ran' = ran /\ pc'[d] = "error"
            /\ row'[d] \in {row[d], Absent, "failed"}
        BY <2>0, <3>0, <3>7 DEF Fail, Goto, StoreComplete, TypeOK
      <4>2. QED
        BY <2>1, <2>3, <4>1 DEF OwnRow, Early
    <3>8. CASE Ack(j, n) \/ Term(j, n) \/ Nak(j, n)
      <4>1. /\ UNCHANGED <<row, ran>>
            /\ \/ pc[d] = "ok" /\ pc'[d] = "acked"
               \/ pc'[d] \in {"termed", "naked"}
        BY <2>0, <3>8 DEF Ack, Term, Nak, Settle, TypeOK
      <4>2. QED
        BY <2>1, <2>3, <4>1 DEF OwnRow, Early
    <3>9. QED
      BY <1>8, <3>1, <3>2, <3>3, <3>4, <3>5, <3>6, <3>7, <3>8 DEF Handle
  <2>4. QED
    BY <2>2, <2>3
<1>9. QED
  BY <1>1, <1>2, <1>3, <1>4, <1>5, <1>6, <1>7, <1>8 DEF Next

\* What is on record of a scheduled run stands: an acknowledged one is on
\* record as succeeded for as long as it is on record, over any stale sweep,
\* and a denied one never ran a node.
THEOREM VerdictsStand == Spec => []VerdictStands
<1>1. Init => OwnRow
  BY DEF Init, OwnRow, Scheduled, Early, Deliveries, Execs, Nums, Jobs, Absent
<1>2. IndInv /\ OwnRow /\ [Next]_vars => OwnRow'
  BY OwnRowStep DEF IndInv
<1>3. OwnRow => VerdictStands
  BY DEF OwnRow, VerdictStands, ScheduledVerdict, DeniedNeverRan, Scheduled
<1>4. QED
  BY <1>1, <1>2, <1>3, Invariance, PTL DEF Spec
=============================================================================
