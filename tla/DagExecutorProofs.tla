------------------------- MODULE DagExecutorProofs -------------------------
(***************************************************************************)
(* Proofs about DagExecutor, for any set of nodes, any spec graph and any  *)
(* number of retries.                                                      *)
(***************************************************************************)
EXTENDS DagExecutor, TLAPS

NodeState == {"idle"} \cup Working \cup Ended

\* Between batches, and once the run has succeeded, nothing is in the air; in
\* a batch that still can succeed nothing has been rejected.
Settled ==
    /\ phase \in {"launch", "finish", "complete"} \/ status = "succeeded" =>
          \A n \in Nodes : npc[n] \in {"idle", "resolved"}
    /\ phase = "batch" =>
          \A n \in Nodes : /\ npc[n] # "rejected"
                           /\ npc[n] \in Working => n \in batch
    /\ status = "succeeded" => phase \in {"cleanup", "done"}

\* A cancellation goes back to an abort, and the catch block has a cause.
Caused ==
    /\ cause = "cancelled" => aborted
    /\ status = "cancelled" => aborted
    /\ \A n \in Nodes : npc[n] = "cancelled" => aborted
    /\ phase = "catch" => cause # "none"

\* A batch is launched with its upstreams resolved.
BatchReady ==
    phase = "launch" => \A n \in batch : \A m \in Incoming(n) : Resolved(m)

\* A consumer is counted off only when it has resolved.
Counted ==
    /\ \A n \in Nodes : npc[n] = "resolved" => Resolved(n)
    /\ \A m \in Nodes : \A n \in Outgoing(m) : n \notin waiting[m] => Resolved(n)

-----------------------------------------------------------------------------
(* Types                                                                   *)

\* What a step of a node's async function does to the run's own variables.
LEMMA NodeMoves ==
  ASSUME TypeOK, NEW n \in Nodes, NodeStep(n)
  PROVE  /\ \E to \in NodeState : npc' = [npc EXCEPT ![n] = to]
         /\ phase' \in Phase
         /\ cause' \in {"none", "failed", "cancelled"}
         /\ npc[n] \in Working
         /\ UNCHANGED <<edges, outNode, batch, status, aborted, waiting, revoked>>
<1> USE DEF NodeState, Working, Ended, Phase, runVars, data, extras, graph
<1>1. CASE Skip(n)
  BY <1>1 DEF Skip, Step, Reject, TypeOK
<1>2. CASE StartNode(n)
  BY <1>2 DEF StartNode, Step, Reject, TypeOK
<1>3. CASE Bind(n)
  BY <1>3 DEF Bind, Step, TypeOK
<1>4. CASE Mint(n)
  BY <1>4 DEF Mint, Step, TypeOK
<1>5. CASE Attempt(n)
  BY <1>5 DEF Attempt, Step, TypeOK
<1>6. CASE Return(n)
  BY <1>6 DEF Return, Step, TypeOK
<1>7. CASE Record(n)
  BY <1>7 DEF Record, Step, TypeOK
<1>8. CASE Deliver(n)
  BY <1>8 DEF Deliver, Step, TypeOK
<1>9. CASE NodeFails(n)
  BY <1>9 DEF NodeFails, Reject, TypeOK
<1>10. CASE NodeWriteFails(n)
  BY <1>10 DEF NodeWriteFails, Reject, TypeOK
<1>11. QED
  BY <1>1, <1>2, <1>3, <1>4, <1>5, <1>6, <1>7, <1>8, <1>9, <1>10 DEF NodeStep

\* Every step keeps the variables in their types.
LEMMA TypeStep ==
  ASSUME TypeOK, Caused, [Next]_vars
  PROVE  TypeOK'
<1> USE DagConstants DEF graph, runVars, data, extras
<1>1. ASSUME NEW n \in Nodes, NodeStep(n)
      PROVE  TypeOK'
  <2>1. /\ npc' \in [Nodes -> {"idle"} \cup Working \cup Ended]
        /\ phase' \in Phase
        /\ cause' \in {"none", "failed", "cancelled"}
        /\ UNCHANGED <<edges, outNode, batch, status, aborted, waiting, revoked>>
    BY <1>1, NodeMoves DEF TypeOK, NodeState
  <2>2. CASE Skip(n)
    BY <2>1, <2>2 DEF Skip, TypeOK
  <2>3. CASE StartNode(n)
    BY <2>1, <2>3 DEF StartNode, TypeOK
  <2>4. CASE Bind(n)
    BY <2>1, <2>4 DEF Bind, TypeOK
  <2>5. CASE Mint(n)
    BY <2>1, <2>5 DEF Mint, TypeOK
  <2>6. CASE Attempt(n)
    BY <2>1, <2>6 DEF Attempt, TypeOK
  <2>7. CASE Return(n)
    <3>1. attempt' \in [Nodes -> 0 .. MaxRetries]
      BY <2>7 DEF Return, TypeOK
    <3>2. QED
      BY <2>1, <2>7, <3>1 DEF Return, TypeOK
  <2>8. CASE Record(n)
    BY <2>1, <2>8 DEF Record, TypeOK
  <2>9. CASE Deliver(n)
    <3>1. feeds' \in [Nodes -> SUBSET Nodes]
      <4>1. PICK live \in SUBSET Outgoing(n) : feeds' = [feeds EXCEPT ![n] = live]
        BY <2>9 DEF Deliver
      <4>2. live \subseteq Nodes
        BY <4>1 DEF Outgoing
      <4>3. feeds \in [Nodes -> SUBSET Nodes]
        BY DEF TypeOK
      <4>4. QED
        BY <4>1, <4>2, <4>3
    <3>2. stepSeq' \in Nat /\ frames' \in SUBSET (Nodes \X Nat)
      <4>1. stepSeq \in Nat /\ frames \in SUBSET (Nodes \X Nat)
        BY DEF TypeOK
      <4>2. \/ stepSeq' = stepSeq + 1 /\ frames' = frames \cup {<<n, stepSeq + 1>>}
            \/ UNCHANGED <<stepSeq, frames>>
        BY <2>9 DEF Deliver
      <4>3. QED
        BY <4>1, <4>2
    <3>3. QED
      BY <2>1, <2>9, <3>1, <3>2 DEF Deliver, TypeOK
  <2>10. CASE NodeFails(n)
    BY <2>1, <2>10 DEF NodeFails, TypeOK
  <2>11. CASE NodeWriteFails(n)
    BY <2>1, <2>11 DEF NodeWriteFails, TypeOK
  <2>12. QED
    BY <1>1, <2>2, <2>3, <2>4, <2>5, <2>6, <2>7, <2>8, <2>9, <2>10, <2>11 DEF NodeStep
<1>2. CASE Launch
  BY <1>2 DEF Launch, TypeOK, Phase, Working, Ended
<1>3. CASE Settle
  <2>1. batch' \in SUBSET Nodes
    BY <1>3 DEF Settle, Ready, Outgoing
  <2>2. waiting' \in [Nodes -> SUBSET Nodes]
    BY <1>3 DEF Settle, TypeOK
  <2>3. outputs' \in SUBSET Nodes /\ phase' \in Phase
    BY <1>3 DEF Settle, TypeOK, Phase
  <2>4. QED
    BY <1>3, <2>1, <2>2, <2>3 DEF Settle, TypeOK
<1>4. CASE Finish \/ Complete
  BY <1>4 DEF Finish, Complete, TypeOK, Phase
<1>5. CASE Catch
  BY <1>5 DEF Catch, Caused, TypeOK, Phase
<1>6. CASE Cleanup
  <2>1. revoked' \in BOOLEAN
    BY <1>6 DEF Cleanup, TypeOK
  <2>2. QED
    BY <1>6, <2>1 DEF Cleanup, TypeOK, Phase
<1>7. ASSUME NEW n \in Nodes, EnterSubgraph(n)
      PROVE  TypeOK'
  BY <1>7 DEF EnterSubgraph, TypeOK
<1>8. CASE Abort
  <2>1. aborted' \in BOOLEAN
    BY <1>8 DEF Abort
  <2>2. QED
    BY <1>8, <2>1 DEF Abort, TypeOK
<1>9. CASE UNCHANGED vars
  BY <1>9 DEF vars, TypeOK
<1>10. QED
  BY <1>1, <1>2, <1>3, <1>4, <1>5, <1>6, <1>7, <1>8, <1>9 DEF Next, RunStep, Stop

-----------------------------------------------------------------------------
(* Rejections and their causes                                             *)

\* Every step keeps the run's phase in line with its nodes.
LEMMA SettledStep ==
  ASSUME TypeOK, Settled, [Next]_vars
  PROVE  Settled'
<1> USE DEF graph, runVars, data, extras, Working
<1>1. ASSUME NEW n \in Nodes, NodeStep(n)
      PROVE  Settled'
  <2>1. PICK to \in NodeState : npc' = [npc EXCEPT ![n] = to]
    BY <1>1, NodeMoves
  <2>2. npc[n] \in Working /\ UNCHANGED <<batch, status>>
    BY <1>1, NodeMoves
  <2>3. /\ phase \notin {"launch", "finish", "complete"}
        /\ status # "succeeded"
    BY <2>2 DEF Settled
  <2>4. \/ phase' = phase /\ to # "rejected"
        \/ phase' = "catch"
        \/ phase' = phase /\ phase # "batch"
    BY <1>1, <2>1 DEF NodeStep, Skip, StartNode, Bind, Mint, Attempt, Return, Record,
           Deliver, NodeFails, NodeWriteFails, Step, Reject, TypeOK
  <2>5. CASE phase' = "batch"
    <3>1. phase = "batch" /\ to # "rejected" /\ n \in batch
      BY <2>2, <2>4, <2>5 DEF Settled
    <3>2. QED
      BY <2>1, <2>2, <2>3, <2>5, <3>1 DEF Settled, TypeOK
  <2>6. CASE phase' # "batch"
    BY <2>2, <2>3, <2>4, <2>6 DEF Settled
  <2>7. QED
    BY <2>5, <2>6
<1>2. CASE Launch
  BY <1>2 DEF Launch, Settled, TypeOK
<1>3. CASE Settle
  <2>1. \A n \in Nodes : npc[n] \in {"idle", "resolved"}
    BY <1>3 DEF Settle, Settled, TypeOK, Ended
  <2>2. QED
    BY <1>3, <2>1 DEF Settle, Settled
<1>4. CASE Finish \/ Complete \/ Catch \/ Cleanup
  BY <1>4 DEF Finish, Complete, Catch, Cleanup, Settled, TypeOK
<1>5. ASSUME NEW n \in Nodes, EnterSubgraph(n)
      PROVE  Settled'
  BY <1>5 DEF EnterSubgraph, Settled
<1>6. CASE Abort \/ UNCHANGED vars
  BY <1>6 DEF Abort, vars, Settled
<1>7. QED
  BY <1>1, <1>2, <1>3, <1>4, <1>5, <1>6 DEF Next, RunStep, Stop

\* Every step keeps cancellations tied to an abort.
LEMMA CausedStep ==
  ASSUME TypeOK, Caused, [Next]_vars
  PROVE  Caused'
<1> USE DEF graph, runVars, data, extras
<1>1. ASSUME NEW n \in Nodes, NodeStep(n)
      PROVE  Caused'
  <2>1. PICK to \in NodeState : npc' = [npc EXCEPT ![n] = to]
    BY <1>1, NodeMoves
  <2>2. UNCHANGED <<status, aborted>>
    BY <1>1, NodeMoves
  <2>3. to = "cancelled" => aborted
    BY <1>1, <2>1 DEF NodeStep, Skip, StartNode, Bind, Mint, Attempt, Return, Record,
           Deliver, NodeFails, NodeWriteFails, Step, Reject, TypeOK
  <2>4. \/ UNCHANGED <<phase, cause>>
        \/ cause' = "failed"
        \/ cause' = "cancelled" /\ npc[n] = "cancelled"
    BY <1>1 DEF NodeStep, Skip, StartNode, Bind, Mint, Attempt, Return, Record,
           Deliver, NodeFails, NodeWriteFails, Step, Reject
  <2>5. QED
    BY <2>1, <2>2, <2>3, <2>4 DEF Caused, TypeOK
<1>2. CASE Launch
  BY <1>2 DEF Launch, Caused, TypeOK
<1>3. CASE Settle \/ Finish \/ Complete \/ Catch \/ Cleanup
  BY <1>3 DEF Settle, Finish, Complete, Catch, Cleanup, Caused
<1>4. ASSUME NEW n \in Nodes, EnterSubgraph(n)
      PROVE  Caused'
  BY <1>4 DEF EnterSubgraph, Caused
<1>5. CASE Abort \/ UNCHANGED vars
  BY <1>5 DEF Abort, vars, Caused
<1>6. QED
  BY <1>1, <1>2, <1>3, <1>4, <1>5 DEF Next, RunStep, Stop

-----------------------------------------------------------------------------
(* Order and eviction                                                      *)

\* Nodes stay resolved and the graph does not change.
LEMMA Monotone ==
  ASSUME [Next]_vars
  PROVE  /\ completed \subseteq completed'
         /\ skipped \subseteq skipped'
         /\ UNCHANGED <<edges, outNode>>
<1> USE DEF graph, runVars, data, extras
<1>1. ASSUME NEW n \in Nodes, NodeStep(n) \/ EnterSubgraph(n)
      PROVE  completed \subseteq completed' /\ skipped \subseteq skipped'
             /\ UNCHANGED <<edges, outNode>>
  BY <1>1 DEF NodeStep, EnterSubgraph, Skip, StartNode, Bind, Mint, Attempt, Return,
         Record, Deliver, NodeFails, NodeWriteFails
<1>2. QED
  BY <1>1 DEF Next, RunStep, Launch, Settle, Finish, Complete, Catch, Cleanup, Abort,
         Stop, vars

\* Every step respects the order of the graph.
LEMMA OrderStep ==
  ASSUME TypeOK, Settled, BatchReady, Precedence, [Next]_vars
  PROVE  BatchReady' /\ Precedence'
<1> USE DEF graph, runVars, data, extras
<1>1. /\ \A n \in Nodes : Resolved(n) => Resolved(n)'
      /\ \A n \in Nodes : Incoming(n)' = Incoming(n)
      /\ \A n \in Nodes : Incoming(n) \subseteq Nodes
  BY Monotone DEF Resolved, Incoming
<1>2. ASSUME NEW n \in Nodes, NodeStep(n)
      PROVE  BatchReady' /\ Precedence'
  <2>1. PICK to \in NodeState : npc' = [npc EXCEPT ![n] = to]
    BY <1>2, NodeMoves
  <2>2. npc[n] # "idle" /\ phase # "launch"
    BY <1>2, NodeMoves DEF Working, Settled
  <2>3. phase' # "launch"
    BY <1>2, <2>2 DEF NodeStep, Skip, StartNode, Bind, Mint, Attempt, Return, Record,
           Deliver, NodeFails, NodeWriteFails, Step, Reject
  <2>4. QED
    BY <1>1, <2>1, <2>2, <2>3 DEF BatchReady, Precedence, TypeOK
<1>3. CASE Launch
  <2>1. \A n \in Nodes : npc'[n] # "idle" => npc[n] # "idle" \/ n \in batch
    BY <1>3 DEF Launch, TypeOK
  <2>2. QED
    BY <1>1, <1>3, <2>1 DEF Launch, BatchReady, Precedence
<1>4. CASE Settle
  <2>1. \A n \in Ready : \A m \in Incoming(n) : Resolved(m)
    BY DEF Ready
  <2>2. Ready \subseteq Nodes
    BY DEF Ready, Outgoing
  <2>3. QED
    BY <1>1, <1>4, <2>1, <2>2 DEF Settle, BatchReady, Precedence
<1>5. CASE Finish \/ Complete \/ Catch \/ Cleanup
  BY <1>1, <1>5 DEF Finish, Complete, Catch, Cleanup, BatchReady, Precedence
<1>6. CASE Abort \/ UNCHANGED vars
  BY <1>1, <1>6 DEF Abort, vars, BatchReady, Precedence, TypeOK
<1>7. ASSUME NEW n \in Nodes, EnterSubgraph(n)
      PROVE  BatchReady' /\ Precedence'
  BY <1>1, <1>7 DEF EnterSubgraph, BatchReady, Precedence, TypeOK
<1>8. QED
  BY <1>2, <1>3, <1>4, <1>5, <1>6, <1>7 DEF Next, RunStep, Stop

\* Every step counts consumers off, and evicts, only when they have resolved.
LEMMA EvictionStep ==
  ASSUME TypeOK, Counted, EvictionSafe, [Next]_vars
  PROVE  Counted' /\ EvictionSafe'
<1> USE DEF graph, runVars, data, extras
<1>1. /\ \A n \in Nodes : Resolved(n) => Resolved(n)'
      /\ \A n \in Nodes : Outgoing(n)' = Outgoing(n)
      /\ \A n \in Nodes : Outgoing(n) \subseteq Nodes
      /\ Protected' = Protected
  BY Monotone DEF Resolved, Outgoing, Protected
<1>2. ASSUME NEW n \in Nodes, NodeStep(n)
      PROVE  Counted' /\ EvictionSafe'
  <2>1. PICK to \in NodeState : npc' = [npc EXCEPT ![n] = to]
    BY <1>2, NodeMoves
  <2>2. UNCHANGED waiting
    BY <1>2, NodeMoves
  <2>3. to = "resolved" => Resolved(n)'
    BY <1>2, <2>1 DEF NodeStep, Skip, StartNode, Bind, Mint, Attempt, Return, Record,
           Deliver, NodeFails, NodeWriteFails, Step, Reject, TypeOK, Resolved
  <2>4. completed' \ outputs' \subseteq completed \ outputs
    BY <1>2 DEF NodeStep, Skip, StartNode, Bind, Mint, Attempt, Return, Record,
           Deliver, NodeFails, NodeWriteFails
  <2>5. Counted'
    BY <1>1, <2>1, <2>2, <2>3 DEF Counted, TypeOK
  <2>6. EvictionSafe'
    BY <1>1, <2>4 DEF EvictionSafe, TypeOK
  <2>7. QED
    BY <2>5, <2>6
<1>3. CASE Settle
  <2>1. \A n \in batch : Resolved(n)
    BY <1>3 DEF Settle, Counted, TypeOK
  <2>2. \A m \in Nodes : \A n \in Outgoing(m) : n \notin waiting'[m] => Resolved(n)
    BY <1>1, <1>3, <2>1 DEF Settle, Counted, TypeOK
  <2>3. \A m \in outputs \ outputs' :
           /\ \A n \in Outgoing(m) : Resolved(n)
           /\ m \notin Protected
    BY <1>1, <1>3, <2>1 DEF Settle, Counted, TypeOK
  <2>4. UNCHANGED <<npc, completed>>
    BY <1>3 DEF Settle
  <2>5. Counted'
    BY <1>1, <2>2, <2>4 DEF Counted
  <2>6. EvictionSafe'
    BY <1>1, <2>3, <2>4 DEF EvictionSafe, TypeOK
  <2>7. QED
    BY <2>5, <2>6
<1>4. CASE Launch
  <2>1. \A n \in Nodes : npc'[n] = "resolved" => npc[n] = "resolved"
    BY <1>4 DEF Launch, TypeOK
  <2>2. QED
    BY <1>1, <1>4, <2>1 DEF Launch, Counted, EvictionSafe, TypeOK
<1>5. CASE Finish \/ Complete \/ Catch \/ Cleanup \/ Abort \/ UNCHANGED vars
  <2>1. UNCHANGED <<npc, waiting, completed, outputs>>
    BY <1>5 DEF Finish, Complete, Catch, Cleanup, Abort, vars
  <2>2. QED
    BY <1>1, <2>1 DEF Counted, EvictionSafe, TypeOK
<1>6. ASSUME NEW n \in Nodes, EnterSubgraph(n)
      PROVE  Counted' /\ EvictionSafe'
  BY <1>1, <1>6 DEF EnterSubgraph, Counted, EvictionSafe, TypeOK
<1>7. QED
  BY <1>2, <1>3, <1>4, <1>5, <1>6 DEF Next, RunStep, Stop

-----------------------------------------------------------------------------
(* The theorems                                                            *)

IndInv == /\ TypeOK /\ Settled /\ Caused
          /\ BatchReady /\ Precedence /\ Counted /\ EvictionSafe

\* The strengthening holds in every state of every run.
THEOREM Invariance == Spec => []IndInv
<1>1. Init => IndInv
  <2> SUFFICES ASSUME Init PROVE IndInv
    OBVIOUS
  <2> USE DagConstants DEF Init
  <2>1. TypeOK
    <3>1. edges \in SUBSET (Nodes \X Nodes) /\ batch \in SUBSET Nodes
      OBVIOUS
    <3>2. waiting \in [Nodes -> SUBSET Nodes] /\ attempt \in [Nodes -> 0 .. MaxRetries]
      BY DEF Outgoing
    <3>3. aborted \in BOOLEAN /\ revoked \in BOOLEAN
      OBVIOUS
    <3>4. QED
      BY <3>1, <3>2, <3>3 DEF TypeOK, Phase
  <2>2. Settled /\ Caused
    BY DEF Settled, Caused, Working
  <2>3. BatchReady /\ Precedence
    BY DEF BatchReady, Precedence
  <2>4. Counted /\ EvictionSafe
    BY DEF Counted, EvictionSafe
  <2>5. QED
    BY <2>1, <2>2, <2>3, <2>4 DEF IndInv
<1>2. IndInv /\ [Next]_vars => IndInv'
  BY TypeStep, SettledStep, CausedStep, OrderStep, EvictionStep DEF IndInv
<1>3. QED
  BY <1>1, <1>2, PTL DEF Spec

\* The variables keep their types; in particular no node is tried more often
\* than maxRetries allows.
THEOREM TypeCorrect == Spec => []TypeOK
<1>1. IndInv => TypeOK
  BY DEF IndInv
<1>2. QED
  BY <1>1, Invariance, PTL

\* No node starts before all its upstreams have completed or been skipped, on
\* any graph and also while the siblings of a failed node run on.
THEOREM OrderKept == Spec => []Precedence
<1>1. IndInv => Precedence
  BY DEF IndInv
<1>2. QED
  BY <1>1, Invariance, PTL

\* An output is evicted only when nobody will read it, on any graph.
THEOREM EvictedUnread == Spec => []EvictionSafe
<1>1. IndInv => EvictionSafe
  BY DEF IndInv
<1>2. QED
  BY <1>1, Invariance, PTL

\* Only an aborted run is `cancelled`, and a run with a rejected node is never
\* `succeeded`, however late its siblings end.
THEOREM StatusHasCause == Spec => []CauseIsReal
<1>1. IndInv => CauseIsReal
  BY DEF IndInv, Settled, Caused, CauseIsReal
<1>2. QED
  BY <1>1, Invariance, PTL

-----------------------------------------------------------------------------
(* A clean end                                                             *)

\* Until the run returns, and for good once it has succeeded, step frames
\* have numbers of their own, and a carried out revocation left no grant.
Clean ==
    /\ revoked => phase = "done"
    /\ phase # "done" => \A f \in frames : f[2] <= stepSeq
    /\ phase # "done" \/ status = "succeeded" =>
          \A f, g \in frames : f[2] = g[2] => f = g
    /\ revoked /\ status = "succeeded" => grants = {}

\* Every step keeps the end of a successful run clean.
LEMMA CleanStep ==
  ASSUME TypeOK, Settled, Clean, [Next]_vars
  PROVE  Clean'
<1> USE DEF graph, runVars, data, extras
<1>1. ASSUME NEW n \in Nodes, NodeStep(n)
      PROVE  Clean'
  <2>1. /\ UNCHANGED <<status, revoked>>
        /\ npc[n] \in Working
    BY <1>1, NodeMoves
  <2>2. status # "succeeded"
    BY <2>1 DEF Settled, Working
  <2>3. phase' = "done" <=> phase = "done"
    BY <1>1 DEF NodeStep, Skip, StartNode, Bind, Mint, Attempt, Return, Record,
           Deliver, NodeFails, NodeWriteFails, Step, Reject
  <2>4. CASE Deliver(n) /\ n \in Streaming
    <3>1. stepSeq' = stepSeq + 1 /\ frames' = frames \cup {<<n, stepSeq + 1>>}
      BY <2>4 DEF Deliver
    <3>2. stepSeq \in Nat /\ \A f \in frames : f[2] \in Nat
      BY DEF TypeOK
    <3>3. CASE phase # "done"
      <4>1. \A f \in frames : f[2] < stepSeq + 1 /\ f[2] <= stepSeq + 1
        BY <3>2, <3>3 DEF Clean
      <4>2. \A f \in frames' : f[2] <= stepSeq'
        BY <3>1, <3>2, <4>1
      <4>3. \A f, g \in frames' : f[2] = g[2] => f = g
        BY <3>1, <3>2, <3>3, <4>1 DEF Clean
      <4>4. QED
        BY <2>1, <2>2, <2>3, <3>3, <4>2, <4>3 DEF Clean
    <3>4. QED
      BY <2>1, <2>2, <2>3, <3>3 DEF Clean
  <2>5. CASE ~(Deliver(n) /\ n \in Streaming)
    <3>1. UNCHANGED <<stepSeq, frames>>
      BY <1>1, <2>5 DEF NodeStep, Skip, StartNode, Bind, Mint, Attempt, Return, Record,
             Deliver, NodeFails, NodeWriteFails
    <3>2. QED
      BY <2>1, <2>2, <2>3, <3>1 DEF Clean
  <2>6. QED
    BY <2>4, <2>5
<1>2. CASE Cleanup
  <2>1. phase' = "done" /\ UNCHANGED <<frames, status>>
    BY <1>2 DEF Cleanup
  <2>2. ~revoked /\ (revoked' => grants' = {})
    BY <1>2 DEF Cleanup, Clean
  <2>3. \A f, g \in frames : f[2] = g[2] => f = g
    BY <1>2 DEF Cleanup, Clean
  <2>4. QED
    BY <2>1, <2>2, <2>3 DEF Clean
<1>3. CASE Launch \/ Settle \/ Finish \/ Complete \/ Catch
  <2>1. UNCHANGED <<revoked, grants, frames, stepSeq>> /\ phase # "done" /\ phase' # "done"
    BY <1>3 DEF Launch, Settle, Finish, Complete, Catch
  <2>2. QED
    BY <2>1 DEF Clean
<1>4. ASSUME NEW n \in Nodes, EnterSubgraph(n)
      PROVE  Clean'
  BY <1>4 DEF EnterSubgraph, Clean
<1>5. CASE Abort \/ UNCHANGED vars
  BY <1>5 DEF Abort, vars, Clean
<1>6. QED
  BY <1>1, <1>2, <1>3, <1>4, <1>5 DEF Next, RunStep, Stop

\* A succeeded run leaves no refresh grant behind its revocation and has
\* numbered its step frames without repetition, on any graph: emitStep and the
\* finally block cannot cross, since nothing is in the air any more.
THEOREM CleanSuccess == Spec => []SuccessIsClean
<1>1. Init => Clean
  BY DEF Init, Clean
<1>2. IndInv /\ Clean /\ [Next]_vars => Clean'
  BY CleanStep DEF IndInv
<1>3. Clean => SuccessIsClean
  BY DEF Clean, SuccessIsClean
<1>4. QED
  BY <1>1, <1>2, <1>3, Invariance, PTL DEF Spec

-----------------------------------------------------------------------------
(* The trace of a run                                                      *)

AllDone == \A n \in Nodes : Resolved(n)

\* A node resolves once, one way, and its row says which.
Tracked ==
    /\ edges \in Graphs
    /\ \A n \in Nodes : Resolved(n) => npc[n] = "resolved"
    /\ phase = "launch" => \A n \in batch : ~Resolved(n)
    /\ completed \cap skipped = {}
    /\ outputs \subseteq completed
    /\ \A n \in skipped : nodeRow[n] = "skipped"
    /\ \A n \in Nodes : n \in completed \/ npc[n] = "deliver" => nodeRow[n] = "succeeded"

\* A node that could run is in the batch, or behind a node of the batch; when
\* the loop has ended none is left.
Frontier ==
    /\ phase \in {"launch", "batch"} =>
          \A n \in Nodes :
              ~Resolved(n) /\ (\A m \in Incoming(n) : Resolved(m))
                  => n \in batch \/ Incoming(n) \cap batch # {}
    /\ phase \in {"finish", "complete"} \/ status = "succeeded" => AllDone

\* What isEdgeLive says where nothing was evicted yet.
Starved(n) ==
    /\ Incoming(n) # {}
    /\ \A m \in Incoming(n) : m \in skipped \/ n \notin feeds[m]

\* Nodes are skipped, or run, for what their upstreams did.
SkipsTrue ==
    \A n \in Nodes :
        /\ npc[n] = "skipping" \/ n \in skipped => Starved(n)
        /\ npc[n] \in Working \ {"skipping"} \/ n \in completed => ~Starved(n)

\* Consumers are counted off batch by batch, and what is still held is
\* protected, a leaf, or awaited by a consumer.
Evicting ==
    /\ \A m \in Nodes : waiting[m] \subseteq Outgoing(m)
    /\ outNode # NoNode /\ phase \in {"launch", "batch"} =>
          \A m \in Nodes : \A n \in waiting[m] : ~Resolved(n) \/ n \in batch
    /\ outNode # NoNode /\ phase \in {"launch", "batch"} =>
          \A m \in outputs : m \in Protected \/ Outgoing(m) = {} \/ waiting[m] # {}
    /\ outNode # NoNode /\ phase \in {"finish", "complete"} =>
          \A m \in outputs : m \in Protected \/ Outgoing(m) = {}
    /\ \A m \in completed : Outgoing(m) = {} => m \in outputs

Trace == Tracked /\ Frontier /\ SkipsTrue /\ Evicting

\* A node's async function resolves the node, as skipped or as completed, or
\* leaves the sets of runDag alone.
LEMMA Resolves ==
  ASSUME TypeOK, NEW n \in Nodes, NodeStep(n)
  PROVE  \/ /\ npc[n] = "skipping" /\ npc'[n] = "resolved"
            /\ skipped' = skipped \cup {n}
            /\ nodeRow' = [nodeRow EXCEPT ![n] = "skipped"]
            /\ UNCHANGED <<completed, feeds, outputs, phase>>
         \/ /\ npc[n] = "deliver" /\ npc'[n] = "resolved"
            /\ completed' = completed \cup {n}
            /\ outputs' = outputs \cup {n}
            /\ \E live \in SUBSET Nodes : feeds' = [feeds EXCEPT ![n] = live]
            /\ UNCHANGED <<skipped, nodeRow, phase>>
         \/ /\ npc[n] \in Working /\ npc'[n] \in NodeState \ {"idle", "resolved"}
            /\ npc'[n] = "skipping" => FALSE
            /\ npc[n] = "skipping" => npc'[n] \notin Working
            /\ npc'[n] = "deliver" => nodeRow' = [nodeRow EXCEPT ![n] = "succeeded"]
            /\ \A m \in Nodes \ {n} : nodeRow'[m] = nodeRow[m]
            /\ phase' \in {phase, "catch"} /\ (phase' # phase => phase = "batch")
            /\ UNCHANGED <<completed, skipped, feeds, outputs>>
<1> USE DEF NodeState, Working, Ended, runVars, data, extras, graph
<1>1. CASE Skip(n)
  BY <1>1 DEF Skip, Step, Reject, TypeOK
<1>2. CASE StartNode(n)
  BY <1>2 DEF StartNode, Step, Reject, TypeOK
<1>3. CASE Bind(n)
  BY <1>3 DEF Bind, Step, TypeOK
<1>4. CASE Mint(n)
  BY <1>4 DEF Mint, Step, TypeOK
<1>5. CASE Attempt(n)
  BY <1>5 DEF Attempt, Step, TypeOK
<1>6. CASE Return(n)
  BY <1>6 DEF Return, Step, TypeOK
<1>7. CASE Record(n)
  BY <1>7 DEF Record, Step, TypeOK
<1>8. CASE Deliver(n)
  BY <1>8 DEF Deliver, Step, Outgoing, TypeOK
<1>9. CASE NodeFails(n)
  BY <1>9 DEF NodeFails, Reject, TypeOK
<1>10. CASE NodeWriteFails(n)
  BY <1>10 DEF NodeWriteFails, Reject, TypeOK
<1>11. QED
  BY <1>1, <1>2, <1>3, <1>4, <1>5, <1>6, <1>7, <1>8, <1>9, <1>10 DEF NodeStep

\* Where the run's phase moves on, or nothing but an abort or a subgraph's
\* bindings changes, the sets of runDag stand.
LEMMA RunMoves ==
  ASSUME TypeOK,
         \/ Finish \/ Complete \/ Catch \/ Cleanup \/ Abort \/ UNCHANGED vars
         \/ \E n \in Nodes : EnterSubgraph(n)
  PROVE  /\ UNCHANGED <<edges, outNode, batch, npc, completed, skipped, feeds, outputs,
                        waiting, nodeRow>>
         /\ \/ UNCHANGED <<phase, status>>
            \/ phase' \in {"catch", "cleanup", "done"} /\ status' = status
            \/ phase' = "complete" /\ phase = "finish" /\ status' = status
            \/ phase' = "cleanup" /\ phase \in {"complete", "catch"}
               /\ status' \in {"succeeded", "failed", "cancelled", "none"}
               /\ (status' = "succeeded" => phase = "complete")
BY DEF Finish, Complete, Catch, Cleanup, Abort, EnterSubgraph, vars, graph, runVars, data,
       extras, TypeOK

\* Every step keeps nodes resolved once and their rows in line.
LEMMA TrackedStep ==
  ASSUME TypeOK, Settled, Counted, Tracked, [Next]_vars
  PROVE  Tracked'
<1> USE DEF graph, runVars, data, extras, Resolved
<1>0. edges' \in Graphs
  BY Monotone DEF Tracked
<1>1. ASSUME NEW n \in Nodes, NodeStep(n)
      PROVE  Tracked'
  <2>1. /\ \A m \in Nodes \ {n} : npc'[m] = npc[m]
        /\ npc[n] \in Working /\ UNCHANGED batch
    BY <1>1, NodeMoves DEF TypeOK
  <2>2. ~Resolved(n) /\ phase # "launch"
    BY <2>1 DEF Tracked, Settled, Working
  <2>3. completed \subseteq Nodes /\ skipped \subseteq Nodes
    BY DEF TypeOK
  <2>4. QED
    BY <1>0, <1>1, <2>1, <2>2, <2>3, Resolves DEF Tracked, TypeOK
<1>2. CASE Launch
  <2>1. \A n \in Nodes : Resolved(n) => npc'[n] = npc[n]
    BY <1>2 DEF Launch, Tracked, TypeOK
  <2>2. \A n \in Nodes : npc'[n] = "deliver" => npc[n] = "deliver"
    BY <1>2 DEF Launch, TypeOK
  <2>3. phase' # "launch"
    BY <1>2 DEF Launch
  <2>4. QED
    BY <1>0, <1>2, <2>1, <2>2, <2>3 DEF Launch, Tracked
<1>3. CASE Settle
  <2>1. \A n \in Ready : ~Resolved(n)
    BY DEF Ready
  <2>2. outputs' \subseteq outputs
    BY <1>3 DEF Settle
  <2>3. QED
    BY <1>0, <1>3, <2>1, <2>2 DEF Settle, Tracked
<1>4. ASSUME UNCHANGED <<batch, npc, completed, skipped, outputs, nodeRow>>,
             phase' = "launch" => phase = "launch"
      PROVE  Tracked'
  BY <1>0, <1>4 DEF Tracked
<1>5. QED
  BY <1>1, <1>2, <1>3, <1>4, RunMoves DEF Next, RunStep, Stop

\* The refill of `ready` forgets no node: in an acyclic graph, some unresolved
\* node has all its upstreams resolved.
LEMMA FrontierStep ==
  ASSUME TypeOK, Settled, Counted, Tracked, Frontier, [Next]_vars
  PROVE  Frontier'
<1> USE DEF AllDone
<1>0. /\ UNCHANGED <<edges, outNode>>
      /\ \A n \in Nodes : Incoming(n)' = Incoming(n) /\ Incoming(n) \subseteq Nodes
      /\ \A n \in Nodes : Resolved(n) => Resolved(n)'
  BY Monotone DEF Incoming, Resolved
<1>1. ASSUME NEW n \in Nodes, NodeStep(n)
      PROVE  Frontier'
  <2>1. /\ npc[n] \in Working /\ UNCHANGED <<batch, status>>
        /\ \A m \in Nodes \ {n} : Resolved(m)' <=> Resolved(m)
    BY <1>1, NodeMoves, Resolves DEF Resolved
  <2>2. /\ phase \notin {"launch", "finish", "complete"} /\ status # "succeeded"
        /\ phase = "batch" => n \in batch
    BY <2>1 DEF Settled, Working
  <2>3. phase' = phase \/ phase' = "catch"
    BY <1>1, Resolves
  <2>4. ASSUME phase' = "batch", NEW k \in Nodes, ~Resolved(k)',
               \A m \in Incoming(k) : Resolved(m)'
        PROVE  k \in batch \/ Incoming(k) \cap batch # {}
    BY <1>0, <2>1, <2>2, <2>3, <2>4 DEF Frontier
  <2>5. QED
    BY <1>0, <2>1, <2>2, <2>3, <2>4 DEF Frontier
<1>2. CASE Launch
  <2>1. /\ UNCHANGED <<batch, completed, skipped, status>>
        /\ phase' \in {"batch", "catch"} /\ phase = "launch"
    BY <1>2 DEF Launch, data
  <2>2. \A n \in Nodes : Resolved(n)' <=> Resolved(n)
    BY <2>1 DEF Resolved
  <2>3. status # "succeeded"
    BY <2>1 DEF Settled
  <2>4. QED
    BY <1>0, <2>1, <2>2, <2>3 DEF Frontier
<1>3. CASE Settle
  <2>1. /\ UNCHANGED <<completed, skipped, status>> /\ phase = "batch"
        /\ batch' = Ready
        /\ phase' = IF Ready = {} THEN "finish" ELSE "launch"
        /\ \A n \in batch : npc[n] = "resolved"
    BY <1>3 DEF Settle
  <2>2. \A n \in Nodes : Resolved(n)' <=> Resolved(n)
    BY <2>1 DEF Resolved
  <2>3. status # "succeeded"
    BY <2>1 DEF Settled
  <2>4. \A n \in batch : Resolved(n)
    BY <2>1 DEF Counted, TypeOK
  <2>5. ASSUME NEW n \in Nodes, ~Resolved(n), \A m \in Incoming(n) : Resolved(m)
        PROVE  n \in Ready
    <3>1. PICK m \in batch : m \in Incoming(n)
      BY <2>1, <2>4, <2>5 DEF Frontier
    <3>2. n \in Outgoing(m)
      BY <3>1 DEF Incoming, Outgoing
    <3>3. QED
      BY <2>5, <3>1, <3>2 DEF Ready
  <2>6. ASSUME Ready = {}
        PROVE  \A n \in Nodes : Resolved(n)
    <3> DEFINE S == {n \in Nodes : ~Resolved(n)}
    <3>1. SUFFICES ASSUME S # {} PROVE FALSE
      OBVIOUS
    <3>2. PICK n \in S : \A m \in S : <<m, n>> \notin edges
      BY <3>1, Acyclic DEF Tracked
    <3>3. \A m \in Incoming(n) : Resolved(m)
      BY <3>2 DEF Incoming
    <3>4. QED
      BY <2>5, <2>6, <3>2, <3>3
  <2>7. QED
    BY <1>0, <2>1, <2>2, <2>3, <2>5, <2>6 DEF Frontier
<1>4. ASSUME \/ Finish \/ Complete \/ Catch \/ Cleanup \/ Abort \/ UNCHANGED vars
             \/ \E n \in Nodes : EnterSubgraph(n)
      PROVE  Frontier'
  <2>1. \A n \in Nodes : Resolved(n)' <=> Resolved(n)
    BY <1>4, RunMoves DEF Resolved
  <2>2. QED
    BY <1>0, <1>4, <2>1, RunMoves DEF Frontier
<1>5. QED
  BY <1>1, <1>2, <1>3, <1>4 DEF Next, RunStep, Stop

\* Launch skips exactly the starved nodes, and later steps do not change what
\* a launched node was fed.
LEMMA SkipsStep ==
  ASSUME TypeOK, Settled, BatchReady, Precedence, EvictionSafe, Tracked, SkipsTrue, [Next]_vars
  PROVE  SkipsTrue'
<1>0. /\ UNCHANGED edges
      /\ \A n \in Nodes : Incoming(n)' = Incoming(n) /\ Incoming(n) \subseteq Nodes
  BY Monotone DEF Incoming
<1>1. ASSUME NEW k \in Nodes, NodeStep(k)
      PROVE  SkipsTrue'
  <2>1. /\ npc[k] \in Working
        /\ \A m \in Nodes \ {k} : npc'[m] = npc[m]
    BY <1>1, NodeMoves DEF TypeOK
  <2>2. ~Resolved(k)
    BY <2>1 DEF Tracked, Working
  <2>3. \A m \in Nodes \ {k} : /\ m \in skipped' <=> m \in skipped
                               /\ m \in completed' <=> m \in completed
                               /\ feeds'[m] = feeds[m]
    BY <1>1, Resolves DEF TypeOK
  <2>4. ASSUME NEW n \in Nodes, npc[n] # "idle"
        PROVE  Starved(n)' <=> Starved(n)
    <3>1. k \notin Incoming(n)
      BY <2>2, <2>4 DEF Precedence
    <3>2. \A m \in Incoming(n) : /\ m \in skipped' <=> m \in skipped
                                 /\ feeds'[m] = feeds[m]
      BY <1>0, <2>3, <3>1
    <3>3. QED
      BY <1>0, <3>2 DEF Starved
  <2>5. ASSUME NEW n \in Nodes \ {k}
        PROVE  /\ npc'[n] = "skipping" \/ n \in skipped' => Starved(n)'
               /\ npc'[n] \in Working \ {"skipping"} \/ n \in completed' => ~Starved(n)'
    <3>1. /\ npc[n] = "skipping" \/ n \in skipped => npc[n] # "idle"
          /\ npc[n] \in Working \ {"skipping"} \/ n \in completed => npc[n] # "idle"
      BY DEF Tracked, Resolved, Working
    <3>2. QED
      BY <2>1, <2>3, <2>4, <3>1 DEF SkipsTrue
  <2>6. /\ npc'[k] = "skipping" \/ k \in skipped' => Starved(k)'
        /\ npc'[k] \in Working \ {"skipping"} \/ k \in completed' => ~Starved(k)'
    <3>1. Starved(k)' <=> Starved(k)
      BY <2>1, <2>4 DEF Working
    <3>2. k \notin completed /\ k \notin skipped
      BY <2>2 DEF Resolved
    <3>3. npc'[k] = "skipping" \/ k \in skipped' => npc[k] = "skipping"
      BY <1>1, <3>2, Resolves
    <3>4. npc'[k] \in Working \ {"skipping"} \/ k \in completed'
          => npc[k] \in Working \ {"skipping"}
      BY <1>1, <3>2, Resolves DEF Working
    <3>5. QED
      BY <3>1, <3>3, <3>4 DEF SkipsTrue
  <2>7. QED
    BY <2>5, <2>6 DEF SkipsTrue
<1>2. CASE Launch
  <2>1. /\ UNCHANGED <<completed, skipped, feeds, outputs>> /\ phase = "launch"
        /\ npc' = [n \in Nodes |-> IF n \notin batch THEN npc[n]
                                   ELSE IF Dead(n) THEN "skipping"
                                   ELSE IF aborted THEN "rejected" ELSE "starting"]
    BY <1>2 DEF Launch, data
  <2>2. \A n \in Nodes : Starved(n)' <=> Starved(n)
    BY <1>0, <2>1 DEF Starved
  <2>3. ASSUME NEW n \in batch
        PROVE  (Dead(n) <=> Starved(n)) /\ ~Resolved(n)
    <3>1. ~Resolved(n) /\ n \in Nodes
      BY <2>1 DEF Tracked, TypeOK
    <3>2. \A m \in Incoming(n) : m \in skipped \/ m \in outputs
      <4>1. SUFFICES ASSUME NEW m \in Incoming(n), m \notin skipped, m \notin outputs
                     PROVE  FALSE
        OBVIOUS
      <4>2. m \in completed
        BY <2>1, <4>1 DEF BatchReady, Resolved
      <4>3. n \in Outgoing(m)
        BY <3>1, <4>1 DEF Incoming, Outgoing
      <4>4. QED
        BY <3>1, <4>1, <4>2, <4>3 DEF EvictionSafe
    <3>3. QED
      BY <3>1, <3>2 DEF Dead, EdgeLive, Starved
  <2>4. ASSUME NEW n \in Nodes
        PROVE  /\ npc'[n] = "skipping" \/ n \in skipped' => Starved(n)'
               /\ npc'[n] \in Working \ {"skipping"} \/ n \in completed' => ~Starved(n)'
    <3>1. CASE n \in batch
      BY <2>1, <2>2, <2>3, <3>1 DEF Resolved
    <3>2. CASE n \notin batch
      BY <2>1, <2>2, <3>2 DEF SkipsTrue
    <3>3. QED
      BY <3>1, <3>2
  <2>5. QED
    BY <2>4 DEF SkipsTrue
<1>3. ASSUME UNCHANGED <<npc, completed, skipped, feeds>>
      PROVE  SkipsTrue'
  <2>1. \A n \in Nodes : Starved(n)' <=> Starved(n)
    BY <1>0, <1>3 DEF Starved
  <2>2. QED
    BY <1>3, <2>1 DEF SkipsTrue
<1>4. QED
  BY <1>1, <1>2, <1>3, RunMoves DEF Next, RunStep, Stop, Settle

\* Settle counts a batch off and drops what nobody waits for any more.
LEMMA EvictingStep ==
  ASSUME TypeOK, Settled, Precedence, Counted, Tracked, Frontier, Frontier', Evicting,
         [Next]_vars
  PROVE  Evicting'
<1>0. /\ UNCHANGED <<edges, outNode>>
      /\ \A n \in Nodes : Outgoing(n)' = Outgoing(n) /\ Outgoing(n) \subseteq Nodes
      /\ Protected' = Protected
      /\ outputs \subseteq Nodes /\ completed \subseteq Nodes
  BY Monotone DEF Outgoing, Protected, TypeOK
<1>1. ASSUME NEW k \in Nodes, NodeStep(k)
      PROVE  Evicting'
  <2>1. npc[k] \in Working /\ UNCHANGED <<batch, status, waiting>>
    BY <1>1, NodeMoves
  <2>2. /\ phase \notin {"launch", "finish", "complete"}
        /\ phase = "batch" => k \in batch
    BY <2>1 DEF Settled, Working
  <2>3. phase' = phase \/ phase' = "catch"
    BY <1>1, Resolves
  <2>4. \A m \in Nodes \ {k} : Resolved(m)' <=> Resolved(m)
    BY <1>1, Resolves DEF Resolved
  <2>5. \/ outputs' = outputs /\ completed' = completed
        \/ outputs' = outputs \cup {k} /\ completed' = completed \cup {k}
    BY <1>1, Resolves
  <2>6. Outgoing(k) \subseteq waiting[k]
    <3>1. ASSUME NEW n \in Outgoing(k)
          PROVE  ~Resolved(n)
      <4>1. k \in Incoming(n) /\ n \in Nodes
        BY <3>1 DEF Incoming, Outgoing
      <4>2. ~Resolved(k)
        BY <2>1 DEF Tracked, Working
      <4>3. npc[n] = "idle"
        BY <4>1, <4>2 DEF Precedence
      <4>4. QED
        BY <4>1, <4>3 DEF Tracked
    <3>2. QED
      BY <3>1 DEF Counted
  <2>7. \A m \in Nodes : waiting'[m] \subseteq Outgoing(m)'
    BY <1>0, <2>1 DEF Evicting
  <2>8. outNode' # NoNode /\ phase' \in {"launch", "batch"} =>
           \A m \in Nodes : \A n \in waiting'[m] : ~Resolved(n)' \/ n \in batch'
    <3>1. \A m \in Nodes : waiting[m] \subseteq Nodes
      BY DEF TypeOK
    <3>2. QED
      BY <1>0, <2>1, <2>2, <2>3, <2>4, <3>1 DEF Evicting
  <2>9. outNode' # NoNode /\ phase' \in {"launch", "batch"} =>
           \A m \in outputs' : m \in Protected' \/ Outgoing(m)' = {} \/ waiting'[m] # {}
    BY <1>0, <2>1, <2>2, <2>3, <2>5, <2>6 DEF Evicting
  <2>10. \A m \in completed' : Outgoing(m)' = {} => m \in outputs'
    BY <1>0, <2>5 DEF Evicting
  <2>11. QED
    BY <2>2, <2>3, <2>7, <2>8, <2>9, <2>10 DEF Evicting
<1>2. CASE Settle
  <2>1. /\ UNCHANGED <<completed, skipped, status>> /\ phase = "batch"
        /\ batch' = Ready
        /\ phase' = IF Ready = {} THEN "finish" ELSE "launch"
        /\ waiting' = IF outNode = NoNode THEN waiting
                      ELSE [m \in Nodes |-> waiting[m] \ batch]
        /\ outputs' = IF outNode = NoNode THEN outputs
                      ELSE {m \in outputs : \/ Outgoing(m) \cap batch = {}
                                            \/ waiting[m] \ batch # {}
                                            \/ m \in Protected}
    BY <1>2 DEF Settle
  <2>2. \A n \in Nodes : Resolved(n)' <=> Resolved(n)
    BY <2>1 DEF Resolved
  <2>3. \A m \in Nodes : waiting[m] \subseteq Nodes
    BY DEF TypeOK
  <2>4. CASE outNode = NoNode
    BY <1>0, <2>1, <2>4 DEF Evicting
  <2>5. CASE outNode # NoNode
    <3>1. \A m \in Nodes : waiting'[m] = waiting[m] \ batch
      BY <2>1, <2>5
    <3>2. \A m \in Nodes : \A n \in waiting'[m] : ~Resolved(n)'
      BY <2>1, <2>2, <2>3, <2>5, <3>1 DEF Evicting
    <3>3. \A m \in outputs' : m \in Protected \/ Outgoing(m) = {} \/ waiting'[m] # {}
      <4>1. SUFFICES ASSUME NEW m \in outputs', m \notin Protected, Outgoing(m) # {}
                     PROVE  waiting'[m] # {}
        OBVIOUS
      <4>2. m \in outputs /\ m \in Nodes /\ waiting'[m] = waiting[m] \ batch
        BY <1>0, <2>1, <2>5, <3>1
      <4>3. waiting[m] # {} /\ waiting[m] \subseteq Outgoing(m)
        BY <2>1, <2>5, <4>1, <4>2 DEF Evicting
      <4>4. \/ Outgoing(m) \cap batch = {}
            \/ waiting[m] \ batch # {}
        BY <2>1, <2>5, <4>1
      <4>5. QED
        BY <4>2, <4>3, <4>4
    <3>4. \A m \in completed' : Outgoing(m)' = {} => m \in outputs'
      BY <1>0, <2>1, <2>5 DEF Evicting
    <3>5. \A m \in Nodes : waiting'[m] \subseteq Outgoing(m)'
      BY <1>0, <3>1 DEF Evicting
    <3>6. phase' = "finish" => \A m \in Nodes : waiting'[m] = {}
      <4>1. phase' = "finish" => \A n \in Nodes : Resolved(n)'
        BY DEF Frontier, AllDone
      <4>2. \A m \in Nodes : waiting'[m] \subseteq Nodes
        BY <2>3, <3>1
      <4>3. QED
        BY <3>2, <4>1, <4>2
    <3>7. phase' = "finish" => \A m \in outputs' : m \in Protected \/ Outgoing(m) = {}
      <4>1. outputs' \subseteq Nodes
        BY <1>0, <2>1, <2>5
      <4>2. QED
        BY <3>3, <3>6, <4>1
    <3>8. phase' \in {"finish", "launch"}
      BY <2>1
    <3>9. outputs' \subseteq Nodes
      BY <1>0, <2>1, <2>5
    <3>10. QED
      BY <1>0, <3>2, <3>3, <3>4, <3>5, <3>7, <3>8, <3>9 DEF Evicting
  <2>6. QED
    BY <2>4, <2>5
<1>3. CASE Launch
  <2>1. /\ UNCHANGED <<batch, completed, skipped, outputs, waiting>>
        /\ phase' \in {"batch", "catch"} /\ phase = "launch"
    BY <1>3 DEF Launch, data
  <2>2. \A n \in Nodes : Resolved(n)' <=> Resolved(n)
    BY <2>1 DEF Resolved
  <2>3. \A m \in Nodes : waiting[m] \subseteq Nodes
    BY DEF TypeOK
  <2>4. QED
    BY <1>0, <2>1, <2>2, <2>3 DEF Evicting
<1>4. ASSUME \/ Finish \/ Complete \/ Catch \/ Cleanup \/ Abort \/ UNCHANGED vars
             \/ \E n \in Nodes : EnterSubgraph(n)
      PROVE  Evicting'
  <2>1. \A n \in Nodes : Resolved(n)' <=> Resolved(n)
    BY <1>4, RunMoves DEF Resolved
  <2>2. \A m \in Nodes : waiting[m] \subseteq Nodes
    BY DEF TypeOK
  <2>3. QED
    BY <1>0, <1>4, <2>1, <2>2, RunMoves DEF Evicting
<1>5. QED
  BY <1>1, <1>2, <1>3, <1>4 DEF Next, RunStep, Stop

\* What the invariant says of a run whose loop has ended.
LEMMA TraceImplies ==
  ASSUME TypeOK, EvictionSafe, Trace
  PROVE  TraceExact
<1> USE DEF Trace
<1>1. AllResolved
  BY DEF AllResolved, Frontier, AllDone, Resolved, Tracked, TypeOK
<1>2. SkipExact
  BY DEF SkipExact, Frontier, AllDone, Resolved, SkipsTrue, Starved
<1>3. EvictionComplete
  BY DEF EvictionComplete, EvictionSafe, Evicting, Tracked
<1>4. SuccessIsComplete
  BY DEF SuccessIsComplete, Frontier, AllDone, Resolved, Tracked
<1>5. QED
  BY <1>1, <1>2, <1>3, <1>4 DEF TraceExact

\* On every acyclic graph runDag forgets no node, skips exactly the nodes no
\* upstream fed, evicts exactly what nobody reads any more, and commits
\* `succeeded` over a complete trace only.
THEOREM TraceIsExact == Spec => []TraceExact
<1>1. Init => Trace
  <2> SUFFICES ASSUME Init PROVE Trace
    OBVIOUS
  <2>1. Tracked
    BY DEF Init, Tracked, Resolved
  <2>2. Frontier
    BY DEF Init, Frontier, Resolved
  <2>3. SkipsTrue
    BY DEF Init, SkipsTrue, Working
  <2>4. Evicting
    BY DEF Init, Evicting, Resolved
  <2>5. QED
    BY <2>1, <2>2, <2>3, <2>4 DEF Trace
<1>2. IndInv /\ Trace /\ [Next]_vars => Trace'
  BY TrackedStep, FrontierStep, SkipsStep, EvictingStep DEF IndInv, Trace
<1>3. IndInv /\ Trace => TraceExact
  BY TraceImplies DEF IndInv
<1>4. QED
  BY <1>1, <1>2, <1>3, Invariance, PTL DEF Spec
=============================================================================
