----------------------------- MODULE LeaderLease -----------------------------
(***************************************************************************)
(* RedisLeaderElection: each pod's acquire/renew loop, its stop(), and the *)
(* lease key in Redis.  A call to Redis has three moments: it is sent, it  *)
(* is executed there, and its reply is processed by the pod.  Commands of  *)
(* one pod travel on one connection and are executed in order.             *)
(*                                                                         *)
(* Time is relative: `ttl` runs down, `age` runs up.  A pod is timely when *)
(* a round trip takes at most MaxRtt and a timer fires at most MaxLag late;*)
(* the fault "pause" (GC, a stalled event loop or network) lifts both.     *)
(***************************************************************************)
EXTENDS Naturals, FiniteSets

CONSTANTS
    Pods,            \* podId of each worker (WORKER_ID)
    NoPod,           \* the key is absent
    LeaseTtl, RenewInterval, PollInterval,
    MaxRtt,          \* a timely round trip, in clock ticks
    MaxLag,          \* how late a timely timer fires
    Faults           \* what may go wrong before the run calms down

ASSUME LeaseConstants ==
    /\ NoPod \notin Pods
    /\ LeaseTtl \in Nat \ {0}
    /\ RenewInterval \in Nat
    /\ PollInterval \in Nat
    /\ MaxRtt \in Nat
    /\ MaxLag \in Nat
    /\ LeaseTtl >= 2 * RenewInterval
    /\ Faults \subseteq {"error", "crash", "stop", "pause", "failover"}

\* What the constructor's check leaves to the deployment.
ASSUME TimelyConstants == 2 * MaxRtt + MaxLag + RenewInterval < LeaseTtl

VARIABLES
    holder,     \* value of the lease key
    ttl,        \* its remaining time to live
    client,     \* client[p]: this.client is set
    leader,     \* this.leader
    stopped,    \* this.stopped
    pc,         \* where the loop stands
    nap,        \* the interval of the current sleep
    age,        \* time since the request was sent or the sleep began
    request,    \* the loop's call: on the wire, or its reply
    release,    \* the call of stop()
    calm,       \* no fault happens any more
    heard,      \* history: time since Redis last confirmed p's lease
    late        \* history: a pod has missed its timing

redis == <<holder, ttl>>
vars  == <<holder, ttl, client, leader, stopped, pc, nap, age, request,
           release, calm, heard, late>>

OnWire  == {"acquire", "renew"}
Replies == {"granted", "taken", "renewed", "lost", "error"}
MaxAge  == RenewInterval + PollInterval + MaxRtt + MaxLag

TypeOK ==
    /\ holder \in Pods \cup {NoPod}
    /\ ttl \in 0 .. LeaseTtl
    /\ client \in [Pods -> BOOLEAN]
    /\ leader \in [Pods -> BOOLEAN]
    /\ stopped \in [Pods -> BOOLEAN]
    /\ pc \in [Pods -> {"connect", "asked", "asleep", "ended", "down"}]
    /\ nap \in [Pods -> {0, RenewInterval, PollInterval}]
    /\ age \in [Pods -> 0 .. MaxAge]
    /\ request \in [Pods -> {"none"} \cup OnWire \cup Replies]
    /\ release \in [Pods -> {"none", "sent", "done"}]
    /\ calm \in BOOLEAN
    /\ heard \in [Pods -> 0 .. LeaseTtl]
    /\ late \in BOOLEAN

Init ==
    /\ holder = NoPod
    /\ ttl = 0
    /\ client = [p \in Pods |-> FALSE]
    /\ leader = [p \in Pods |-> FALSE]
    /\ stopped = [p \in Pods |-> FALSE]
    /\ pc = [p \in Pods |-> "connect"]
    /\ nap = [p \in Pods |-> 0]
    /\ age = [p \in Pods |-> 0]
    /\ request = [p \in Pods |-> "none"]
    /\ release = [p \in Pods |-> "none"]
    /\ calm = FALSE
    /\ heard = [p \in Pods |-> LeaseTtl]
    /\ late = FALSE

IsLeader(p) == leader[p] /\ ~stopped[p]

May(fault) == fault \in Faults /\ ~calm

Goto(p, place, interval) ==
    /\ pc' = [pc EXCEPT ![p] = place]
    /\ nap' = [nap EXCEPT ![p] = interval]
    /\ age' = [age EXCEPT ![p] = 0]

\* await this.sleep(ms)
Sleep(p, interval) ==
    Goto(p, "asleep", interval) /\ request' = [request EXCEPT ![p] = "none"]

\* Send SET NX PX, or the renewal script.
Ask(p, command) ==
    Goto(p, "asked", 0) /\ request' = [request EXCEPT ![p] = command]

-----------------------------------------------------------------------------
(* The loop                                                                *)

\* The awaited clientFactory returns; `stopped` is not looked at again
\* before the SET is sent.  If it throws, back off.
Connect(p) ==
    /\ pc[p] = "connect"
    /\ \/ client' = [client EXCEPT ![p] = TRUE] /\ Ask(p, "acquire")
       \/ May("error") /\ Sleep(p, PollInterval) /\ UNCHANGED client
    /\ UNCHANGED <<redis, leader, stopped, release, calm, heard, late>>

\* Mutant: an error leaves the flag alone.
ProcessKeepsFaith(p) ==
    /\ pc[p] = "asked"
    /\ request[p] \in Replies
    /\ IF request[p] = "granted" /\ ~stopped[p] THEN Ask(p, "renew")
       ELSE Sleep(p, IF request[p] = "renewed" THEN RenewInterval ELSE PollInterval)
    /\ leader' = [leader EXCEPT ![p] = request[p] = "granted" \/ (@ /\ request[p] # "lost")]
    /\ UNCHANGED <<redis, client, stopped, release, calm, heard, late>>

\* Mutant: the try is around the loop, not inside it.
ProcessGivesUp(p) ==
    /\ pc[p] = "asked"
    /\ request[p] \in Replies
    /\ IF request[p] = "granted" THEN Ask(p, "renew")
       ELSE IF request[p] = "error"
         THEN Goto(p, "ended", 0) /\ request' = [request EXCEPT ![p] = "none"]
       ELSE Sleep(p, IF request[p] = "renewed" THEN RenewInterval ELSE PollInterval)
    /\ leader' = [leader EXCEPT ![p] = request[p] \in {"granted", "renewed"}]
    /\ UNCHANGED <<redis, client, stopped, release, calm, heard, late>>

\* The reply, or a rejection, is processed: lead and renew at once, sleep
\* until the next renewal or poll, or give leadership up.
Process(p) ==
    /\ pc[p] = "asked"
    /\ request[p] \in Replies
    /\ CASE request[p] = "granted" ->
              /\ leader' = [leader EXCEPT ![p] = TRUE]
              /\ IF stopped[p]
                   THEN Goto(p, "ended", 0) /\ request' = [request EXCEPT ![p] = "none"]
                   ELSE Ask(p, "renew")
         [] request[p] = "renewed" -> Sleep(p, RenewInterval) /\ UNCHANGED leader
         [] request[p] = "taken"   -> Sleep(p, PollInterval) /\ UNCHANGED leader
         [] OTHER -> Sleep(p, PollInterval) /\ leader' = [leader EXCEPT ![p] = FALSE]
    /\ UNCHANGED <<redis, client, stopped, release, calm, heard, late>>

\* The timer fires: top of the while loop.
Wake(p) ==
    /\ pc[p] = "asleep"
    /\ age[p] >= nap[p]
    /\ IF stopped[p] THEN Goto(p, "ended", 0) /\ UNCHANGED request
       ELSE IF ~client[p] THEN Goto(p, "connect", 0) /\ UNCHANGED request
       ELSE Ask(p, IF leader[p] THEN "renew" ELSE "acquire")
    /\ UNCHANGED <<redis, client, leader, stopped, release, calm, heard, late>>

-----------------------------------------------------------------------------
(* Redis                                                                   *)

\* A reply nobody waits for any more is dropped.
Reply(p, r) ==
    request' = [request EXCEPT ![p] = IF pc[p] = "asked" THEN r ELSE "none"]

\* SET key podId NX PX ttl.  The reply may get lost after the command took
\* effect; resent by the client, it then finds the pod's own lease.
ServeAcquire(p, r) ==
    /\ request[p] = "acquire"
    /\ IF holder = NoPod
         THEN /\ holder' = p
              /\ ttl' = LeaseTtl
              /\ heard' = [heard EXCEPT ![p] = 0]
              /\ \/ r = "granted"
                 \/ May("error") /\ r \in {"error", "taken"}
         ELSE r = "taken" /\ UNCHANGED <<holder, ttl, heard>>

\* Mutant: PEXPIRE without the owner check.
ServeRenewUnfenced(p, r) ==
    /\ request[p] = "renew"
    /\ IF holder # NoPod
         THEN /\ ttl' = LeaseTtl
              /\ heard' = [heard EXCEPT ![p] = 0]
              /\ \/ r = "renewed"
                 \/ May("error") /\ r = "error"
         ELSE r = "lost" /\ UNCHANGED <<ttl, heard>>
    /\ UNCHANGED holder

\* RENEW_LUA
ServeRenew(p, r) ==
    /\ request[p] = "renew"
    /\ IF holder = p
         THEN /\ ttl' = LeaseTtl
              /\ heard' = [heard EXCEPT ![p] = 0]
              /\ \/ r = "renewed"
                 \/ May("error") /\ r = "error"
         ELSE r = "lost" /\ UNCHANGED <<ttl, heard>>
    /\ UNCHANGED holder

\* Redis executes the loop's command, or rejects it unexecuted.
Serve(p) ==
    /\ \E r \in Replies :
         /\ \/ ServeAcquire(p, r)
            \/ ServeRenew(p, r)
            \/ /\ May("error")
               /\ request[p] \in OnWire
               /\ r = "error"
               /\ UNCHANGED <<redis, heard>>
         /\ Reply(p, r)
    /\ UNCHANGED <<client, leader, stopped, pc, nap, age, release, calm, late>>

\* Mutant: DEL without the owner check.
ServeReleaseUnfenced(p) ==
    /\ release[p] = "sent"
    /\ request[p] \notin OnWire
    /\ release' = [release EXCEPT ![p] = "done"]
    /\ leader' = [leader EXCEPT ![p] = FALSE]
    /\ \/ holder' = NoPod /\ ttl' = 0
       \/ May("error") /\ UNCHANGED redis
    /\ UNCHANGED <<client, stopped, pc, nap, age, request, calm, heard, late>>

\* RELEASE_LUA, after everything sent before it; then this.leader = false.
ServeRelease(p) ==
    /\ release[p] = "sent"
    /\ request[p] \notin OnWire
    /\ release' = [release EXCEPT ![p] = "done"]
    /\ leader' = [leader EXCEPT ![p] = FALSE]
    /\ \/ IF holder = p THEN holder' = NoPod /\ ttl' = 0 ELSE UNCHANGED redis
       \/ May("error") /\ UNCHANGED redis
    /\ UNCHANGED <<client, stopped, pc, nap, age, request, calm, heard, late>>

\* A failover to a replica that had not seen the key.
Failover ==
    /\ May("failover")
    /\ holder # NoPod
    /\ holder' = NoPod
    /\ ttl' = 0
    /\ UNCHANGED <<client, leader, stopped, pc, nap, age, request, release,
                   calm, heard, late>>

-----------------------------------------------------------------------------
(* The pod's life                                                          *)

\* stop(): a sleeping loop never resumes; without a client nothing is sent.
Stop(p) ==
    /\ May("stop")
    /\ pc[p] # "down"
    /\ ~stopped[p]
    /\ stopped' = [stopped EXCEPT ![p] = TRUE]
    /\ pc' = [pc EXCEPT ![p] = IF @ = "asleep" THEN "ended" ELSE @]
    /\ release' = [release EXCEPT ![p] = IF client[p] THEN "sent" ELSE "done"]
    /\ leader' = [leader EXCEPT ![p] = client[p] /\ @]
    /\ UNCHANGED <<redis, client, nap, age, request, calm, heard, late>>

\* The process dies; what it had sent may still reach Redis.
Crash(p) ==
    /\ May("crash")
    /\ pc[p] # "down"
    /\ pc' = [pc EXCEPT ![p] = "down"]
    /\ leader' = [leader EXCEPT ![p] = FALSE]
    /\ request' = [request EXCEPT ![p] = IF @ \in OnWire THEN @ ELSE "none"]
    /\ UNCHANGED <<redis, client, stopped, nap, age, release, calm, heard, late>>

\* A new process under the same WORKER_ID.
Restart(p) ==
    /\ ~calm
    /\ pc[p] = "down" \/ (pc[p] = "ended" /\ release[p] = "done")
    /\ request[p] = "none"
    /\ release[p] # "sent"
    /\ Goto(p, "connect", 0)
    /\ client' = [client EXCEPT ![p] = FALSE]
    /\ leader' = [leader EXCEPT ![p] = FALSE]
    /\ stopped' = [stopped EXCEPT ![p] = FALSE]
    /\ release' = [release EXCEPT ![p] = "none"]
    /\ UNCHANGED <<redis, request, calm, heard, late>>

-----------------------------------------------------------------------------
(* Time                                                                    *)

Late(p) ==
    \/ pc[p] = "asked" /\ age[p] >= MaxRtt
    \/ pc[p] = "asleep" /\ age[p] >= nap[p] + MaxLag

Older(n, cap) == IF n < cap THEN n + 1 ELSE n

Tick ==
    /\ May("pause") \/ \A p \in Pods : ~Late(p)
    /\ ttl' = IF ttl = 0 THEN 0 ELSE ttl - 1
    /\ holder' = IF ttl <= 1 THEN NoPod ELSE holder
    /\ age' = [p \in Pods |-> IF pc[p] \in {"asked", "asleep"}
                               THEN Older(age[p], MaxAge) ELSE age[p]]
    /\ heard' = [p \in Pods |-> Older(heard[p], LeaseTtl)]
    /\ late' = (late \/ \E p \in Pods : Late(p))
    /\ UNCHANGED <<client, leader, stopped, pc, nap, request, release, calm>>

CalmDown == ~calm /\ calm' = TRUE
            /\ UNCHANGED <<holder, ttl, client, leader, stopped, pc, nap, age,
                           request, release, heard, late>>

PodStep(p) == Connect(p) \/ Process(p) \/ Wake(p) \/ Serve(p) \/ ServeRelease(p)

Next ==
    \/ \E p \in Pods : PodStep(p) \/ Stop(p) \/ Crash(p) \/ Restart(p)
    \/ Failover
    \/ Tick
    \/ CalmDown

Spec == Init /\ [][Next]_vars

\* Time passes, Redis answers, and timers and replies reach the event loop.
Fairness == WF_vars(Tick) /\ \A p \in Pods : WF_vars(PodStep(p))

FairSpec == Spec /\ Fairness

-----------------------------------------------------------------------------
(* Properties                                                              *)

Believers == {p \in Pods : IsLeader(p)}

\* Whoever leads, until a pod has missed its timing; nobody from then on.
Leads == IF late THEN {} ELSE Believers

Leader == INSTANCE Leadership WITH believers <- Leads

\* For as long as no pod has missed its timing, and short of Redis losing the
\* key, the election is the ideal one: nobody starts to lead before the last
\* leader has stopped, whatever replies are lost and whichever pods crash,
\* stop or restart.  A late pod ends the comparison: nobody is said to lead.
OneAtATime == Leader!Spec

\* Split brain is silence: a pod that leads without holding the lease has had
\* no confirmation from Redis for a whole TTL, however long it was paused.
DelusionIsSilence ==
    \A p \in Pods : IsLeader(p) /\ holder # p => heard[p] = LeaseTtl

\* Fencing: a lease ends by expiry or by its owner's release and is prolonged
\* by its owner's commands, never by another pod's, however late they arrive.
Fenced ==
    [][/\ holder' # holder /\ holder # NoPod =>
            \/ ttl = 1 /\ holder' = NoPod
            \/ release[holder] = "sent" /\ release'[holder] = "done"
       /\ ttl' > ttl => request[holder'] \in OnWire
                         /\ request'[holder'] # request[holder']]_vars

\* Failover: once the faults end, a living pod leads, alone and for good.
Reelected ==
    <>[](calm /\ (\E p \in Pods : pc[p] # "down" /\ ~stopped[p])
            => \E p \in Pods : Believers = {p})

=============================================================================
