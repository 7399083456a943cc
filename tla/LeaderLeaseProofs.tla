------------------------- MODULE LeaderLeaseProofs -------------------------
(***************************************************************************)
(* Proofs about LeaderLease, for any set of pods and any intervals the     *)
(* constructor accepts.                                                    *)
(***************************************************************************)
EXTENDS LeaderLease, TLAPS

\* Where the loop stands, and what it then knows.
Shape ==
    \A p \in Pods :
        /\ release[p] = "sent" => stopped[p]
        /\ leader[p] => client[p]
        /\ pc[p] = "connect" => ~client[p]
        /\ pc[p] = "asked" => client[p]
        /\ pc[p] = "ended" => stopped[p]
        /\ pc[p] = "down" => ~leader[p]
        /\ request[p] \in Replies => pc[p] = "asked"
        /\ IsLeader(p) /\ pc[p] = "asked" =>
              request[p] \in {"renew", "renewed", "lost", "error"}
        /\ IsLeader(p) /\ pc[p] = "asleep" => nap[p] = RenewInterval

\* A leader, or a pod about to become one.
Claims(p) == ~stopped[p] /\ (leader[p] \/ request[p] = "granted")

\* The key expires exactly LeaseTtl after Redis last confirmed it.
Confirmed ==
    /\ holder = NoPod <=> ttl = 0
    /\ \A p \in Pods : Claims(p) /\ heard[p] < LeaseTtl
                       => holder = p /\ ttl = LeaseTtl - heard[p]

\* Until a pod is late, a leader's last confirmation is recent.
Timely ==
    \A p \in Pods :
        /\ pc[p] = "asked" => age[p] <= MaxRtt
        /\ pc[p] = "asleep" => age[p] <= nap[p] + MaxLag
        /\ ~stopped[p] /\ request[p] = "granted" => heard[p] <= age[p]
        /\ IsLeader(p) /\ pc[p] = "asked" =>
              IF request[p] = "renewed" THEN heard[p] <= age[p]
              ELSE heard[p] <= MaxRtt + RenewInterval + MaxLag + age[p]
        /\ IsLeader(p) /\ pc[p] = "asleep" => heard[p] <= MaxRtt + age[p]

-----------------------------------------------------------------------------
(* Types                                                                   *)

\* Every step keeps the variables in their types.
LEMMA TypeStep ==
  ASSUME TypeOK, [Next]_vars
  PROVE  TypeOK'
<1> USE LeaseConstants DEF redis, OnWire, Replies, MaxAge
<1>1. ASSUME NEW p \in Pods, Connect(p) \/ Wake(p)
      PROVE  TypeOK'
  <2>1. \E place \in {"connect", "asked", "asleep", "ended"},
           i \in {0, RenewInterval, PollInterval} : Goto(p, place, i)
    BY <1>1 DEF Connect, Wake, Sleep, Ask
  <2>2. request' \in [Pods -> {"none"} \cup OnWire \cup Replies]
    BY <1>1 DEF Connect, Wake, Sleep, Ask, TypeOK
  <2>3. client' \in [Pods -> BOOLEAN]
    BY <1>1 DEF Connect, Wake, TypeOK
  <2>4. pc' \in [Pods -> {"connect", "asked", "asleep", "ended", "down"}]
        /\ nap' \in [Pods -> {0, RenewInterval, PollInterval}]
        /\ age' \in [Pods -> 0 .. MaxAge]
    BY <2>1 DEF Goto, TypeOK
  <2>5. QED
    BY <1>1, <2>2, <2>3, <2>4 DEF Connect, Wake, TypeOK
<1>2. ASSUME NEW p \in Pods, Process(p)
      PROVE  TypeOK'
  <2>1. leader' \in [Pods -> BOOLEAN]
    BY <1>2 DEF Process, TypeOK
  <2>2. \E place \in {"asked", "asleep", "ended"}, i \in {0, RenewInterval, PollInterval} :
           Goto(p, place, i)
    BY <1>2 DEF Process, Sleep, Ask
  <2>3. \E r \in {"none"} \cup OnWire : request' = [request EXCEPT ![p] = r]
    BY <1>2 DEF Process, Sleep, Ask
  <2>4. QED
    BY <1>2, <2>1, <2>2, <2>3 DEF Process, Goto, TypeOK
<1>3. ASSUME NEW p \in Pods, Serve(p)
      PROVE  TypeOK'
  <2>1. request' \in [Pods -> {"none"} \cup OnWire \cup Replies]
    BY <1>3 DEF Serve, Reply, TypeOK
  <2>2. /\ holder' \in Pods \cup {NoPod}
        /\ ttl' \in 0 .. LeaseTtl
        /\ heard' \in [Pods -> 0 .. LeaseTtl]
    BY <1>3 DEF Serve, ServeAcquire, ServeRenew, TypeOK
  <2>3. QED
    BY <1>3, <2>1, <2>2 DEF Serve, TypeOK
<1>4. ASSUME NEW p \in Pods, ServeRelease(p)
      PROVE  TypeOK'
  BY <1>4 DEF ServeRelease, TypeOK
<1>5. ASSUME NEW p \in Pods, Stop(p) \/ Crash(p)
      PROVE  TypeOK'
  BY <1>5 DEF Stop, Crash, TypeOK
<1>6. ASSUME NEW p \in Pods, Restart(p)
      PROVE  TypeOK'
  BY <1>6 DEF Restart, Goto, TypeOK
<1>7. CASE Failover \/ CalmDown
  <2>1. CASE Failover
    BY <2>1 DEF Failover, TypeOK
  <2>2. CASE CalmDown
    <3>1. calm' \in BOOLEAN
      BY <2>2 DEF CalmDown
    <3>2. QED
      BY <2>2, <3>1 DEF CalmDown, TypeOK
  <2>3. QED
    BY <1>7, <2>1, <2>2
<1>8. CASE Tick
  <2>1. late' \in BOOLEAN
    BY <1>8 DEF Tick
  <2>2. QED
    BY <1>8, <2>1 DEF Tick, Older, TypeOK
<1>9. CASE UNCHANGED vars
  BY <1>9 DEF vars, TypeOK
<1>10. QED
  BY <1>1, <1>2, <1>3, <1>4, <1>5, <1>6, <1>7, <1>8, <1>9 DEF Next, PodStep

-----------------------------------------------------------------------------
(* The loop and the lease                                                  *)

\* Every step keeps the shape of the loop.
LEMMA ShapeStep ==
  ASSUME TypeOK, Shape, [Next]_vars
  PROVE  Shape'
<1> USE LeaseConstants DEF OnWire, Replies, IsLeader
<1>1. ASSUME NEW p \in Pods, Connect(p)
      PROVE  Shape'
  BY <1>1 DEF Connect, Sleep, Ask, Goto, TypeOK, Shape
<1>2. ASSUME NEW p \in Pods, Process(p)
      PROVE  Shape'
  <2>1. CASE request[p] = "granted"
    <3>1. leader' = [leader EXCEPT ![p] = TRUE]
      BY <1>2, <2>1 DEF Process
    <3>2. client[p] /\ pc[p] # "connect"
      BY <1>2, <2>1 DEF Process, Shape
    <3>3. CASE stopped[p]
      <4>1. Goto(p, "ended", 0) /\ request' = [request EXCEPT ![p] = "none"]
        BY <1>2, <2>1, <3>3 DEF Process
      <4>2. QED
        BY <1>2, <3>1, <3>2, <3>3, <4>1 DEF Process, Goto, TypeOK, Shape
    <3>4. CASE ~stopped[p]
      <4>1. Goto(p, "asked", 0) /\ request' = [request EXCEPT ![p] = "renew"]
        BY <1>2, <2>1, <3>4 DEF Process, Ask
      <4>2. QED
        BY <1>2, <3>1, <3>2, <3>4, <4>1 DEF Process, Goto, TypeOK, Shape
    <3>5. QED
      BY <3>3, <3>4
  <2>2. CASE request[p] = "renewed"
    BY <1>2, <2>2 DEF Process, Sleep, Ask, Goto, TypeOK, Shape
  <2>3. CASE request[p] = "taken"
    BY <1>2, <2>3 DEF Process, Sleep, Ask, Goto, TypeOK, Shape
  <2>4. CASE request[p] \in {"lost", "error"}
    BY <1>2, <2>4 DEF Process, Sleep, Ask, Goto, TypeOK, Shape
  <2>5. QED
    BY <1>2, <2>1, <2>2, <2>3, <2>4 DEF Process
<1>3. ASSUME NEW p \in Pods, Wake(p)
      PROVE  Shape'
  BY <1>3 DEF Wake, Ask, Goto, TypeOK, Shape
<1>4. ASSUME NEW p \in Pods, Serve(p)
      PROVE  Shape'
  BY <1>4 DEF Serve, ServeAcquire, ServeRenew, Reply, TypeOK, Shape
<1>5. ASSUME NEW p \in Pods, ServeRelease(p)
      PROVE  Shape'
  BY <1>5 DEF ServeRelease, TypeOK, Shape
<1>6. ASSUME NEW p \in Pods, Stop(p) \/ Crash(p)
      PROVE  Shape'
  BY <1>6 DEF Stop, Crash, TypeOK, Shape
<1>7. ASSUME NEW p \in Pods, Restart(p)
      PROVE  Shape'
  BY <1>7 DEF Restart, Goto, TypeOK, Shape
<1>8. CASE Failover \/ CalmDown \/ Tick
  BY <1>8 DEF Failover, CalmDown, Tick, Shape
<1>9. CASE UNCHANGED vars
  BY <1>9 DEF vars, Shape
<1>10. QED
  BY <1>1, <1>2, <1>3, <1>4, <1>5, <1>6, <1>7, <1>8, <1>9 DEF Next, PodStep

\* Every step but a loss of the key keeps leases and confirmations in step.
LEMMA ConfirmedStep ==
  ASSUME "failover" \notin Faults, TypeOK, Shape, Confirmed, [Next]_vars
  PROVE  Confirmed'
<1> USE LeaseConstants DEF redis, OnWire, Replies, Claims
<1>1. ASSUME NEW p \in Pods, Connect(p) \/ Wake(p)
      PROVE  Confirmed'
  BY <1>1 DEF Connect, Wake, Sleep, Ask, Goto, TypeOK, Confirmed
<1>2. ASSUME NEW p \in Pods, Process(p)
      PROVE  Confirmed'
  <2>1. \A q \in Pods : Claims(q)' => Claims(q)
    BY <1>2 DEF Process, Sleep, Ask, Goto, TypeOK
  <2>2. QED
    BY <1>2, <2>1 DEF Process, Confirmed, TypeOK
<1>3. ASSUME NEW p \in Pods, Serve(p)
      PROVE  Confirmed'
  <2>1. PICK r \in Replies :
          /\ \/ ServeAcquire(p, r)
             \/ ServeRenew(p, r)
             \/ request[p] \in OnWire /\ r = "error" /\ UNCHANGED <<redis, heard>>
          /\ Reply(p, r)
    BY <1>3 DEF Serve
  <2>2. \A q \in Pods \ {p} : Claims(q)' => Claims(q)
    BY <1>3, <2>1 DEF Serve, Reply, TypeOK
  <2>3. CASE ServeAcquire(p, r) /\ holder = NoPod
    BY <1>3, <2>1, <2>2, <2>3 DEF Serve, ServeAcquire, Reply, TypeOK, Confirmed
  <2>4. CASE ServeAcquire(p, r) /\ holder # NoPod
    BY <1>3, <2>1, <2>2, <2>4 DEF Serve, ServeAcquire, Reply, TypeOK, Confirmed
  <2>5. CASE ServeRenew(p, r) /\ holder = p
    BY <1>3, <2>1, <2>2, <2>5 DEF Serve, ServeRenew, Reply, TypeOK, Confirmed
  <2>6. CASE ServeRenew(p, r) /\ holder # p
    BY <1>3, <2>1, <2>2, <2>6 DEF Serve, ServeRenew, Reply, TypeOK, Confirmed
  <2>7. CASE r = "error" /\ UNCHANGED <<redis, heard>>
    BY <1>3, <2>1, <2>2, <2>7 DEF Serve, Reply, TypeOK, Confirmed
  <2>8. QED
    BY <2>1, <2>3, <2>4, <2>5, <2>6, <2>7
<1>4. ASSUME NEW p \in Pods, ServeRelease(p)
      PROVE  Confirmed'
  BY <1>4 DEF ServeRelease, TypeOK, Shape, Confirmed
<1>5. ASSUME NEW p \in Pods, Stop(p) \/ Crash(p)
      PROVE  Confirmed'
  BY <1>5 DEF Stop, Crash, TypeOK, Confirmed
<1>6. ASSUME NEW p \in Pods, Restart(p)
      PROVE  Confirmed'
  BY <1>6 DEF Restart, Goto, TypeOK, Confirmed
<1>7. CASE Tick
  BY <1>7 DEF Tick, Older, TypeOK, Confirmed
<1>8. CASE CalmDown \/ Failover
  BY <1>8 DEF CalmDown, Failover, May, Confirmed
<1>9. CASE UNCHANGED vars
  BY <1>9 DEF vars, Confirmed
<1>10. QED
  BY <1>1, <1>2, <1>3, <1>4, <1>5, <1>6, <1>7, <1>8, <1>9 DEF Next, PodStep

-----------------------------------------------------------------------------
(* What holds however long pods pause                                      *)

\* The initial state satisfies all parts.
LEMMA InitParts == Init => TypeOK /\ Shape /\ Confirmed /\ Timely
<1> SUFFICES ASSUME Init PROVE TypeOK /\ Shape /\ Confirmed /\ Timely
  OBVIOUS
<1> USE LeaseConstants DEF Init
<1>1. TypeOK
  <2>1. MaxAge \in Nat /\ 0 \in 0 .. MaxAge
    BY DEF MaxAge
  <2>2. age \in [Pods -> 0 .. MaxAge] /\ heard \in [Pods -> 0 .. LeaseTtl]
    BY <2>1
  <2>3. calm \in BOOLEAN /\ late \in BOOLEAN
    OBVIOUS
  <2>4. QED
    BY <2>2, <2>3 DEF TypeOK
<1>2. Shape
  BY DEF Shape, IsLeader, Replies
<1>3. Confirmed
  BY DEF Confirmed, Claims
<1>4. Timely
  BY DEF Timely, IsLeader
<1>5. QED
  BY <1>1, <1>2, <1>3, <1>4

\* The variables keep their types, whatever fails.
THEOREM TypeCorrect == Spec => []TypeOK
<1>1. Init => TypeOK
  BY InitParts
<1>2. TypeOK /\ [Next]_vars => TypeOK'
  BY TypeStep
<1>3. QED
  BY <1>1, <1>2, PTL DEF Spec

\* Loop and lease agree as long as Redis does not lose the key.
LEMMA PausedInvariant ==
  ASSUME "failover" \notin Faults
  PROVE  Spec => [](TypeOK /\ Shape /\ Confirmed)
<1>1. Init => TypeOK /\ Shape /\ Confirmed
  BY InitParts
<1>2. TypeOK /\ Shape /\ Confirmed /\ [Next]_vars => (TypeOK /\ Shape /\ Confirmed)'
  BY TypeStep, ShapeStep, ConfirmedStep
<1>3. QED
  BY <1>1, <1>2, PTL DEF Spec

\* Split brain needs silence: a pod that leads without the lease has heard
\* nothing from Redis for LeaseTtl, for any number of pods and any pauses.
THEOREM Silence ==
  ASSUME "failover" \notin Faults
  PROVE  Spec => []DelusionIsSilence
<1>1. TypeOK /\ Shape /\ Confirmed => DelusionIsSilence
  BY LeaseConstants DEF TypeOK, Confirmed, Claims, IsLeader, DelusionIsSilence
<1>2. QED
  BY <1>1, PausedInvariant, PTL

\* A step that changes the key's owner is an expiry or the owner's release,
\* and one that prolongs the lease serves its owner's command.
LEMMA FencedStep ==
  ASSUME "failover" \notin Faults, TypeOK, Shape, Confirmed, [Next]_vars
  PROVE  /\ holder' # holder /\ holder # NoPod =>
              \/ ttl = 1 /\ holder' = NoPod
              \/ release[holder] = "sent" /\ release'[holder] = "done"
         /\ ttl' > ttl => request[holder'] \in OnWire
                          /\ request'[holder'] # request[holder']
<1> DEFINE Owned ==
      /\ holder' # holder /\ holder # NoPod =>
           \/ ttl = 1 /\ holder' = NoPod
           \/ release[holder] = "sent" /\ release'[holder] = "done"
      /\ ttl' > ttl => request[holder'] \in OnWire
                       /\ request'[holder'] # request[holder']
<1> USE LeaseConstants DEF redis, OnWire, Replies
<1>1. ASSUME UNCHANGED redis
      PROVE  Owned
  BY <1>1 DEF TypeOK
<1>2. ASSUME NEW p \in Pods, Serve(p)
      PROVE  Owned
  <2>1. PICK r \in Replies :
          /\ \/ ServeAcquire(p, r)
             \/ ServeRenew(p, r)
             \/ UNCHANGED redis
          /\ Reply(p, r)
    BY <1>2 DEF Serve
  <2>2. request[p] \in OnWire => request'[p] # request[p]
    BY <2>1 DEF Reply, TypeOK
  <2>3. CASE ServeAcquire(p, r)
    BY <2>2, <2>3 DEF ServeAcquire, TypeOK
  <2>4. CASE ServeRenew(p, r)
    BY <2>2, <2>4 DEF ServeRenew, TypeOK
  <2>5. QED
    BY <1>1, <2>1, <2>3, <2>4
<1>3. ASSUME NEW p \in Pods, ServeRelease(p)
      PROVE  Owned
  BY <1>3 DEF ServeRelease, TypeOK
<1>4. CASE Tick
  BY <1>4 DEF Tick, TypeOK, Confirmed
<1>5. CASE Failover
  BY <1>5 DEF Failover, May
<1>6. QED
  BY <1>1, <1>2, <1>3, <1>4, <1>5
     DEF Next, PodStep, Connect, Process, Wake, Stop, Crash, Restart, CalmDown, vars

\* RENEW_LUA and RELEASE_LUA fence: whatever arrives late, of any number of
\* pods, ends or prolongs nobody's lease but the sender's own.
THEOREM LeaseFenced ==
  ASSUME "failover" \notin Faults
  PROVE  Spec => Fenced
<1>1. TypeOK /\ Shape /\ Confirmed /\ [Next]_vars =>
        [/\ holder' # holder /\ holder # NoPod =>
              \/ ttl = 1 /\ holder' = NoPod
              \/ release[holder] = "sent" /\ release'[holder] = "done"
         /\ ttl' > ttl => request[holder'] \in OnWire
                           /\ request'[holder'] # request[holder']]_vars
  BY FencedStep
<1>2. QED
  BY <1>1, PausedInvariant, PTL DEF Spec, Fenced

-----------------------------------------------------------------------------
(* What holds when pods are timely                                         *)

\* A timely claim is a fresh one.
LEMMA TimelyIsFresh ==
  ASSUME TypeOK, Shape, Timely, NEW p \in Pods, Claims(p)
  PROVE  heard[p] < LeaseTtl
<1> USE LeaseConstants, TimelyConstants DEF Claims, IsLeader
<1>1. CASE request[p] = "granted"
  BY <1>1 DEF TypeOK, Shape, Timely, Replies
<1>2. CASE leader[p] /\ request[p] # "granted"
  <2>1. pc[p] \in {"asked", "asleep"}
    BY <1>2 DEF TypeOK, Shape
  <2>2. CASE pc[p] = "asked"
    BY <1>2, <2>2 DEF TypeOK, Timely
  <2>3. CASE pc[p] = "asleep"
    BY <1>2, <2>3 DEF TypeOK, Shape, Timely
  <2>4. QED
    BY <2>1, <2>2, <2>3
<1>3. QED
  BY <1>1, <1>2

\* Every step that leaves the pods timely keeps confirmations recent.
LEMMA TimelyStep ==
  ASSUME TypeOK, Shape, Timely, [Next]_vars, ~late'
  PROVE  Timely'
<1> USE LeaseConstants DEF redis, OnWire, Replies, IsLeader
<1>1. ASSUME NEW p \in Pods, Connect(p)
      PROVE  Timely'
  BY <1>1 DEF Connect, Sleep, Ask, Goto, TypeOK, Shape, Timely
<1>2. ASSUME NEW p \in Pods, Process(p)
      PROVE  Timely'
  <2>1. CASE request[p] = "granted" /\ stopped[p]
    BY <1>2, <2>1 DEF Process, Goto, TypeOK, Timely
  <2>2. CASE request[p] = "granted" /\ ~stopped[p]
    BY <1>2, <2>2 DEF Process, Ask, Goto, TypeOK, Timely
  <2>3. CASE request[p] = "renewed"
    BY <1>2, <2>3 DEF Process, Sleep, Goto, TypeOK, Shape, Timely
  <2>4. CASE request[p] = "taken"
    BY <1>2, <2>4 DEF Process, Sleep, Goto, TypeOK, Shape, Timely
  <2>5. CASE request[p] \in {"lost", "error"}
    BY <1>2, <2>5 DEF Process, Sleep, Goto, TypeOK, Timely
  <2>6. QED
    BY <1>2, <2>1, <2>2, <2>3, <2>4, <2>5 DEF Process
<1>3. ASSUME NEW p \in Pods, Wake(p)
      PROVE  Timely'
  BY <1>3 DEF Wake, Ask, Goto, TypeOK, Shape, Timely
<1>4. ASSUME NEW p \in Pods, Serve(p)
      PROVE  Timely'
  BY <1>4 DEF Serve, ServeAcquire, ServeRenew, Reply, TypeOK, Shape, Timely
<1>5. ASSUME NEW p \in Pods, ServeRelease(p)
      PROVE  Timely'
  BY <1>5 DEF ServeRelease, TypeOK, Timely
<1>6. ASSUME NEW p \in Pods, Stop(p) \/ Crash(p)
      PROVE  Timely'
  BY <1>6 DEF Stop, Crash, TypeOK, Timely
<1>7. ASSUME NEW p \in Pods, Restart(p)
      PROVE  Timely'
  BY <1>7 DEF Restart, Goto, TypeOK, Timely
<1>8. CASE Tick
  <2>1. \A p \in Pods : ~Late(p)
    BY <1>8 DEF Tick
  <2>2. QED
    BY <1>8, <2>1 DEF Tick, Late, Older, MaxAge, TypeOK, Shape, Timely
<1>9. CASE CalmDown \/ Failover
  BY <1>9 DEF CalmDown, Failover, Timely
<1>10. CASE UNCHANGED vars
  BY <1>10 DEF vars, Timely
<1>11. QED
  BY <1>1, <1>2, <1>3, <1>4, <1>5, <1>6, <1>7, <1>8, <1>9, <1>10
     DEF Next, PodStep

\* Lateness is for good.
LEMMA LateStays ==
  ASSUME [Next]_vars, late
  PROVE  late'
BY DEF Next, PodStep, Connect, Process, Wake, Serve, ServeRelease, Stop, Crash,
       Restart, Failover, Tick, CalmDown, vars

TimelyInv == TypeOK /\ Shape /\ Confirmed /\ (~late => Timely)

\* Two claims cannot coexist: each would hold the key.
LEMMA OneClaim ==
  ASSUME TimelyInv, ~late, NEW p \in Pods, NEW q \in Pods, Claims(p), Claims(q)
  PROVE  p = q
BY TimelyIsFresh DEF TimelyInv, Confirmed

\* While nobody is late, every step is a step of the ideal election, or none.
LEMMA ElectionStep ==
  ASSUME TimelyInv, [Next]_vars, ~late, ~late'
  PROVE  [Leader!Next]_Leads
<1> USE DEF TimelyInv, Leader!Next, Leader!Gain, Leader!Lose, Leads
<1>1. ASSUME NEW p \in Pods, Process(p), request[p] = "granted", ~stopped[p]
      PROVE  [Leader!Next]_Leads
  <2>1. Believers' = Believers \cup {p}
    BY <1>1 DEF Process, Believers, IsLeader, TypeOK
  <2>2. Believers \subseteq {p}
    BY <1>1, OneClaim DEF Believers, IsLeader, Claims
  <2>3. QED
    BY <2>1, <2>2
<1>2. ASSUME NEW p \in Pods,
             \/ Process(p) /\ (request[p] # "granted" \/ stopped[p])
             \/ ServeRelease(p) \/ Stop(p) \/ Crash(p) \/ Restart(p)
      PROVE  [Leader!Next]_Leads
  <2>1. Believers' = Believers \/ Believers' = Believers \ {p}
    <3>1. \A q \in Pods \ {p} : IsLeader(q)' = IsLeader(q)
      BY <1>2 DEF Process, ServeRelease, Stop, Crash, Restart, IsLeader, TypeOK
    <3>2. IsLeader(p)' => IsLeader(p)
      BY <1>2 DEF Process, ServeRelease, Stop, Crash, Restart, Shape, IsLeader, TypeOK
    <3>3. QED
      BY <3>1, <3>2 DEF Believers
  <2>2. QED
    BY <2>1
<1>3. ASSUME UNCHANGED <<leader, stopped>>
      PROVE  [Leader!Next]_Leads
  BY <1>3 DEF Believers, IsLeader
<1>4. QED
  BY <1>1, <1>2, <1>3
     DEF Next, PodStep, Connect, Wake, Serve, Failover, Tick, CalmDown, vars

\* The step in which a pod becomes late ends the only leadership there was.
LEMMA LatenessStep ==
  ASSUME TimelyInv, [Next]_vars, ~late, late'
  PROVE  [Leader!Next]_Leads
<1>1. \A p, q \in Believers : p = q
  BY OneClaim DEF Believers, IsLeader, Claims
<1>2. Leads = Believers /\ Leads' = {}
  BY DEF Leads
<1>3. CASE Believers = {}
  BY <1>2, <1>3
<1>4. CASE Believers # {}
  <2>1. PICK p \in Pods : Believers = {p}
    BY <1>1, <1>4 DEF Believers
  <2>2. QED
    BY <1>2, <2>1 DEF Leader!Next, Leader!Lose
<1>5. QED
  BY <1>3, <1>4

\* Until a pod is late, and with a Redis that keeps the key, the lease
\* implements the ideal election: at most one leader, and no start before the
\* last one's end.
THEOREM Implements ==
  ASSUME "failover" \notin Faults
  PROVE  Spec => OneAtATime
<1>1. Init => TimelyInv
  BY InitParts DEF TimelyInv
<1>2. TimelyInv /\ [Next]_vars => TimelyInv'
  BY TypeStep, ShapeStep, ConfirmedStep, TimelyStep, LateStays DEF TimelyInv
<1>3. Init => Leader!Init
  BY DEF Init, Leader!Init, Leads, Believers, IsLeader
<1>4. TimelyInv /\ [Next]_vars => [Leader!Next]_Leads
  <2>1. ASSUME late, [Next]_vars PROVE UNCHANGED Leads
    BY <2>1, LateStays DEF Leads
  <2>2. QED
    BY <2>1, ElectionStep, LatenessStep
<1>5. QED
  BY <1>1, <1>2, <1>3, <1>4, PTL DEF Spec, OneAtATime, Leader!Spec
=============================================================================
