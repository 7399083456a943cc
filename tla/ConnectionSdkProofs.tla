------------------------ MODULE ConnectionSdkProofs ------------------------
(***************************************************************************)
(* Proofs about packages/connection-sdk: the cache of clients              *)
(* (ConnectionClients) and the cache of tokens (TokenSource).  Both are    *)
(* single-flight caches, and both are right because of what holds of a     *)
(* creation, or a mint, between the moment it takes the slot and the       *)
(* moment it settles: that is what the inductive invariants state.         *)
(***************************************************************************)
EXTENDS ConnectionClients, TokenSource, FiniteSetTheorems, TLAPS

----------------------------------------------------------------------------
(* The cache of clients.                                                   *)

\* A process's cache and slot against its clients: a client under way holds
\* its slot and nothing is cached beside it, and a waiter waits for the slot.
Pools ==
    /\ \A k \in ClientIds : k > created => client[k].state = "none"
    /\ \A k \in ClientIds : client[k].state = "creating" =>
         slot[client[k].home] = k /\ cached[client[k].home] = 0
    /\ \A p \in Processes : cached[p] # 0 => client[cached[p]].home = p
    /\ \A p \in Processes : slot[p] # 0 => client[slot[p]].home = p
    /\ \A u \in Probers : prober[u].pc = "waiting" =>
         prober[u].client # 0 /\ prober[u].client = slot[HomeOf(u)]
    /\ \A u \in Probers : prober[u].pc = "using" => prober[u].client # 0

\* As long as no admin request met an acquisition under way, whoever acquires
\* in the API process has read the row as it is, and a creation there was
\* started from it and has a waiter (which the next admin request would meet).
Current ==
    ~crossed =>
      /\ \A u \in ApiProbers : prober[u].pc \in {"resolved", "waiting"} =>
           prober[u].rev = connection.rev /\ ~connection.deleted
      /\ slot["api"] # 0 =>
           /\ client[slot["api"]].rev = connection.rev
           /\ \E u \in ApiProbers : prober[u].pc = "waiting"

\* The types, a client's state apart from where it is cached.
ClientRecord ==
    [state : {"none", "creating", "live", "failed", "disposed"},
     rev : 0..(MaxUpdates + 1), home : Processes]

ProberRecord ==
    [pc : {"idle", "resolved", "waiting", "using"},
     rev : 0..(MaxUpdates + 1), client : 0..MaxClients]

ClientTypes ==
    /\ connection \in [rev : 1..(MaxUpdates + 1), archived : BOOLEAN, deleted : BOOLEAN]
    /\ admin \in {"idle", "close"}
    /\ client \in [ClientIds -> ClientRecord]
    /\ cached \in [Processes -> 0..MaxClients]
    /\ slot \in [Processes -> 0..created]
    /\ created \in 0..MaxClients
    /\ prober \in [Probers -> ProberRecord]
    /\ probed \in 0..(MaxUpdates + 1)

CachedIsLive == \A p \in Processes : cached[p] # 0 => client[cached[p]].state = "live"

ClientsInv == ClientTypes /\ CachedIsLive /\ NoneLeaks /\ SlotIsAlive /\ Pools

LEMMA ClientsInvTypes == ClientsInv => ClientsTypeOK
<1> SUFFICES ASSUME ClientsInv PROVE ClientsTypeOK
  OBVIOUS
<1>1. ASSUME NEW p \in Processes
      PROVE  cached[p] \in {0} \cup {k \in ClientIds : client[k].state = "live"}
  BY ClientsAssumption DEF ClientsInv, ClientTypes, CachedIsLive, ClientIds
<1>2. cached \in [Processes -> {0} \cup {k \in ClientIds : client[k].state = "live"}]
  BY <1>1 DEF ClientsInv, ClientTypes
<1> QED
  BY <1>2 DEF ClientsInv, ClientTypes, ClientsTypeOK, ClientRecord, ProberRecord

LEMMA ClientsInitSafe == ClientsInit => ClientsInv /\ Current /\ UpdateTakesHold
  BY ClientsAssumption, SMTT(30)
     DEF ClientsInit, ClientsInv, ClientTypes, CachedIsLive, NoneLeaks, SlotIsAlive, Pools,
         Current, UpdateTakesHold, ClientIds, Processes, Probers, IdleProbe,
         ClientRecord, ProberRecord

\* The types: one step per action.
LEMMA ClientTypesStep ==
    ClientsInv /\ [ClientsNext]_clientVars => ClientTypes'
<1> SUFFICES ASSUME ClientsInv, [ClientsNext]_clientVars PROVE ClientTypes'
  OBVIOUS
<1>z. MaxUpdates \in Nat /\ MaxClients \in Nat
  BY ClientsAssumption
<1>t. ClientTypes
  BY DEF ClientsInv
<1>c. client \in [ClientIds -> ClientRecord]
  BY <1>t DEF ClientTypes
<1>a. cached \in [Processes -> 0..MaxClients]
  BY <1>t DEF ClientTypes
<1>n. created \in 0..MaxClients
  BY <1>t DEF ClientTypes
<1>s. slot \in [Processes -> 0..created]
  BY <1>t DEF ClientTypes
<1>p. prober \in [Probers -> ProberRecord]
  BY <1>t DEF ClientTypes
<1>h. \A u \in Probers : HomeOf(u) \in Processes
  BY DEF HomeOf, Processes
<1>i. IdleProbe \in ProberRecord
  BY <1>z DEF IdleProbe, ProberRecord
<1>q. ASSUME NEW u \in Probers, NEW st \in {"waiting", "using"}, NEW k \in 0..MaxClients
      PROVE  [prober[u] EXCEPT !.pc = st, !.client = k] \in ProberRecord
  BY <1>p DEF ProberRecord
<1>w. ASSUME NEW k \in ClientIds PROVE Proceed(k) \in [Probers -> ProberRecord]
  <2>1. ASSUME NEW u \in Probers PROVE [prober[u] EXCEPT !.pc = "using"] \in ProberRecord
    BY <1>p DEF ProberRecord
  <2> QED
    BY <1>p, <2>1 DEF Proceed
<1>e. ASSUME NEW k \in ClientIds, NEW st \in {"live", "failed", "disposed"}
      PROVE  [client[k] EXCEPT !.state = st] \in ClientRecord
  BY <1>c DEF ClientRecord
<1>1. CASE Update
  <2>1. PICK archived \in BOOLEAN :
          connection' = [connection EXCEPT !.rev = @ + 1, !.archived = archived]
    BY <1>1 DEF Update
  <2>2. connection.rev + 1 \in 1..(MaxUpdates + 1)
    BY <1>1, <1>t, <1>z DEF Update, ClientTypes
  <2>3. connection' \in [rev : 1..(MaxUpdates + 1), archived : BOOLEAN, deleted : BOOLEAN]
    BY <1>t, <2>1, <2>2 DEF ClientTypes
  <2> QED
    BY <1>1, <1>t, <2>3 DEF Update, ClientTypes
<1>2. CASE ArchiveConnection
  BY <1>2, <1>t DEF ArchiveConnection, ClientTypes
<1>3. CASE DropRow
  BY <1>3, <1>t DEF DropRow, ClientTypes
<1>4. CASE CloseClient
  <2>1. client' \in [ClientIds -> ClientRecord]
    BY <1>4, <1>c, <1>e DEF CloseClient
  <2>2. 0 \in 0..MaxClients
    BY <1>z
  <2>3. cached' \in [Processes -> 0..MaxClients]
    BY <1>4, <1>a, <2>2 DEF CloseClient
  <2> QED
    BY <1>4, <1>t, <2>1, <2>3 DEF CloseClient, ClientTypes
<1>5. ASSUME NEW u \in Probers, ResolveConnection(u) PROVE ClientTypes'
  <2>1. connection.rev \in 0..(MaxUpdates + 1)
    BY <1>t, <1>z DEF ClientTypes
  <2>2. [IdleProbe EXCEPT !.pc = "resolved", !.rev = connection.rev] \in ProberRecord
    BY <2>1, <1>i DEF ProberRecord
  <2>3. prober' \in [Probers -> ProberRecord]
    BY <1>5, <1>p, <2>2 DEF ResolveConnection
  <2> QED
    BY <1>5, <1>t, <2>3 DEF ResolveConnection, ClientTypes
<1>6. ASSUME NEW u \in Probers, AcquireCached(u) PROVE ClientTypes'
  <2>1. prober' \in [Probers -> ProberRecord]
    BY <1>6, <1>p, <1>q, <1>a, <1>h DEF AcquireCached, Use
  <2> QED
    BY <1>6, <1>t, <2>1 DEF AcquireCached, ClientTypes
<1>7. ASSUME NEW u \in Probers, AcquireFirst(u) PROVE ClientTypes'
  <2>1. created + 1 \in ClientIds /\ created + 1 \in 0..MaxClients
    BY <1>7, <1>n, <1>z DEF AcquireFirst, ClientIds
  <2>2. prober' \in [Probers -> ProberRecord]
    BY <1>7, <1>p, <1>q, <2>1 DEF AcquireFirst
  <2>3. [state |-> "creating", rev |-> prober[u].rev, home |-> HomeOf(u)] \in ClientRecord
    BY <1>h, <1>p DEF ClientRecord, ProberRecord
  <2>4. client' \in [ClientIds -> ClientRecord]
    BY <1>7, <1>c, <2>3 DEF AcquireFirst
  <2>5. \A q \in Processes : slot'[q] \in 0..(created + 1)
    BY <1>7, <1>s, <1>n, <1>h DEF AcquireFirst
  <2>6. slot' \in [Processes -> 0..(created + 1)]
    BY <1>7, <1>s, <2>5 DEF AcquireFirst
  <2> QED
    BY <1>7, <1>t, <2>1, <2>2, <2>4, <2>6 DEF AcquireFirst, ClientTypes
<1>8. ASSUME NEW u \in Probers, AcquireJoin(u) PROVE ClientTypes'
  <2>1. slot[HomeOf(u)] \in 0..MaxClients
    BY <1>h, <1>s, <1>n, <1>z
  <2>2. prober' \in [Probers -> ProberRecord]
    BY <1>8, <1>p, <1>q, <2>1 DEF AcquireJoin
  <2> QED
    BY <1>8, <1>t, <2>2 DEF AcquireJoin, ClientTypes
<1>9. ASSUME NEW u \in Probers, RecordProbe(u) PROVE ClientTypes'
  <2>1. prober[u].client \in ClientIds
    BY <1>9, <1>p, <1>z DEF RecordProbe, ClientsInv, Pools, ProberRecord, ClientIds
  <2>2. client[prober[u].client].rev \in 0..(MaxUpdates + 1)
    BY <2>1, <1>c DEF ClientRecord
  <2>3. probed' \in 0..(MaxUpdates + 1)
    BY <1>9, <1>t, <2>2 DEF RecordProbe, ClientTypes
  <2>4. prober' \in [Probers -> ProberRecord]
    BY <1>9, <1>p, <1>i DEF RecordProbe
  <2> QED
    BY <1>9, <1>t, <2>3, <2>4 DEF RecordProbe, ClientTypes
<1>f. ASSUME NEW k \in ClientIds, slot' = [p \in Processes |-> IF slot[p] = k THEN 0 ELSE slot[p]]
      PROVE  slot' \in [Processes -> 0..created]
  <2>1. 0 \in 0..created
    BY <1>n, <1>z
  <2> QED
    BY <1>f, <1>s, <2>1
<1>10. ASSUME NEW k \in ClientIds, CreateSettles(k) PROVE ClientTypes'
  <2>1. client' \in [ClientIds -> ClientRecord] /\ prober' \in [Probers -> ProberRecord]
    BY <1>10, <1>c, <1>w, <1>e DEF CreateSettles
  <2>2. k \in 0..MaxClients
    BY <1>z DEF ClientIds
  <2>3. cached' \in [Processes -> 0..MaxClients]
    BY <1>10, <1>a, <2>2 DEF CreateSettles
  <2> QED
    BY <1>10, <1>t, <1>f, <2>1, <2>3 DEF CreateSettles, ClientTypes
<1>11. ASSUME NEW k \in ClientIds, CreateFails(k) PROVE ClientTypes'
  <2>1. client' \in [ClientIds -> ClientRecord] /\ prober' \in [Probers -> ProberRecord]
    BY <1>11, <1>c, <1>w, <1>e DEF CreateFails
  <2> QED
    BY <1>11, <1>t, <1>f, <2>1 DEF CreateFails, ClientTypes
<1>12. CASE UNCHANGED clientVars
  BY <1>12, <1>t DEF clientVars, ClientTypes
<1> QED
  BY <1>1, <1>2, <1>3, <1>4, <1>5, <1>6, <1>7, <1>8, <1>9, <1>10, <1>11, <1>12
     DEF ClientsNext

\* Where only one prober moves, caches and slots stay in order if it does not
\* start to wait for, or to use, what its process does not have.
LEMMA OneProber ==
    ASSUME ClientsInv, UNCHANGED <<client, created, cached, slot>>, NEW u \in Probers,
           \A v \in Probers : v # u => prober'[v] = prober[v],
           prober'[u].pc = "waiting" =>
             prober'[u].client # 0 /\ prober'[u].client = slot[HomeOf(u)],
           prober'[u].pc = "using" => prober'[u].client # 0
    PROVE  (CachedIsLive /\ NoneLeaks /\ SlotIsAlive /\ Pools)'
<1>1. CachedIsLive' /\ NoneLeaks' /\ SlotIsAlive'
  BY DEF ClientsInv, CachedIsLive, NoneLeaks, SlotIsAlive
<1>2. ASSUME NEW v \in Probers
      PROVE  /\ prober'[v].pc = "waiting" =>
                  prober'[v].client # 0 /\ prober'[v].client = slot'[HomeOf(v)]
             /\ prober'[v].pc = "using" => prober'[v].client # 0
  <2>1. CASE v = u
    BY <2>1
  <2>2. CASE v # u
    BY <2>2 DEF ClientsInv, Pools
  <2> QED
    BY <2>1, <2>2
<1> QED
  BY <1>1, <1>2 DEF ClientsInv, Pools

\* A creation ends, with a client that is cached or with an error: its slot is
\* freed and nobody waits for it any more.
LEMMA CreationEnds ==
    ASSUME ClientsInv, NEW k \in ClientIds, client[k].state = "creating",
           UNCHANGED created, client'[k].home = client[k].home,
           \A j \in ClientIds : j # k => client'[j] = client[j],
           slot' = [p \in Processes |-> IF slot[p] = k THEN 0 ELSE slot[p]],
           prober' = Proceed(k),
           \/ client'[k].state = "live" /\ cached' = [cached EXCEPT ![client[k].home] = k]
           \/ client'[k].state = "failed" /\ cached' = cached
    PROVE  (CachedIsLive /\ NoneLeaks /\ SlotIsAlive /\ Pools)'
<1>0. PICK h : h = client[k].home
  OBVIOUS
<1>1. /\ \A j \in ClientIds : client[j].home \in Processes
      /\ \A q \in Processes : cached[q] \in 0..MaxClients
      /\ \A q \in Processes : slot[q] \in 0..created
      /\ created <= MaxClients /\ created \in Nat /\ MaxClients \in Nat
      /\ cached \in [Processes -> 0..MaxClients]
  BY ClientsAssumption DEF ClientsInv, ClientTypes, ClientRecord
<1>2. \A j \in ClientIds : j # 0
  BY DEF ClientIds
<1>3. \A q \in Processes : /\ cached[q] # 0 => cached[q] \in ClientIds
                           /\ slot[q] # 0 => slot[q] \in ClientIds
  BY <1>1 DEF ClientIds
<1>4. CachedIsLive /\ NoneLeaks /\ SlotIsAlive /\ Pools
  BY DEF ClientsInv
<1>5. h \in Processes /\ slot[h] = k /\ cached[h] = 0
  BY <1>0, <1>1, <1>4 DEF Pools
<1>6. \A q \in Processes : q # h => slot[q] # k /\ slot'[q] = slot[q]
  BY <1>0, <1>2, <1>4 DEF Pools
<1>7. slot'[h] = 0
  BY <1>5
<1>8. /\ \A q \in Processes : q # h => cached'[q] = cached[q]
      /\ \/ client'[k].state = "live" /\ cached'[h] = k
         \/ client'[k].state = "failed" /\ cached'[h] = 0
  BY <1>0, <1>1, <1>5
<1>9. \A q \in Processes : cached[q] # k
  BY <1>2, <1>4 DEF CachedIsLive
<1>10. CachedIsLive'
  BY <1>3, <1>4, <1>8, <1>9 DEF CachedIsLive
<1>11. NoneLeaks'
  <2> SUFFICES ASSUME NEW j \in ClientIds, client'[j].state = "live"
               PROVE  cached'[client'[j].home] = j
    BY DEF NoneLeaks
  <2>1. CASE j = k
    BY <2>1, <1>0, <1>8
  <2>2. CASE j # k
    <3>1. client'[j] = client[j] /\ cached[client[j].home] = j /\ client[j].home \in Processes
      BY <2>2, <1>1, <1>4 DEF NoneLeaks
    <3>2. client[j].home # h
      BY <3>1, <1>2, <1>5
    <3> QED
      BY <3>1, <3>2, <1>8
  <2> QED
    BY <2>1, <2>2
<1>12. SlotIsAlive'
  BY <1>3, <1>4, <1>6, <1>7 DEF SlotIsAlive
<1>13. Pools'
  <2>1. \A j \in ClientIds : j > created' => client'[j].state = "none"
    BY <1>4 DEF Pools
  <2>2. ASSUME NEW j \in ClientIds, client'[j].state = "creating"
        PROVE  slot'[client'[j].home] = j /\ cached'[client'[j].home] = 0
    <3>1. j # k
      BY <2>2, <1>8
    <3>2. /\ client'[j] = client[j] /\ client[j].home \in Processes
          /\ slot[client[j].home] = j /\ cached[client[j].home] = 0
      BY <2>2, <3>1, <1>1, <1>4 DEF Pools
    <3>3. client[j].home # h
      BY <3>1, <3>2, <1>5
    <3> QED
      BY <3>2, <3>3, <1>6, <1>8
  <2>3. \A q \in Processes : cached'[q] # 0 => client'[cached'[q]].home = q
    BY <1>0, <1>3, <1>4, <1>8, <1>9 DEF Pools
  <2>4. \A q \in Processes : slot'[q] # 0 => client'[slot'[q]].home = q
    BY <1>3, <1>4, <1>6, <1>7 DEF Pools
  <2>5. ASSUME NEW v \in Probers
        PROVE  /\ prober'[v].pc = "waiting" =>
                    prober'[v].client # 0 /\ prober'[v].client = slot'[HomeOf(v)]
               /\ prober'[v].pc = "using" => prober'[v].client # 0
    <3>1. HomeOf(v) \in Processes
      BY DEF HomeOf, Processes
    <3>2. CASE prober[v].pc = "waiting" /\ prober[v].client = k
      <4>1. prober[v] \in ProberRecord
        BY DEF ClientsInv, ClientTypes
      <4>2. prober'[v].pc = "using" /\ prober'[v].client = k
        BY <3>2, <4>1 DEF Proceed, ProberRecord
      <4> QED
        BY <4>2, <1>2
    <3>3. CASE ~(prober[v].pc = "waiting" /\ prober[v].client = k)
      <4>1. prober'[v] = prober[v]
        BY <3>3 DEF Proceed
      <4>2. prober[v].pc = "waiting" =>
              prober[v].client # 0 /\ prober[v].client = slot[HomeOf(v)]
        BY <1>4 DEF Pools
      <4>3. prober[v].pc = "waiting" => HomeOf(v) # h
        BY <3>3, <4>2, <1>5
      <4> QED
        BY <3>1, <4>1, <4>2, <4>3, <1>4, <1>6 DEF Pools
    <3> QED
      BY <3>2, <3>3
  <2> QED
    BY <2>1, <2>2, <2>3, <2>4, <2>5 DEF Pools
<1> QED
  BY <1>10, <1>11, <1>12, <1>13

\* Caches, slots and clients: only closing, starting and settling a creation
\* touch them.
LEMMA PoolsStep ==
    ClientsInv /\ [ClientsNext]_clientVars => (CachedIsLive /\ NoneLeaks /\ SlotIsAlive /\ Pools)'
<1> DEFINE Goal == (CachedIsLive /\ NoneLeaks /\ SlotIsAlive /\ Pools)'
<1> SUFFICES ASSUME ClientsInv, [ClientsNext]_clientVars PROVE Goal
  OBVIOUS
<1>t. ClientTypes'
  BY ClientTypesStep
<1> USE ClientsAssumption
    DEF ClientsInv, ClientTypes, ClientRecord, ProberRecord, CachedIsLive, NoneLeaks,
        SlotIsAlive, Pools
<1>0. ASSUME UNCHANGED <<client, created, cached, slot, prober>> PROVE Goal
  BY <1>0
<1>p. prober \in [Probers -> ProberRecord]
  OBVIOUS
<1>r. client \in [ClientIds -> ClientRecord]
  OBVIOUS
<1>c. cached \in [Processes -> 0..MaxClients] /\ slot \in [Processes -> 0..created]
  OBVIOUS
<1>n. created \in Nat /\ MaxClients \in Nat /\ created <= MaxClients
  OBVIOUS
<1>i. ClientsInv
  OBVIOUS
<1> HIDE DEF ClientsInv, ClientTypes, CachedIsLive, NoneLeaks, SlotIsAlive, Pools
<1>1. CASE CloseClient
  <2>1. /\ UNCHANGED <<created, slot, prober>> /\ "api" \in Processes
        /\ cached'["api"] = 0 /\ \A q \in Processes : q # "api" => cached'[q] = cached[q]
    BY <1>1, <1>c DEF CloseClient, Processes
  <2>2. \A k \in ClientIds :
          /\ client'[k].home = client[k].home
          /\ k = cached["api"] => client'[k].state = "disposed"
          /\ k # cached["api"] => client'[k] = client[k]
    BY <1>1, <1>r DEF CloseClient
  <2>3. /\ CachedIsLive /\ NoneLeaks /\ SlotIsAlive /\ Pools
        /\ \A k \in ClientIds : client[k].home \in Processes /\ k # 0
    BY <1>i, <1>r DEF ClientsInv, ClientIds
  <2>4. \A q \in Processes : /\ cached[q] # 0 => cached[q] \in ClientIds
                             /\ slot[q] # 0 => slot[q] \in ClientIds
    BY <1>c, <1>n DEF ClientIds
  <2>5. \A q \in Processes : q # "api" /\ cached[q] # 0 => cached[q] # cached["api"]
    BY <2>1, <2>3 DEF Pools
  <2>6. \A k \in ClientIds : k = cached["api"] => client[k].state = "live"
    BY <2>1, <2>3 DEF CachedIsLive
  <2>7. CachedIsLive'
    BY <2>1, <2>2, <2>3, <2>4, <2>5 DEF CachedIsLive
  <2>8. NoneLeaks'
    <3> SUFFICES ASSUME NEW k \in ClientIds, client'[k].state = "live"
                 PROVE  cached'[client'[k].home] = k
      BY DEF NoneLeaks
    <3>1. k # cached["api"] /\ client'[k] = client[k]
      BY <2>2
    <3>2. cached[client[k].home] = k
      BY <3>1, <2>3 DEF NoneLeaks
    <3> QED
      BY <3>1, <3>2, <2>1, <2>3
  <2>9. SlotIsAlive'
    BY <2>1, <2>2, <2>3, <2>4, <2>6 DEF SlotIsAlive
  <2>10. Pools'
    <3>1. \A k \in ClientIds : k > created' => client'[k].state = "none"
      BY <2>1, <2>2, <2>3, <2>6 DEF Pools
    <3>2. ASSUME NEW k \in ClientIds, client'[k].state = "creating"
          PROVE  slot'[client'[k].home] = k /\ cached'[client'[k].home] = 0
      <4>1. k # cached["api"] /\ client'[k] = client[k]
        BY <2>2, <3>2
      <4> QED
        BY <4>1, <3>2, <2>1, <2>3 DEF Pools
    <3>3. /\ \A q \in Processes : cached'[q] # 0 => client'[cached'[q]].home = q
          /\ \A q \in Processes : slot'[q] # 0 => client'[slot'[q]].home = q
      BY <2>1, <2>2, <2>3, <2>4 DEF Pools
    <3> QED
      BY <2>1, <2>3, <3>1, <3>2, <3>3 DEF Pools
  <2> QED
    BY <2>7, <2>8, <2>9, <2>10
<1>2. ASSUME NEW u \in Probers, ResolveConnection(u) PROVE Goal
  <2>1. /\ UNCHANGED <<client, created, cached, slot>> /\ prober'[u].pc = "resolved"
        /\ \A v \in Probers : v # u => prober'[v] = prober[v]
    BY <1>2, <1>p DEF ResolveConnection, IdleProbe
  <2> QED
    BY <1>i, <2>1, OneProber
<1>3. ASSUME NEW u \in Probers, AcquireCached(u) PROVE Goal
  <2>1. /\ UNCHANGED <<client, created, cached, slot>>
        /\ prober'[u].pc = "using" /\ prober'[u].client # 0
        /\ \A v \in Probers : v # u => prober'[v] = prober[v]
    BY <1>3, <1>p DEF AcquireCached, Use
  <2> QED
    BY <1>i, <2>1, OneProber
<1>4. ASSUME NEW u \in Probers, AcquireFirst(u) PROVE Goal
  <2>0. PICK own, new : own = HomeOf(u) /\ new = created + 1
    OBVIOUS
  <2>1. own \in Processes /\ new \in ClientIds /\ created' = new
    BY <1>4, <1>n, <2>0 DEF AcquireFirst, HomeOf, Processes, ClientIds
  <2>2. /\ client'[new] = [state |-> "creating", rev |-> prober[u].rev, home |-> own]
        /\ \A k \in ClientIds : k # new => client'[k] = client[k]
    BY <1>4, <1>r, <2>0, <2>1 DEF AcquireFirst
  <2>3. /\ slot'[own] = new /\ \A q \in Processes : q # own => slot'[q] = slot[q]
        /\ cached' = cached /\ cached[own] = 0 /\ slot[own] = 0
    BY <1>4, <1>c, <2>0, <2>1 DEF AcquireFirst
  <2>4. /\ prober'[u].pc = "waiting" /\ prober'[u].client = new
        /\ \A v \in Probers : v # u => prober'[v] = prober[v]
    BY <1>4, <1>p, <2>0 DEF AcquireFirst
  <2>i. NoneLeaks /\ CachedIsLive /\ SlotIsAlive /\ Pools
    BY <1>i DEF ClientsInv
  <2>a. created \in Nat /\ MaxClients \in Nat /\ created <= MaxClients
        /\ cached \in [Processes -> 0..MaxClients] /\ slot \in [Processes -> 0..created]
    BY <1>c, <1>n
  <2>5. client[new].state = "none"
    BY <2>0, <2>1, <2>a, <2>i DEF ClientIds, Pools
  <2>6. \A v \in Probers : HomeOf(v) \in Processes
    BY DEF HomeOf, Processes
  <2>j. \A k \in ClientIds : client[k].home \in Processes
    BY <1>r
  <2>c. \A q \in Processes : cached[q] # 0 => cached[q] \in ClientIds /\ cached[q] # new
    BY <2>a, <2>i, <2>5 DEF ClientIds, CachedIsLive
  <2>d. \A q \in Processes : slot[q] # 0 => slot[q] \in ClientIds /\ slot[q] # new
    BY <2>a, <2>i, <2>5 DEF ClientIds, SlotIsAlive
  <2>7. CachedIsLive'
    BY <2>2, <2>3, <2>c, <2>i DEF CachedIsLive
  <2>8. NoneLeaks'
    BY <2>2, <2>3, <2>i DEF NoneLeaks
  <2>9. SlotIsAlive'
    BY <2>1, <2>2, <2>3, <2>d, <2>i DEF SlotIsAlive
  <2>10. Pools'
    <3>1. \A k \in ClientIds : k > new => client'[k].state = "none"
      BY <2>0, <2>a, <2>i, <2>2 DEF ClientIds, Pools
    <3>2. ASSUME NEW k \in ClientIds, client'[k].state = "creating"
          PROVE  slot'[client'[k].home] = k /\ cached'[client'[k].home] = 0
      <4>1. CASE k = new
        BY <4>1, <2>2, <2>3
      <4>2. CASE k # new
        <5>1. client'[k] = client[k] /\ client[k].home \in Processes
          BY <4>2, <2>2, <2>j
        <5>2. slot[client[k].home] = k /\ cached[client[k].home] = 0
          BY <3>2, <5>1, <2>i DEF Pools
        <5>3. k # 0
          BY <2>a DEF ClientIds
        <5> QED
          BY <5>1, <5>2, <5>3, <2>3
      <4> QED
        BY <4>1, <4>2
    <3>3. \A q \in Processes : cached'[q] # 0 => client'[cached'[q]].home = q
      BY <2>2, <2>3, <2>c, <2>i DEF Pools
    <3>4. \A q \in Processes : slot'[q] # 0 => client'[slot'[q]].home = q
      BY <2>1, <2>2, <2>3, <2>d, <2>i DEF Pools
    <3>5. ASSUME NEW v \in Probers, prober'[v].pc = "waiting"
          PROVE  prober'[v].client # 0 /\ prober'[v].client = slot'[HomeOf(v)]
      <4>1. CASE v = u
        BY <4>1, <2>0, <2>a, <2>3, <2>4
      <4>2. CASE v # u
        <5>1. prober'[v] = prober[v]
          BY <4>2, <2>4
        <5>2. prober[v].client # 0 /\ prober[v].client = slot[HomeOf(v)]
          BY <3>5, <5>1, <2>i DEF Pools
        <5> QED
          BY <5>1, <5>2, <2>3, <2>6
      <4> QED
        BY <4>1, <4>2
    <3>6. \A v \in Probers : prober'[v].pc = "using" => prober'[v].client # 0
      BY <2>4, <2>i DEF Pools
    <3> QED
      BY <2>1, <3>1, <3>2, <3>3, <3>4, <3>5, <3>6 DEF Pools
  <2> QED
    BY <2>7, <2>8, <2>9, <2>10
<1>5. ASSUME NEW u \in Probers, AcquireJoin(u) PROVE Goal
  <2>1. /\ UNCHANGED <<client, created, cached, slot>>
        /\ prober'[u].pc = "waiting" /\ slot[HomeOf(u)] # 0
        /\ prober'[u].client = slot[HomeOf(u)]
        /\ \A v \in Probers : v # u => prober'[v] = prober[v]
    BY <1>5, <1>p DEF AcquireJoin
  <2> QED
    BY <1>i, <2>1, OneProber
<1>6. ASSUME NEW u \in Probers, RecordProbe(u) PROVE Goal
  <2>1. /\ UNCHANGED <<client, created, cached, slot>> /\ prober'[u].pc = "idle"
        /\ \A v \in Probers : v # u => prober'[v] = prober[v]
    BY <1>6, <1>p DEF RecordProbe, IdleProbe
  <2> QED
    BY <1>i, <2>1, OneProber
<1>7. ASSUME NEW k \in ClientIds, CreateSettles(k) PROVE Goal
  <2>1. /\ client[k].state = "creating" /\ UNCHANGED created
        /\ client'[k].home = client[k].home /\ client'[k].state = "live"
        /\ \A j \in ClientIds : j # k => client'[j] = client[j]
    BY <1>7, <1>r DEF CreateSettles
  <2>2. /\ slot' = [p \in Processes |-> IF slot[p] = k THEN 0 ELSE slot[p]]
        /\ prober' = Proceed(k)
        /\ cached' = [cached EXCEPT ![client[k].home] = k]
    BY <1>7 DEF CreateSettles
  <2> QED
    BY <1>i, <2>1, <2>2, CreationEnds
<1>8. ASSUME NEW k \in ClientIds, CreateFails(k) PROVE Goal
  <2>1. /\ client[k].state = "creating" /\ UNCHANGED created
        /\ client'[k].home = client[k].home /\ client'[k].state = "failed"
        /\ \A j \in ClientIds : j # k => client'[j] = client[j]
    BY <1>8, <1>r DEF CreateFails
  <2>2. /\ slot' = [p \in Processes |-> IF slot[p] = k THEN 0 ELSE slot[p]]
        /\ prober' = Proceed(k)
        /\ cached' = cached
    BY <1>8 DEF CreateFails
  <2> QED
    BY <1>i, <2>1, <2>2, CreationEnds
<1> QED
  BY <1>0, <1>1, <1>2, <1>3, <1>4, <1>5, <1>6, <1>7, <1>8
     DEF ClientsNext, Update, ArchiveConnection, DropRow, clientVars

\* An update takes hold: what is acquired, created or cached in the API
\* process follows the row until an admin request meets an acquisition.
LEMMA CurrentStep ==
    /\ ClientsInv /\ Current /\ UpdateTakesHold /\ [ClientsNext]_clientVars
    => Current' /\ UpdateTakesHold'
<1> DEFINE Goal == Current' /\ UpdateTakesHold'
<1> SUFFICES ASSUME ClientsInv, Current, UpdateTakesHold, [ClientsNext]_clientVars PROVE Goal
  OBVIOUS
<1>t. ClientTypes'
  BY ClientTypesStep
<1>p. ApiProbers \subseteq Probers /\ \A u \in ApiProbers : HomeOf(u) = "api"
  BY DEF Probers, HomeOf
<1>s. \A u \in Sweeps : u \in Probers /\ HomeOf(u) = "worker"
  BY ClientsAssumption DEF Probers, HomeOf
<1>q. \A u \in Probers : u \in ApiProbers \/ u \in Sweeps
  BY DEF Probers
<1> USE DEF ClientsInv, ClientTypes, ClientRecord, ProberRecord, Current, UpdateTakesHold
<1>1. CASE Update
  BY <1>1, <1>p DEF Update, Acquiring
<1>2. CASE ArchiveConnection
  BY <1>2 DEF ArchiveConnection
<1>3. CASE DropRow
  BY <1>3, <1>p DEF DropRow, Acquiring
<1>4. CASE CloseClient
  BY <1>4, <1>p DEF CloseClient, Acquiring, ClientIds, Processes, SlotIsAlive, Pools
<1>5. ASSUME NEW u \in Probers, ResolveConnection(u) PROVE Goal
  BY <1>5, <1>p DEF ResolveConnection, IdleProbe
<1>6. ASSUME NEW u \in Probers, AcquireCached(u) PROVE Goal
  <2>1. UNCHANGED <<connection, admin, client, cached, slot, crossed>>
    BY <1>6 DEF AcquireCached
  <2>2. prober[u].pc = "resolved" /\ prober'[u].pc = "using"
    BY <1>6 DEF AcquireCached, Use
  <2>3. ASSUME NEW v \in Probers, v # u PROVE prober'[v] = prober[v]
    BY <1>6, <2>3 DEF AcquireCached, Use
  <2> HIDE DEF ClientsInv, ClientTypes, ClientRecord, ProberRecord
  <2>4. ASSUME NEW v \in ApiProbers, prober'[v].pc \in {"resolved", "waiting"}
        PROVE  prober'[v] = prober[v]
    BY <2>2, <2>3, <2>4, <1>p
  <2>5. ASSUME NEW v \in ApiProbers, prober[v].pc = "waiting"
        PROVE  prober'[v].pc = "waiting"
    BY <2>2, <2>3, <2>5, <1>p
  <2>6. Current'
    BY <2>1, <2>4, <2>5
  <2>7. UpdateTakesHold'
    BY <2>1
  <2> QED
    BY <2>6, <2>7
<1>7. ASSUME NEW u \in Probers, AcquireFirst(u) PROVE Goal
  <2>0. PICK own, new : own = HomeOf(u) /\ new = created + 1
    OBVIOUS
  <2>1. new \in ClientIds /\ own \in Processes /\ created \in Nat /\ new # 0
    BY <1>7, <2>0, ClientsAssumption DEF AcquireFirst, ClientIds, HomeOf, Processes
  <2>2. /\ UNCHANGED <<connection, admin, cached, crossed>>
        /\ prober[u].pc = "resolved" /\ prober'[u].pc = "waiting"
        /\ prober'[u].rev = prober[u].rev
        /\ \A v \in Probers : v # u => prober'[v] = prober[v]
    BY <1>7, <2>0 DEF AcquireFirst
  <2>3. /\ client'[new].rev = prober[u].rev
        /\ \A k \in ClientIds : k # new => client'[k] = client[k]
    BY <1>7, <2>0, <2>1 DEF AcquireFirst
  <2>4. slot'[own] = new /\ \A q \in Processes : q # own => slot'[q] = slot[q]
    BY <1>7, <2>0, <2>1 DEF AcquireFirst
  <2>5. /\ cached["api"] # 0 => cached["api"] \in ClientIds /\ cached["api"] # new
        /\ slot["api"] # 0 => slot["api"] \in ClientIds /\ slot["api"] # new
    <3>1. client[new].state = "none"
      BY <2>0, <2>1 DEF Pools
    <3>2. cached["api"] \in 0..MaxClients /\ slot["api"] \in 0..created /\ created <= MaxClients
      BY DEF Processes
    <3>3. cached["api"] # 0 => client[cached["api"]].state = "live"
      BY DEF CachedIsLive, Processes
    <3> HIDE DEF ClientsInv, ClientTypes, ClientRecord, ProberRecord, Current, UpdateTakesHold
    <3>4. cached["api"] # 0 => cached["api"] \in ClientIds /\ cached["api"] # new
      BY <3>1, <3>2, <3>3, ClientsAssumption DEF ClientIds
    <3>5. slot["api"] # 0 => slot["api"] \in ClientIds /\ slot["api"] # new
      BY <2>0, <2>1, <3>2, ClientsAssumption DEF ClientIds
    <3> QED
      BY <3>4, <3>5
  <2> HIDE DEF ClientsInv, ClientTypes, ClientRecord, ProberRecord
  <2>6. ASSUME ~crossed', NEW v \in ApiProbers, prober'[v].pc \in {"resolved", "waiting"}
        PROVE  prober'[v].rev = connection'.rev /\ ~connection'.deleted
    <3>1. prober[v].pc \in {"resolved", "waiting"} /\ prober'[v].rev = prober[v].rev
      BY <2>2, <2>6, <1>p
    <3> QED
      BY <2>2, <2>6, <3>1
  <2>7. ASSUME ~crossed', slot'["api"] # 0
        PROVE  /\ client'[slot'["api"]].rev = connection'.rev
               /\ \E v \in ApiProbers : prober'[v].pc = "waiting"
    <3>1. CASE own = "api"
      <4>1. u \in ApiProbers
        BY <1>q, <1>s, <2>0, <3>1
      <4> QED
        BY <4>1, <3>1, <2>2, <2>3, <2>4, <2>6, <2>7
    <3>2. CASE own # "api"
      <4>1. slot'["api"] = slot["api"]
        BY <2>4, <3>2 DEF Processes
      <4>2. client[slot["api"]].rev = connection.rev
        BY <4>1, <2>2, <2>7
      <4>3. client'[slot["api"]] = client[slot["api"]]
        BY <4>1, <2>3, <2>5, <2>7
      <4>4. PICK w \in ApiProbers : prober[w].pc = "waiting"
        BY <4>1, <2>2, <2>7
      <4>5. prober'[w].pc = "waiting"
        BY <4>4, <1>p, <2>2
      <4> QED
        BY <4>1, <4>2, <4>3, <4>5, <2>2
    <3> QED
      BY <3>1, <3>2
  <2>8. Current'
    BY <2>6, <2>7
  <2>9. UpdateTakesHold'
    BY <2>2, <2>3, <2>5
  <2> QED
    BY <2>8, <2>9
<1>8. ASSUME NEW u \in Probers, AcquireJoin(u) PROVE Goal
  BY <1>8, <1>p DEF AcquireJoin
<1>9. ASSUME NEW u \in Probers, RecordProbe(u) PROVE Goal
  BY <1>9, <1>p DEF RecordProbe, IdleProbe
<1>10. ASSUME NEW k \in ClientIds, CreateSettles(k) PROVE Goal
  BY <1>10, <1>p, <1>t DEF CreateSettles, Proceed, ClientIds, Processes, Pools, SlotIsAlive
<1>11. ASSUME NEW k \in ClientIds, CreateFails(k) PROVE Goal
  BY <1>11, <1>p, <1>t
     DEF CreateFails, Proceed, ClientIds, Processes, Pools, SlotIsAlive, CachedIsLive
<1>12. CASE UNCHANGED clientVars
  BY <1>12 DEF clientVars
<1> QED
  BY <1>1, <1>2, <1>3, <1>4, <1>5, <1>6, <1>7, <1>8, <1>9, <1>10, <1>11, <1>12
     DEF ClientsNext

\* For any number of probers, sweeps, updates and failing drivers: a client
\* that is alive is the one its process has cached, a slot in use is that of a
\* creation under way, and an update takes hold unless it met an acquisition.
THEOREM ClientsAreSafe == ClientsSpec => []ClientsSafe
<1>1. ClientsInit => ClientsInv /\ Current /\ UpdateTakesHold
  BY ClientsInitSafe
<1>2. /\ ClientsInv /\ Current /\ UpdateTakesHold /\ [ClientsNext]_clientVars
      => (ClientsInv /\ Current /\ UpdateTakesHold)'
  BY ClientTypesStep, PoolsStep, CurrentStep DEF ClientsInv
<1>3. ClientsInv /\ UpdateTakesHold => ClientsSafe
  BY ClientsInvTypes DEF ClientsInv, ClientsSafe
<1> QED
  BY <1>1, <1>2, <1>3, PTL DEF ClientsSpec

----------------------------------------------------------------------------
(* The cache of tokens.                                                    *)

UnderWay == {"asked", "issued"}

MintRecord ==
    [state : {"none", "asked", "issued", "done", "failed"},
     start : 0..MaxTime, issued : 0..MaxTime]

RequesterRecord ==
    [pc : {"idle", "wait", "sent", "again"}, token : 0..MaxMints,
     sent : 0..MaxTime, refused : 0..MaxMints]

\* The types, a mint's state apart from the slot.
TokenTypes ==
    /\ now \in 0..MaxTime /\ minted \in 0..MaxMints /\ revoked \in 0..MaxMints
    /\ entry \in [token : 0..minted, refreshAt : 0..(MaxTime + Ttl)]
    /\ mint \in [Mints -> MintRecord]
    /\ inflight \in 0..MaxMints
    /\ requester \in [Requesters -> RequesterRecord]

\* The slot, the cache and the requesters against the mints: the slot is the
\* last mint's, and only a token that has arrived is cached or sent.
Flight ==
    /\ \A k \in Mints : k > minted => mint[k].state = "none"
    /\ inflight # 0 => inflight = minted /\ mint[inflight].state \in UnderWay
    /\ entry.token # 0 => mint[entry.token].state = "done"
    /\ \A u \in Requesters : requester[u].pc = "sent" =>
         requester[u].token # 0 /\ mint[requester[u].token].state = "done"

SingleFlight ==
    ~disposed => \A k \in Mints : mint[k].state \in UnderWay => inflight = k

TokenInv == TokenTypes /\ Flight /\ SingleFlight

LEMMA TokenInitSafe == TokenInit => TokenInv
  BY TokenAssumption, SMTT(30)
     DEF TokenInit, TokenInv, TokenTypes, MintRecord, RequesterRecord, Flight, SingleFlight,
         UnderWay, NoEntry, AtRest, Mints

\* The types: one step per action.
LEMMA TokenTypesStep ==
    TokenInv /\ [TokenNext]_tokenVars => TokenTypes'
<1> SUFFICES ASSUME TokenInv, [TokenNext]_tokenVars PROVE TokenTypes'
  OBVIOUS
<1>z. /\ Ttl \in Nat \ {0} /\ SkewMs \in Nat
      /\ MaxMints \in Nat /\ MaxTime \in Nat
  BY TokenAssumption
<1>t. TokenTypes
  BY DEF TokenInv
<1>n. now \in 0..MaxTime /\ minted \in 0..MaxMints
  BY <1>t DEF TokenTypes
<1>e. entry \in [token : 0..minted, refreshAt : 0..(MaxTime + Ttl)]
  BY <1>t DEF TokenTypes
<1>m. mint \in [Mints -> MintRecord]
  BY <1>t DEF TokenTypes
<1>r. requester \in [Requesters -> RequesterRecord]
  BY <1>t DEF TokenTypes
<1>a. /\ AtRest \in RequesterRecord /\ 0 \in 0..MaxMints
      /\ NoEntry \in [token : 0..minted, refreshAt : 0..(MaxTime + Ttl)]
  BY <1>z, <1>n DEF AtRest, NoEntry, RequesterRecord
<1>s. ASSUME NEW u \in Requesters, NEW k \in 0..MaxMints PROVE Sent(u, k) \in RequesterRecord
  BY <1>r, <1>n DEF Sent, RequesterRecord
<1>w. ASSUME NEW u \in Requesters, NEW k \in 0..MaxMints
      PROVE  [requester[u] EXCEPT !.pc = "wait", !.token = k] \in RequesterRecord
  BY <1>r DEF RequesterRecord
<1>u. ASSUME NEW k \in Mints
      PROVE  /\ [mint[k] EXCEPT !.state = "asked", !.start = now] \in MintRecord
             /\ [mint[k] EXCEPT !.state = "issued", !.issued = now] \in MintRecord
             /\ \A st \in {"done", "failed"} : [mint[k] EXCEPT !.state = st] \in MintRecord
  BY <1>m, <1>n DEF MintRecord
<1>1. CASE Tick
  <2>1. now' \in 0..MaxTime
    BY <1>1, <1>n, <1>z DEF Tick
  <2> QED
    BY <1>1, <1>t, <2>1 DEF Tick, TokenTypes
<1>2. CASE Revoke
  <2>1. revoked' \in 0..MaxMints
    BY <1>2, <1>z DEF Revoke, Issued, Mints
  <2> QED
    BY <1>2, <1>t, <2>1 DEF Revoke, TokenTypes
<1>3. CASE Clear
  BY <1>3, <1>t, <1>a DEF Clear, TokenTypes
<1>4. ASSUME NEW u \in Requesters, GetCached(u) PROVE TokenTypes'
  <2>1. entry.token \in 0..MaxMints
    BY <1>e, <1>n, <1>z
  <2>2. requester' \in [Requesters -> RequesterRecord]
    BY <1>4, <1>r, <1>s, <2>1 DEF GetCached
  <2> QED
    BY <1>4, <1>t, <2>2 DEF GetCached, TokenTypes
<1>5. ASSUME NEW u \in Requesters, GetMint(u) PROVE TokenTypes'
  <2>1. minted + 1 \in Mints /\ minted + 1 \in 0..MaxMints
    BY <1>5, <1>n, <1>z DEF GetMint, Mints
  <2>2. mint' \in [Mints -> MintRecord]
    BY <1>5, <1>m, <1>u, <2>1 DEF GetMint
  <2>3. requester' \in [Requesters -> RequesterRecord]
    BY <1>5, <1>r, <1>w, <2>1 DEF GetMint
  <2>4. entry \in [token : 0..(minted + 1), refreshAt : 0..(MaxTime + Ttl)]
    <3>1. entry.token \in 0..(minted + 1)
      BY <1>e, <1>n
    <3> QED
      BY <1>e, <3>1
  <2> QED
    BY <1>5, <1>t, <2>1, <2>2, <2>3, <2>4 DEF GetMint, TokenTypes
<1>6. ASSUME NEW u \in Requesters, GetJoin(u) PROVE TokenTypes'
  <2>1. requester' \in [Requesters -> RequesterRecord]
    BY <1>6, <1>r, <1>w, <1>t DEF GetJoin, TokenTypes
  <2> QED
    BY <1>6, <1>t, <2>1 DEF GetJoin, TokenTypes
<1>7. ASSUME NEW u \in Requesters, Accept(u) PROVE TokenTypes'
  BY <1>7, <1>t, <1>a DEF Accept, TokenTypes
<1>8. ASSUME NEW u \in Requesters, Refuse(u) PROVE TokenTypes'
  <2>1. [AtRest EXCEPT !.pc = "again", !.refused = requester[u].token] \in RequesterRecord
    BY <1>a, <1>r DEF RequesterRecord
  <2>2. requester' \in [Requesters -> RequesterRecord]
    BY <1>8, <1>r, <1>a, <2>1 DEF Refuse
  <2>3. entry' \in [token : 0..minted, refreshAt : 0..(MaxTime + Ttl)]
    BY <1>8, <1>e, <1>a DEF Refuse
  <2> QED
    BY <1>8, <1>t, <2>2, <2>3 DEF Refuse, TokenTypes
<1>9. ASSUME NEW k \in Mints, Issue(k) PROVE TokenTypes'
  <2>1. mint' \in [Mints -> MintRecord]
    BY <1>9, <1>m, <1>u DEF Issue
  <2> QED
    BY <1>9, <1>t, <2>1 DEF Issue, TokenTypes
<1>10. ASSUME NEW k \in Mints, MintSettles(k) PROVE TokenTypes'
  <2>1. mint' \in [Mints -> MintRecord]
    BY <1>10, <1>m, <1>u DEF MintSettles
  <2>2. k \in 0..minted /\ k \in 0..MaxMints
    BY <1>10, <1>n, <1>z DEF MintSettles, Mints, TokenInv, Flight
  <2>3. requester' \in [Requesters -> RequesterRecord]
    BY <1>10, <1>r, <1>s, <2>2 DEF MintSettles
  <2>4. RefreshAt(now + Ttl) \in 0..(MaxTime + Ttl)
    BY <1>n, <1>z DEF RefreshAt, MinOf
  <2>5. entry' \in [token : 0..minted, refreshAt : 0..(MaxTime + Ttl)]
    BY <1>10, <1>e, <2>2, <2>4 DEF MintSettles
  <2>6. inflight' \in 0..MaxMints
    BY <1>10, <1>t, <1>a DEF MintSettles, TokenTypes
  <2> QED
    BY <1>10, <1>t, <2>1, <2>3, <2>5, <2>6 DEF MintSettles, TokenTypes
<1>11. ASSUME NEW k \in Mints, MintFails(k) PROVE TokenTypes'
  <2>1. mint' \in [Mints -> MintRecord]
    BY <1>11, <1>m, <1>u DEF MintFails
  <2>2. requester' \in [Requesters -> RequesterRecord]
    BY <1>11, <1>r, <1>a DEF MintFails
  <2>3. inflight' \in 0..MaxMints
    BY <1>11, <1>t, <1>a DEF MintFails, TokenTypes
  <2> QED
    BY <1>11, <1>t, <2>1, <2>2, <2>3 DEF MintFails, TokenTypes
<1>12. CASE UNCHANGED tokenVars
  BY <1>12, <1>t DEF tokenVars, TokenTypes
<1> QED
  BY <1>1, <1>2, <1>3, <1>4, <1>5, <1>6, <1>7, <1>8, <1>9, <1>10, <1>11, <1>12
     DEF TokenNext

\* What each action does to the mints, and that nothing else touches them:
\* an action leaves them alone, starts the next one, or moves one on.
LEMMA FlightStep ==
    TokenInv /\ [TokenNext]_tokenVars => Flight' /\ SingleFlight'
<1> DEFINE Goal == Flight' /\ SingleFlight'
<1> SUFFICES ASSUME TokenInv, [TokenNext]_tokenVars PROVE Goal
  OBVIOUS
<1>z. MaxMints \in Nat
  BY TokenAssumption
<1>t. /\ minted \in Nat /\ minted <= MaxMints
      /\ entry.token \in 0..minted
      /\ inflight \in Nat
      /\ \A u \in Requesters : requester[u].token \in 0..MaxMints
  BY <1>z DEF TokenInv, TokenTypes, RequesterRecord
<1>m. mint \in [Mints -> MintRecord]
  BY DEF TokenInv, TokenTypes
<1>r. requester \in [Requesters -> RequesterRecord]
  BY DEF TokenInv, TokenTypes
<1>f. Flight /\ SingleFlight
  BY DEF TokenInv
<1>0. ASSUME UNCHANGED <<mint, minted, inflight, disposed>>,
             entry' = entry \/ entry' = NoEntry,
             \A u \in Requesters : requester'[u].pc = "sent" =>
               \/ requester[u].pc = "sent" /\ requester'[u].token = requester[u].token
               \/ entry.token # 0 /\ requester'[u].token = entry.token
      PROVE  Goal
  BY <1>0, <1>f DEF Flight, SingleFlight, NoEntry
<1>1. CASE Clear
  BY <1>1, <1>f DEF Clear, Flight, SingleFlight, NoEntry
<1>2. ASSUME NEW u \in Requesters, GetCached(u) PROVE Goal
  BY <1>2, <1>0, <1>r DEF GetCached, Sent
<1>3. ASSUME NEW u \in Requesters, GetMint(u) PROVE Goal
  <2>1. minted + 1 \in Mints /\ minted' = minted + 1 /\ inflight' = minted + 1
    BY <1>3, <1>t, <1>z DEF GetMint, Mints
  <2>2. /\ mint'[minted + 1].state = "asked"
        /\ \A k \in Mints : k # minted + 1 => mint'[k] = mint[k]
    BY <1>3, <1>m, <2>1 DEF GetMint, MintRecord
  <2>3. mint[minted + 1].state = "none"
    BY <2>1, <1>t, <1>f DEF Flight
  <2>4. \A v \in Requesters : requester'[v].pc = "sent" => requester'[v] = requester[v]
    BY <1>3, <1>r DEF GetMint, RequesterRecord
  <2>5. \A k \in Mints : k > minted + 1 => mint'[k].state = "none"
    BY <2>2, <1>f, <1>t DEF Flight, Mints
  <2>6. entry.token # 0 => mint'[entry.token].state = "done"
    <3>1. entry.token # 0 => entry.token \in Mints
      BY <1>t, <1>z DEF Mints
    <3> QED
      BY <3>1, <2>2, <2>3, <1>f DEF Flight
  <2>7. ASSUME NEW v \in Requesters, requester'[v].pc = "sent"
        PROVE  requester'[v].token # 0 /\ mint'[requester'[v].token].state = "done"
    <3>1. requester[v].token # 0 /\ mint[requester[v].token].state = "done"
      BY <2>7, <2>4, <1>f DEF Flight
    <3>2. requester[v].token \in Mints
      BY <3>1, <1>t, <1>z DEF Mints
    <3> QED
      BY <3>1, <3>2, <2>2, <2>3, <2>4, <2>7
  <2>8. ~disposed => \A k \in Mints : mint'[k].state \in UnderWay => k = minted + 1
    <3>1. \A k \in Mints : k # 0
      BY DEF Mints
    <3> QED
      BY <2>2, <1>f, <1>3, <3>1 DEF SingleFlight, GetMint
  <2>9. Flight'
    BY <1>3, <2>1, <2>2, <2>5, <2>6, <2>7 DEF Flight, GetMint, UnderWay
  <2>10. SingleFlight'
    BY <1>3, <2>1, <2>8 DEF SingleFlight, GetMint
  <2> QED
    BY <2>9, <2>10
<1>4. ASSUME NEW u \in Requesters, GetJoin(u) PROVE Goal
  BY <1>4, <1>0, <1>r DEF GetJoin
<1>5. ASSUME NEW u \in Requesters, Accept(u) PROVE Goal
  BY <1>5, <1>0, <1>r DEF Accept, AtRest
<1>6. ASSUME NEW u \in Requesters, Refuse(u) PROVE Goal
  BY <1>6, <1>0, <1>r DEF Refuse, AtRest
\* A mint moves on: from asked to issued or failed, from issued to done.
<1>7. ASSUME NEW k \in Mints, NEW st \in {"issued", "done", "failed"},
             mint[k].state \in UnderWay, minted' = minted, disposed' = disposed,
             mint'[k].state = st, \A j \in Mints : j # k => mint'[j] = mint[j],
             st \in UnderWay => inflight' = inflight,
             st \notin UnderWay => inflight' = IF inflight = k THEN 0 ELSE inflight,
             entry'.token # entry.token => st = "done" /\ entry'.token = k,
             \A v \in Requesters : requester'[v].pc = "sent" =>
               \/ requester'[v] = requester[v]
               \/ st = "done" /\ requester'[v].token = k
      PROVE  Goal
  <2>1. k <= minted /\ k # 0
    BY <1>7, <1>f, <1>t DEF Flight, UnderWay, Mints
  <2>2. \A j \in Mints : j > minted => mint'[j].state = "none"
    BY <1>7, <2>1, <1>f, <1>t DEF Flight, Mints
  <2>3. inflight # 0 => inflight \in Mints
    BY <1>f, <1>t, <1>z DEF Flight, Mints
  <2>4. inflight' # 0 => inflight' = minted /\ mint'[inflight'].state \in UnderWay
    BY <1>7, <1>f, <2>3 DEF Flight
  <2>5. entry'.token # 0 => mint'[entry'.token].state = "done"
    <3>1. entry.token # 0 => entry.token \in Mints
      BY <1>t, <1>z DEF Mints
    <3> QED
      BY <3>1, <1>7, <1>f DEF Flight, UnderWay
  <2>6. ASSUME NEW v \in Requesters, requester'[v].pc = "sent"
        PROVE  requester'[v].token # 0 /\ mint'[requester'[v].token].state = "done"
    <3>1. CASE st = "done" /\ requester'[v].token = k
      BY <3>1, <2>1, <1>7
    <3>2. CASE requester'[v] = requester[v]
      <4>1. requester[v].token # 0 /\ mint[requester[v].token].state = "done"
        BY <2>6, <3>2, <1>f DEF Flight
      <4>2. requester[v].token \in Mints
        BY <4>1, <1>t, <1>z DEF Mints
      <4> QED
        BY <4>1, <4>2, <3>2, <1>7 DEF UnderWay
    <3> QED
      BY <3>1, <3>2, <2>6, <1>7
  <2>7. SingleFlight'
    BY <1>7, <1>f DEF SingleFlight
  <2>8. Flight'
    BY <1>7, <2>2, <2>4, <2>5, <2>6 DEF Flight
  <2> QED
    BY <2>7, <2>8
<1>8. ASSUME NEW k \in Mints, Issue(k) PROVE Goal
  <2>1. /\ mint'[k].state = "issued" /\ \A j \in Mints : j # k => mint'[j] = mint[j]
        /\ mint[k].state \in UnderWay
    BY <1>8, <1>m DEF Issue, MintRecord, UnderWay
  <2> QED
    BY <1>8, <2>1, <1>7 DEF Issue, UnderWay
<1>9. ASSUME NEW k \in Mints, MintSettles(k) PROVE Goal
  <2>1. /\ mint'[k].state = "done" /\ \A j \in Mints : j # k => mint'[j] = mint[j]
        /\ mint[k].state \in UnderWay
    BY <1>9, <1>m DEF MintSettles, MintRecord, UnderWay
  <2>2. entry'.token # entry.token => entry'.token = k
    BY <1>9 DEF MintSettles
  <2>3. \A v \in Requesters : \/ requester'[v] = requester[v]
                              \/ requester'[v].token = k
    BY <1>9, <1>r DEF MintSettles, Sent, RequesterRecord
  <2>4. minted' = minted /\ disposed' = disposed /\ inflight' = IF inflight = k THEN 0 ELSE inflight
    BY <1>9 DEF MintSettles
  <2> QED
    BY <2>1, <2>2, <2>3, <2>4, <1>7 DEF UnderWay
<1>10. ASSUME NEW k \in Mints, MintFails(k) PROVE Goal
  <2>1. /\ mint'[k].state = "failed" /\ \A j \in Mints : j # k => mint'[j] = mint[j]
        /\ mint[k].state \in UnderWay
    BY <1>10, <1>m DEF MintFails, MintRecord, UnderWay
  <2>2. \A v \in Requesters : requester'[v].pc = "sent" => requester'[v] = requester[v]
    BY <1>10, <1>r DEF MintFails, AtRest
  <2>3. /\ minted' = minted /\ disposed' = disposed /\ entry' = entry
        /\ inflight' = IF inflight = k THEN 0 ELSE inflight
    BY <1>10 DEF MintFails
  <2> QED
    BY <2>1, <2>2, <2>3, <1>7 DEF UnderWay
<1>11. CASE Tick \/ Revoke \/ UNCHANGED tokenVars
  BY <1>11, <1>0 DEF Tick, Revoke, tokenVars
<1> QED
  BY <1>1, <1>2, <1>3, <1>4, <1>5, <1>6, <1>8, <1>9, <1>10, <1>11 DEF TokenNext

\* Until clear() is called, whoever holds or awaits a token after a 401 holds
\* or awaits a newer one, and whoever is about to ask again will find nothing
\* older in the cache or in the slot.
Fresher ==
    /\ \A u \in Requesters : requester[u].refused <= minted
    /\ \A u \in Requesters : requester[u].pc = "idle" => requester[u].refused = 0
    /\ ~disposed => \A u \in Requesters :
         /\ requester[u].pc \in {"wait", "sent"} => requester[u].token > requester[u].refused
         /\ requester[u].pc \in {"idle", "again"} =>
              /\ entry.token = 0 \/ entry.token > requester[u].refused
              /\ inflight = 0 \/ inflight > requester[u].refused

LEMMA FresherStep ==
    TokenInv /\ Fresher /\ [TokenNext]_tokenVars => Fresher'
<1> SUFFICES ASSUME TokenInv, Fresher, [TokenNext]_tokenVars PROVE Fresher'
  OBVIOUS
<1>z. MaxMints \in Nat
  BY TokenAssumption
<1>t. minted \in Nat /\ minted <= MaxMints /\ entry.token \in 0..minted /\ inflight \in Nat
  BY <1>z DEF TokenInv, TokenTypes
<1>r. requester \in [Requesters -> RequesterRecord]
  BY DEF TokenInv, TokenTypes
<1>v. \A u \in Requesters :
        /\ requester[u].pc \in {"idle", "wait", "sent", "again"}
        /\ requester[u].token \in Nat /\ requester[u].refused \in Nat
  BY <1>r, <1>z DEF RequesterRecord
<1>f. Flight /\ SingleFlight
  BY DEF TokenInv
<1>1. CASE Clear
  BY <1>1 DEF Clear, Fresher
<1>2. ASSUME NEW u \in Requesters, GetCached(u) PROVE Fresher'
  <2>1. /\ requester'[u].pc = "sent" /\ requester'[u].token = entry.token
        /\ requester'[u].refused = requester[u].refused
        /\ \A v \in Requesters : v # u => requester'[v] = requester[v]
    BY <1>2, <1>r DEF GetCached, Sent, RequesterRecord
  <2> QED
    BY <1>2, <2>1 DEF GetCached, Fresher
<1>3. ASSUME NEW u \in Requesters, GetMint(u) PROVE Fresher'
  <2>1. /\ requester'[u].pc = "wait" /\ requester'[u].token = minted + 1
        /\ requester'[u].refused = requester[u].refused
        /\ \A v \in Requesters : v # u => requester'[v] = requester[v]
    BY <1>3, <1>r DEF GetMint, RequesterRecord
  <2>2. minted' = minted + 1 /\ inflight' = minted + 1 /\ UNCHANGED <<entry, disposed>>
    BY <1>3 DEF GetMint
  <2>3. \A v \in Requesters : requester'[v].refused = requester[v].refused
    BY <2>1
  <2>4. \A v \in Requesters : requester[v].refused <= minted /\ minted + 1 > requester[v].refused
    BY <1>t, <1>v DEF Fresher
  <2>5. \A v \in Requesters : requester'[v].refused <= minted'
    BY <2>2, <2>3, <2>4, <1>t, <1>v
  <2>6. \A v \in Requesters : requester'[v].pc = "idle" => requester'[v].refused = 0
    BY <2>1 DEF Fresher
  <2>7. ASSUME ~disposed', NEW v \in Requesters
        PROVE  /\ requester'[v].pc \in {"wait", "sent"} =>
                    requester'[v].token > requester'[v].refused
               /\ requester'[v].pc \in {"idle", "again"} =>
                    /\ entry'.token = 0 \/ entry'.token > requester'[v].refused
                    /\ inflight' = 0 \/ inflight' > requester'[v].refused
    BY <2>7, <2>1, <2>2, <2>3, <2>4 DEF Fresher
  <2> QED
    BY <2>5, <2>6, <2>7 DEF Fresher
<1>4. ASSUME NEW u \in Requesters, GetJoin(u) PROVE Fresher'
  <2>1. /\ requester'[u].pc = "wait" /\ requester'[u].token = inflight
        /\ requester'[u].refused = requester[u].refused
        /\ \A v \in Requesters : v # u => requester'[v] = requester[v]
    BY <1>4, <1>r DEF GetJoin, RequesterRecord
  <2> QED
    BY <1>4, <2>1 DEF GetJoin, Fresher
<1>5. ASSUME NEW u \in Requesters, Accept(u) PROVE Fresher'
  <2>1. /\ requester'[u] = AtRest
        /\ \A v \in Requesters : v # u => requester'[v] = requester[v]
    BY <1>5, <1>r DEF Accept
  <2> QED
    BY <1>5, <2>1, <1>t DEF Accept, Fresher, AtRest
<1>6. ASSUME NEW u \in Requesters, Refuse(u) PROVE Fresher'
  <2>1. /\ requester[u].pc = "sent"
        /\ \A v \in Requesters : v # u => requester'[v] = requester[v]
        /\ UNCHANGED <<minted, inflight, disposed>>
    BY <1>6, <1>r DEF Refuse
  <2>2. CASE requester[u].refused = 0
    <3>1. /\ requester'[u].pc = "again" /\ requester'[u].refused = requester[u].token
          /\ entry'.token = 0
      BY <1>6, <1>r, <2>2 DEF Refuse, AtRest, NoEntry
    <3>2. requester[u].token # 0 /\ mint[requester[u].token].state = "done"
      BY <2>1, <1>f DEF Flight
    <3>3. requester[u].token <= minted
      <4>1. requester[u].token \in Mints
        BY <3>2, <1>r, <1>z DEF Mints, RequesterRecord
      <4> QED
        BY <4>1, <3>2, <1>f, <1>t, <1>v DEF Flight
    <3>4. inflight = 0 \/ inflight > requester[u].token
      BY <3>2, <3>3, <1>f, <1>t, <1>v DEF Flight, UnderWay
    <3> QED
      BY <2>1, <3>1, <3>3, <3>4 DEF Fresher
  <2>3. CASE requester[u].refused # 0
    <3>1. requester'[u] = AtRest /\ entry' = entry
      BY <1>6, <1>r, <2>3 DEF Refuse
    <3> QED
      BY <2>1, <3>1, <1>t DEF Fresher, AtRest
  <2> QED
    BY <2>2, <2>3
<1>7. ASSUME NEW k \in Mints, Issue(k) PROVE Fresher'
  BY <1>7 DEF Issue, Fresher
<1>8. ASSUME NEW k \in Mints, MintSettles(k) PROVE Fresher'
  <2>1. /\ UNCHANGED <<minted, disposed>>
        /\ inflight' = IF inflight = k THEN 0 ELSE inflight
        /\ entry'.token = entry.token \/ entry'.token = k
    BY <1>8 DEF MintSettles
  <2>2. \A v \in Requesters :
          \/ requester'[v] = requester[v]
          \/ /\ requester[v].pc = "wait" /\ requester[v].token = k
             /\ requester'[v].pc = "sent" /\ requester'[v].token = k
             /\ requester'[v].refused = requester[v].refused
    BY <1>8, <1>r DEF MintSettles, Waiting, Sent, RequesterRecord
  <2>3. ~disposed => inflight = k
    BY <1>8, <1>f DEF MintSettles, SingleFlight, UnderWay
  <2>4. k # 0
    BY DEF Mints
  <2>5. ~disposed => \A v \in Requesters : requester[v].pc \in {"idle", "again"} =>
                       k > requester[v].refused
    BY <2>3, <2>4 DEF Fresher
  <2>6. \A v \in Requesters : requester'[v].refused <= minted'
    BY <2>1, <2>2 DEF Fresher
  <2>7. \A v \in Requesters : requester'[v].pc = "idle" => requester'[v].refused = 0
    BY <2>2 DEF Fresher
  <2>8. ASSUME ~disposed', NEW v \in Requesters
        PROVE  /\ requester'[v].pc \in {"wait", "sent"} =>
                    requester'[v].token > requester'[v].refused
               /\ requester'[v].pc \in {"idle", "again"} =>
                    /\ entry'.token = 0 \/ entry'.token > requester'[v].refused
                    /\ inflight' = 0 \/ inflight' > requester'[v].refused
    BY <2>8, <2>1, <2>2, <2>5 DEF Fresher
  <2> QED
    BY <2>6, <2>7, <2>8 DEF Fresher
<1>9. ASSUME NEW k \in Mints, MintFails(k) PROVE Fresher'
  <2>1. /\ UNCHANGED <<minted, disposed, entry>>
        /\ inflight' = IF inflight = k THEN 0 ELSE inflight
    BY <1>9 DEF MintFails
  <2>2. \A v \in Requesters : requester'[v] = requester[v] \/ requester'[v] = AtRest
    BY <1>9, <1>r DEF MintFails
  <2> QED
    BY <2>1, <2>2, <1>t DEF Fresher, AtRest
<1>10. CASE Tick \/ Revoke \/ UNCHANGED tokenVars
  BY <1>10 DEF Tick, Revoke, tokenVars, Fresher
<1> QED
  BY <1>1, <1>2, <1>3, <1>4, <1>5, <1>6, <1>7, <1>8, <1>9, <1>10 DEF TokenNext

\* computeRefreshAt on a token that has just arrived.
LEMMA Skew ==
    ASSUME now \in Nat
    PROVE  /\ MinOf(SkewMs, Ttl \div 2) \in Nat /\ MinOf(SkewMs, Ttl \div 2) < Ttl
           /\ RefreshAt(now + Ttl) = now + Ttl - MinOf(SkewMs, Ttl \div 2)
<1>1. Ttl \in Nat /\ Ttl # 0 /\ SkewMs \in Nat
  BY TokenAssumption
<1>2. (now + Ttl) - now = Ttl
  BY <1>1
<1>3. Ttl \div 2 \in Nat /\ Ttl \div 2 < Ttl
  BY <1>1
<1> QED
  BY <1>1, <1>2, <1>3 DEF MinOf, RefreshAt

\* How long a mint and a request have been under way (the guards of Tick).
Timely ==
    /\ \A k \in Mints : mint[k].state \in UnderWay =>
         mint[k].start <= now /\ now <= mint[k].start + MintTime
    /\ \A k \in Mints : mint[k].state = "issued" => mint[k].start <= mint[k].issued
    /\ \A u \in Requesters : requester[u].pc = "sent" => now <= requester[u].sent + TripTime

\* With a skew that covers a mint and a request, a token stops being used
\* early enough, and a request under way will arrive before its token expires.
InTime ==
    MintTime + TripTime <= MinOf(SkewMs, Ttl \div 2) =>
      /\ ~lateRefusal
      /\ entry.token # 0 => entry.refreshAt + TripTime <= mint[entry.token].issued + Ttl
      /\ \A u \in Requesters : requester[u].pc = "sent" =>
           requester[u].sent + TripTime < mint[requester[u].token].issued + Ttl

LEMMA TimelyStep ==
    TokenInv /\ Timely /\ [TokenNext]_tokenVars => Timely'
<1> SUFFICES ASSUME TokenInv, Timely, [TokenNext]_tokenVars PROVE Timely'
  OBVIOUS
<1>z. MintTime \in Nat /\ TripTime \in Nat /\ MaxTime \in Nat /\ MaxMints \in Nat
  BY TokenAssumption
<1>n. now \in Nat /\ minted \in Nat
  BY <1>z DEF TokenInv, TokenTypes
<1>m. mint \in [Mints -> MintRecord]
  BY DEF TokenInv, TokenTypes
<1>s. \A k \in Mints : mint[k].start \in Nat /\ mint[k].issued \in Nat
  BY <1>m, <1>z DEF MintRecord
<1>r. requester \in [Requesters -> RequesterRecord]
  BY DEF TokenInv, TokenTypes
<1>v. \A u \in Requesters : requester[u].sent \in Nat
  BY <1>r, <1>z DEF RequesterRecord
<1>0. ASSUME now' = now, mint' = mint,
             \A u \in Requesters : requester'[u].pc = "sent" =>
               \/ requester[u].pc = "sent" /\ requester'[u].sent = requester[u].sent
               \/ requester'[u].sent = now
      PROVE  Timely'
  BY <1>0, <1>n, <1>z DEF Timely
<1>1. CASE Tick
  BY <1>1, <1>n, <1>z, <1>s, <1>v DEF Tick, Timely, UnderWay
<1>2. ASSUME NEW u \in Requesters, GetCached(u) PROVE Timely'
  BY <1>2, <1>0, <1>r DEF GetCached, Sent, RequesterRecord
<1>3. ASSUME NEW u \in Requesters, GetMint(u) PROVE Timely'
  <2>1. minted + 1 \in Mints
    BY <1>3, <1>n, <1>z DEF GetMint, Mints
  <2>2. /\ mint'[minted + 1].state = "asked" /\ mint'[minted + 1].start = now
        /\ \A k \in Mints : k # minted + 1 => mint'[k] = mint[k]
    BY <1>3, <1>m, <2>1 DEF GetMint, MintRecord
  <2>3. \A v \in Requesters : requester'[v].pc = "sent" => requester'[v] = requester[v]
    BY <1>3, <1>r DEF GetMint, RequesterRecord
  <2>4. now' = now
    BY <1>3 DEF GetMint
  <2> QED
    BY <2>2, <2>3, <2>4, <1>n, <1>z DEF Timely
<1>4. ASSUME NEW u \in Requesters, GetJoin(u) PROVE Timely'
  BY <1>4, <1>0, <1>r DEF GetJoin
<1>5. ASSUME NEW u \in Requesters, Accept(u) PROVE Timely'
  BY <1>5, <1>0, <1>r DEF Accept, AtRest
<1>6. ASSUME NEW u \in Requesters, Refuse(u) PROVE Timely'
  BY <1>6, <1>0, <1>r DEF Refuse, AtRest
<1>7. ASSUME NEW k \in Mints, Issue(k) PROVE Timely'
  <2>1. /\ mint[k].state = "asked" /\ mint'[k].state = "issued"
        /\ mint'[k].issued = now /\ mint'[k].start = mint[k].start
        /\ \A j \in Mints : j # k => mint'[j] = mint[j]
    BY <1>7, <1>m DEF Issue, MintRecord
  <2> QED
    BY <1>7, <2>1 DEF Issue, Timely, UnderWay
<1>8. ASSUME NEW k \in Mints, MintSettles(k) PROVE Timely'
  <2>1. mint'[k].state = "done" /\ \A j \in Mints : j # k => mint'[j] = mint[j]
    BY <1>8, <1>m DEF MintSettles, MintRecord
  <2>2. \A v \in Requesters : requester'[v] = requester[v] \/ requester'[v].sent = now
    BY <1>8, <1>r DEF MintSettles, Sent, RequesterRecord
  <2>3. now' = now
    BY <1>8 DEF MintSettles
  <2> QED
    BY <2>1, <2>2, <2>3, <1>n, <1>z DEF Timely, UnderWay
<1>9. ASSUME NEW k \in Mints, MintFails(k) PROVE Timely'
  <2>1. mint'[k].state = "failed" /\ \A j \in Mints : j # k => mint'[j] = mint[j]
    BY <1>9, <1>m DEF MintFails, MintRecord
  <2>2. \A v \in Requesters : requester'[v].pc = "sent" => requester'[v] = requester[v]
    BY <1>9, <1>r DEF MintFails, AtRest
  <2>3. now' = now
    BY <1>9 DEF MintFails
  <2> QED
    BY <2>1, <2>2, <2>3 DEF Timely, UnderWay
<1>10. CASE Revoke \/ Clear \/ UNCHANGED tokenVars
  BY <1>10, <1>0 DEF Revoke, Clear, tokenVars
<1> QED
  BY <1>1, <1>2, <1>3, <1>4, <1>5, <1>6, <1>7, <1>8, <1>9, <1>10 DEF TokenNext

LEMMA InTimeStep ==
    TokenInv /\ Timely /\ InTime /\ [TokenNext]_tokenVars => InTime'
<1> DEFINE M == MinOf(SkewMs, Ttl \div 2)
<1> SUFFICES ASSUME TokenInv, Timely, InTime, [TokenNext]_tokenVars, MintTime + TripTime <= M
             PROVE  InTime'
  BY DEF InTime
<1>z. /\ MintTime \in Nat /\ TripTime \in Nat /\ MaxTime \in Nat /\ MaxMints \in Nat
      /\ Ttl \in Nat
  BY TokenAssumption
<1>n. now \in Nat /\ minted \in Nat /\ minted <= MaxMints
  BY <1>z DEF TokenInv, TokenTypes
<1>k. M \in Nat /\ M < Ttl /\ RefreshAt(now + Ttl) = now + Ttl - M
  BY Skew, <1>n
<1>b. MintTime + TripTime <= M
  OBVIOUS
<1> HIDE DEF M
<1>e. entry.token \in 0..minted /\ entry.refreshAt \in Nat
  BY <1>n, <1>z DEF TokenInv, TokenTypes
<1>m. mint \in [Mints -> MintRecord]
  BY DEF TokenInv, TokenTypes
<1>s. \A k \in Mints : mint[k].start \in Nat /\ mint[k].issued \in Nat
  BY <1>m, <1>z DEF MintRecord
<1>r. requester \in [Requesters -> RequesterRecord]
  BY DEF TokenInv, TokenTypes
<1>v. \A u \in Requesters : requester[u].sent \in Nat /\ requester[u].token \in 0..MaxMints
  BY <1>r, <1>z DEF RequesterRecord
<1>f. Flight
  BY DEF TokenInv
<1>i. /\ ~lateRefusal
      /\ entry.token # 0 => entry.refreshAt + TripTime <= mint[entry.token].issued + Ttl
      /\ \A u \in Requesters : requester[u].pc = "sent" =>
           requester[u].sent + TripTime < mint[requester[u].token].issued + Ttl
  BY <1>b DEF InTime, M
<1>d. \A u \in Requesters : requester[u].pc = "sent" => requester[u].token \in Mints
  BY <1>f, <1>v, <1>z DEF Flight, Mints
<1>g. entry.token # 0 => entry.token \in Mints
  BY <1>e, <1>n, <1>z DEF Mints
\* Tokens that have arrived keep the time they were issued at.
<1>0. ASSUME lateRefusal' = lateRefusal,
             entry' = entry \/ entry'.token = 0,
             \A k \in Mints : mint[k].state = "done" => mint'[k].issued = mint[k].issued,
             \A u \in Requesters : requester'[u].pc = "sent" => requester'[u] = requester[u]
      PROVE  InTime'
  BY <1>0, <1>i, <1>d, <1>f, <1>g DEF InTime, Flight
<1>1. CASE Clear
  BY <1>1, <1>0 DEF Clear, NoEntry
<1>2. ASSUME NEW u \in Requesters, GetCached(u) PROVE InTime'
  <2>1. /\ requester'[u].token = entry.token /\ requester'[u].sent = now
        /\ \A v \in Requesters : v # u => requester'[v] = requester[v]
    BY <1>2, <1>r DEF GetCached, Sent, RequesterRecord
  <2>2. entry.token # 0 /\ now < entry.refreshAt
    BY <1>2, <1>n, <1>e DEF GetCached, Stale
  <2>3. mint[entry.token].issued \in Nat
    BY <2>2, <1>g, <1>s
  <2>4. now + TripTime < mint[entry.token].issued + Ttl
    BY <2>2, <2>3, <1>i, <1>n, <1>z, <1>e
  <2>5. UNCHANGED <<entry, mint, lateRefusal>>
    BY <1>2 DEF GetCached
  <2> QED
    BY <2>1, <2>4, <2>5, <1>i DEF InTime
<1>3. ASSUME NEW u \in Requesters, GetMint(u) PROVE InTime'
  <2>1. \A k \in Mints : mint'[k].issued = mint[k].issued
    BY <1>3, <1>m DEF GetMint, MintRecord
  <2>2. \A v \in Requesters : requester'[v].pc = "sent" => requester'[v] = requester[v]
    BY <1>3, <1>r DEF GetMint, RequesterRecord
  <2> QED
    BY <1>0, <1>3, <2>1, <2>2 DEF GetMint
<1>4. ASSUME NEW u \in Requesters, GetJoin(u) PROVE InTime'
  <2>1. \A v \in Requesters : requester'[v].pc = "sent" => requester'[v] = requester[v]
    BY <1>4, <1>r DEF GetJoin, RequesterRecord
  <2> QED
    BY <1>0, <1>4, <2>1 DEF GetJoin
<1>5. ASSUME NEW u \in Requesters, Accept(u) PROVE InTime'
  <2>1. \A v \in Requesters : requester'[v].pc = "sent" => requester'[v] = requester[v]
    BY <1>5, <1>r DEF Accept, AtRest
  <2> QED
    BY <1>0, <1>5, <2>1 DEF Accept
<1>6. ASSUME NEW u \in Requesters, Refuse(u) PROVE InTime'
  <2>1. \A v \in Requesters : requester'[v].pc = "sent" => requester'[v] = requester[v]
    BY <1>6, <1>r DEF Refuse, AtRest
  <2>2. requester[u].pc = "sent"
    BY <1>6 DEF Refuse
  <2>3. now <= requester[u].sent + TripTime
    BY <2>2 DEF Timely
  <2>4. requester[u].sent + TripTime < mint[requester[u].token].issued + Ttl
    BY <2>2, <1>i
  <2>5. ~Expired(requester[u].token)
    <3>1. mint[requester[u].token].issued \in Nat
      BY <2>2, <1>d, <1>s
    <3> QED
      BY <2>3, <2>4, <3>1, <1>n, <1>v, <1>z DEF Expired
  <2>6. requester[u].token <= revoked
    BY <1>6, <2>5 DEF Refuse
  <2>7. ~(requester[u].token > revoked)
    BY <2>6, <1>v, <1>z DEF TokenInv, TokenTypes
  <2>8. ~lateRefusal'
    BY <1>6, <2>7, <1>i DEF Refuse
  <2>9. mint' = mint /\ (entry' = entry \/ entry'.token = 0)
    BY <1>6 DEF Refuse, NoEntry
  <2> QED
    BY <2>1, <2>8, <2>9, <1>i DEF InTime
<1>7. ASSUME NEW k \in Mints, Issue(k) PROVE InTime'
  <2>1. \A j \in Mints : mint[j].state = "done" => mint'[j].issued = mint[j].issued
    BY <1>7, <1>m DEF Issue
  <2> QED
    BY <1>0, <1>7, <2>1 DEF Issue
<1>8. ASSUME NEW k \in Mints, MintSettles(k) PROVE InTime'
  <2>1. \A j \in Mints : mint'[j].issued = mint[j].issued
    BY <1>8, <1>m DEF MintSettles, MintRecord
  <2>2. now <= mint[k].issued + MintTime
    BY <1>8, <1>s, <1>n, <1>z DEF MintSettles, Timely, UnderWay
  <2>3. \/ entry' = entry
        \/ entry'.token = k /\ entry'.refreshAt = now + Ttl - M
    BY <1>8, <1>k DEF MintSettles
  <2>4. now + Ttl - M + TripTime <= mint[k].issued + Ttl
    BY <2>2, <1>b, <1>k, <1>s, <1>n, <1>z
  <2>5. now + TripTime < mint[k].issued + Ttl
    BY <2>2, <1>b, <1>k, <1>s, <1>n, <1>z
  <2>6. \A v \in Requesters : \/ requester'[v] = requester[v]
                              \/ requester'[v].token = k /\ requester'[v].sent = now
    BY <1>8, <1>r DEF MintSettles, Sent, RequesterRecord
  <2>7. lateRefusal' = lateRefusal
    BY <1>8 DEF MintSettles
  <2>8. entry'.token # 0 => entry'.refreshAt + TripTime <= mint'[entry'.token].issued + Ttl
    BY <2>1, <2>3, <2>4, <1>i, <1>g
  <2>9. ASSUME NEW v \in Requesters, requester'[v].pc = "sent"
        PROVE  requester'[v].sent + TripTime < mint'[requester'[v].token].issued + Ttl
    BY <2>9, <2>1, <2>5, <2>6, <1>d, <1>i
  <2> QED
    BY <2>7, <2>8, <2>9, <1>i DEF InTime
<1>9. ASSUME NEW k \in Mints, MintFails(k) PROVE InTime'
  <2>1. \A j \in Mints : mint'[j].issued = mint[j].issued
    BY <1>9, <1>m DEF MintFails, MintRecord
  <2>2. \A v \in Requesters : requester'[v].pc = "sent" => requester'[v] = requester[v]
    BY <1>9, <1>r DEF MintFails, AtRest
  <2> QED
    BY <1>0, <1>9, <2>1, <2>2 DEF MintFails
<1>10. CASE Tick \/ Revoke \/ UNCHANGED tokenVars
  BY <1>10, <1>0 DEF Tick, Revoke, tokenVars
<1> QED
  BY <1>1, <1>2, <1>3, <1>4, <1>5, <1>6, <1>7, <1>8, <1>9, <1>10 DEF TokenNext

LEMMA TokenInvImplies == TokenInv /\ Fresher /\ InTime => TokenSafe
<1> SUFFICES ASSUME TokenInv, Fresher, InTime PROVE TokenSafe
  OBVIOUS
<1>z. MaxMints \in Nat
  BY TokenAssumption
<1>1. inflight \in {0} \cup {k \in Mints : mint[k].state \in {"asked", "issued"}}
  BY <1>z DEF TokenInv, TokenTypes, Flight, UnderWay, Mints
<1>2. TokenTypeOK
  BY <1>1 DEF TokenInv, TokenTypes, TokenTypeOK, MintRecord, RequesterRecord
<1>3. OneMint
  <2>1. SUFFICES ASSUME ~disposed
                 PROVE  Cardinality({k \in Mints : mint[k].state \in {"asked", "issued"}}) <= 1
    BY DEF OneMint
  <2> DEFINE S == {k \in Mints : mint[k].state \in {"asked", "issued"}}
  <2>2. S \subseteq {inflight}
    BY <2>1 DEF TokenInv, SingleFlight, UnderWay
  <2>3. S = {} \/ S = {inflight}
    BY <2>2
  <2> HIDE DEF S
  <2>4. Cardinality({}) = 0 /\ Cardinality({inflight}) = 1
    BY FS_EmptySet, FS_Singleton
  <2>5. Cardinality(S) <= 1
    BY <2>3, <2>4
  <2> QED
    BY <2>5 DEF S
<1>4. ArrivesAlive
  BY DEF InTime, ArrivesAlive
<1>5. RetryIsFresh
  BY DEF Fresher, RetryIsFresh
<1> QED
  BY <1>2, <1>3, <1>4, <1>5 DEF TokenSafe

\* For any number of requesters, mints, revocations and any times: until
\* clear() is called one mint is under way at most and a retry presents a newer
\* token than the refused one; and with a skew that covers a mint and a request
\* no token is refused for having expired.
THEOREM TokensAreSafe == TokenSpec => []TokenSafe
<1>1. TokenInit => TokenInv /\ Fresher /\ Timely /\ InTime
  BY TokenInitSafe, TokenAssumption
     DEF TokenInit, Fresher, Timely, InTime, AtRest, NoEntry, UnderWay
<1>2. /\ TokenInv /\ Fresher /\ Timely /\ InTime /\ [TokenNext]_tokenVars
      => (TokenInv /\ Fresher /\ Timely /\ InTime)'
  BY TokenTypesStep, FlightStep, FresherStep, TimelyStep, InTimeStep DEF TokenInv
<1> QED
  BY <1>1, <1>2, TokenInvImplies, PTL DEF TokenSpec
============================================================================
