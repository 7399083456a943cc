------------------------- MODULE ConnectionClients -------------------------
(***************************************************************************)
(* The client cache of packages/connection-sdk for one external connection,*)
(* and the code around it: the connection routes of the API, its probe     *)
(* route, and the worker's connection probe sweep.  Each process has a     *)
(* cache and a slot of creations in flight of its own.                     *)
(*                                                                         *)
(* The row is its revision: an update gives it a new one, and a client     *)
(* remembers the revision it was built from.  A prober is any caller that  *)
(* resolves the connection, acquires its client and uses it; the settling  *)
(* of a creation, with the callbacks hanging on it, is one step.           *)
(***************************************************************************)
EXTENDS Naturals, FiniteSets

CONSTANTS
    ApiProbers,      \* requests to the probe route, in the API process
    Sweeps,          \* probe sweeps, in the worker process
    MaxUpdates,      \* bound: updates of the row
    MaxClients,      \* bound: clients created
    MaxCreateFaults  \* bound: creations that fail

ASSUME ClientsAssumption ==
    /\ MaxUpdates \in Nat /\ MaxClients \in Nat /\ MaxCreateFaults \in Nat
    /\ ApiProbers \cap Sweeps = {}

VARIABLES
    connection,  \* [rev, archived, deleted]
    admin,       \* what the admin request under way has left to do
    client,      \* client[k]: the k-th client, from its create() on
    created,     \* how many creations were started
    cached,      \* cached[p]: the client process p has cached (0: none)
    slot,        \* slot[p]: the client process p is creating (0: none)
    prober,      \* prober[u]: what each prober does
    probed,      \* the revision behind the last recorded probe (0: none)
    createFaults,
    crossed      \* ghost: an admin request met an acquisition under way

clientVars == <<connection, admin, client, created, cached, slot, prober, probed,
                createFaults, crossed>>

Processes == {"api", "worker"}
Probers == ApiProbers \cup Sweeps
HomeOf(u) == IF u \in ApiProbers THEN "api" ELSE "worker"
ClientIds == 1 .. MaxClients
IdleProbe == [pc |-> "idle", rev |-> 0, client |-> 0]

ClientsInit ==
    /\ connection = [rev |-> 1, archived |-> FALSE, deleted |-> FALSE]
    /\ admin = "idle"
    /\ client = [k \in ClientIds |-> [state |-> "none", rev |-> 0, home |-> "api"]]
    /\ created = 0
    /\ cached = [p \in Processes |-> 0]
    /\ slot = [p \in Processes |-> 0]
    /\ prober = [u \in Probers |-> IdleProbe]
    /\ probed = 0
    /\ createFaults = 0
    /\ crossed = FALSE

Acquiring(p) == \E u \in Probers : /\ HomeOf(u) = p
                                   /\ prober[u].pc \in {"resolved", "waiting"}

----------------------------------------------------------------------------
(* The admin routes.                                                       *)

\* MUTANT of Update: the route returns without closing the client.
UpdateKeeps ==
    /\ admin = "idle" /\ ~connection.deleted /\ connection.rev <= MaxUpdates
    /\ connection' = [connection EXCEPT !.rev = @ + 1]
    /\ crossed' = (crossed \/ Acquiring("api"))
    /\ UNCHANGED <<admin, client, created, cached, slot, prober, probed, createFaults>>

\* PUT /connections/:id, up to the update of the row (which may also clear
\* or set archivedAt).
Update ==
    /\ admin = "idle" /\ ~connection.deleted /\ connection.rev <= MaxUpdates
    /\ \E archived \in BOOLEAN :
         connection' = [connection EXCEPT !.rev = @ + 1, !.archived = archived]
    /\ admin' = "close"
    /\ crossed' = (crossed \/ Acquiring("api"))
    /\ UNCHANGED <<client, created, cached, slot, prober, probed, createFaults>>

\* DELETE without force: the row is archived, its client is left alone.
ArchiveConnection ==
    /\ admin = "idle" /\ ~connection.deleted /\ ~connection.archived
    /\ connection' = [connection EXCEPT !.archived = TRUE]
    /\ UNCHANGED <<admin, client, created, cached, slot, prober, probed,
                   createFaults, crossed>>

\* DELETE with force, once no dataset or pipeline refers to the connection.
DropRow ==
    /\ admin = "idle" /\ ~connection.deleted
    /\ connection' = [connection EXCEPT !.deleted = TRUE]
    /\ admin' = "close"
    /\ crossed' = (crossed \/ Acquiring("api"))
    /\ UNCHANGED <<client, created, cached, slot, prober, probed, createFaults>>

\* closeClient(), in the API process: drop the cached client and dispose it;
\* a creation in flight is left alone.
CloseClient ==
    /\ admin = "close"
    /\ admin' = "idle"
    /\ cached' = [cached EXCEPT !["api"] = 0]
    /\ client' = [k \in ClientIds |-> IF k = cached["api"]
                    THEN [client[k] EXCEPT !.state = "disposed"] ELSE client[k]]
    /\ crossed' = (crossed \/ Acquiring("api"))
    /\ UNCHANGED <<connection, created, slot, prober, probed, createFaults>>

----------------------------------------------------------------------------
(* Probers: the probe route and the sweep.                                 *)

\* The row is read (an archived or deleted one ends the probe) and its
\* secret resolved.
ResolveConnection(u) ==
    /\ prober[u].pc = "idle"
    /\ ~connection.archived /\ ~connection.deleted
    /\ prober' = [prober EXCEPT ![u] = [IdleProbe EXCEPT !.pc = "resolved",
                                                       !.rev = connection.rev]]
    /\ UNCHANGED <<connection, admin, client, created, cached, slot, probed,
                   createFaults, crossed>>

Use(u, k) == [prober EXCEPT ![u].pc = "using", ![u].client = k]

\* acquireClient() finds a cached client.
AcquireCached(u) ==
    /\ prober[u].pc = "resolved"
    /\ cached[HomeOf(u)] # 0
    /\ prober' = Use(u, cached[HomeOf(u)])
    /\ UNCHANGED <<connection, admin, client, created, cached, slot, probed,
                   createFaults, crossed>>

\* acquireClient() finds neither a client nor a creation: it starts one,
\* with the configuration this caller resolved.
AcquireFirst(u) ==
    LET p == HomeOf(u) IN
    /\ prober[u].pc = "resolved" /\ cached[p] = 0 /\ slot[p] = 0
    /\ created < MaxClients
    /\ created' = created + 1
    /\ client' = [client EXCEPT ![created + 1] =
                    [state |-> "creating", rev |-> prober[u].rev, home |-> p]]
    /\ slot' = [slot EXCEPT ![p] = created + 1]
    /\ prober' = [prober EXCEPT ![u].pc = "waiting", ![u].client = created + 1]
    /\ UNCHANGED <<connection, admin, cached, probed, createFaults, crossed>>

\* acquireClient() joins the creation in flight, whoever started it.
AcquireJoin(u) ==
    LET p == HomeOf(u) IN
    /\ prober[u].pc = "resolved" /\ cached[p] = 0 /\ slot[p] # 0
    /\ prober' = [prober EXCEPT ![u].pc = "waiting", ![u].client = slot[p]]
    /\ UNCHANGED <<connection, admin, client, created, cached, slot, probed,
                   createFaults, crossed>>

\* Everyone waiting for the k-th client goes on, with it or with its error.
Proceed(k) ==
    [u \in Probers |-> IF prober[u].pc = "waiting" /\ prober[u].client = k
                         THEN [prober[u] EXCEPT !.pc = "using"] ELSE prober[u]]

\* create() resolves: the client is cached, the slot freed if it is still
\* this creation's, and everyone waiting goes on.
CreateSettles(k) ==
    /\ client[k].state = "creating"
    /\ client' = [client EXCEPT ![k].state = "live"]
    /\ cached' = [cached EXCEPT ![client[k].home] = k]
    /\ slot' = [p \in Processes |-> IF slot[p] = k THEN 0 ELSE slot[p]]
    /\ prober' = Proceed(k)
    /\ UNCHANGED <<connection, admin, created, probed, createFaults, crossed>>

\* create() rejects: the slot is freed all the same and every waiter's
\* acquisition throws, which probeConnection turns into a failed probe.
CreateFails(k) ==
    /\ client[k].state = "creating"
    /\ createFaults < MaxCreateFaults
    /\ createFaults' = createFaults + 1
    /\ client' = [client EXCEPT ![k].state = "failed"]
    /\ slot' = [p \in Processes |-> IF slot[p] = k THEN 0 ELSE slot[p]]
    /\ prober' = Proceed(k)
    /\ UNCHANGED <<connection, admin, created, cached, probed, crossed>>

\* The probe has its answer, good or bad, and recordProbe writes it to the row.
RecordProbe(u) ==
    /\ prober[u].pc = "using"
    /\ probed' = IF connection.deleted THEN probed ELSE client[prober[u].client].rev
    /\ prober' = [prober EXCEPT ![u] = IdleProbe]
    /\ UNCHANGED <<connection, admin, client, created, cached, slot, createFaults, crossed>>

ClientsNext ==
    \/ Update \/ ArchiveConnection \/ DropRow \/ CloseClient
    \/ \E u \in Probers :
        ResolveConnection(u) \/ AcquireCached(u) \/ AcquireFirst(u) \/ AcquireJoin(u)
          \/ RecordProbe(u)
    \/ \E k \in ClientIds : CreateSettles(k) \/ CreateFails(k)

ClientsSpec == ClientsInit /\ [][ClientsNext]_clientVars

----------------------------------------------------------------------------
(* Properties.                                                             *)

\* Type correctness of the row, the clients and the probers; what is cached
\* is a client that has not been disposed.
ClientsTypeOK ==
    /\ connection \in [rev : 1..(MaxUpdates + 1), archived : BOOLEAN, deleted : BOOLEAN]
    /\ admin \in {"idle", "close"}
    /\ client \in [ClientIds ->
         [state : {"none", "creating", "live", "failed", "disposed"},
          rev : 0..(MaxUpdates + 1), home : Processes]]
    /\ cached \in [Processes -> {0} \cup {k \in ClientIds : client[k].state = "live"}]
    /\ slot \in [Processes -> 0..created]
    /\ created \in 0..MaxClients
    /\ prober \in [Probers ->
         [pc : {"idle", "resolved", "waiting", "using"},
          rev : 0..(MaxUpdates + 1), client : 0..MaxClients]]
    /\ probed \in 0..(MaxUpdates + 1)

\* No pool leaks: whatever acquisitions, failures and closes interleave, a
\* client that is alive is the one its process has cached, so that a later
\* close can dispose it (the single-flight slot of acquireClient).
NoneLeaks ==
    \A k \in ClientIds : client[k].state = "live" => cached[client[k].home] = k

\* A failing creation does not wedge the connection: a slot in use is that
\* of a creation still under way (the finally of acquireClient).
SlotIsAlive ==
    \A p \in Processes : slot[p] # 0 => client[slot[p]].state = "creating"

\* An update takes hold in the API process: when the PUT has returned, what
\* is cached there was built from the row as it is now, unless a prober had
\* read the row and not yet acquired its client while the PUT was working.
UpdateTakesHold ==
    (admin = "idle" /\ ~crossed /\ cached["api"] # 0) =>
      /\ ~connection.deleted
      /\ client[cached["api"]].rev = connection.rev

\* However updates, archivals, probes and failing drivers interleave, no client
\* is lost open, no caller waits for nothing, and an edit takes hold
\* (acquireClient, closeClient, connection routes).
ClientsSafe ==
    /\ ClientsTypeOK /\ NoneLeaks /\ SlotIsAlive /\ UpdateTakesHold
============================================================================
