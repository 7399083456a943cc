---------------------------- MODULE TokenSource ----------------------------
(***************************************************************************)
(* The token cache of packages/connection-sdk/src/token-source.ts for one  *)
(* audience, used as the Wazuh driver uses it (authedRequest): get a token,*)
(* send the request, and on a 401 invalidate and try once more.  The       *)
(* identity provider and the server are external.                          *)
(*                                                                         *)
(* Time is counted in ticks.  A mint and a request each take at most a few *)
(* ticks; the expiry the client computes counts from the answer's arrival, *)
(* the server's from the moment it issued the token.                       *)
(***************************************************************************)
EXTENDS Naturals, FiniteSets

CONSTANTS
    Requesters,     \* concurrent users of one client
    Ttl,            \* a token's lifetime
    SkewMs,         \* the configured refresh skew
    MintTime,       \* a mint takes at most this long
    TripTime,       \* a request is at the server after at most this long
    MaxMints,       \* bound: tokens minted
    MaxTime,        \* bound: ticks
    MaxTokenFaults  \* bound: failing mints, revocations, disposals

ASSUME TokenAssumption ==
    /\ Ttl \in Nat \ {0} /\ SkewMs \in Nat /\ MintTime \in Nat /\ TripTime \in Nat
    /\ MaxMints \in Nat /\ MaxTime \in Nat /\ MaxTokenFaults \in Nat

VARIABLES
    now,
    entry,       \* the cached token and when it is stale ([token |-> 0]: none)
    inflight,    \* the mint in the single-flight slot (0: none)
    mint,        \* mint[k]: the k-th mint and the token it yields
    minted,      \* how many mints were started
    requester,   \* requester[u]: what each user does
    revoked,     \* the server refuses tokens up to this number
    tokenFaults,
    disposed,    \* ghost: clear() has been called
    lateRefusal  \* ghost: a live token was refused for having expired

tokenVars == <<now, entry, inflight, mint, minted, requester, revoked,
               tokenFaults, disposed, lateRefusal>>

Mints == 1 .. MaxMints
NoEntry == [token |-> 0, refreshAt |-> 0]
AtRest == [pc |-> "idle", token |-> 0, sent |-> 0, refused |-> 0]

TokenInit ==
    /\ now = 0
    /\ entry = NoEntry
    /\ inflight = 0
    /\ mint = [k \in Mints |-> [state |-> "none", start |-> 0, issued |-> 0]]
    /\ minted = 0
    /\ requester = [u \in Requesters |-> AtRest]
    /\ revoked = 0
    /\ tokenFaults = 0
    /\ disposed = FALSE /\ lateRefusal = FALSE

TokenFault ==
    /\ tokenFaults < MaxTokenFaults
    /\ tokenFaults' = tokenFaults + 1

MinOf(a, b) == IF a < b THEN a ELSE b

\* computeRefreshAt: the skew, at most half of the time the token has left.
RefreshAt(expiresAt) == expiresAt - MinOf(SkewMs, (expiresAt - now) \div 2)

\* isStale().
Stale == now >= entry.refreshAt

\* Time passes, but no mint or request takes longer than it may.
Tick ==
    /\ now < MaxTime
    /\ \A k \in Mints : mint[k].state \in {"asked", "issued"} =>
                          now < mint[k].start + MintTime
    /\ \A u \in Requesters : requester[u].pc = "sent" =>
                               now < requester[u].sent + TripTime
    /\ now' = now + 1
    /\ UNCHANGED <<entry, inflight, mint, minted, requester, revoked,
                   tokenFaults, disposed, lateRefusal>>

Sent(u, k) == [requester[u] EXCEPT !.pc = "sent", !.token = k, !.sent = now]

\* get() with a cached token that is not stale: the request leaves with it.
GetCached(u) ==
    /\ requester[u].pc \in {"idle", "again"}
    /\ entry.token # 0 /\ ~Stale
    /\ requester' = [requester EXCEPT ![u] = Sent(u, entry.token)]
    /\ UNCHANGED <<now, entry, inflight, mint, minted, revoked, tokenFaults,
                   disposed, lateRefusal>>

\* get() with nothing usable cached and no mint in flight: start one.
GetMint(u) ==
    /\ requester[u].pc \in {"idle", "again"}
    /\ entry.token = 0 \/ Stale
    /\ inflight = 0
    /\ minted < MaxMints
    /\ minted' = minted + 1
    /\ mint' = [mint EXCEPT ![minted + 1].state = "asked",
                            ![minted + 1].start = now]
    /\ inflight' = minted + 1
    /\ requester' = [requester EXCEPT ![u].pc = "wait", ![u].token = minted + 1]
    /\ UNCHANGED <<now, entry, revoked, tokenFaults, disposed, lateRefusal>>

\* get() with a mint in flight: await it.
GetJoin(u) ==
    /\ requester[u].pc \in {"idle", "again"}
    /\ entry.token = 0 \/ Stale
    /\ inflight # 0
    /\ requester' = [requester EXCEPT ![u].pc = "wait", ![u].token = inflight]
    /\ UNCHANGED <<now, entry, inflight, mint, minted, revoked, tokenFaults,
                   disposed, lateRefusal>>

\* The identity provider issues the token; the answer is on its way.
Issue(k) ==
    /\ mint[k].state = "asked"
    /\ mint' = [mint EXCEPT ![k].state = "issued", ![k].issued = now]
    /\ UNCHANGED <<now, entry, inflight, minted, requester, revoked,
                   tokenFaults, disposed, lateRefusal>>

Waiting(k) == {u \in Requesters : requester[u].pc = "wait" /\ requester[u].token = k}

\* The mint resolves: its slot is freed if it is still its own, and every
\* caller awaiting it caches the token and sends its request.
MintSettles(k) ==
    /\ mint[k].state = "issued"
    /\ mint' = [mint EXCEPT ![k].state = "done"]
    /\ inflight' = IF inflight = k THEN 0 ELSE inflight
    /\ entry' = IF Waiting(k) = {} THEN entry
                ELSE [token |-> k, refreshAt |-> RefreshAt(now + Ttl)]
    /\ requester' = [u \in Requesters |->
                       IF u \in Waiting(k) THEN Sent(u, k) ELSE requester[u]]
    /\ UNCHANGED <<now, minted, revoked, tokenFaults, disposed, lateRefusal>>

\* The mint rejects: nothing is cached, every caller awaiting it throws.
MintFails(k) ==
    /\ mint[k].state = "asked"
    /\ TokenFault
    /\ mint' = [mint EXCEPT ![k].state = "failed"]
    /\ inflight' = IF inflight = k THEN 0 ELSE inflight
    /\ requester' = [u \in Requesters |->
                       IF u \in Waiting(k) THEN AtRest ELSE requester[u]]
    /\ UNCHANGED <<now, entry, minted, revoked, disposed, lateRefusal>>

Expired(k) == now >= mint[k].issued + Ttl

\* The request arrives and is accepted.
Accept(u) ==
    /\ requester[u].pc = "sent"
    /\ requester[u].token > revoked /\ ~Expired(requester[u].token)
    /\ requester' = [requester EXCEPT ![u] = AtRest]
    /\ UNCHANGED <<now, entry, inflight, mint, minted, revoked, tokenFaults,
                   disposed, lateRefusal>>

\* MUTANT of Refuse: the request is tried again without invalidate().
RefuseKeeps(u) ==
    LET k == requester[u].token IN
    /\ requester[u].pc = "sent"
    /\ k <= revoked \/ Expired(k)
    /\ requester' = [requester EXCEPT ![u] =
         IF requester[u].refused = 0
         THEN [AtRest EXCEPT !.pc = "again", !.refused = k] ELSE AtRest]
    /\ lateRefusal' = (lateRefusal \/ k > revoked)
    /\ UNCHANGED <<now, entry, inflight, mint, minted, revoked, tokenFaults, disposed>>

\* The request is answered 401: the first time the cache is invalidated and
\* the request tried again, the second time it fails.
Refuse(u) ==
    LET k == requester[u].token
        first == requester[u].refused = 0 IN
    /\ requester[u].pc = "sent"
    /\ k <= revoked \/ Expired(k)
    /\ entry' = IF first THEN NoEntry ELSE entry
    /\ requester' = [requester EXCEPT ![u] =
         IF first THEN [AtRest EXCEPT !.pc = "again", !.refused = k] ELSE AtRest]
    /\ lateRefusal' = (lateRefusal \/ k > revoked)
    /\ UNCHANGED <<now, inflight, mint, minted, revoked, tokenFaults, disposed>>

Issued == {k \in Mints : mint[k].state \in {"issued", "done"}}

\* The server revokes every token issued so far (a password change).
Revoke ==
    /\ TokenFault
    /\ \E k \in Issued : k > revoked /\ \A j \in Issued : j <= k /\ revoked' = k
    /\ UNCHANGED <<now, entry, inflight, mint, minted, requester, disposed,
                   lateRefusal>>

\* The driver disposes the client: clear() forgets the token and the slot;
\* what is under way goes on.
Clear ==
    /\ TokenFault
    /\ entry' = NoEntry
    /\ inflight' = 0
    /\ disposed' = TRUE
    /\ UNCHANGED <<now, mint, minted, requester, revoked, lateRefusal>>

TokenNext ==
    \/ Tick \/ Revoke \/ Clear
    \/ \E u \in Requesters :
        GetCached(u) \/ GetMint(u) \/ GetJoin(u) \/ Accept(u) \/ Refuse(u)
    \/ \E k \in Mints : Issue(k) \/ MintSettles(k) \/ MintFails(k)

TokenSpec == TokenInit /\ [][TokenNext]_tokenVars

----------------------------------------------------------------------------
(* Properties.                                                             *)

\* Type correctness of the cache, the mints and the requests; a slot in use
\* is that of a mint still under way.
TokenTypeOK ==
    /\ now \in 0..MaxTime /\ minted \in 0..MaxMints /\ revoked \in 0..MaxMints
    /\ entry \in [token : 0..minted, refreshAt : 0..(MaxTime + Ttl)]
    /\ mint \in [Mints -> [state : {"none", "asked", "issued", "done", "failed"},
                           start : 0..MaxTime, issued : 0..MaxTime]]
    /\ inflight \in {0} \cup {k \in Mints : mint[k].state \in {"asked", "issued"}}
    /\ requester \in [Requesters ->
         [pc : {"idle", "wait", "sent", "again"}, token : 0..MaxMints,
          sent : 0..MaxTime, refused : 0..MaxMints]]

\* Single flight: however many callers find the token stale at once, one
\* mint is under way, unless clear() dropped the slot of another.
OneMint ==
    ~disposed =>
      Cardinality({k \in Mints : mint[k].state \in {"asked", "issued"}}) <= 1

\* Refreshing early is enough: with a skew that covers a mint and a request,
\* a request is refused only because its token was revoked, never because it
\* expired on the way (computeRefreshAt, isStale).
ArrivesAlive ==
    MintTime + TripTime <= MinOf(SkewMs, Ttl \div 2) => ~lateRefusal

\* The retry after a 401 presents a token minted after the refused one,
\* whatever other callers mint and cache meanwhile (invalidate()).  Once
\* clear() has dropped a slot, an older mint may still come in last.
RetryIsFresh ==
    ~disposed => \A u \in Requesters :
      (requester[u].pc = "sent" /\ requester[u].refused # 0)
      => requester[u].token > requester[u].refused

\* One mint at a time, no token that is dead on arrival without a cause, and a
\* retry that does not send the refused token again (TokenSource, authedRequest).
TokenSafe ==
    /\ TokenTypeOK /\ OneMint /\ ArrivesAlive /\ RetryIsFresh
============================================================================
