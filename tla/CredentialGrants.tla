-------------------------- MODULE CredentialGrants --------------------------
(***************************************************************************)
(* Refresh grants of a run: nodes with a sidecar plugin mint them, the end *)
(* of the run revokes them, and sidecars redeem them at the API, whose     *)
(* handler reads the grant once and awaits several times before it stamps  *)
(* the redemption.  The limiters in front of the handler are those of      *)
(* RateLimiter; a request they refuse changes nothing here.                *)
(***************************************************************************)
EXTENDS RateLimiter

CONSTANTS
    Sidecars,    \* nodes of the run with a sidecar plugin
    Redemptions, \* requests to the refresh route
    MaxTtl,      \* maxTtlMs
    Deadlines,   \* deadlines the run may have; a late one stands for none
    MaxNow       \* bound: the clock

ASSUME GrantConstants ==
    /\ {MaxTtl, MaxNow} \subseteq Nat \ {0}
    /\ Deadlines \subseteq Nat
    /\ IsFiniteSet(Redemptions)

NoRow == [expires |-> 0, revoked |-> FALSE, count |-> 0]
Idle  == [stage |-> "idle", node |-> "-", at |-> 0, copy |-> NoRow]

VARIABLES
    now,       \* time
    deadline,  \* context.deadline
    minting,   \* minting[n]: "no", "creating", "minted" or "failed"
    expiry,    \* expiry[n]: expiresAt as computed before the insert
    grantRow,  \* grantRow[n]: the row of connection_credential_grants
    ended,     \* "no", "revoked", or "kept" when the revocation failed
    redeem,    \* redeem[r]: a request: stage ("refused" for every status but 200), node,
               \* start, and its copy of the row
    audited,   \* audited[r]: the redeemCount the audit entry shows, 0 if none
    before,    \* history: requests that were past the look-up at the revocation
    crossed    \* history: pairs of requests, one looking up while the other had yet to stamp

grantVars == <<now, deadline, minting, expiry, grantRow, ended, redeem, audited, before, crossed>>

Past == {"looked", "resolved", "made", "stamped", "ok"}  \* past the look-up
Open == {"looked", "resolved", "made"}                   \* ... and not stamped

GrantTypeOK ==
    /\ minting \in [Sidecars -> {"no", "creating", "minted", "failed"}]
    /\ \A r \in Redemptions :
           redeem[r].stage \in {"idle", "started", "refused"} \cup Past
    /\ audited \in [Redemptions -> 0 .. Cardinality(Redemptions)]

GrantInit ==
    /\ now = 0
    /\ deadline \in Deadlines
    /\ minting = [n \in Sidecars |-> "no"]
    /\ expiry = [n \in Sidecars |-> 0]
    /\ grantRow = [n \in Sidecars |-> NoRow]
    /\ ended = "no"
    /\ redeem = [r \in Redemptions |-> Idle]
    /\ audited = [r \in Redemptions |-> 0]
    /\ before = {}
    /\ crossed = {}

-----------------------------------------------------------------------------
(* The run                                                                 *)

\* issueConnectionRefreshGrant: the expiry is bounded by deadline and ceiling,
\* then the insert is awaited.  A sibling may still do so after the run ended.
Issue(n) ==
    /\ minting[n] = "no"
    /\ minting' = [minting EXCEPT ![n] = "creating"]
    /\ expiry' = [expiry EXCEPT ![n] = AtMost(deadline, now + MaxTtl)]
    /\ UNCHANGED <<now, deadline, grantRow, ended, redeem, audited, before, crossed>>

\* grants.create: the row is there, or the node fails.
CreateGrant(n) ==
    /\ minting[n] = "creating"
    /\ \/ /\ minting' = [minting EXCEPT ![n] = "minted"]
          /\ grantRow' = [grantRow EXCEPT ![n] = [NoRow EXCEPT !.expires = expiry[n]]]
       \/ /\ minting' = [minting EXCEPT ![n] = "failed"]
          /\ UNCHANGED grantRow
    /\ UNCHANGED <<now, deadline, expiry, ended, redeem, audited, before, crossed>>

\* finally: revokeForExecution over the rows there are, best effort.
EndRun ==
    /\ ended = "no"
    /\ \/ /\ ended' = "revoked"
          /\ grantRow' = [n \in Sidecars |-> [grantRow[n] EXCEPT !.revoked = minting[n] = "minted"]]
          /\ before' = {r \in Redemptions : redeem[r].stage \in Past}
       \/ /\ ended' = "kept"
          /\ UNCHANGED <<grantRow, before>>
    /\ UNCHANGED <<now, deadline, minting, expiry, redeem, audited, crossed>>

-----------------------------------------------------------------------------
(* The refresh route                                                       *)

Goes(r, stage) == redeem' = [redeem EXCEPT ![r].stage = stage]

run == <<deadline, minting, expiry, ended, before>>

\* A sidecar presents its token; `now` is taken before the look-up.
StartRedeem(r, n) ==
    /\ redeem[r].stage = "idle"
    /\ minting[n] = "minted"
    /\ redeem' = [redeem EXCEPT ![r] = [Idle EXCEPT !.stage = "started", !.node = n, !.at = now]]
    /\ UNCHANGED <<now, run, grantRow, audited, crossed>>

\* Mutant: the expiry is not looked at.
LookUpUnexpired(r) ==
    /\ redeem[r].stage = "started"
    /\ LET row == grantRow[redeem[r].node]
       IN  IF row.revoked
           THEN Goes(r, "refused") /\ UNCHANGED crossed
           ELSE /\ redeem' = [redeem EXCEPT ![r].stage = "looked", ![r].copy = row]
                /\ crossed' = crossed \cup {{r, q} : q \in {p \in Redemptions : redeem[p].stage \in Open}}
    /\ UNCHANGED <<now, run, grantRow, audited>>

\* getByToken: refused when revoked or expired.
LookUp(r) ==
    /\ redeem[r].stage = "started"
    /\ LET row == grantRow[redeem[r].node]
       IN  IF row.revoked \/ row.expires <= redeem[r].at
           THEN Goes(r, "refused") /\ UNCHANGED crossed
           ELSE /\ redeem' = [redeem EXCEPT ![r].stage = "looked", ![r].copy = row]
                /\ crossed' = crossed \cup {{r, q} : q \in {p \in Redemptions : redeem[p].stage \in Open}}
    /\ UNCHANGED <<now, run, grantRow, audited>>

\* resolver.resolve: the connection, or none any more, or an error ...
ResolveConnection(r) ==
    /\ redeem[r].stage = "looked"
    /\ Goes(r, "resolved") \/ Goes(r, "refused")
    /\ UNCHANGED <<now, run, grantRow, audited, crossed>>

\* ... then the driver: a credential, none, or an error.
Materialize(r) ==
    /\ redeem[r].stage = "resolved"
    /\ Goes(r, "made") \/ Goes(r, "refused")
    /\ UNCHANGED <<now, run, grantRow, audited, crossed>>

\* recordRedemption: one UPDATE counts up.
RecordRedemption(r) ==
    /\ redeem[r].stage = "made"
    /\ \/ /\ Goes(r, "stamped")
          /\ grantRow' = [grantRow EXCEPT ![redeem[r].node].count = @ + 1]
       \/ Goes(r, "refused") /\ UNCHANGED grantRow
    /\ UNCHANGED <<now, run, audited, crossed>>

\* The audit entry numbers the redemption from the copy; then the answer.
AuditRedemption(r) ==
    /\ redeem[r].stage = "stamped"
    /\ Goes(r, "ok")
    /\ audited' = [audited EXCEPT ![r] = redeem[r].copy.count + 1]
    /\ UNCHANGED <<now, run, grantRow, crossed>>

TimePasses ==
    /\ now < MaxNow
    /\ now' = now + 1
    /\ UNCHANGED <<run, grantRow, redeem, audited, crossed>>

GrantNext ==
    \/ \E n \in Sidecars : Issue(n) \/ CreateGrant(n)
    \/ EndRun
    \/ \E r \in Redemptions, n \in Sidecars : StartRedeem(r, n)
    \/ \E r \in Redemptions : \/ LookUp(r) \/ ResolveConnection(r) \/ Materialize(r)
                              \/ RecordRedemption(r) \/ AuditRedemption(r)
    \/ TimePasses

GrantSpec == GrantInit /\ [][GrantNext]_grantVars

-----------------------------------------------------------------------------
(* Properties                                                              *)

\* After the run has revoked its grants a request goes on only if it was past
\* the look-up by then, or has the grant of a sibling that was minted later; no
\* request that started after the deadline does either way.
RevocationStops ==
    \A r \in Redemptions :
        redeem[r].stage \in Past =>
            /\ grantRow[redeem[r].node].revoked => r \in before
            /\ redeem[r].at < deadline

\* The count of a grant is that of the requests that stamped it, however they
\* crossed.
CountExact ==
    \A n \in Sidecars :
        grantRow[n].count =
            Cardinality({r \in Redemptions : redeem[r].node = n /\ redeem[r].stage \in {"stamped", "ok"}})

\* Two audit entries of a grant bear the same number only if their requests
\* crossed, and no number is beyond the count.
AuditExplained ==
    \A r \in Redemptions : audited[r] > 0 =>
        /\ audited[r] <= grantRow[redeem[r].node].count
        /\ \A q \in Redemptions \ {r} :
               redeem[q].node = redeem[r].node /\ audited[q] = audited[r] => {r, q} \in crossed

\* Grants end with their run and their deadline but for requests on their way,
\* their redemptions are counted, and the limiters before them keep their word.
RefreshSafe ==
    LimiterSafe /\ GrantTypeOK /\ RevocationStops /\ CountExact /\ AuditExplained
=============================================================================
