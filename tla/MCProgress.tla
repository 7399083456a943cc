----------------------------- MODULE MCProgress -----------------------------
(***************************************************************************)
(* What must eventually happen: result streams end, the git mirror catches *)
(* up, tabs get their live-events socket back.  Beside them the smaller    *)
(* components: pulls, the refresh route and its limiter, the graph checks  *)
(* of a specification and the resolution of its configuration.  They do    *)
(* not share state, so a behaviour exercises one of them, picked at the    *)
(* start, and leaves the others in an initial state; the run covers each.  *)
(***************************************************************************)
EXTENDS ExecutionStream, GitMirror, LiveEvents, AgentPulls, CredentialGrants,
        SpecGraph, ConfigResolver

VARIABLE focus  \* the component this behaviour exercises

SomeGitPlans ==
    {[commits |-> 1, saves |-> 1, faults |-> 0], [commits |-> 1, saves |-> 0, faults |-> 1]}

\* Sign-ins and visits of the two tabs, and the faults.
LivePlan(in1, in2, visits1, visits2, faulty) ==
    [signIns |-> <<in1, in2>>, visits |-> <<visits1, visits2>>, faults |-> faulty]

SomePlans ==
    {LivePlan(2, 0, 0, 0, 1), LivePlan(1, 1, 2, 1, 0),
     LivePlan(1, 0, 1, 0, 1), LivePlan(2, 0, 1, 0, 0)}

TwoItems == <<"os", "netaddr">>

FourScopes == <<"global", "environment", "tenant", "runtime">>

\* Every kind of row of the run, and one that belongs to somebody else.
SomeCandidates ==
    [scope : ToSet(FourScopes), locked : BOOLEAN, fits : BOOLEAN, ours : {TRUE}]
    \cup {[scope |-> "tenant", locked |-> TRUE, fits |-> TRUE, ours |-> FALSE]}

others == <<pullVars, agentVars, limiterVars, grantVars, graphVars, configVars>>

ProgressInit ==
    /\ focus \in {"stream", "git", "live", "pages", "agents", "limiter", "grants", "graph",
                  "config"}
    /\ StreamInit /\ ~lossy
    /\ GitInit /\ (focus = "git" \/ gitFaults = 0)
    /\ LiveInit /\ (focus = "live" \/ visits[1] = 2)
    /\ PullInit /\ (focus = "pages" \/ (puller = "k8s" /\ list = <<>>))
    /\ AgentInit /\ (focus = "agents" \/ kind = "vulns")
    /\ LimiterInit
    /\ GrantInit /\ (focus = "grants" \/ deadline = 1)
    /\ GraphInit /\ (focus = "graph" \/ \A v \in Vertices : adjacency[v] = {})
    /\ ConfigInit /\ (focus = "config" \/ (candidates = <<>> /\ definition.required
                                            /\ definition.tenantOverridable))

ProgressNext ==
    /\ UNCHANGED focus
    /\ IF focus = "stream" THEN StreamNext ELSE UNCHANGED streamVars
    /\ IF focus = "git" THEN GitNext ELSE UNCHANGED gitVars
    /\ IF focus = "live" THEN LiveNext ELSE UNCHANGED liveVars
    /\ IF focus = "pages" THEN PullNext ELSE UNCHANGED pullVars
    /\ IF focus = "agents" THEN AgentNext ELSE UNCHANGED agentVars
    /\ IF focus = "limiter" THEN LimiterNext ELSE UNCHANGED limiterVars
    /\ IF focus = "grants" THEN GrantNext ELSE UNCHANGED grantVars
    /\ IF focus = "graph" THEN GraphNext ELSE UNCHANGED graphVars
    /\ IF focus = "config" THEN ConfigNext ELSE UNCHANGED configVars

\* The worker goes on, the sweep runs, Redis delivers and the client reads.
StreamFairness ==
    /\ WF_streamVars(focus = "stream" /\ \E n \in Nodes : NodeOutput(n) \/ NodeFails(n))
    /\ WF_streamVars(focus = "stream" /\ \E f \in Frames : RecordStep(f) \/ FireStep(f))
    /\ WF_streamVars(focus = "stream" /\ (DagDone \/ Complete \/ FireTerminal \/ StaleSweep))
    /\ WF_streamVars(focus = "stream" /\ OnEvent)
    /\ WF_streamVars(focus = "stream" /\ (ListSteps \/ Replay \/ Recheck \/ Yield))

\* Every poller goes on, and the poll interval comes to its end.
GitFairness ==
    /\ \A p \in Pods : WF_gitVars(focus = "git" /\ SyncStep(p))
    /\ WF_gitVars(focus = "git" /\ BecomesDue)

\* Browser and server take their steps; nobody has to sign in or open a room.
LiveFairness ==
    /\ \A t \in Tabs : WF_liveVars(focus = "live" /\ TabSteps(t))
    /\ \A s \in Sockets : WF_liveVars(focus = "live" /\ ServerSteps(s))

ProgressSpec ==
    /\ ProgressInit /\ [][ProgressNext]_<<focus, streamVars, gitVars, liveVars, others>>
    /\ StreamFairness /\ GitFairness /\ LiveFairness

\* What a run is given is what its specification and its configuration say: a
\* cycle is found if there is one, stages follow the edges, and locks and scopes
\* decide on values whatever order they are read in (validatePipelineSpec,
\* projectStages, ConfigResolver.resolve).
InputsSafe == GraphSafe /\ ConfigSafe
=============================================================================
