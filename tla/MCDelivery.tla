----------------------------- MODULE MCDelivery -----------------------------
(***************************************************************************)
(* What travels between processes and what happens to it on the way: the   *)
(* builder's canvas and console, platform hooks and events, incremental    *)
(* ingestion, batch loops, tokens, result streams and the git mirror.  The *)
(* components do not share state, so a behaviour exercises one of them,    *)
(* picked at the start, and leaves the others in an initial state; the run *)
(* covers each of them.                                                    *)
(***************************************************************************)
EXTENDS Builder, RunConsole, PlatformHooks, PlatformEvents, DeltaIngest,
        BatchLoop, TokenSource, ExecutionStream, GitMirror, TLC

VARIABLE focus  \* the component this behaviour exercises

SomeGitPlans ==
    {[commits |-> 1, saves |-> 1, faults |-> 1], [commits |-> 2, saves |-> 0, faults |-> 0]}

\* A plugin that fails closed, the gating webhooks, one that fails open.
ThreeHooks == <<"closed", "gate", "open">>

\* Contents of two chunks and of one take turns.
SomeChunks == [c \in 1..MaxSaves |-> IF c % 2 = 1 THEN 2 ELSE 1]

\* The component the behaviour is about starts in any of its initial states,
\* the others in one of theirs.
DeliveryInit ==
    /\ focus \in {"builder", "console", "hooks", "events", "ingest", "batch", "tokens",
                  "stream", "git"}
    /\ BuilderInit /\ ConsoleInit /\ HooksInit /\ EventsInit /\ IngestInit
    /\ BatchInit /\ TokenInit /\ StreamInit /\ GitInit
    /\ focus = "stream" \/ ~lossy
    /\ focus = "git" \/ commits = 2
    /\ focus = "hooks" \/ \A g \in Gates : gates[g] = "new"
    /\ focus = "events" \/ \A h \in Hooked : hooked[h] = "new"
    /\ focus = "batch" \/ continueOnError

DeliveryNext ==
    /\ UNCHANGED focus
    /\ IF focus = "builder" THEN BuilderNext ELSE UNCHANGED builderVars
    /\ IF focus = "console" THEN ConsoleNext ELSE UNCHANGED consoleVars
    /\ IF focus = "hooks" THEN HooksNext ELSE UNCHANGED hooksVars
    /\ IF focus = "events" THEN EventsNext ELSE UNCHANGED eventsVars
    /\ IF focus = "ingest" THEN IngestNext ELSE UNCHANGED ingestVars
    /\ IF focus = "batch" THEN BatchNext ELSE UNCHANGED batchVars
    /\ IF focus = "tokens" THEN TokenNext ELSE UNCHANGED tokenVars
    /\ IF focus = "stream" THEN StreamNext ELSE UNCHANGED streamVars
    /\ IF focus = "git" THEN GitNext ELSE UNCHANGED gitVars

DeliverySpec ==
    DeliveryInit /\ [][DeliveryNext]_<<focus, builderVars, consoleVars, hooksVars, eventsVars,
                                       ingestVars, batchVars, tokenVars, streamVars, gitVars>>

\* Tabs, gates, consumers, replayers, runs, requesters and workers are each
\* interchangeable; they share their names here.
DeliverySymmetry == Permutations(Builders)
=============================================================================
