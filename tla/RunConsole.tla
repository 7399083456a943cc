----------------------------- MODULE RunConsole -----------------------------
(***************************************************************************)
(* The console of the pipeline builder (components/PipelineBuilder.tsx):   *)
(* doRun asks for a run, and pollExecution follows the accepted run by     *)
(* fetching its trace at intervals.  Each accepted run has a chain of      *)
(* ticks of its own; a chain goes on while it holds the current token.     *)
(***************************************************************************)
EXTENDS Naturals, FiniteSets

CONSTANT TestRuns   \* bound: runs requested, numbered in the order of requests

ASSUME ConsoleAssumption == TestRuns \in Nat

VARIABLES
    mounted,    \* is the builder on the page
    token,      \* pollToken.current
    requested,  \* runs requested so far
    awaited,    \* requests that have not been answered
    chains,     \* chains of ticks: waiting for the timer or for a trace
    followed,   \* history: the run accepted last, 0 when a newer one is asked for
    ended,      \* history: the run followed came to its end or to the cap
    strayed,    \* history: a trace of another run than that one was reported
    cutOff      \* history: a superseded chain stopped the one that followed it

consoleVars == <<mounted, token, requested, awaited, chains, followed, ended,
                 strayed, cutOff>>

ConsoleInit ==
    /\ mounted = TRUE
    /\ token = 0
    /\ requested = 0
    /\ awaited = {}
    /\ chains = {}
    /\ followed = 0
    /\ ended = FALSE
    /\ strayed = FALSE
    /\ cutOff = FALSE

Alive(c) == c.token = token

\* clearTimeout: the one timer there is goes.
Untimed(cs) == {c \in cs : c.at # "timer"}

\* stopPoll() by everyone but a superseded chain.
StopPoll == token' = token + 1 /\ chains' = Untimed(chains)

\* Run is pressed: the poller stops and the run is requested.
RequestRun ==
    /\ mounted
    /\ requested < TestRuns
    /\ StopPoll
    /\ requested' = requested + 1
    /\ awaited' = awaited \cup {requested + 1}
    /\ followed' = 0
    /\ UNCHANGED <<mounted, ended, strayed, cutOff>>

\* A request is answered, in any order: pollExecution stops the poller and
\* starts a chain with a token of its own, also after the builder has gone.
RunAccepted(r) ==
    /\ r \in awaited
    /\ awaited' = awaited \ {r}
    /\ token' = token + 2
    /\ chains' = Untimed(chains) \cup {[run |-> r, token |-> token + 2, at |-> "timer"]}
    /\ followed' = r
    /\ ended' = FALSE
    /\ cutOff' = FALSE
    /\ UNCHANGED <<mounted, requested, strayed>>

\* The request fails; nothing is followed.
RunRefused(r) ==
    /\ r \in awaited
    /\ awaited' = awaited \ {r}
    /\ UNCHANGED <<mounted, token, requested, chains, followed, ended, strayed, cutOff>>

\* The timer fires and the trace is fetched.
PollTick(c) ==
    /\ c.at = "timer"
    /\ chains' = (chains \ {c}) \cup {[c EXCEPT !.at = "trace"]}
    /\ UNCHANGED <<mounted, token, requested, awaited, followed, ended, strayed, cutOff>>

\* The end of a tick: the next one is due, unless superseded.
Rearm(c) ==
    chains' = (chains \ {c}) \cup (IF Alive(c) THEN {[c EXCEPT !.at = "timer"]} ELSE {})

\* Mutant: the token is not looked at after the fetch.
PollAnswerAnyway(c) ==
    /\ c.at = "trace"
    /\ strayed' = (strayed \/ c.run # followed)
    /\ \/ Rearm(c) /\ UNCHANGED <<token, ended>>
       \/ token' = token + 1 /\ chains' = Untimed(chains \ {c}) /\ ended' = TRUE
    /\ UNCHANGED <<mounted, requested, awaited, followed, cutOff>>

\* The trace arrives: a superseded chain ends; else it is reported, and the
\* poller stops when the run has ended or the cap is reached.
PollAnswer(c) ==
    /\ c.at = "trace"
    /\ IF ~Alive(c)
         THEN chains' = chains \ {c} /\ UNCHANGED <<token, ended, strayed>>
         ELSE /\ strayed' = (strayed \/ c.run # followed)
              /\ \/ Rearm(c) /\ UNCHANGED <<token, ended>>
                 \/ token' = token + 1 /\ chains' = Untimed(chains \ {c}) /\ ended' = TRUE
    /\ UNCHANGED <<mounted, requested, awaited, followed, cutOff>>

\* The fetch fails: the chain goes on, or, past the cap, stops the poller,
\* which by then may be another chain's.
PollFails(c) ==
    /\ c.at = "trace"
    /\ \/ Rearm(c) /\ UNCHANGED <<token, ended, cutOff>>
       \/ /\ token' = token + 1
          /\ chains' = Untimed(chains \ {c})
          /\ ended' = (ended \/ Alive(c))
          /\ cutOff' = (cutOff \/ ~Alive(c))
    /\ UNCHANGED <<mounted, requested, awaited, followed, strayed>>

\* The builder is left: the poller is cancelled, a request is not.
Unmount ==
    /\ mounted
    /\ mounted' = FALSE
    /\ StopPoll
    /\ UNCHANGED <<requested, awaited, followed, ended, strayed, cutOff>>

ConsoleNext ==
    \/ RequestRun \/ Unmount
    \/ \E r \in awaited : RunAccepted(r) \/ RunRefused(r)
    \/ \E c \in chains : PollTick(c) \/ PollAnswer(c) \/ PollFails(c)

ConsoleSpec == ConsoleInit /\ [][ConsoleNext]_consoleVars

-----------------------------------------------------------------------------
(* Properties                                                              *)

\* Types, and the single pollTimer: one timer is pending at most, and it is
\* the current chain's.
ConsoleTypeOK ==
    /\ requested \in 0 .. TestRuns
    /\ awaited \subseteq 1 .. requested
    /\ followed \in 0 .. requested
    /\ \A c \in chains : c.run \in 1 .. requested /\ c.token <= token
    /\ \A c, d \in chains : c.at = "timer" /\ d.at = "timer" => c = d /\ Alive(c)

\* No cross-run reports (pollToken): whatever order traces and answers arrive
\* in, a trace the console reports is that of the run accepted last, with no
\* newer run asked for since.
FollowsLast == ~strayed

\* A run is followed to its end: as long as no newer run was asked for and
\* the builder is there, the accepted run has a live chain, whatever fetches
\* fail, unless a chain it superseded has stopped the poller at its own cap.
FollowedToTheEnd ==
    followed # 0 /\ mounted /\ ~ended /\ ~cutOff =>
        \E c \in chains : Alive(c) /\ c.run = followed

\* The console reports the run accepted last, and to its end, in whatever order
\* requests and traces are answered (doRun, pollExecution).
ConsoleSafe ==
    /\ ConsoleTypeOK /\ FollowsLast /\ FollowedToTheEnd
=============================================================================
