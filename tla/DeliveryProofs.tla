-------------------------- MODULE DeliveryProofs ----------------------------
(***************************************************************************)
(* The builder's console, the platform hooks, the platform events, the     *)
(* builder's tabs and incremental indexing, proved for any number of runs, *)
(* hooks, gates, fields, events, webhooks, workers, tabs, pipelines and    *)
(* documents: the console reports the run accepted last, what is performed *)
(* is what every hook and gate has let pass, an event that is settled has  *)
(* arrived or left a dead letter, tabs neither mix pipelines up nor drift  *)
(* apart, and the index holds what its bucket says was indexed.            *)
(***************************************************************************)
EXTENDS RunConsole, PlatformHooks, PlatformEvents, Builder, DeltaIngest,
        FiniteSetTheorems, SequenceTheorems, TLAPS

-----------------------------------------------------------------------------
(* The console.                                                            *)

Chains == [run : Nat, token : Nat, at : {"timer", "trace"}]

\* The current token is one chain's at most, and that chain follows the run
\* accepted last: every request, acceptance and stop takes a new token.
OneAlive ==
    /\ \A c, d \in chains : Alive(c) /\ Alive(d) => c = d
    /\ \A c \in chains : Alive(c) => c.run = followed

\* The inductive invariant of the console.
ConsoleInv ==
    /\ token \in Nat /\ requested \in Nat /\ chains \subseteq Chains
    /\ mounted \in BOOLEAN /\ ended \in BOOLEAN /\ cutOff \in BOOLEAN
    /\ strayed = FALSE
    /\ ConsoleTypeOK /\ OneAlive /\ FollowedToTheEnd

LEMMA ConsoleStarts == ConsoleInit => ConsoleInv
<1> SUFFICES ASSUME ConsoleInit PROVE ConsoleInv
  OBVIOUS
<1>1. ConsoleTypeOK
  BY ConsoleAssumption DEF ConsoleInit, ConsoleTypeOK
<1>2. OneAlive /\ FollowedToTheEnd
  BY DEF ConsoleInit, OneAlive, FollowedToTheEnd
<1>3. QED
  BY <1>1, <1>2 DEF ConsoleInit, ConsoleInv

\* A chain is rearmed, or ends: what holds of the chains goes on holding.
LEMMA Rearmed ==
    ASSUME ConsoleInv, NEW c \in chains, c.at = "trace", Rearm(c),
           UNCHANGED <<mounted, token, requested, awaited, followed, ended, strayed, cutOff>>
    PROVE  ConsoleInv'
<1>1. chains \subseteq Chains
  BY DEF ConsoleInv
<1>2. PICK n : n = [c EXCEPT !.at = "timer"]
  OBVIOUS
<1>3. n \in Chains /\ n.run = c.run /\ n.token = c.token /\ n.at = "timer"
  BY <1>1, <1>2 DEF Chains
<1>4. chains' = (chains \ {c}) \cup (IF Alive(c) THEN {n} ELSE {})
  BY <1>2 DEF Rearm
<1>5. chains' \subseteq Chains
  BY <1>1, <1>3, <1>4
<1>6. Alive(n) <=> Alive(c)
  BY <1>3 DEF Alive
<1>7. \A d \in chains' : (d \in chains /\ d # c) \/ (d = n /\ Alive(c))
  BY <1>4
<1>8. \A d : Alive(d)' <=> Alive(d)
  BY DEF Alive
<1>9. ConsoleTypeOK'
  <2>1. /\ requested \in 0 .. TestRuns /\ awaited \subseteq 1 .. requested
        /\ followed \in 0 .. requested
    BY DEF ConsoleInv, ConsoleTypeOK
  <2>2. \A d \in chains' : d.run \in 1 .. requested /\ d.token <= token
    BY <1>3, <1>7 DEF ConsoleInv, ConsoleTypeOK
  <2>3. \A d \in chains : d.at = "timer" => Alive(d)
    BY DEF ConsoleInv, ConsoleTypeOK
  <2>4. ASSUME NEW d \in chains', NEW e \in chains', d.at = "timer", e.at = "timer"
        PROVE  d = e /\ Alive(d)
    BY <1>6, <1>7, <2>3, <2>4 DEF ConsoleInv, ConsoleTypeOK, OneAlive
  <2>5. QED
    BY <1>8, <2>1, <2>2, <2>4 DEF ConsoleTypeOK
<1>10. OneAlive'
  BY <1>3, <1>6, <1>7, <1>8 DEF ConsoleInv, OneAlive
<1>11. FollowedToTheEnd'
  <2>1. ASSUME NEW d \in chains, Alive(d), d.run = followed
        PROVE  \E e \in chains' : Alive(e) /\ e.run = followed
    <3>1. CASE d = c
      BY <1>3, <1>4, <1>6, <2>1, <3>1
    <3>2. CASE d # c
      BY <1>4, <2>1, <3>2
    <3>3. QED
      BY <3>1, <3>2
  <2>2. QED
    BY <1>8, <2>1 DEF ConsoleInv, FollowedToTheEnd
<1>12. QED
  BY <1>5, <1>9, <1>10, <1>11 DEF ConsoleInv

\* The poller is stopped: a new token is taken and no chain is current.
LEMMA Stopped ==
    ASSUME ConsoleInv, NEW cs, cs \subseteq chains,
           token' = token + 1, chains' = Untimed(cs)
    PROVE  /\ chains' \subseteq chains /\ token' \in Nat
           /\ \A c \in chains' : c.at # "timer" /\ ~Alive(c)'
           /\ OneAlive'
           /\ \A c \in chains' : c.token <= token'
<1>1. \A c \in chains : c.token \in Nat /\ c.token <= token
  BY DEF ConsoleInv, ConsoleTypeOK, Chains
<1>2. token \in Nat
  BY DEF ConsoleInv
<1>3. chains' \subseteq chains /\ \A c \in chains' : c.at # "timer"
  BY DEF Untimed
<1>4. \A c \in chains' : ~Alive(c)'
  BY <1>1, <1>2, <1>3 DEF Alive
<1>5. QED
  BY <1>1, <1>2, <1>3, <1>4 DEF OneAlive

LEMMA ConsoleSteps == ConsoleInv /\ [ConsoleNext]_consoleVars => ConsoleInv'
<1> SUFFICES ASSUME ConsoleInv, [ConsoleNext]_consoleVars
             PROVE  ConsoleInv'
  OBVIOUS
<1>1. /\ token \in Nat /\ requested \in Nat /\ chains \subseteq Chains
      /\ mounted \in BOOLEAN /\ ended \in BOOLEAN /\ cutOff \in BOOLEAN
      /\ strayed = FALSE
  BY DEF ConsoleInv
<1>2. /\ requested \in 0 .. TestRuns /\ awaited \subseteq 1 .. requested
      /\ followed \in 0 .. requested
      /\ \A c \in chains : c.run \in 1 .. requested /\ c.token <= token
      /\ \A c, d \in chains : c.at = "timer" /\ d.at = "timer" => c = d /\ Alive(c)
  BY DEF ConsoleInv, ConsoleTypeOK
<1>3. OneAlive /\ FollowedToTheEnd
  BY DEF ConsoleInv
<1>4. CASE UNCHANGED consoleVars
  BY <1>1, <1>2, <1>3, <1>4
     DEF consoleVars, ConsoleInv, ConsoleTypeOK, OneAlive, FollowedToTheEnd, Alive
<1>5. CASE RequestRun
  <2>1. /\ requested' = requested + 1 /\ requested + 1 \in 0 .. TestRuns
        /\ awaited' \subseteq 1 .. requested + 1
    BY <1>1, <1>2, <1>5, ConsoleAssumption DEF RequestRun
  <2>2. /\ chains' \subseteq chains
        /\ \A c \in chains' : c.at # "timer" /\ ~Alive(c)'
        /\ OneAlive' /\ token' \in Nat
        /\ \A c \in chains' : c.token <= token'
    BY <1>5, Stopped DEF RequestRun, StopPoll
  <2>3. \A c \in chains' : c.run \in 1 .. requested + 1
    BY <1>1, <1>2, <2>2
  <2>4. followed' = 0 /\ UNCHANGED <<mounted, ended, strayed, cutOff>>
    BY <1>5 DEF RequestRun
  <2>5. ConsoleTypeOK'
    BY <1>1, <2>1, <2>2, <2>3, <2>4 DEF ConsoleTypeOK
  <2>6. FollowedToTheEnd'
    BY <2>4 DEF FollowedToTheEnd
  <2>7. QED
    BY <1>1, <2>1, <2>2, <2>4, <2>5, <2>6 DEF ConsoleInv
<1>6. CASE Unmount
  <2>1. /\ mounted' = FALSE
        /\ UNCHANGED <<requested, awaited, followed, ended, strayed, cutOff>>
    BY <1>6 DEF Unmount
  <2>2. /\ chains' \subseteq chains
        /\ \A c \in chains' : c.at # "timer" /\ ~Alive(c)'
        /\ OneAlive' /\ token' \in Nat
        /\ \A c \in chains' : c.token <= token'
    BY <1>6, Stopped DEF Unmount, StopPoll
  <2>3. ConsoleTypeOK'
    BY <1>2, <2>1, <2>2 DEF ConsoleTypeOK
  <2>4. FollowedToTheEnd'
    BY <2>1 DEF FollowedToTheEnd
  <2>5. QED
    BY <1>1, <2>1, <2>2, <2>3, <2>4 DEF ConsoleInv
<1>7. ASSUME NEW r \in awaited, RunAccepted(r)
      PROVE  ConsoleInv'
  <2>1. PICK n : n = [run |-> r, token |-> token + 2, at |-> "timer"]
    OBVIOUS
  <2>2. r \in 1 .. requested /\ r # 0
    BY <1>1, <1>2
  <2>3. /\ n \in Chains /\ n.run = r /\ n.token = token + 2 /\ n.at = "timer"
    BY <1>1, <2>1, <2>2 DEF Chains
  <2>4. /\ awaited' = awaited \ {r} /\ token' = token + 2 /\ followed' = r
        /\ ended' = FALSE /\ cutOff' = FALSE
        /\ UNCHANGED <<mounted, requested, strayed>>
    BY <1>7 DEF RunAccepted
  <2>5. chains' = Untimed(chains) \cup {n}
    BY <1>7, <2>1 DEF RunAccepted
  <2>6. \A c \in chains' : c = n \/ (c \in chains /\ c.at # "timer")
    BY <2>5 DEF Untimed
  <2>7. \A c \in chains : c.token \in Nat /\ c.token <= token
    BY <1>1, <1>2 DEF Chains
  <2>8. \A c \in chains' : c # n => ~Alive(c)'
    BY <1>1, <2>4, <2>6, <2>7 DEF Alive
  <2>9. n \in chains' /\ Alive(n)'
    BY <2>3, <2>4, <2>5 DEF Alive
  <2>10. chains' \subseteq Chains
    BY <1>1, <2>3, <2>6
  <2>11. \A c \in chains' : c.run \in 1 .. requested /\ c.token <= token'
    BY <1>1, <1>2, <2>2, <2>3, <2>4, <2>6, <2>7
  <2>12. ConsoleTypeOK'
    BY <1>2, <2>2, <2>3, <2>4, <2>6, <2>9, <2>11 DEF ConsoleTypeOK
  <2>13. OneAlive' /\ FollowedToTheEnd'
    BY <2>3, <2>4, <2>8, <2>9 DEF OneAlive, FollowedToTheEnd
  <2>14. token' \in Nat
    BY <1>1, <2>4
  <2>15. QED
    BY <1>1, <2>4, <2>10, <2>12, <2>13, <2>14 DEF ConsoleInv
<1>8. ASSUME NEW r \in awaited, RunRefused(r)
      PROVE  ConsoleInv'
  BY <1>1, <1>2, <1>3, <1>8
     DEF RunRefused, ConsoleInv, ConsoleTypeOK, OneAlive, FollowedToTheEnd, Alive
<1>9. ASSUME NEW c \in chains, PollTick(c)
      PROVE  ConsoleInv'
  <2>1. PICK n : n = [c EXCEPT !.at = "trace"]
    OBVIOUS
  <2>2. n \in Chains /\ n.run = c.run /\ n.token = c.token /\ n.at = "trace"
    BY <1>1, <2>1 DEF Chains
  <2>3. /\ chains' = (chains \ {c}) \cup {n} /\ c.at = "timer"
        /\ UNCHANGED <<mounted, token, requested, awaited, followed, ended, strayed, cutOff>>
    BY <1>9, <2>1 DEF PollTick
  <2>4. \A d \in chains' : (d \in chains /\ d # c) \/ d = n
    BY <2>3
  <2>5. Alive(c) /\ Alive(n) /\ \A d : Alive(d)' <=> Alive(d)
    BY <1>2, <2>2, <2>3 DEF Alive
  <2>6. ConsoleTypeOK'
    <3>1. \A d \in chains' : d.run \in 1 .. requested /\ d.token <= token
      BY <1>2, <2>2, <2>4
    <3>2. \A d \in chains' : d.at # "timer"
      BY <1>2, <2>2, <2>3, <2>4
    <3>3. QED
      BY <1>2, <2>3, <3>1, <3>2 DEF ConsoleTypeOK
  <2>7. OneAlive' /\ FollowedToTheEnd'
    BY <1>3, <2>2, <2>3, <2>4, <2>5 DEF OneAlive, FollowedToTheEnd
  <2>8. chains' \subseteq Chains
    BY <1>1, <2>2, <2>4
  <2>9. QED
    BY <1>1, <2>3, <2>6, <2>7, <2>8 DEF ConsoleInv
\* The poller is stopped at the end of a chain; the run followed has come to
\* its end, or the chain that followed it is cut off.
<1>10. ASSUME NEW c \in chains, token' = token + 1, chains' = Untimed(chains \ {c}),
              UNCHANGED <<mounted, requested, awaited, followed, strayed>>,
              ended' \in BOOLEAN, cutOff' \in BOOLEAN, ended' \/ cutOff'
       PROVE  ConsoleInv'
  <2>1. /\ chains' \subseteq chains
        /\ \A d \in chains' : d.at # "timer" /\ ~Alive(d)'
        /\ OneAlive' /\ token' \in Nat
        /\ \A d \in chains' : d.token <= token'
    <3>1. chains \ {c} \subseteq chains
      OBVIOUS
    <3>2. QED
      BY <1>10, <3>1, Stopped
  <2>2. ConsoleTypeOK'
    BY <1>2, <1>10, <2>1 DEF ConsoleTypeOK
  <2>3. FollowedToTheEnd'
    BY <1>10 DEF FollowedToTheEnd
  <2>4. QED
    BY <1>1, <1>10, <2>1, <2>2, <2>3 DEF ConsoleInv
<1>11. ASSUME NEW c \in chains, PollAnswer(c)
       PROVE  ConsoleInv'
  <2>1. /\ c.at = "trace"
        /\ UNCHANGED <<mounted, requested, awaited, followed, cutOff>>
    BY <1>11 DEF PollAnswer
  <2>2. CASE ~Alive(c)
    <3>1. Rearm(c) /\ UNCHANGED <<token, ended, strayed>>
      BY <1>11, <2>2 DEF PollAnswer, Rearm
    <3>2. QED
      BY <2>1, <3>1, Rearmed
  <2>3. CASE Alive(c)
    <3>1. strayed' = FALSE
      BY <1>1, <1>3, <1>11, <2>3 DEF PollAnswer, OneAlive
    <3>2. CASE Rearm(c) /\ UNCHANGED <<token, ended>>
      BY <1>1, <2>1, <3>1, <3>2, Rearmed
    <3>3. CASE token' = token + 1 /\ chains' = Untimed(chains \ {c}) /\ ended' = TRUE
      BY <1>1, <1>10, <2>1, <3>1, <3>3
    <3>4. QED
      BY <1>11, <2>3, <3>2, <3>3 DEF PollAnswer
  <2>4. QED
    BY <2>2, <2>3
<1>12. ASSUME NEW c \in chains, PollFails(c)
       PROVE  ConsoleInv'
  <2>1. /\ c.at = "trace"
        /\ UNCHANGED <<mounted, requested, awaited, followed, strayed>>
    BY <1>12 DEF PollFails
  <2>2. CASE Rearm(c) /\ UNCHANGED <<token, ended, cutOff>>
    BY <2>1, <2>2, Rearmed
  <2>3. CASE /\ token' = token + 1
             /\ chains' = Untimed(chains \ {c})
             /\ ended' = (ended \/ Alive(c))
             /\ cutOff' = (cutOff \/ ~Alive(c))
    <3>1. /\ ended' \in BOOLEAN /\ cutOff' \in BOOLEAN
      BY <1>1, <2>3 DEF Alive
    <3>2. ended' \/ cutOff'
      BY <1>1, <2>3
    <3>3. QED
      BY <1>10, <2>1, <2>3, <3>1, <3>2
  <2>4. QED
    BY <1>12, <2>2, <2>3 DEF PollFails
<1>13. QED
  BY <1>4, <1>5, <1>6, <1>7, <1>8, <1>9, <1>11, <1>12 DEF ConsoleNext

\* The console reports the run accepted last, and to its end, for any number
\* of runs and any order of their answers and traces (doRun, pollExecution).
THEOREM ConsoleIsSafe == ConsoleSpec => []ConsoleSafe
<1>1. ConsoleInv => ConsoleSafe
  BY DEF ConsoleInv, ConsoleSafe, FollowsLast
<1>2. QED
  BY <1>1, ConsoleStarts, ConsoleSteps, PTL DEF ConsoleSpec

-----------------------------------------------------------------------------
(* The hooks.                                                              *)

Decisions == {"mutate", "continue", "deny", "fail", "error"}

\* The hooks are asked in order: the ones before the current one have decided,
\* and none of them stopped the operation; a blocked one stopped at the current.
AskedInOrder ==
    /\ said \in Seq(Decisions)
    /\ op.pc \in {"hook", "gates"} => op.k \in 1 .. Len(Hooks) /\ Len(said) = op.k - 1
    /\ op.pc \in {"passed", "done"} => op.k = Len(Hooks) + 1 /\ Len(said) = op.k - 1
    /\ op.pc = "blocked" => op.k \in 1 .. Len(Hooks) /\ Len(said) = op.k /\ Stops(op.k)
    /\ \A k \in DOMAIN said : Stops(k) => op.pc = "blocked" /\ k = op.k

\* The gate hook at work called every gate active since the start, and what
\* it has of them is what they answered.
GatesCalled ==
    op.pc = "gates" =>
        /\ Hooks[op.k] = "gate"
        /\ steady \subseteq DOMAIN answers
        /\ \A g \in DOMAIN answers : answers[g] # "none" => heard[g] = answers[g]

\* Once the gate hook has let the operation go on, no gate has vetoed it.
GatesAgreed ==
    \A k \in DOMAIN said :
        Hooks[k] = "gate" =>
            /\ said[k] \in {"continue", "deny", "error"}
            /\ said[k] = "continue" => \A g \in steady : heard[g] \in {"allow", "down"}

\* Two patches, one for the hooks and one for the caller, agree on the
\* envelope, and the caller's has the fields of the catalog only.
PatchesAgree ==
    \A f \in Fields :
        /\ f \in Envelope => working[f] = merged[f]
        /\ f \notin Mutable => merged[f] = 0

\* The inductive invariant of the hooks.
HooksInv ==
    /\ HooksTypeOK
    /\ \A g \in steady : gates[g] = "active"
    /\ AskedInOrder /\ GatesCalled /\ GatesAgreed /\ PatchesAgree
    /\ op.pc = "done" => performed = [f \in Fields |-> IF f \in Applies THEN merged[f] ELSE 0]

Pcs == {"hook", "gates", "passed", "done", "blocked"}
Operations == [pc : Pcs, k : 1 .. Len(Hooks) + 1]

\* What the hook asked last decided does not stop the operation.
Goes(k, what) == what \in {"mutate", "continue"} \/ (what = "error" /\ Policy(k) = "open")

LEMMA HooksLength == Len(Hooks) \in Nat /\ DOMAIN Hooks = 1 .. Len(Hooks)
BY HooksConstants

LEMMA NothingCalled == <<>> \in [DOMAIN <<>> -> Verdicts \cup {"none"}] /\ DOMAIN <<>> \subseteq Gates
OBVIOUS

LEMMA HooksStart == HooksInit => HooksInv
<1> SUFFICES ASSUME HooksInit PROVE HooksInv
  OBVIOUS
<1>1. op \in Operations /\ op.k = 1 /\ op.pc \in {"passed", "hook"}
  BY HooksLength DEF HooksInit, Operations, Pcs
<1>2. op.pc = "passed" => Len(Hooks) = 0
  BY HooksConstants DEF HooksInit
<1>3. op.pc = "hook" => Len(Hooks) # 0
  BY HooksConstants DEF HooksInit
<1>4. said = <<>> /\ Len(said) = 0 /\ DOMAIN said = {}
  BY DEF HooksInit
<1>5. HooksTypeOK
  <2>1. gates \in [Gates -> {"new", "active", "deleted"}] /\ steady \subseteq Gates
    BY DEF HooksInit
  <2>2. /\ working \in [Fields -> 0 .. Len(Hooks)] /\ merged \in [Fields -> 0 .. Len(Hooks)]
        /\ heard \in [Gates -> Verdicts \cup {"none"}]
    BY HooksLength DEF HooksInit
  <2>3. answers = <<>> /\ performed = <<>>
    BY DEF HooksInit
  <2>4. QED
    BY <1>1, <1>4, <2>1, <2>2, <2>3, NothingCalled DEF HooksTypeOK, Operations, Pcs
<1>6. AskedInOrder
  BY <1>1, <1>2, <1>3, <1>4, HooksLength DEF AskedInOrder
<1>7. GatesCalled /\ GatesAgreed /\ PatchesAgree
  BY <1>1, <1>4 DEF HooksInit, GatesCalled, GatesAgreed, PatchesAgree
<1>8. \A g \in steady : gates[g] = "active"
  BY DEF HooksInit
<1>9. QED
  BY <1>1, <1>5, <1>6, <1>7, <1>8 DEF HooksInv

\* The current hook has decided and the operation goes on: to the next hook, or
\* past the last one.
LEMMA GoesOn ==
    ASSUME HooksInv, op.pc \in {"hook", "gates"}, NEW what \in Decisions,
           Goes(op.k, what), Say(what), NextHook
    PROVE  /\ op' \in Operations /\ op'.pc \in {"hook", "passed"} /\ AskedInOrder'
           /\ answers' \in [DOMAIN answers' -> Verdicts \cup {"none"}]
           /\ DOMAIN answers' \subseteq Gates
           /\ Len(said') \in {op'.k - 1, op'.k}
           /\ DOMAIN said' = 1 .. op.k
           /\ said'[op.k] = what /\ \A k \in 1 .. op.k - 1 : said'[k] = said[k]
<1>1. op \in Operations
  BY DEF HooksInv, HooksTypeOK, Operations, Pcs
<1>2. /\ op.k \in 1 .. Len(Hooks) /\ Len(said) = op.k - 1 /\ said \in Seq(Decisions)
      /\ DOMAIN said = 1 .. op.k - 1
      /\ \A k \in DOMAIN said : ~Stops(k)
  BY DEF HooksInv, AskedInOrder
<1>3. op.k \in Nat /\ op.k >= 1
  BY <1>2, HooksLength
<1>4. said' = Append(said, what)
  BY DEF Say
<1>5. /\ said' \in Seq(Decisions) /\ Len(said') = op.k /\ DOMAIN said' = 1 .. op.k
      /\ said'[op.k] = what /\ \A k \in 1 .. op.k - 1 : said'[k] = said[k]
  BY <1>2, <1>3, <1>4
<1>6. answers' = <<>>
  BY DEF NextHook
<1>7. /\ op' \in Operations /\ op'.k = op.k + 1 /\ op'.pc \in {"hook", "passed"}
      /\ op'.pc = "passed" <=> op.k = Len(Hooks)
  BY <1>2, HooksLength DEF NextHook, Operations, Pcs
<1>8. \A k \in DOMAIN said' : ~Stops(k)'
  <2>1. \A k \in 1 .. op.k - 1 : ~Stops(k)'
    BY <1>2, <1>5 DEF Stops
  <2>2. \A k : k = op.k => ~Stops(k)'
    BY <1>5 DEF Stops, Goes, Policy
  <2>3. QED
    BY <1>3, <1>5, <2>1, <2>2
<1>9. AskedInOrder'
  BY <1>2, <1>3, <1>5, <1>7, <1>8, HooksLength DEF AskedInOrder
<1>10. QED
  BY <1>3, <1>5, <1>6, <1>7, <1>9, NothingCalled

\* The current hook has decided and the operation is blocked at it.
LEMMA StopsHere ==
    ASSUME HooksInv, op.pc \in {"hook", "gates"}, NEW what \in Decisions,
           ~Goes(op.k, what), Say(what), ShortCircuit
    PROVE  /\ op' \in Operations /\ op'.pc = "blocked" /\ op'.k = op.k /\ AskedInOrder'
           /\ answers' \in [DOMAIN answers' -> Verdicts \cup {"none"}]
           /\ DOMAIN answers' \subseteq Gates
           /\ Len(said') \in {op'.k - 1, op'.k}
           /\ DOMAIN said' = 1 .. op.k
           /\ said'[op.k] = what /\ \A k \in 1 .. op.k - 1 : said'[k] = said[k]
<1>1. op \in Operations
  BY DEF HooksInv, HooksTypeOK, Operations, Pcs
<1>2. /\ op.k \in 1 .. Len(Hooks) /\ Len(said) = op.k - 1 /\ said \in Seq(Decisions)
      /\ DOMAIN said = 1 .. op.k - 1
      /\ \A k \in DOMAIN said : ~Stops(k)
  BY DEF HooksInv, AskedInOrder
<1>3. op.k \in Nat /\ op.k >= 1
  BY <1>2, HooksLength
<1>4. said' = Append(said, what)
  BY DEF Say
<1>5. /\ said' \in Seq(Decisions) /\ Len(said') = op.k /\ DOMAIN said' = 1 .. op.k
      /\ said'[op.k] = what /\ \A k \in 1 .. op.k - 1 : said'[k] = said[k]
  BY <1>2, <1>3, <1>4
<1>6. answers' = <<>>
  BY DEF ShortCircuit
<1>7. op' \in Operations /\ op'.k = op.k /\ op'.pc = "blocked"
  BY <1>1 DEF ShortCircuit, Operations, Pcs
<1>8. \A k : k = op.k => Stops(k)'
  BY <1>5 DEF Stops, Goes, Policy, Decisions
<1>9. \A k \in 1 .. op.k - 1 : ~Stops(k)'
  BY <1>2, <1>5 DEF Stops
<1>10. AskedInOrder'
  BY <1>2, <1>3, <1>5, <1>7, <1>8, <1>9 DEF AskedInOrder
<1>11. QED
  BY <1>3, <1>5, <1>6, <1>7, <1>10, NothingCalled

\* A hook that decides, whatever it decides, keeps the rest of the invariant:
\* only the gate hook speaks for the gates.
LEMMA Decided ==
    ASSUME HooksInv, op.pc \in {"hook", "gates"}, NEW what \in Decisions, Say(what),
           (Goes(op.k, what) /\ NextHook) \/ (~Goes(op.k, what) /\ ShortCircuit),
           Hooks[op.k] = "gate" =>
               /\ what \in {"continue", "deny", "error"}
               /\ what = "continue" => \A g \in steady : heard[g] \in {"allow", "down"},
           UNCHANGED <<gates, performed, heard, steady>>,
           working' \in [Fields -> 0 .. Len(Hooks)], merged' \in [Fields -> 0 .. Len(Hooks)],
           PatchesAgree'
    PROVE  HooksInv'
<1>1. /\ op' \in Operations /\ op'.pc \in {"hook", "passed", "blocked"} /\ AskedInOrder'
      /\ answers' \in [DOMAIN answers' -> Verdicts \cup {"none"}]
      /\ DOMAIN answers' \subseteq Gates
      /\ Len(said') \in {op'.k - 1, op'.k}
      /\ DOMAIN said' = 1 .. op.k
      /\ said'[op.k] = what /\ \A k \in 1 .. op.k - 1 : said'[k] = said[k]
  BY GoesOn, StopsHere
<1>2. op.k \in 1 .. Len(Hooks) /\ op.k \in Nat /\ DOMAIN said = 1 .. op.k - 1
  BY HooksLength DEF HooksInv, AskedInOrder
<1>3. /\ gates \in [Gates -> {"new", "active", "deleted"}]
      /\ performed \in {<<>>} \cup [Fields -> 0 .. Len(Hooks)]
      /\ heard \in [Gates -> Verdicts \cup {"none"}]
      /\ steady \subseteq Gates
      /\ \A g \in steady : gates[g] = "active"
  BY DEF HooksInv, HooksTypeOK
<1>4. HooksTypeOK'
  BY <1>1, <1>3 DEF HooksTypeOK, Operations, Pcs
<1>5. GatesCalled'
  BY <1>1 DEF GatesCalled
<1>6. GatesAgreed'
  <2> SUFFICES ASSUME NEW k \in 1 .. op.k, Hooks[k] = "gate"
               PROVE  /\ said'[k] \in {"continue", "deny", "error"}
                      /\ said'[k] = "continue" => \A g \in steady : heard[g] \in {"allow", "down"}
    BY <1>1 DEF GatesAgreed
  <2>1. CASE k = op.k
    BY <1>1, <2>1
  <2>2. CASE k # op.k
    <3>1. k \in 1 .. op.k - 1
      BY <1>2, <2>2
    <3>2. QED
      BY <1>1, <1>2, <3>1 DEF HooksInv, GatesAgreed
  <2>3. QED
    BY <2>1, <2>2
<1>7. QED
  BY <1>1, <1>3, <1>4, <1>5, <1>6 DEF HooksInv

LEMMA HooksStep == HooksInv /\ [HooksNext]_hooksVars => HooksInv'
<1> SUFFICES ASSUME HooksInv, [HooksNext]_hooksVars
             PROVE  HooksInv'
  OBVIOUS
<1>1. /\ gates \in [Gates -> {"new", "active", "deleted"}]
      /\ op \in Operations
      /\ working \in [Fields -> 0 .. Len(Hooks)]
      /\ merged \in [Fields -> 0 .. Len(Hooks)]
      /\ answers \in [DOMAIN answers -> Verdicts \cup {"none"}]
      /\ DOMAIN answers \subseteq Gates
      /\ performed \in {<<>>} \cup [Fields -> 0 .. Len(Hooks)]
      /\ Len(said) \in {op.k - 1, op.k}
      /\ heard \in [Gates -> Verdicts \cup {"none"}]
      /\ steady \subseteq Gates
  BY DEF HooksInv, HooksTypeOK, Operations, Pcs
<1>2. /\ \A g \in steady : gates[g] = "active"
      /\ AskedInOrder /\ GatesCalled /\ GatesAgreed /\ PatchesAgree
      /\ op.pc = "done" => performed = [f \in Fields |-> IF f \in Applies THEN merged[f] ELSE 0]
  BY DEF HooksInv
<1>3. CASE UNCHANGED hooksVars
  BY <1>1, <1>2, <1>3 DEF hooksVars, HooksInv, HooksTypeOK, Operations, Pcs, AskedInOrder,
     Stops, GatesCalled, GatesAgreed, PatchesAgree
<1>4. CASE Mutate
  <2>1. PICK patch \in SUBSET Fields :
           /\ Asked /\ Say("mutate") /\ NextHook
           /\ merged' = Merge(merged, op.k, patch) /\ working' = Show(working, op.k, patch)
           /\ UNCHANGED <<gates, performed, heard, steady>>
    BY <1>4 DEF Mutate, hooksHistory
  <2>2. op.pc = "hook" /\ Hooks[op.k] # "gate" /\ op.k \in 0 .. Len(Hooks)
    BY <1>2, <2>1, HooksLength DEF Asked, AskedInOrder
  <2>3. /\ working' \in [Fields -> 0 .. Len(Hooks)] /\ merged' \in [Fields -> 0 .. Len(Hooks)]
    BY <1>1, <2>1, <2>2 DEF Merge, Show
  <2>4. PatchesAgree'
    BY <1>2, <2>1 DEF Merge, Show, PatchesAgree
  <2>5. Goes(op.k, "mutate") /\ "mutate" \in Decisions
    BY DEF Goes, Decisions
  <2>6. QED
    BY <2>1, <2>2, <2>3, <2>4, <2>5, Decided
<1>5. CASE Pass
  <2>1. /\ Asked /\ Say("continue") /\ NextHook
        /\ UNCHANGED <<gates, working, merged, performed, heard, steady>>
    BY <1>5 DEF Pass, hooksHistory
  <2>2. Goes(op.k, "continue") /\ "continue" \in Decisions
    BY DEF Goes, Decisions
  <2>3. PatchesAgree'
    BY <1>2, <2>1 DEF PatchesAgree
  <2>4. QED
    BY <1>1, <2>1, <2>2, <2>3, Decided DEF Asked
<1>6. CASE RefuseRequest
  <2>1. PICK what \in {"deny", "fail"} :
           /\ Asked /\ Say(what) /\ ShortCircuit
           /\ UNCHANGED <<gates, working, merged, performed, heard, steady>>
    BY <1>6 DEF RefuseRequest, hooksHistory
  <2>2. ~Goes(op.k, what) /\ what \in Decisions
    BY DEF Goes, Decisions
  <2>3. PatchesAgree'
    BY <1>2, <2>1 DEF PatchesAgree
  <2>4. QED
    BY <1>1, <2>1, <2>2, <2>3, Decided DEF Asked
<1>7. CASE Errs
  <2>1. /\ op.pc \in {"hook", "gates"} /\ Say("error")
        /\ IF Policy(op.k) = "closed" THEN ShortCircuit ELSE NextHook
        /\ UNCHANGED <<gates, working, merged, performed, heard, steady>>
    BY <1>7 DEF Errs, hooksHistory
  <2>2. "error" \in Decisions /\ (Goes(op.k, "error") <=> Policy(op.k) # "closed")
    BY DEF Goes, Decisions, Policy
  <2>3. PatchesAgree'
    BY <1>2, <2>1 DEF PatchesAgree
  <2>4. QED
    BY <1>1, <2>1, <2>2, <2>3, Decided
<1>8. CASE ListGates
  <2>1. PICK active : active = {g \in Gates : gates[g] = "active"}
    OBVIOUS
  <2>2. /\ op.pc = "hook" /\ Hooks[op.k] = "gate"
        /\ UNCHANGED <<gates, working, merged, performed, heard, steady>>
        /\ \/ active = {} /\ Say("continue") /\ NextHook
           \/ /\ op' = [op EXCEPT !.pc = "gates"]
              /\ answers' = [g \in active |-> "none"]
              /\ UNCHANGED said
    BY <1>8, <2>1 DEF ListGates, hooksHistory
  <2>3. steady \subseteq active /\ active \subseteq Gates
    BY <1>1, <1>2, <2>1
  <2>4. PatchesAgree'
    BY <1>2, <2>2 DEF PatchesAgree
  <2>5. CASE active = {} /\ Say("continue") /\ NextHook
    <3>1. Goes(op.k, "continue") /\ "continue" \in Decisions
      BY DEF Goes, Decisions
    <3>2. QED
      BY <1>1, <2>2, <2>3, <2>4, <2>5, <3>1, Decided
  <2>6. CASE /\ op' = [op EXCEPT !.pc = "gates"]
             /\ answers' = [g \in active |-> "none"]
             /\ UNCHANGED said
    <3>1. op' \in Operations /\ op'.pc = "gates" /\ op'.k = op.k
      BY <1>1, <2>6 DEF Operations, Pcs
    <3>2. answers' \in [DOMAIN answers' -> Verdicts \cup {"none"}] /\ DOMAIN answers' = active
      BY <2>6
    <3>3. HooksTypeOK'
      BY <1>1, <2>2, <2>3, <2>6, <3>1, <3>2 DEF HooksTypeOK, Operations, Pcs
    <3>4. AskedInOrder'
      BY <1>2, <2>2, <2>6, <3>1 DEF AskedInOrder, Stops
    <3>5. GatesCalled'
      BY <2>2, <2>3, <2>6, <3>1, <3>2 DEF GatesCalled
    <3>6. GatesAgreed'
      BY <1>2, <2>2, <2>6 DEF GatesAgreed
    <3>7. QED
      BY <1>2, <2>2, <2>4, <3>1, <3>3, <3>4, <3>5, <3>6 DEF HooksInv
  <2>7. QED
    BY <2>2, <2>5, <2>6
<1>9. ASSUME NEW g \in Gates, NEW v \in Verdicts, GateAnswers(g, v)
      PROVE  HooksInv'
  <2>1. /\ op.pc = "gates" /\ g \in DOMAIN answers /\ answers[g] = "none"
        /\ answers' = [answers EXCEPT ![g] = v] /\ heard' = [heard EXCEPT ![g] = v]
        /\ UNCHANGED <<gates, op, working, merged, performed, said, steady>>
    BY <1>9 DEF GateAnswers
  <2>2. /\ answers' \in [DOMAIN answers -> Verdicts \cup {"none"}]
        /\ DOMAIN answers' = DOMAIN answers
        /\ heard' \in [Gates -> Verdicts \cup {"none"}]
    BY <1>1, <2>1
  <2>3. HooksTypeOK'
    BY <1>1, <2>1, <2>2 DEF HooksTypeOK, Operations, Pcs
  <2>4. AskedInOrder' /\ PatchesAgree'
    BY <1>2, <2>1 DEF AskedInOrder, Stops, PatchesAgree
  <2>5. GatesCalled'
    BY <1>1, <1>2, <2>1, <2>2 DEF GatesCalled
  <2>6. GatesAgreed'
    <3>1. op.k \in DOMAIN Hooks /\ Hooks[op.k] = "gate" /\ Len(said) = op.k - 1
      BY <1>2, <2>1, HooksLength DEF AskedInOrder, GatesCalled
    <3>2. DOMAIN said = 1 .. op.k - 1
      BY <1>2, <3>1 DEF AskedInOrder
    <3>3. \A k \in DOMAIN said : k \in DOMAIN Hooks /\ k # op.k
      BY <3>1, <3>2, HooksLength
    <3>4. \A k \in DOMAIN said : Hooks[k] # "gate"
      BY <3>1, <3>3, HooksConstants
    <3>5. QED
      BY <2>1, <3>4 DEF GatesAgreed
  <2>7. QED
    BY <1>2, <2>1, <2>3, <2>4, <2>5, <2>6 DEF HooksInv
<1>10. CASE GatesDecide
  <2>1. /\ op.pc = "gates" /\ Answered
        /\ IF Denies THEN Say("deny") /\ ShortCircuit ELSE Say("continue") /\ NextHook
        /\ UNCHANGED <<gates, working, merged, performed, heard, steady>>
    BY <1>10 DEF GatesDecide, hooksHistory
  <2>2. PatchesAgree'
    BY <1>2, <2>1 DEF PatchesAgree
  <2>3. CASE Denies
    <3>1. ~Goes(op.k, "deny") /\ "deny" \in Decisions
      BY DEF Goes, Decisions
    <3>2. QED
      BY <1>1, <2>1, <2>2, <2>3, <3>1, Decided
  <2>4. CASE ~Denies
    <3>1. Goes(op.k, "continue") /\ "continue" \in Decisions
      BY DEF Goes, Decisions
    <3>2. \A g \in steady : heard[g] \in {"allow", "down"}
      <4>1. \A g \in steady : g \in DOMAIN answers /\ heard[g] = answers[g]
        BY <1>2, <2>1 DEF GatesCalled, Answered
      <4>2. \A g \in DOMAIN answers : answers[g] \in {"allow", "down"}
        BY <1>1, <2>1, <2>4 DEF Answered, Denies, Verdicts
      <4>3. QED
        BY <4>1, <4>2
    <3>3. QED
      BY <1>1, <2>1, <2>2, <2>4, <3>1, <3>2, Decided
  <2>5. QED
    BY <2>3, <2>4
<1>11. CASE Perform
  <2>1. /\ op.pc = "passed" /\ op' = [op EXCEPT !.pc = "done"]
        /\ performed' = [f \in Fields |-> IF f \in Applies THEN merged[f] ELSE 0]
        /\ UNCHANGED <<gates, working, merged, answers, said, heard, steady>>
    BY <1>11 DEF Perform, hooksHistory
  <2>2. op' \in Operations /\ op'.pc = "done" /\ op'.k = op.k
    BY <1>1, <2>1 DEF Operations, Pcs
  <2>3. performed' \in [Fields -> 0 .. Len(Hooks)]
    BY <1>1, <2>1, HooksLength
  <2>4. HooksTypeOK'
    BY <1>1, <2>1, <2>2, <2>3 DEF HooksTypeOK, Operations, Pcs
  <2>5. AskedInOrder'
    BY <1>2, <2>1, <2>2 DEF AskedInOrder, Stops
  <2>6. GatesCalled' /\ GatesAgreed' /\ PatchesAgree'
    BY <1>2, <2>1, <2>2 DEF GatesCalled, GatesAgreed, PatchesAgree
  <2>7. QED
    BY <1>2, <2>1, <2>2, <2>4, <2>5, <2>6 DEF HooksInv
<1>12. ASSUME NEW g \in Gates, CreateGate(g) \/ DeleteGate(g)
       PROVE  HooksInv'
  <2>1. /\ gates' \in [Gates -> {"new", "active", "deleted"}]
        /\ steady' \subseteq steady
        /\ UNCHANGED <<op, working, merged, answers, performed, said, heard>>
    BY <1>1, <1>12 DEF CreateGate, DeleteGate, hooksHistory
  <2>2. \A h \in steady' : gates'[h] = "active"
    BY <1>1, <1>2, <1>12 DEF CreateGate, DeleteGate, hooksHistory
  <2>3. HooksTypeOK'
    BY <1>1, <2>1 DEF HooksTypeOK, Operations, Pcs
  <2>4. AskedInOrder' /\ PatchesAgree'
    BY <1>2, <2>1 DEF AskedInOrder, Stops, PatchesAgree
  <2>5. GatesCalled' /\ GatesAgreed'
    BY <1>2, <2>1 DEF GatesCalled, GatesAgreed
  <2>6. QED
    BY <1>2, <2>1, <2>2, <2>3, <2>4, <2>5 DEF HooksInv
<1>13. QED
  BY <1>3, <1>4, <1>5, <1>6, <1>7, <1>8, <1>9, <1>10, <1>11, <1>12 DEF HooksNext

\* What is performed is what every hook and every gate has let pass, for any
\* hooks in any order and any gates coming and going (intercept, runBefore,
\* gateWebhookPlugin, filterPatch).
THEOREM HooksAreSafe == HooksSpec => []HooksSafe
<1>1. HooksInv => HooksSafe
  <2> SUFFICES ASSUME HooksInv PROVE HooksSafe
    OBVIOUS
  <2>1. /\ HooksTypeOK /\ AskedInOrder /\ GatesAgreed /\ PatchesAgree
        /\ op.pc = "done" => performed = [f \in Fields |-> IF f \in Applies THEN merged[f] ELSE 0]
    BY DEF HooksInv
  <2>2. HooksDecide
    BY <2>1, HooksLength DEF AskedInOrder, HooksDecide
  <2>3. GatesHeeded
    <3>1. \A k \in DOMAIN said : op.pc = "done" => said[k] # "deny"
      BY <2>1 DEF AskedInOrder, Stops
    <3>2. QED
      BY <2>1, <3>1 DEF GatesAgreed, GatesHeeded
  <2>4. JudgedIsPerformed
    BY <2>1 DEF PatchesAgree, JudgedIsPerformed
  <2>5. QED
    BY <2>1, <2>2, <2>3, <2>4 DEF HooksSafe
<1>2. QED
  BY <1>1, HooksStart, HooksStep, PTL DEF HooksSpec

-----------------------------------------------------------------------------
(* The events.                                                             *)

Lefts == UNION {[D -> 0 .. MaxAttempts] : D \in SUBSET Hooked}
ConsumerStates == [pc : {"idle", "list", "send"}, ev : Events \cup {0}, left : Lefts]
ReplayStates ==
    [pc : {"idle"}] \cup
    [pc : {"send", "mark", "done", "failed"}, row : Nat, left : 0 .. MaxAttempts]
DeadLetters == [sub : Hooked, ev : Events, replayed : BOOLEAN]

\* The types, record by record.
EventsShape ==
    /\ hooked \in [Hooked -> {"new", "active", "deleted"}]
    /\ message \in [Events -> {"none", "ready", "out", "acked", "gone"}]
    /\ buffered \in [Consumers -> Seq(Events)]
    /\ \A c \in Consumers : Len(buffered[c]) <= MaxBuffered
    /\ consumer \in [Consumers -> ConsumerStates]
    /\ \A c \in Consumers : consumer[c].pc # "idle" => consumer[c].ev \in Events
    /\ letters \in Seq(DeadLetters)
    /\ replayer \in [Replayers -> ReplayStates]
    /\ \A r \in Replayers : replayer[r].pc = "send" => replayer[r].left \in 1 .. MaxAttempts
    /\ eventFaults \in 0 .. MaxEventFaults
    /\ accepted \in [Pairs -> Nat] /\ excused \in [Pairs -> Nat]
    /\ owed \subseteq Pairs /\ dropped \subseteq Pairs

\* Subscription s has taken event e, has a dead letter for it, or the letter
\* or the listing was lost.
Settled(s, e) ==
    \/ accepted[<<s, e>>] > 0 \/ <<s, e>> \in dropped
    \/ \E i \in DOMAIN letters : Letter(i) = <<s, e>>

\* Only a stored event is delivered.
Stored ==
    \A c \in Consumers :
        /\ consumer[c].pc # "idle" => message[consumer[c].ev] # "none"
        /\ \A i \in DOMAIN buffered[c] : message[buffered[c][i]] # "none"

\* A consumer that sends an event has yet to settle it for every subscription
\* it is owed to, or has done so.
Listed ==
    \A c \in Consumers, s \in Hooked :
        consumer[c].pc = "send" /\ <<s, consumer[c].ev>> \in owed =>
            s \in DOMAIN consumer[c].left \/ Settled(s, consumer[c].ev)

\* What is owed is owed to an active subscription, and settled once acknowledged.
Delivered ==
    \A s \in Hooked, e \in Events :
        <<s, e>> \in owed => hooked[s] = "active" /\ (message[e] = "acked" => Settled(s, e))

\* A replay is of a letter that is there; before it marks it the event arrived.
ReplayRows ==
    \A r \in Replayers :
        /\ replayer[r].pc # "idle" => replayer[r].row \in DOMAIN letters
        /\ replayer[r].pc = "mark" => accepted[Letter(replayer[r].row)] > 0

\* Place i of consumer c has event e for subscription s: place 0 is the event
\* being delivered, the others are the ones pulled.
Holds(c, i, s, e) ==
    \/ /\ i = 0 /\ consumer[c].ev = e
       /\ \/ consumer[c].pc = "list"
          \/ consumer[c].pc = "send" /\ s \in DOMAIN consumer[c].left
    \/ i \in DOMAIN buffered[c] /\ buffered[c][i] = e

HeldBy(s, e) ==
    {x \in Consumers \X (0 .. MaxBuffered) : Holds(x[1], x[2], s, e)}

Replaying(s, e) ==
    {r \in Replayers : replayer[r].pc = "send" /\ Letter(replayer[r].row) = <<s, e>>}

Undelivered(e) == IF message[e] \in {"none", "ready"} THEN 1 ELSE 0

\* Each further delivery of an event that there can be, by the stream, by a
\* consumer or by a replay, has its reason already: this is what makes
\* DuplicatesExplained inductive.
Budgeted(s, e) ==
    accepted[<<s, e>>] + Undelivered(e) + Cardinality(HeldBy(s, e))
        + Cardinality(Replaying(s, e)) <= 1 + excused[<<s, e>>]

Budget == \A s \in Hooked, e \in Events : Budgeted(s, e)

\* The inductive invariant of the events.
EventsInv ==
    /\ EventsShape /\ Stored /\ Listed /\ Delivered /\ ReplayRows
    /\ ReplayedIsDelivered /\ Budget

LEMMA LeftsShape ==
    /\ \A l \in Lefts : DOMAIN l \subseteq Hooked /\ l \in [DOMAIN l -> 0 .. MaxAttempts]
    /\ \A D \in SUBSET Hooked : \A l \in [D -> 0 .. MaxAttempts] : l \in Lefts
<1>1. ASSUME NEW l \in Lefts
      PROVE  DOMAIN l \subseteq Hooked /\ l \in [DOMAIN l -> 0 .. MaxAttempts]
  <2>1. PICK D \in SUBSET Hooked : l \in [D -> 0 .. MaxAttempts]
    BY DEF Lefts
  <2>2. QED
    BY <2>1
<1>2. ASSUME NEW D \in SUBSET Hooked, NEW l \in [D -> 0 .. MaxAttempts]
      PROVE  l \in Lefts
  BY DEF Lefts
<1>3. QED
  BY <1>1, <1>2

LEMMA RestingShape == Resting \in ConsumerStates /\ Resting.pc = "idle"
<1>1. <<>> \in [{} -> 0 .. MaxAttempts]
  OBVIOUS
<1>2. <<>> \in Lefts
  BY <1>1, LeftsShape
<1>3. QED
  BY <1>2 DEF Resting, ConsumerStates

LEMMA AddOneShape ==
    ASSUME NEW f \in [Pairs -> Nat], NEW P
    PROVE  /\ AddOne(f, P) \in [Pairs -> Nat]
           /\ \A p \in Pairs : AddOne(f, P)[p] = IF p \in P THEN f[p] + 1 ELSE f[p]
BY DEF AddOne

LEMMA LetterShape ==
    ASSUME EventsShape, NEW i \in DOMAIN letters
    PROVE  /\ letters[i] \in DeadLetters
           /\ Letter(i) = <<letters[i].sub, letters[i].ev>>
           /\ Letter(i) \in Pairs /\ i \in Nat /\ i \in 1 .. Len(letters)
<1>1. letters \in Seq(DeadLetters)
  BY DEF EventsShape
<1>2. letters[i] \in DeadLetters /\ i \in Nat /\ i \in 1 .. Len(letters)
  BY <1>1
<1>3. letters[i].sub \in Hooked /\ letters[i].ev \in Events
  BY <1>2 DEF DeadLetters
<1>4. QED
  BY <1>2, <1>3 DEF Letter, Pairs

\* One attempt counts what it has to.
LEMMA PostShape ==
    ASSUME EventsShape, NEW p \in Pairs, NEW outcome \in Outcomes, Post(p, outcome)
    PROVE  /\ accepted' \in [Pairs -> Nat] /\ excused' \in [Pairs -> Nat]
           /\ eventFaults' \in 0 .. MaxEventFaults
           /\ \A q \in Pairs : q # p => accepted'[q] = accepted[q] /\ excused'[q] = excused[q]
           /\ outcome = "ok" => accepted'[p] = accepted[p] + 1 /\ excused'[p] = excused[p]
           /\ outcome = "refused" => accepted'[p] = accepted[p] /\ excused'[p] = excused[p]
           /\ outcome = "lost" => accepted'[p] = accepted[p] + 1 /\ excused'[p] = excused[p] + 1
           /\ \A q \in Pairs : accepted'[q] >= accepted[q]
<1>1. accepted \in [Pairs -> Nat] /\ excused \in [Pairs -> Nat] /\ eventFaults \in 0 .. MaxEventFaults
  BY DEF EventsShape
<1>2. /\ accepted' = AddOne(accepted, IF outcome = "refused" THEN {} ELSE {p})
      /\ excused' = AddOne(excused, IF outcome = "lost" THEN {p} ELSE {})
  BY DEF Post
<1>3. eventFaults' \in 0 .. MaxEventFaults
  BY <1>1, EventsConstants DEF Post, EventFault
<1>4. accepted' \in [Pairs -> Nat] /\ excused' \in [Pairs -> Nat]
  BY <1>1, <1>2, AddOneShape
<1>5. \A q \in Pairs :
         /\ accepted'[q] = IF outcome # "refused" /\ q = p THEN accepted[q] + 1 ELSE accepted[q]
         /\ excused'[q] = IF outcome = "lost" /\ q = p THEN excused[q] + 1 ELSE excused[q]
  BY <1>1, <1>2, AddOneShape
<1>6. QED
  BY <1>1, <1>3, <1>4, <1>5 DEF Outcomes

LEMMA EventsShapeStarts == EventsInit => EventsShape
<1> SUFFICES ASSUME EventsInit PROVE EventsShape
  OBVIOUS
<1>1. consumer \in [Consumers -> ConsumerStates]
      /\ \A c \in Consumers : consumer[c].pc = "idle"
  BY RestingShape DEF EventsInit
<1>2. replayer \in [Replayers -> ReplayStates] /\ \A r \in Replayers : replayer[r].pc = "idle"
  BY DEF EventsInit, ReplayStates
<1>3. /\ hooked \in [Hooked -> {"new", "active", "deleted"}]
      /\ message \in [Events -> {"none", "ready", "out", "acked", "gone"}]
      /\ accepted \in [Pairs -> Nat] /\ excused \in [Pairs -> Nat]
      /\ owed \subseteq Pairs /\ dropped \subseteq Pairs
  BY DEF EventsInit
<1>4. buffered \in [Consumers -> Seq(Events)] /\ letters \in Seq(DeadLetters)
  BY DEF EventsInit
<1>5. \A c \in Consumers : Len(buffered[c]) <= MaxBuffered
  BY EventsConstants DEF EventsInit
<1>6. eventFaults \in 0 .. MaxEventFaults
  BY EventsConstants DEF EventsInit
<1>7. QED
  BY <1>1, <1>2, <1>3, <1>4, <1>5, <1>6 DEF EventsShape

-----------------------------------------------------------------------------
(* What each step does to a consumer and to the letters, for all that      *)
(* follows.                                                                *)

LEMMA ConsumerMoved ==
    ASSUME EventsShape, NEW c \in Consumers, NEW n \in ConsumerStates,
           n.pc # "idle" => n.ev \in Events, consumer' = [consumer EXCEPT ![c] = n]
    PROVE  /\ consumer' \in [Consumers -> ConsumerStates]
           /\ \A d \in Consumers : consumer'[d].pc # "idle" => consumer'[d].ev \in Events
           /\ consumer'[c] = n /\ \A d \in Consumers : d # c => consumer'[d] = consumer[d]
BY DEF EventsShape

LEMMA BeginRecord ==
    ASSUME NEW e \in Events
    PROVE  LET n == [Resting EXCEPT !.pc = "list", !.ev = e]
           IN  n \in ConsumerStates /\ n.pc = "list" /\ n.ev = e
BY RestingShape DEF ConsumerStates

LEMMA ListRecord ==
    ASSUME NEW x \in ConsumerStates, NEW l \in Lefts
    PROVE  LET n == [x EXCEPT !.pc = "send", !.left = l]
           IN  n \in ConsumerStates /\ n.pc = "send" /\ n.ev = x.ev /\ n.left = l
BY DEF ConsumerStates

LEMMA LeftRecord ==
    ASSUME NEW x \in ConsumerStates, NEW l \in Lefts
    PROVE  LET n == [x EXCEPT !.left = l]
           IN  n \in ConsumerStates /\ n.pc = x.pc /\ n.ev = x.ev /\ n.left = l
BY DEF ConsumerStates

\* A consumer takes up the first event it has pulled.
LEMMA Begins ==
    ASSUME EventsShape, NEW c \in Consumers, Begin(c)
    PROVE  /\ consumer[c].pc = "idle" /\ 1 \in DOMAIN buffered[c]
           /\ consumer'[c].pc = "list" /\ consumer'[c].ev = buffered[c][1]
           /\ consumer' \in [Consumers -> ConsumerStates]
           /\ \A d \in Consumers : consumer'[d].pc # "idle" => consumer'[d].ev \in Events
           /\ \A d \in Consumers : d # c => consumer'[d] = consumer[d] /\ buffered'[d] = buffered[d]
           /\ buffered' \in [Consumers -> Seq(Events)]
           /\ \A d \in Consumers : Len(buffered'[d]) <= MaxBuffered
           /\ Len(buffered'[c]) = Len(buffered[c]) - 1
           /\ \A i \in DOMAIN buffered'[c] :
                  i \in Nat /\ i + 1 \in DOMAIN buffered[c] /\ buffered'[c][i] = buffered[c][i + 1]
<1>1. /\ buffered \in [Consumers -> Seq(Events)] /\ Len(buffered[c]) <= MaxBuffered
      /\ consumer \in [Consumers -> ConsumerStates]
      /\ \A d \in Consumers : Len(buffered[d]) <= MaxBuffered
  BY DEF EventsShape
<1>2. buffered[c] \in Seq(Events) /\ buffered[c] # <<>> /\ consumer[c].pc = "idle"
  BY <1>1 DEF Begin
<1>3. 1 \in DOMAIN buffered[c] /\ Head(buffered[c]) = buffered[c][1] /\ buffered[c][1] \in Events
  BY <1>2
<1>4. /\ Tail(buffered[c]) \in Seq(Events) /\ Len(Tail(buffered[c])) = Len(buffered[c]) - 1
      /\ \A i \in DOMAIN Tail(buffered[c]) :
             i \in Nat /\ i + 1 \in DOMAIN buffered[c]
             /\ Tail(buffered[c])[i] = buffered[c][i + 1]
  BY <1>2
<1>5. buffered' = [buffered EXCEPT ![c] = Tail(buffered[c])]
  BY DEF Begin
<1>6. /\ buffered'[c] = Tail(buffered[c]) /\ buffered' \in [Consumers -> Seq(Events)]
      /\ \A d \in Consumers : d # c => buffered'[d] = buffered[d]
  BY <1>1, <1>4, <1>5
<1>7. PICK n : n = [Resting EXCEPT !.pc = "list", !.ev = buffered[c][1]]
  OBVIOUS
<1>8. n \in ConsumerStates /\ n.pc = "list" /\ n.ev = buffered[c][1]
  BY <1>3, <1>7, BeginRecord
<1>9. consumer' = [consumer EXCEPT ![c] = n]
  BY <1>3, <1>7 DEF Begin
<1>10. /\ consumer'[c] = n /\ consumer' \in [Consumers -> ConsumerStates]
       /\ \A d \in Consumers : consumer'[d].pc # "idle" => consumer'[d].ev \in Events
       /\ \A d \in Consumers : d # c => consumer'[d] = consumer[d]
  BY <1>3, <1>8, <1>9, ConsumerMoved
<1>11. Len(buffered[c]) \in Nat /\ MaxBuffered \in Nat
  BY <1>2, EventsConstants
<1>12. \A d \in Consumers : Len(buffered'[d]) <= MaxBuffered
  <2>1. Len(buffered'[c]) <= MaxBuffered
    BY <1>1, <1>4, <1>6, <1>11
  <2>2. QED
    BY <1>1, <1>6, <2>1
<1>13. QED
  BY <1>2, <1>3, <1>4, <1>6, <1>8, <1>10, <1>12

\* Back to rest: after a failed read, an acknowledgement or a crash.
LEMMA Rests ==
    ASSUME EventsShape, NEW c \in Consumers, consumer' = [consumer EXCEPT ![c] = Resting]
    PROVE  /\ consumer' \in [Consumers -> ConsumerStates]
           /\ \A d \in Consumers : consumer'[d].pc # "idle" => consumer'[d].ev \in Events
           /\ consumer'[c].pc = "idle" /\ \A d \in Consumers : d # c => consumer'[d] = consumer[d]
BY RestingShape, ConsumerMoved

\* The subscriptions are listed.
LEMMA Lists ==
    ASSUME EventsShape, NEW c \in Consumers, consumer[c].pc = "list",
           consumer' = [consumer EXCEPT ![c].pc = "send",
                                        ![c].left = [s \in ActiveHooks |-> MaxAttempts]]
    PROVE  /\ consumer' \in [Consumers -> ConsumerStates]
           /\ \A d \in Consumers : consumer'[d].pc # "idle" => consumer'[d].ev \in Events
           /\ \A d \in Consumers : d # c => consumer'[d] = consumer[d]
           /\ consumer'[c].pc = "send" /\ consumer'[c].ev = consumer[c].ev
           /\ DOMAIN consumer'[c].left = ActiveHooks
<1>1. consumer \in [Consumers -> ConsumerStates] /\ consumer[c].ev \in Events
  BY DEF EventsShape
<1>2. PICK l : l = [s \in ActiveHooks |-> MaxAttempts]
  OBVIOUS
<1>3. l \in [ActiveHooks -> 0 .. MaxAttempts] /\ ActiveHooks \in SUBSET Hooked
  BY <1>2, EventsConstants DEF ActiveHooks
<1>4. l \in Lefts /\ DOMAIN l = ActiveHooks
  BY <1>3, LeftsShape
<1>5. PICK n : n = [consumer[c] EXCEPT !.pc = "send", !.left = l]
  OBVIOUS
<1>6. n \in ConsumerStates /\ n.pc = "send" /\ n.ev = consumer[c].ev /\ n.left = l
  BY <1>1, <1>4, <1>5, ListRecord
<1>7. consumer' = [consumer EXCEPT ![c] = n]
  BY <1>1, <1>2, <1>5
<1>8. QED
  BY <1>1, <1>4, <1>6, <1>7, ConsumerMoved

\* A delivery goes on with other attempts left.
LEMMA Leaves ==
    ASSUME EventsShape, NEW c \in Consumers, consumer[c].pc = "send", NEW l \in Lefts,
           consumer' = [consumer EXCEPT ![c].left = l]
    PROVE  /\ consumer' \in [Consumers -> ConsumerStates]
           /\ \A d \in Consumers : consumer'[d].pc # "idle" => consumer'[d].ev \in Events
           /\ \A d \in Consumers : d # c => consumer'[d] = consumer[d]
           /\ consumer'[c].pc = "send" /\ consumer'[c].ev = consumer[c].ev
           /\ consumer'[c].left = l
<1>1. consumer \in [Consumers -> ConsumerStates] /\ consumer[c].ev \in Events
  BY DEF EventsShape
<1>2. PICK n : n = [consumer[c] EXCEPT !.left = l]
  OBVIOUS
<1>3. n \in ConsumerStates /\ n.pc = "send" /\ n.ev = consumer[c].ev /\ n.left = l
  BY <1>1, <1>2, LeftRecord
<1>4. consumer' = [consumer EXCEPT ![c] = n]
  BY <1>1, <1>2
<1>5. QED
  BY <1>1, <1>3, <1>4, ConsumerMoved

LEMMA WithoutShape ==
    ASSUME NEW l \in Lefts, NEW s
    PROVE  Without(l, s) \in Lefts /\ DOMAIN Without(l, s) = DOMAIN l \ {s}
<1>1. DOMAIN l \subseteq Hooked /\ l \in [DOMAIN l -> 0 .. MaxAttempts]
  BY LeftsShape
<1>2. Without(l, s) \in [DOMAIN l \ {s} -> 0 .. MaxAttempts]
  BY <1>1 DEF Without
<1>3. QED
  BY <1>1, <1>2, LeftsShape

\* One attempt: the event is delivered for s, or s has one attempt less.
LEMMA AttemptMade ==
    ASSUME EventsShape, NEW c \in Consumers, NEW s \in Hooked, NEW o \in Outcomes,
           Attempt(c, s, o)
    PROVE  /\ consumer' \in [Consumers -> ConsumerStates]
           /\ \A d \in Consumers : consumer'[d].pc # "idle" => consumer'[d].ev \in Events
           /\ \A d \in Consumers : d # c => consumer'[d] = consumer[d]
           /\ consumer[c].pc = "send" /\ consumer[c].ev \in Events /\ s \in DOMAIN consumer[c].left
           /\ consumer'[c].pc = "send" /\ consumer'[c].ev = consumer[c].ev
           /\ DOMAIN consumer'[c].left =
                  IF o = "ok" THEN DOMAIN consumer[c].left \ {s} ELSE DOMAIN consumer[c].left
           /\ <<s, consumer[c].ev>> \in Pairs /\ Post(<<s, consumer[c].ev>>, o)
<1>1. /\ consumer[c].pc = "send" /\ s \in DOMAIN consumer[c].left /\ consumer[c].left[s] > 0
      /\ Post(<<s, consumer[c].ev>>, o)
  BY DEF Attempt
<1>2. consumer \in [Consumers -> ConsumerStates] /\ consumer[c].ev \in Events
  BY <1>1 DEF EventsShape
<1>3. <<s, consumer[c].ev>> \in Pairs
  BY <1>2 DEF Pairs
<1>4. PICK x : x = consumer[c].left
  OBVIOUS
<1>5. x \in Lefts /\ s \in DOMAIN x /\ x[s] > 0
  BY <1>1, <1>2, <1>4 DEF ConsumerStates
<1>6. PICK l : l = IF o = "ok" THEN Without(x, s) ELSE [x EXCEPT ![s] = x[s] - 1]
  OBVIOUS
<1>7. l \in Lefts /\ DOMAIN l = IF o = "ok" THEN DOMAIN x \ {s} ELSE DOMAIN x
  <2>1. CASE o = "ok"
    BY <1>5, <1>6, <2>1, WithoutShape
  <2>2. CASE o # "ok"
    <3>1. DOMAIN x \subseteq Hooked /\ x \in [DOMAIN x -> 0 .. MaxAttempts]
      BY <1>5, LeftsShape
    <3>2. x[s] - 1 \in 0 .. MaxAttempts
      BY <1>5, <3>1, EventsConstants
    <3>3. l \in [DOMAIN x -> 0 .. MaxAttempts]
      BY <1>6, <2>2, <3>1, <3>2
    <3>4. QED
      BY <2>2, <3>1, <3>3, LeftsShape
  <2>3. QED
    BY <2>1, <2>2
<1>8. consumer' = [consumer EXCEPT ![c].left = l]
  BY <1>2, <1>4, <1>6 DEF Attempt
<1>9. QED
  BY <1>1, <1>2, <1>3, <1>4, <1>7, <1>8, Leaves

\* Attempts exhausted: a letter more, or the delivery is dropped.
LEMMA LetterMade ==
    ASSUME EventsShape, NEW c \in Consumers, NEW s \in Hooked, DeadLetter(c, s)
    PROVE  /\ consumer' \in [Consumers -> ConsumerStates]
           /\ \A d \in Consumers : consumer'[d].pc # "idle" => consumer'[d].ev \in Events
           /\ \A d \in Consumers : d # c => consumer'[d] = consumer[d]
           /\ consumer[c].pc = "send" /\ consumer[c].ev \in Events /\ s \in DOMAIN consumer[c].left
           /\ consumer'[c].pc = "send" /\ consumer'[c].ev = consumer[c].ev
           /\ DOMAIN consumer'[c].left = DOMAIN consumer[c].left \ {s}
           /\ letters' \in Seq(DeadLetters) /\ dropped' \subseteq Pairs
           /\ eventFaults' \in 0 .. MaxEventFaults
           /\ dropped \subseteq dropped'
           /\ Len(letters') >= Len(letters)
           /\ \A i \in DOMAIN letters : i \in DOMAIN letters' /\ letters'[i] = letters[i]
           /\ \A i \in DOMAIN letters' : i \in DOMAIN letters \/ ~letters'[i].replayed
           /\ \/ <<s, consumer[c].ev>> \in dropped'
              \/ \E i \in DOMAIN letters' :
                     letters'[i].sub = s /\ letters'[i].ev = consumer[c].ev
<1>1. consumer[c].pc = "send" /\ s \in DOMAIN consumer[c].left
  BY DEF DeadLetter
<1>2. consumer \in [Consumers -> ConsumerStates] /\ consumer[c].ev \in Events
  BY <1>1 DEF EventsShape
<1>3. PICK l : l = Without(consumer[c].left, s)
  OBVIOUS
<1>4. l \in Lefts /\ DOMAIN l = DOMAIN consumer[c].left \ {s}
  BY <1>2, <1>3, WithoutShape DEF ConsumerStates
<1>5. consumer' = [consumer EXCEPT ![c].left = l]
  BY <1>2, <1>3 DEF DeadLetter
<1>6. /\ consumer' \in [Consumers -> ConsumerStates]
      /\ \A d \in Consumers : consumer'[d].pc # "idle" => consumer'[d].ev \in Events
      /\ \A d \in Consumers : d # c => consumer'[d] = consumer[d]
      /\ consumer'[c].pc = "send" /\ consumer'[c].ev = consumer[c].ev /\ consumer'[c].left = l
  BY <1>1, <1>4, <1>5, Leaves
<1>7. PICK row : row = [sub |-> s, ev |-> consumer[c].ev, replayed |-> FALSE]
  OBVIOUS
<1>8. row \in DeadLetters /\ row.sub = s /\ row.ev = consumer[c].ev /\ row.replayed = FALSE
  BY <1>2, <1>7 DEF DeadLetters
<1>9. letters \in Seq(DeadLetters) /\ dropped \subseteq Pairs /\ eventFaults \in 0 .. MaxEventFaults
  BY DEF EventsShape
<1>10. CASE letters' = Append(letters, row) /\ UNCHANGED <<eventFaults, dropped>>
  <2>1. /\ letters' \in Seq(DeadLetters) /\ Len(letters') = Len(letters) + 1
        /\ \A i \in DOMAIN letters : i \in DOMAIN letters' /\ letters'[i] = letters[i]
        /\ Len(letters) + 1 \in DOMAIN letters' /\ letters'[Len(letters) + 1] = row
        /\ \A i \in DOMAIN letters' : i \in DOMAIN letters \/ i = Len(letters) + 1
    BY <1>8, <1>9, <1>10
  <2>2. Len(letters') >= Len(letters)
    BY <1>9, <2>1
  <2>3. \A i \in DOMAIN letters' : i \in DOMAIN letters \/ ~letters'[i].replayed
    BY <1>8, <2>1
  <2>4. QED
    BY <1>1, <1>2, <1>4, <1>6, <1>8, <1>9, <1>10, <2>1, <2>2, <2>3
<1>11. CASE /\ IF hooked[s] = "active" THEN EventFault ELSE UNCHANGED eventFaults
            /\ dropped' = dropped \cup {<<s, consumer[c].ev>>}
            /\ UNCHANGED letters
  <2>1. eventFaults' \in 0 .. MaxEventFaults
    BY <1>9, <1>11, EventsConstants DEF EventFault
  <2>2. dropped' \subseteq Pairs /\ dropped \subseteq dropped' /\ <<s, consumer[c].ev>> \in dropped'
    BY <1>2, <1>9, <1>11 DEF Pairs
  <2>3. Len(letters') >= Len(letters)
    BY <1>9, <1>11
  <2>4. QED
    BY <1>1, <1>2, <1>4, <1>6, <1>9, <1>11, <2>1, <2>2, <2>3
<1>12. QED
  BY <1>7, <1>10, <1>11 DEF DeadLetter

ReplayUnderWay == [pc : {"send", "mark", "done", "failed"}, row : Nat, left : 0 .. MaxAttempts]

LEMMA ReplayMoved ==
    ASSUME EventsShape, NEW r \in Replayers, NEW n \in ReplayUnderWay,
           n.pc = "send" => n.left \in 1 .. MaxAttempts, replayer' = [replayer EXCEPT ![r] = n]
    PROVE  /\ replayer' \in [Replayers -> ReplayStates]
           /\ \A q \in Replayers : replayer'[q].pc = "send" => replayer'[q].left \in 1 .. MaxAttempts
           /\ replayer'[r] = n /\ \A q \in Replayers : q # r => replayer'[q] = replayer[q]
<1>1. n \in ReplayStates
  BY DEF ReplayUnderWay, ReplayStates
<1>2. replayer \in [Replayers -> ReplayStates]
      /\ \A q \in Replayers : replayer[q].pc = "send" => replayer[q].left \in 1 .. MaxAttempts
  BY DEF EventsShape
<1>3. /\ replayer'[r] = n /\ \A q \in Replayers : q # r => replayer'[q] = replayer[q]
      /\ replayer' \in [Replayers -> ReplayStates]
  BY <1>1, <1>2
<1>4. QED
  BY <1>2, <1>3

\* A replay that is under way has a row and attempts left.
LEMMA ReplayShape ==
    ASSUME EventsShape, NEW r \in Replayers, replayer[r].pc # "idle"
    PROVE  replayer[r] \in ReplayUnderWay
<1>1. replayer[r] \in ReplayStates
  BY DEF EventsShape
<1>2. QED
  BY <1>1 DEF ReplayStates, ReplayUnderWay

LEMMA ReplayStarts ==
    ASSUME EventsShape, NEW r \in Replayers, NEW i \in DOMAIN letters, StartReplay(r, i)
    PROVE  /\ replayer' \in [Replayers -> ReplayStates]
           /\ \A q \in Replayers : replayer'[q].pc = "send" => replayer'[q].left \in 1 .. MaxAttempts
           /\ replayer[r].pc = "idle"
           /\ replayer'[r].pc = "send" /\ replayer'[r].row = i
           /\ \A q \in Replayers : q # r => replayer'[q] = replayer[q]
<1>1. PICK n : n = [pc |-> "send", row |-> i, left |-> MaxAttempts]
  OBVIOUS
<1>2. i \in Nat
  BY LetterShape
<1>3. n \in ReplayUnderWay /\ n.left \in 1 .. MaxAttempts /\ n.pc = "send" /\ n.row = i
  BY <1>1, <1>2, EventsConstants DEF ReplayUnderWay
<1>4. replayer' = [replayer EXCEPT ![r] = n] /\ replayer[r].pc = "idle"
  BY <1>1 DEF StartReplay
<1>5. QED
  BY <1>3, <1>4, ReplayMoved

LEMMA ReplayPosts ==
    ASSUME EventsShape, ReplayRows, NEW r \in Replayers, NEW o \in Outcomes, ReplayAttempt(r, o)
    PROVE  /\ replayer' \in [Replayers -> ReplayStates]
           /\ \A q \in Replayers : replayer'[q].pc = "send" => replayer'[q].left \in 1 .. MaxAttempts
           /\ replayer[r].pc = "send" /\ replayer[r].row \in DOMAIN letters
           /\ replayer'[r].pc = "mark" <=> o = "ok"
           /\ replayer'[r].pc \in {"mark", "failed", "send"} /\ replayer'[r].row = replayer[r].row
           /\ \A q \in Replayers : q # r => replayer'[q] = replayer[q]
           /\ Letter(replayer[r].row) \in Pairs /\ Post(Letter(replayer[r].row), o)
<1>1. replayer[r].pc = "send" /\ Post(Letter(replayer[r].row), o)
  BY DEF ReplayAttempt
<1>2. replayer[r].row \in DOMAIN letters
  BY <1>1 DEF ReplayRows
<1>3. Letter(replayer[r].row) \in Pairs
  BY <1>2, LetterShape
<1>4. PICK x : x = replayer[r]
  OBVIOUS
<1>5. x \in ReplayUnderWay /\ x.left \in 1 .. MaxAttempts
  BY <1>1, <1>4, ReplayShape DEF EventsShape
<1>6. PICK next : next = IF o = "ok" THEN "mark" ELSE IF x.left = 1 THEN "failed" ELSE "send"
  OBVIOUS
<1>7. PICK n : n = [x EXCEPT !.left = x.left - 1, !.pc = next]
  OBVIOUS
<1>8. next \in {"mark", "failed", "send"} /\ (next = "mark" <=> o = "ok")
      /\ (next = "send" => x.left # 1)
  BY <1>6
<1>9. n \in ReplayUnderWay /\ n.pc = next /\ n.row = x.row /\ n.left = x.left - 1
  <2>1. x.left - 1 \in 0 .. MaxAttempts
    BY <1>5, EventsConstants
  <2>2. PICK k \in 0 .. MaxAttempts : k = x.left - 1
    BY <2>1
  <2>3. QED
    BY <1>5, <1>7, <1>8, <2>2 DEF ReplayUnderWay
<1>10. n.pc = "send" => n.left \in 1 .. MaxAttempts
  BY <1>5, <1>8, <1>9, EventsConstants
<1>11. replayer' = [replayer EXCEPT ![r] = n]
  <2>1. replayer \in [Replayers -> ReplayStates]
    BY DEF EventsShape
  <2>2. replayer' = [replayer EXCEPT ![r].left = x.left - 1, ![r].pc = next]
    BY <1>4, <1>6, <2>1 DEF ReplayAttempt
  <2>3. QED
    BY <1>4, <1>7, <2>1, <2>2
<1>12. QED
  BY <1>1, <1>2, <1>3, <1>4, <1>8, <1>9, <1>10, <1>11, ReplayMoved

\* A letter is marked: which letter it is does not change.
LEMMA Marks ==
    ASSUME EventsShape, ReplayRows, NEW r \in Replayers, MarkReplayed(r)
    PROVE  /\ replayer' \in [Replayers -> ReplayStates]
           /\ \A q \in Replayers : replayer'[q].pc = "send" => replayer'[q].left \in 1 .. MaxAttempts
           /\ replayer[r].pc = "mark" /\ replayer[r].row \in DOMAIN letters
           /\ replayer'[r].pc = "done" /\ replayer'[r].row = replayer[r].row
           /\ \A q \in Replayers : q # r => replayer'[q] = replayer[q]
           /\ letters' \in Seq(DeadLetters) /\ DOMAIN letters' = DOMAIN letters
           /\ \A i \in DOMAIN letters :
                  /\ letters'[i].sub = letters[i].sub /\ letters'[i].ev = letters[i].ev
                  /\ letters'[i].replayed => letters[i].replayed \/ i = replayer[r].row
<1>1. replayer[r].pc = "mark" /\ replayer[r].row \in DOMAIN letters
  BY DEF MarkReplayed, ReplayRows
<1>2. PICK x : x = replayer[r]
  OBVIOUS
<1>3. x \in ReplayUnderWay
  BY <1>1, <1>2, ReplayShape
<1>4. PICK n : n = [x EXCEPT !.pc = "done"]
  OBVIOUS
<1>5. n \in ReplayUnderWay /\ n.pc = "done" /\ n.row = x.row
  BY <1>3, <1>4 DEF ReplayUnderWay
<1>6. replayer' = [replayer EXCEPT ![r] = n]
  BY <1>2, <1>4 DEF MarkReplayed, EventsShape
<1>7. letters \in Seq(DeadLetters)
  BY DEF EventsShape
<1>8. PICK j : j = replayer[r].row
  OBVIOUS
<1>9. PICK row : row = [letters[j] EXCEPT !.replayed = TRUE]
  OBVIOUS
<1>10. row \in DeadLetters /\ row.sub = letters[j].sub /\ row.ev = letters[j].ev
  <2>1. letters[j] \in DeadLetters
    BY <1>1, <1>7, <1>8
  <2>2. QED
    BY <1>9, <2>1 DEF DeadLetters
<1>11. letters' = [letters EXCEPT ![j] = row]
  <2>1. letters' = [letters EXCEPT ![j].replayed = TRUE]
    BY <1>8 DEF MarkReplayed
  <2>2. QED
    BY <1>7, <1>9, <2>1
<1>12. /\ letters' \in Seq(DeadLetters) /\ DOMAIN letters' = DOMAIN letters
       /\ letters'[j] = row /\ \A i \in DOMAIN letters : i # j => letters'[i] = letters[i]
  BY <1>1, <1>7, <1>8, <1>10, <1>11
<1>13. QED
  BY <1>1, <1>2, <1>5, <1>6, <1>8, <1>10, <1>12, ReplayMoved

LEMMA FaultSpent ==
    ASSUME EventsShape, EventFault PROVE eventFaults' \in 0 .. MaxEventFaults
BY EventsConstants DEF EventsShape, EventFault

LEMMA AckedShape ==
    ASSUME EventsShape, NEW e \in Events
    PROVE  /\ Acked(e) \in [Events -> {"none", "ready", "out", "acked", "gone"}]
           /\ Acked(e)[e] \in {"acked", "gone"}
           /\ \A f \in Events : f # e => Acked(e)[f] = message[f]
BY DEF EventsShape, Acked

-----------------------------------------------------------------------------
(* Each part of the invariant is preserved.                                *)

LEMMA EventsShapeStep ==
    ASSUME EventsShape, ReplayRows, [EventsNext]_eventsVars
    PROVE  EventsShape'
<1>1. /\ hooked \in [Hooked -> {"new", "active", "deleted"}]
      /\ message \in [Events -> {"none", "ready", "out", "acked", "gone"}]
      /\ buffered \in [Consumers -> Seq(Events)]
      /\ \A c \in Consumers : Len(buffered[c]) <= MaxBuffered
      /\ consumer \in [Consumers -> ConsumerStates]
      /\ \A c \in Consumers : consumer[c].pc # "idle" => consumer[c].ev \in Events
      /\ letters \in Seq(DeadLetters)
      /\ replayer \in [Replayers -> ReplayStates]
      /\ \A r \in Replayers : replayer[r].pc = "send" => replayer[r].left \in 1 .. MaxAttempts
      /\ eventFaults \in 0 .. MaxEventFaults
      /\ accepted \in [Pairs -> Nat] /\ excused \in [Pairs -> Nat]
      /\ owed \subseteq Pairs /\ dropped \subseteq Pairs
  BY DEF EventsShape
<1>2. CASE UNCHANGED eventsVars
  BY <1>1, <1>2 DEF eventsVars, EventsShape
<1>3. ASSUME NEW e \in Events, PublishEvent(e) PROVE EventsShape'
  <2>1. message' \in [Events -> {"none", "ready", "out", "acked", "gone"}]
    BY <1>1, <1>3 DEF PublishEvent
  <2>2. owed' \subseteq Pairs
    BY <1>1, <1>3 DEF PublishEvent, Pairs, ActiveHooks
  <2>3. eventFaults' \in 0 .. MaxEventFaults
    BY <1>1, <1>3, FaultSpent DEF PublishEvent
  <2>4. QED
    BY <1>1, <1>3, <2>1, <2>2, <2>3 DEF PublishEvent, EventsShape
<1>4. ASSUME NEW e \in Events, AckWait(e) \/ MaxAge(e) \/ Redeliver(e) PROVE EventsShape'
  <2>1. message' \in [Events -> {"none", "ready", "out", "acked", "gone"}]
    BY <1>1, <1>4 DEF AckWait, MaxAge, Redeliver
  <2>2. excused' \in [Pairs -> Nat]
    <3>1. AddOne(excused, Hooked \X {e}) \in [Pairs -> Nat]
      BY <1>1 DEF AddOne
    <3>2. CASE AckWait(e)
      BY <3>1, <3>2 DEF AckWait
    <3>3. CASE MaxAge(e)
      BY <1>1, <3>3 DEF MaxAge
    <3>4. CASE Redeliver(e)
      BY <3>1, <3>4 DEF Redeliver
    <3>5. QED
      BY <1>4, <3>2, <3>3, <3>4
  <2>3. eventFaults' \in 0 .. MaxEventFaults
    BY <1>1, <1>4, FaultSpent DEF AckWait, MaxAge, Redeliver
  <2>4. UNCHANGED <<hooked, buffered, consumer, letters, replayer, accepted, owed, dropped>>
    BY <1>4 DEF AckWait, MaxAge, Redeliver
  <2>5. QED
    BY <1>1, <2>1, <2>2, <2>3, <2>4 DEF EventsShape
<1>5. ASSUME NEW c \in Consumers, NEW e \in Events, Pull(c, e) PROVE EventsShape'
  <2>1. message' \in [Events -> {"none", "ready", "out", "acked", "gone"}]
    BY <1>1, <1>5 DEF Pull
  <2>2. /\ buffered[c] \in Seq(Events) /\ Len(buffered[c]) < MaxBuffered
        /\ buffered' = [buffered EXCEPT ![c] = Append(buffered[c], e)]
    BY <1>1, <1>5 DEF Pull
  <2>3. Append(buffered[c], e) \in Seq(Events) /\ Len(Append(buffered[c], e)) <= MaxBuffered
    BY <2>2, EventsConstants
  <2>4. buffered' \in [Consumers -> Seq(Events)]
        /\ \A d \in Consumers : Len(buffered'[d]) <= MaxBuffered
    BY <1>1, <2>2, <2>3
  <2>5. QED
    BY <1>1, <1>5, <2>1, <2>4 DEF Pull, EventsShape
<1>6. ASSUME NEW c \in Consumers, Begin(c) PROVE EventsShape'
  <2>1. /\ consumer' \in [Consumers -> ConsumerStates]
        /\ \A d \in Consumers : consumer'[d].pc # "idle" => consumer'[d].ev \in Events
        /\ buffered' \in [Consumers -> Seq(Events)]
        /\ \A d \in Consumers : Len(buffered'[d]) <= MaxBuffered
    BY <1>6, Begins
  <2>2. QED
    BY <1>1, <1>6, <2>1 DEF Begin, EventsShape
<1>7. ASSUME NEW c \in Consumers, ListHooks(c) PROVE EventsShape'
  <2>1. consumer[c].pc = "list" /\ consumer[c].ev \in Events
    BY <1>1, <1>7 DEF ListHooks
  <2>2. CASE consumer' = [consumer EXCEPT ![c].pc = "send",
                                          ![c].left = [s \in ActiveHooks |-> MaxAttempts]]
             /\ UNCHANGED <<message, eventFaults, dropped>>
    <3>1. /\ consumer' \in [Consumers -> ConsumerStates]
          /\ \A d \in Consumers : consumer'[d].pc # "idle" => consumer'[d].ev \in Events
      BY <2>1, <2>2, Lists
    <3>2. QED
      BY <1>1, <1>7, <2>2, <3>1 DEF ListHooks, EventsShape
  <2>3. CASE /\ EventFault /\ consumer' = [consumer EXCEPT ![c] = Resting]
             /\ message' = Acked(consumer[c].ev)
             /\ dropped' = dropped \cup (Hooked \X {consumer[c].ev})
    <3>1. /\ consumer' \in [Consumers -> ConsumerStates]
          /\ \A d \in Consumers : consumer'[d].pc # "idle" => consumer'[d].ev \in Events
      BY <2>3, Rests
    <3>2. message' \in [Events -> {"none", "ready", "out", "acked", "gone"}]
      BY <2>1, <2>3, AckedShape
    <3>3. dropped' \subseteq Pairs
      BY <1>1, <2>1, <2>3 DEF Pairs
    <3>4. eventFaults' \in 0 .. MaxEventFaults
      BY <2>3, FaultSpent
    <3>5. QED
      BY <1>1, <1>7, <3>1, <3>2, <3>3, <3>4 DEF ListHooks, EventsShape
  <2>4. QED
    BY <1>7, <2>2, <2>3 DEF ListHooks
<1>8. ASSUME NEW c \in Consumers, NEW s \in Hooked, NEW o \in Outcomes, Attempt(c, s, o)
      PROVE  EventsShape'
  <2>1. /\ consumer' \in [Consumers -> ConsumerStates]
        /\ \A d \in Consumers : consumer'[d].pc # "idle" => consumer'[d].ev \in Events
        /\ <<s, consumer[c].ev>> \in Pairs /\ Post(<<s, consumer[c].ev>>, o)
    BY <1>8, AttemptMade
  <2>2. /\ accepted' \in [Pairs -> Nat] /\ excused' \in [Pairs -> Nat]
        /\ eventFaults' \in 0 .. MaxEventFaults
    BY <2>1, PostShape
  <2>3. QED
    BY <1>1, <1>8, <2>1, <2>2 DEF Attempt, EventsShape
<1>9. ASSUME NEW c \in Consumers, NEW s \in Hooked, DeadLetter(c, s)
      PROVE  EventsShape'
  <2>1. /\ consumer' \in [Consumers -> ConsumerStates]
        /\ \A d \in Consumers : consumer'[d].pc # "idle" => consumer'[d].ev \in Events
        /\ letters' \in Seq(DeadLetters) /\ dropped' \subseteq Pairs
        /\ eventFaults' \in 0 .. MaxEventFaults
    BY <1>9, LetterMade
  <2>2. QED
    BY <1>1, <1>9, <2>1 DEF DeadLetter, EventsShape
<1>10. ASSUME NEW c \in Consumers, Ack(c) PROVE EventsShape'
  <2>1. /\ consumer' \in [Consumers -> ConsumerStates]
        /\ \A d \in Consumers : consumer'[d].pc # "idle" => consumer'[d].ev \in Events
    BY <1>10, Rests DEF Ack
  <2>2. message' \in [Events -> {"none", "ready", "out", "acked", "gone"}]
    BY <1>1, <1>10, AckedShape DEF Ack
  <2>3. QED
    BY <1>1, <1>10, <2>1, <2>2 DEF Ack, EventsShape
<1>11. ASSUME NEW c \in Consumers, Crash(c) PROVE EventsShape'
  <2>1. /\ consumer' \in [Consumers -> ConsumerStates]
        /\ \A d \in Consumers : consumer'[d].pc # "idle" => consumer'[d].ev \in Events
    BY <1>11, Rests DEF Crash
  <2>2. eventFaults' \in 0 .. MaxEventFaults
    BY <1>11, FaultSpent DEF Crash
  <2>3. buffered' = [buffered EXCEPT ![c] = <<>>]
    BY <1>11 DEF Crash
  <2>4. <<>> \in Seq(Events) /\ Len(<<>>) = 0
    OBVIOUS
  <2>5. buffered' \in [Consumers -> Seq(Events)]
    BY <1>1, <2>3, <2>4
  <2>6. \A d \in Consumers : Len(buffered'[d]) <= MaxBuffered
    <3>1. Len(buffered'[c]) <= MaxBuffered
      BY <1>1, <2>3, <2>4, EventsConstants
    <3>2. QED
      BY <1>1, <2>3, <3>1
  <2>7. QED
    BY <1>1, <1>11, <2>1, <2>2, <2>5, <2>6 DEF Crash, EventsShape
<1>12. ASSUME NEW r \in Replayers, NEW i \in DOMAIN letters, StartReplay(r, i)
       PROVE  EventsShape'
  <2>1. /\ replayer' \in [Replayers -> ReplayStates]
        /\ \A q \in Replayers : replayer'[q].pc = "send" => replayer'[q].left \in 1 .. MaxAttempts
    BY <1>12, ReplayStarts
  <2>2. excused' \in [Pairs -> Nat]
    BY <1>1, <1>12, AddOneShape DEF StartReplay
  <2>3. QED
    BY <1>1, <1>12, <2>1, <2>2 DEF StartReplay, EventsShape
<1>13. ASSUME NEW r \in Replayers, NEW o \in Outcomes, ReplayAttempt(r, o)
       PROVE  EventsShape'
  <2>1. /\ replayer' \in [Replayers -> ReplayStates]
        /\ \A q \in Replayers : replayer'[q].pc = "send" => replayer'[q].left \in 1 .. MaxAttempts
        /\ Letter(replayer[r].row) \in Pairs /\ Post(Letter(replayer[r].row), o)
    BY <1>13, ReplayPosts
  <2>2. /\ accepted' \in [Pairs -> Nat] /\ excused' \in [Pairs -> Nat]
        /\ eventFaults' \in 0 .. MaxEventFaults
    BY <2>1, PostShape
  <2>3. QED
    BY <1>1, <1>13, <2>1, <2>2 DEF ReplayAttempt, EventsShape
<1>14. ASSUME NEW r \in Replayers, MarkReplayed(r) PROVE EventsShape'
  <2>1. /\ replayer' \in [Replayers -> ReplayStates]
        /\ \A q \in Replayers : replayer'[q].pc = "send" => replayer'[q].left \in 1 .. MaxAttempts
        /\ letters' \in Seq(DeadLetters)
    BY <1>14, Marks
  <2>2. QED
    BY <1>1, <1>14, <2>1 DEF MarkReplayed, EventsShape
<1>15. ASSUME NEW s \in Hooked, Subscribe(s) \/ Unsubscribe(s) PROVE EventsShape'
  <2>1. hooked' \in [Hooked -> {"new", "active", "deleted"}] /\ owed' \subseteq Pairs
    BY <1>1, <1>15 DEF Subscribe, Unsubscribe
  <2>2. UNCHANGED <<message, buffered, consumer, letters, replayer, eventFaults, accepted,
                    excused, dropped>>
    BY <1>15 DEF Subscribe, Unsubscribe
  <2>3. QED
    BY <1>1, <2>1, <2>2 DEF EventsShape
<1>16. QED
  BY <1>2, <1>3, <1>4, <1>5, <1>6, <1>7, <1>8, <1>9, <1>10, <1>11, <1>12, <1>13, <1>14, <1>15
     DEF EventsNext, ConsumerStep

\* What is counted, dropped or recorded stays so, and a stored event is not
\* unstored.
LEMMA NothingUndone ==
    ASSUME EventsShape, ReplayRows, [EventsNext]_eventsVars
    PROVE  /\ \A p \in Pairs : accepted'[p] >= accepted[p]
           /\ dropped \subseteq dropped'
           /\ \A i \in DOMAIN letters :
                  /\ i \in DOMAIN letters'
                  /\ letters'[i].sub = letters[i].sub /\ letters'[i].ev = letters[i].ev
           /\ \A e \in Events : message[e] # "none" => message'[e] # "none"
<1>1. accepted \in [Pairs -> Nat]
      /\ message \in [Events -> {"none", "ready", "out", "acked", "gone"}]
  BY DEF EventsShape
<1>2. UNCHANGED accepted => \A p \in Pairs : accepted'[p] >= accepted[p]
  BY <1>1
<1>3. CASE UNCHANGED eventsVars
  BY <1>2, <1>3 DEF eventsVars
<1>4. ASSUME NEW e \in Events, PublishEvent(e) \/ AckWait(e) \/ MaxAge(e) \/ Redeliver(e)
      PROVE  /\ UNCHANGED <<accepted, dropped, letters>>
             /\ \A f \in Events : message[f] # "none" => message'[f] # "none"
  BY <1>1, <1>4 DEF PublishEvent, AckWait, MaxAge, Redeliver
<1>5. ASSUME NEW c \in Consumers, NEW e \in Events, Pull(c, e)
      PROVE  /\ UNCHANGED <<accepted, dropped, letters>>
             /\ \A f \in Events : message[f] # "none" => message'[f] # "none"
  BY <1>1, <1>5 DEF Pull
<1>6. ASSUME NEW c \in Consumers, Begin(c) \/ Crash(c)
      PROVE  UNCHANGED <<accepted, dropped, letters, message>>
  BY <1>6 DEF Begin, Crash
<1>7. ASSUME NEW c \in Consumers, ListHooks(c) \/ Ack(c)
      PROVE  /\ UNCHANGED <<accepted, letters>> /\ dropped \subseteq dropped'
             /\ \A f \in Events : message[f] # "none" => message'[f] # "none"
  <2>1. consumer[c].ev \in Events
    BY <1>7 DEF ListHooks, Ack, EventsShape
  <2>2. UNCHANGED message \/ message' = Acked(consumer[c].ev)
    BY <1>7 DEF ListHooks, Ack
  <2>3. \A f \in Events : message[f] # "none" => message'[f] # "none"
    BY <2>1, <2>2, AckedShape
  <2>4. QED
    BY <1>7, <2>3 DEF ListHooks, Ack
<1>8. ASSUME NEW c \in Consumers, NEW s \in Hooked, NEW o \in Outcomes, Attempt(c, s, o)
      PROVE  /\ UNCHANGED <<message, dropped, letters>>
             /\ \A p \in Pairs : accepted'[p] >= accepted[p]
  <2>1. <<s, consumer[c].ev>> \in Pairs /\ Post(<<s, consumer[c].ev>>, o)
    BY <1>8, AttemptMade
  <2>2. QED
    BY <1>8, <2>1, PostShape DEF Attempt
<1>9. ASSUME NEW c \in Consumers, NEW s \in Hooked, DeadLetter(c, s)
      PROVE  /\ UNCHANGED <<message, accepted>> /\ dropped \subseteq dropped'
             /\ \A i \in DOMAIN letters : i \in DOMAIN letters' /\ letters'[i] = letters[i]
  <2>1. UNCHANGED <<message, accepted>>
    BY <1>9 DEF DeadLetter
  <2>2. QED
    BY <1>9, <2>1, LetterMade
<1>10. ASSUME NEW r \in Replayers, NEW i \in DOMAIN letters, StartReplay(r, i)
       PROVE  UNCHANGED <<accepted, dropped, letters, message>>
  BY <1>10 DEF StartReplay
<1>11. ASSUME NEW r \in Replayers, NEW o \in Outcomes, ReplayAttempt(r, o)
       PROVE  /\ UNCHANGED <<message, dropped, letters>>
              /\ \A p \in Pairs : accepted'[p] >= accepted[p]
  <2>1. Letter(replayer[r].row) \in Pairs /\ Post(Letter(replayer[r].row), o)
    BY <1>11, ReplayPosts
  <2>2. QED
    BY <1>11, <2>1, PostShape DEF ReplayAttempt
<1>12. ASSUME NEW r \in Replayers, MarkReplayed(r)
       PROVE  /\ UNCHANGED <<message, dropped, accepted>>
              /\ \A i \in DOMAIN letters :
                  /\ i \in DOMAIN letters'
                  /\ letters'[i].sub = letters[i].sub /\ letters'[i].ev = letters[i].ev
  <2>1. UNCHANGED <<message, dropped, accepted>>
    BY <1>12 DEF MarkReplayed
  <2>2. QED
    BY <1>12, <2>1, Marks
<1>13. ASSUME NEW s \in Hooked, Subscribe(s) \/ Unsubscribe(s)
       PROVE  UNCHANGED <<accepted, dropped, letters, message>>
  BY <1>13 DEF Subscribe, Unsubscribe
<1>14. QED
  BY <1>2, <1>3, <1>4, <1>5, <1>6, <1>7, <1>8, <1>9, <1>10, <1>11, <1>12, <1>13
     DEF EventsNext, ConsumerStep

LEMMA SettledStays ==
    ASSUME EventsShape, ReplayRows, [EventsNext]_eventsVars,
           NEW s \in Hooked, NEW e \in Events, Settled(s, e)
    PROVE  Settled(s, e)'
<1>1. <<s, e>> \in Pairs
  BY DEF Pairs
<1>2. accepted[<<s, e>>] \in Nat /\ accepted'[<<s, e>>] \in Nat
  BY <1>1, EventsShapeStep DEF EventsShape
<1>3. CASE accepted[<<s, e>>] > 0
  <2>1. accepted'[<<s, e>>] >= accepted[<<s, e>>]
    BY <1>1, NothingUndone
  <2>2. accepted'[<<s, e>>] > 0
    BY <1>2, <1>3, <2>1
  <2>3. QED
    BY <2>2 DEF Settled
<1>4. CASE <<s, e>> \in dropped
  BY <1>4, NothingUndone DEF Settled
<1>5. CASE \E i \in DOMAIN letters : Letter(i) = <<s, e>>
  <2>1. PICK i \in DOMAIN letters : Letter(i) = <<s, e>>
    BY <1>5
  <2>2. /\ i \in DOMAIN letters'
        /\ letters'[i].sub = letters[i].sub /\ letters'[i].ev = letters[i].ev
    BY NothingUndone
  <2>3. Letter(i)' = <<s, e>>
    BY <2>1, <2>2 DEF Letter
  <2>4. QED
    BY <2>2, <2>3 DEF Settled
<1>6. QED
  BY <1>3, <1>4, <1>5 DEF Settled

LEMMA StoredStep ==
    ASSUME EventsShape, ReplayRows, Stored, [EventsNext]_eventsVars
    PROVE  Stored'
<1>1. \A e \in Events : message[e] # "none" => message'[e] # "none"
  BY NothingUndone
<1>2. /\ \A c \in Consumers : consumer[c].pc # "idle" => consumer[c].ev \in Events
      /\ buffered \in [Consumers -> Seq(Events)] /\ consumer \in [Consumers -> ConsumerStates]
  BY DEF EventsShape
<1>3. /\ \A c \in Consumers : \A i \in DOMAIN buffered[c] :
             buffered[c][i] \in Events /\ message'[buffered[c][i]] # "none"
      /\ \A c \in Consumers : consumer[c].pc # "idle" => message'[consumer[c].ev] # "none"
  BY <1>1, <1>2 DEF Stored
\* What a consumer is at, it was at before, and has pulled nothing.
<1>4. ASSUME \A d \in Consumers : /\ consumer'[d].pc = "idle"
                                     \/ (consumer[d].pc # "idle" /\ consumer'[d].ev = consumer[d].ev)
                                  /\ buffered'[d] = buffered[d] \/ buffered'[d] = <<>>
      PROVE  Stored'
  <2>1. \A d \in Consumers : \A i \in DOMAIN buffered'[d] : buffered'[d] = buffered[d]
    BY <1>4
  <2>2. QED
    BY <1>3, <1>4, <2>1 DEF Stored
<1>5. UNCHANGED <<consumer, buffered>> => Stored'
  BY <1>4
<1>6. CASE UNCHANGED eventsVars
  BY <1>5, <1>6 DEF eventsVars
<1>7. ASSUME NEW e \in Events, PublishEvent(e) \/ AckWait(e) \/ MaxAge(e) \/ Redeliver(e)
      PROVE  Stored'
  BY <1>5, <1>7 DEF PublishEvent, AckWait, MaxAge, Redeliver
<1>8. ASSUME NEW c \in Consumers, NEW e \in Events, Pull(c, e) PROVE Stored'
  <2>1. UNCHANGED consumer /\ message[e] = "ready"
    BY <1>8 DEF Pull
  <2>2. buffered[c] \in Seq(Events) /\ buffered' = [buffered EXCEPT ![c] = Append(buffered[c], e)]
    BY <1>2, <1>8 DEF Pull
  <2>3. \A i \in DOMAIN Append(buffered[c], e) :
           \/ i \in DOMAIN buffered[c] /\ Append(buffered[c], e)[i] = buffered[c][i]
           \/ Append(buffered[c], e)[i] = e
    BY <2>2
  <2>4. message'[e] # "none"
    BY <1>1, <2>1
  <2>5. \A i \in DOMAIN buffered'[c] : message'[buffered'[c][i]] # "none"
    BY <1>2, <1>3, <2>2, <2>3, <2>4
  <2>6. \A d \in Consumers : d # c => buffered'[d] = buffered[d]
    BY <1>2, <2>2
  <2>7. QED
    BY <1>3, <2>1, <2>5, <2>6 DEF Stored
<1>9. ASSUME NEW c \in Consumers, Begin(c) PROVE Stored'
  <2>1. /\ 1 \in DOMAIN buffered[c] /\ consumer'[c].ev = buffered[c][1]
        /\ \A d \in Consumers : d # c => consumer'[d] = consumer[d] /\ buffered'[d] = buffered[d]
        /\ \A i \in DOMAIN buffered'[c] :
               i + 1 \in DOMAIN buffered[c] /\ buffered'[c][i] = buffered[c][i + 1]
    BY <1>9, Begins
  <2>2. message'[consumer'[c].ev] # "none"
        /\ \A i \in DOMAIN buffered'[c] : message'[buffered'[c][i]] # "none"
    BY <1>3, <2>1
  <2>3. QED
    BY <1>3, <2>1, <2>2 DEF Stored
<1>10. ASSUME NEW c \in Consumers, ListHooks(c) \/ Ack(c) \/ Crash(c) PROVE Stored'
  <2>1. CASE consumer' = [consumer EXCEPT ![c] = Resting]
    <3>1. consumer'[c].pc = "idle" /\ \A d \in Consumers : d # c => consumer'[d] = consumer[d]
      BY <2>1, Rests
    <3>2. \A d \in Consumers : buffered'[d] = buffered[d] \/ buffered'[d] = <<>>
      BY <1>2, <1>10 DEF ListHooks, Ack, Crash
    <3>3. QED
      BY <1>4, <3>1, <3>2
  <2>2. CASE /\ consumer[c].pc = "list" /\ UNCHANGED buffered
             /\ consumer' = [consumer EXCEPT ![c].pc = "send",
                                            ![c].left = [s \in ActiveHooks |-> MaxAttempts]]
    <3>1. /\ \A d \in Consumers : d # c => consumer'[d] = consumer[d]
          /\ consumer'[c].ev = consumer[c].ev
      BY <2>2, Lists
    <3>2. QED
      BY <1>4, <2>2, <3>1
  <2>3. QED
    BY <1>10, <2>1, <2>2 DEF ListHooks, Ack, Crash
<1>11. ASSUME NEW c \in Consumers, NEW s \in Hooked, NEW o \in Outcomes, Attempt(c, s, o)
       PROVE  Stored'
  <2>1. /\ \A d \in Consumers : d # c => consumer'[d] = consumer[d]
        /\ consumer[c].pc = "send" /\ consumer'[c].ev = consumer[c].ev
    BY <1>11, AttemptMade
  <2>2. UNCHANGED buffered
    BY <1>11 DEF Attempt
  <2>3. QED
    BY <1>4, <2>1, <2>2
<1>12. ASSUME NEW c \in Consumers, NEW s \in Hooked, DeadLetter(c, s)
       PROVE  Stored'
  <2>1. /\ \A d \in Consumers : d # c => consumer'[d] = consumer[d]
        /\ consumer[c].pc = "send" /\ consumer'[c].ev = consumer[c].ev
    BY <1>12, LetterMade
  <2>2. UNCHANGED buffered
    BY <1>12 DEF DeadLetter
  <2>3. QED
    BY <1>4, <2>1, <2>2
<1>13. ASSUME NEW r \in Replayers,
              (\E i \in DOMAIN letters : StartReplay(r, i))
                 \/ (\E o \in Outcomes : ReplayAttempt(r, o)) \/ MarkReplayed(r)
       PROVE  Stored'
  BY <1>5, <1>13 DEF StartReplay, ReplayAttempt, MarkReplayed
<1>14. ASSUME NEW s \in Hooked, Subscribe(s) \/ Unsubscribe(s) PROVE Stored'
  BY <1>5, <1>14 DEF Subscribe, Unsubscribe
<1>15. QED
  BY <1>6, <1>7, <1>8, <1>9, <1>10, <1>11, <1>12, <1>13, <1>14 DEF EventsNext, ConsumerStep

LEMMA DeliveredStep ==
    ASSUME EventsShape, ReplayRows, Stored, Listed, Delivered, [EventsNext]_eventsVars
    PROVE  Delivered'
<1>1. \A s \in Hooked, e \in Events : Settled(s, e) => Settled(s, e)'
  BY SettledStays
<1>2. /\ hooked \in [Hooked -> {"new", "active", "deleted"}]
      /\ message \in [Events -> {"none", "ready", "out", "acked", "gone"}]
      /\ owed \subseteq Pairs
  BY DEF EventsShape
\* Nothing more is owed, and no message is acknowledged that was not.
<1>3. ASSUME \A s \in Hooked, e \in Events :
                <<s, e>> \in owed' => <<s, e>> \in owed /\ hooked'[s] = "active"
                                      /\ (message'[e] = "acked" => message[e] = "acked" \/ Settled(s, e)')
      PROVE  Delivered'
  BY <1>1, <1>3 DEF Delivered
<1>4. UNCHANGED <<owed, hooked, message>> => Delivered'
  BY <1>3 DEF Delivered
<1>5. CASE UNCHANGED eventsVars
  BY <1>4, <1>5 DEF eventsVars
<1>6. ASSUME NEW e \in Events, PublishEvent(e) PROVE Delivered'
  <2>1. /\ message'[e] # "acked" /\ \A f \in Events : f # e => message'[f] = message[f]
        /\ UNCHANGED hooked
        /\ owed' \subseteq owed \cup (ActiveHooks \X {e})
    BY <1>2, <1>6 DEF PublishEvent
  <2>2. \A s \in Hooked, f \in Events :
           <<s, f>> \in owed' => <<s, f>> \in owed \/ (f = e /\ hooked[s] = "active")
    BY <2>1 DEF ActiveHooks
  <2>3. QED
    BY <1>1, <2>1, <2>2 DEF Delivered
<1>7. ASSUME NEW e \in Events, AckWait(e) \/ MaxAge(e) \/ Redeliver(e) PROVE Delivered'
  <2>1. /\ message'[e] # "acked" /\ \A f \in Events : f # e => message'[f] = message[f]
        /\ UNCHANGED <<hooked, owed>>
    BY <1>2, <1>7 DEF AckWait, MaxAge, Redeliver
  <2>2. QED
    BY <1>3, <2>1 DEF Delivered
<1>8. ASSUME NEW c \in Consumers, NEW e \in Events, Pull(c, e) PROVE Delivered'
  <2>1. /\ message'[e] # "acked" /\ \A f \in Events : f # e => message'[f] = message[f]
        /\ UNCHANGED <<hooked, owed>>
    BY <1>2, <1>8 DEF Pull
  <2>2. QED
    BY <1>3, <2>1 DEF Delivered
<1>9. ASSUME NEW c \in Consumers, Begin(c) \/ Crash(c) PROVE Delivered'
  BY <1>4, <1>9 DEF Begin, Crash
<1>10. ASSUME NEW c \in Consumers, ListHooks(c) PROVE Delivered'
  <2>1. UNCHANGED <<owed, hooked>>
    BY <1>10 DEF ListHooks
  <2>2. CASE UNCHANGED message
    BY <1>4, <2>1, <2>2
  <2>3. CASE message' = Acked(consumer[c].ev) /\ dropped' = dropped \cup (Hooked \X {consumer[c].ev})
    <3>1. PICK e : e = consumer[c].ev
      OBVIOUS
    <3>2. e \in Events
      BY <1>10, <3>1 DEF ListHooks, EventsShape
    <3>3. \A f \in Events : f # e => message'[f] = message[f]
      BY <2>3, <3>1, <3>2, AckedShape
    <3>4. \A s \in Hooked : Settled(s, e)'
      BY <2>3, <3>1 DEF Settled
    <3>5. \A s \in Hooked, f \in Events :
             message'[f] = "acked" => message[f] = "acked" \/ Settled(s, f)'
      BY <3>3, <3>4
    <3>6. QED
      BY <1>3, <2>1, <3>5 DEF Delivered
  <2>4. QED
    BY <1>10, <2>2, <2>3 DEF ListHooks
<1>11. ASSUME NEW c \in Consumers, Ack(c) PROVE Delivered'
  <2>1. PICK e : e = consumer[c].ev
    OBVIOUS
  <2>2. e \in Events
    BY <1>11, <2>1 DEF Ack, EventsShape
  <2>3. /\ UNCHANGED <<owed, hooked>> /\ message' = Acked(e)
        /\ consumer[c].pc = "send" /\ DOMAIN consumer[c].left = {}
    BY <1>11, <2>1 DEF Ack
  <2>4. \A f \in Events : f # e => message'[f] = message[f]
    BY <2>2, <2>3, AckedShape
  <2>5. \A s \in Hooked : <<s, e>> \in owed => Settled(s, e)
    BY <2>1, <2>3 DEF Listed
  <2>6. \A s \in Hooked, f \in Events :
           <<s, f>> \in owed /\ message'[f] = "acked" => message[f] = "acked" \/ Settled(s, f)'
    BY <1>1, <2>2, <2>4, <2>5
  <2>7. QED
    BY <1>3, <2>3, <2>6 DEF Delivered
<1>12. ASSUME NEW c \in Consumers, NEW s \in Hooked,
              DeadLetter(c, s) \/ \E o \in Outcomes : Attempt(c, s, o)
       PROVE  Delivered'
  BY <1>4, <1>12 DEF DeadLetter, Attempt
<1>13. ASSUME NEW r \in Replayers,
              (\E i \in DOMAIN letters : StartReplay(r, i))
                 \/ (\E o \in Outcomes : ReplayAttempt(r, o)) \/ MarkReplayed(r)
       PROVE  Delivered'
  BY <1>4, <1>13 DEF StartReplay, ReplayAttempt, MarkReplayed
<1>14. ASSUME NEW s \in Hooked, Subscribe(s) PROVE Delivered'
  <2>1. UNCHANGED <<owed, message>> /\ hooked' = [hooked EXCEPT ![s] = "active"]
    BY <1>14 DEF Subscribe
  <2>2. \A t \in Hooked : hooked[t] = "active" => hooked'[t] = "active"
    BY <1>2, <2>1
  <2>3. QED
    BY <1>3, <2>1, <2>2 DEF Delivered
<1>15. ASSUME NEW s \in Hooked, Unsubscribe(s) PROVE Delivered'
  <2>1. UNCHANGED message /\ owed' = owed \ ({s} \X Events)
        /\ \A t \in Hooked : t # s => hooked'[t] = hooked[t]
    BY <1>2, <1>15 DEF Unsubscribe
  <2>2. \A t \in Hooked, e \in Events : <<t, e>> \in owed' => t # s /\ <<t, e>> \in owed
    BY <2>1
  <2>3. QED
    BY <1>3, <2>1, <2>2 DEF Delivered
<1>16. QED
  BY <1>5, <1>6, <1>7, <1>8, <1>9, <1>10, <1>11, <1>12, <1>13, <1>14, <1>15
     DEF EventsNext, ConsumerStep

LEMMA ListedStep ==
    ASSUME EventsShape, ReplayRows, Stored, Listed, Delivered, [EventsNext]_eventsVars
    PROVE  Listed'
<1>1. \A s \in Hooked, e \in Events : Settled(s, e) => Settled(s, e)'
  BY SettledStays
<1>2. /\ \A c \in Consumers : consumer[c].pc # "idle" => consumer[c].ev \in Events
      /\ consumer \in [Consumers -> ConsumerStates] /\ owed \subseteq Pairs
  BY DEF EventsShape
\* Consumer d goes on as it was, and is owed nothing more.
<1>3. ASSUME NEW d \in Consumers, consumer'[d] = consumer[d], NEW s \in Hooked,
             consumer'[d].pc = "send", <<s, consumer[d].ev>> \in owed
      PROVE  s \in DOMAIN consumer'[d].left \/ Settled(s, consumer[d].ev)'
  <2>1. PICK e \in Events : e = consumer[d].ev
    BY <1>2, <1>3
  <2>2. s \in DOMAIN consumer[d].left \/ Settled(s, e)
    BY <1>3, <2>1 DEF Listed
  <2>3. Settled(s, e) => Settled(s, e)'
    BY <1>1
  <2>4. QED
    BY <1>3, <2>1, <2>2, <2>3
\* Every consumer goes on or does not send, and nothing more is owed.
<1>4. ASSUME owed' \subseteq owed,
             \A d \in Consumers : consumer'[d] = consumer[d] \/ consumer'[d].pc # "send"
      PROVE  Listed'
  <2> SUFFICES ASSUME NEW d \in Consumers, NEW s \in Hooked, consumer'[d].pc = "send",
                      <<s, consumer'[d].ev>> \in owed'
               PROVE  s \in DOMAIN consumer'[d].left \/ Settled(s, consumer[d].ev)'
    BY DEF Listed
  <2>1. consumer'[d] = consumer[d] /\ <<s, consumer[d].ev>> \in owed
    BY <1>4
  <2>2. QED
    BY <1>3, <2>1
<1>5. CASE UNCHANGED eventsVars
  BY <1>4, <1>5 DEF eventsVars
<1>6. ASSUME NEW e \in Events, PublishEvent(e) PROVE Listed'
  <2>1. /\ message[e] = "none" /\ UNCHANGED consumer
        /\ owed' \subseteq owed \cup (ActiveHooks \X {e})
    BY <1>6 DEF PublishEvent
  <2> SUFFICES ASSUME NEW d \in Consumers, NEW s \in Hooked, consumer'[d].pc = "send",
                      <<s, consumer'[d].ev>> \in owed'
               PROVE  s \in DOMAIN consumer'[d].left \/ Settled(s, consumer[d].ev)'
    BY DEF Listed
  <2>2. consumer[d].ev # e
    BY <2>1 DEF Stored
  <2>3. <<s, consumer[d].ev>> \in owed
    BY <2>1, <2>2
  <2>4. QED
    BY <1>3, <2>1, <2>3
<1>7. ASSUME NEW e \in Events, AckWait(e) \/ MaxAge(e) \/ Redeliver(e) PROVE Listed'
  BY <1>4, <1>7 DEF AckWait, MaxAge, Redeliver
<1>8. ASSUME NEW c \in Consumers, NEW e \in Events, Pull(c, e) PROVE Listed'
  BY <1>4, <1>8 DEF Pull
<1>9. ASSUME NEW c \in Consumers, Begin(c) PROVE Listed'
  <2>1. /\ consumer'[c].pc = "list" /\ \A d \in Consumers : d # c => consumer'[d] = consumer[d]
    BY <1>9, Begins
  <2>2. UNCHANGED owed
    BY <1>9 DEF Begin
  <2>3. QED
    BY <1>4, <2>1, <2>2
<1>10. ASSUME NEW c \in Consumers, consumer' = [consumer EXCEPT ![c] = Resting], UNCHANGED owed
       PROVE  Listed'
  BY <1>4, <1>10, Rests
<1>11. ASSUME NEW c \in Consumers, ListHooks(c) PROVE Listed'
  <2>1. UNCHANGED owed /\ consumer[c].pc = "list"
    BY <1>11 DEF ListHooks
  <2>2. CASE consumer' = [consumer EXCEPT ![c] = Resting]
    BY <1>10, <2>1, <2>2
  <2>3. CASE consumer' = [consumer EXCEPT ![c].pc = "send",
                                          ![c].left = [s \in ActiveHooks |-> MaxAttempts]]
    <3>1. /\ \A d \in Consumers : d # c => consumer'[d] = consumer[d]
          /\ consumer'[c].ev = consumer[c].ev /\ DOMAIN consumer'[c].left = ActiveHooks
      BY <2>1, <2>3, Lists
    <3> SUFFICES ASSUME NEW d \in Consumers, NEW s \in Hooked, consumer'[d].pc = "send",
                        <<s, consumer'[d].ev>> \in owed'
                 PROVE  s \in DOMAIN consumer'[d].left \/ Settled(s, consumer[d].ev)'
      BY DEF Listed
    <3>2. CASE d = c
      <4>1. consumer[c].ev \in Events /\ <<s, consumer[c].ev>> \in owed
        BY <1>2, <2>1, <3>1, <3>2
      <4>2. s \in ActiveHooks
        BY <4>1 DEF Delivered, ActiveHooks
      <4>3. QED
        BY <3>1, <3>2, <4>2
    <3>3. CASE d # c
      BY <1>3, <2>1, <3>1, <3>3
    <3>4. QED
      BY <3>2, <3>3
  <2>4. QED
    BY <1>11, <2>2, <2>3 DEF ListHooks
<1>12. ASSUME NEW c \in Consumers, Ack(c) \/ Crash(c) PROVE Listed'
  BY <1>10, <1>12 DEF Ack, Crash
\* One delivery of a consumer is settled, or goes on.
<1>13. ASSUME NEW c \in Consumers, NEW s \in Hooked, UNCHANGED owed, consumer[c].pc = "send",
              \A d \in Consumers : d # c => consumer'[d] = consumer[d],
              consumer'[c].pc = "send", consumer'[c].ev = consumer[c].ev,
              DOMAIN consumer[c].left \ {s} \subseteq DOMAIN consumer'[c].left,
              \A e : e = consumer[c].ev => s \in DOMAIN consumer'[c].left \/ Settled(s, e)'
       PROVE  Listed'
  <2> SUFFICES ASSUME NEW d \in Consumers, NEW t \in Hooked, consumer'[d].pc = "send",
                      <<t, consumer'[d].ev>> \in owed'
               PROVE  t \in DOMAIN consumer'[d].left \/ Settled(t, consumer[d].ev)'
    BY DEF Listed
  <2>1. CASE d # c
    BY <1>3, <1>13, <2>1
  <2>2. CASE d = c
    <3>1. PICK e \in Events : e = consumer[c].ev
      BY <1>2, <1>13
    <3>2. t \in DOMAIN consumer[c].left \/ Settled(t, e)
      BY <1>13, <2>2, <3>1 DEF Listed
    <3>3. t \in DOMAIN consumer'[c].left \/ Settled(t, e)'
      BY <1>1, <1>13, <3>1, <3>2
    <3>4. consumer'[c].ev = e
      BY <1>13, <3>1
    <3>5. QED
      BY <2>2, <3>3, <3>4
  <2>3. QED
    BY <2>1, <2>2
<1>14. ASSUME NEW c \in Consumers, NEW s \in Hooked, NEW o \in Outcomes, Attempt(c, s, o)
       PROVE  Listed'
  <2>1. /\ \A d \in Consumers : d # c => consumer'[d] = consumer[d]
        /\ consumer[c].pc = "send" /\ consumer[c].ev \in Events /\ s \in DOMAIN consumer[c].left
        /\ consumer'[c].pc = "send" /\ consumer'[c].ev = consumer[c].ev
        /\ DOMAIN consumer'[c].left =
               IF o = "ok" THEN DOMAIN consumer[c].left \ {s} ELSE DOMAIN consumer[c].left
        /\ <<s, consumer[c].ev>> \in Pairs /\ Post(<<s, consumer[c].ev>>, o)
    BY <1>14, AttemptMade
  <2>2. UNCHANGED owed
    BY <1>14 DEF Attempt
  <2>3. o = "ok" => accepted'[<<s, consumer[c].ev>>] = accepted[<<s, consumer[c].ev>>] + 1
    BY <2>1, PostShape
  <2>4. accepted[<<s, consumer[c].ev>>] \in Nat
    BY <2>1 DEF EventsShape
  <2>5. o = "ok" => accepted'[<<s, consumer[c].ev>>] > 0
    BY <2>3, <2>4
  <2>6. \A e : e = consumer[c].ev => s \in DOMAIN consumer'[c].left \/ Settled(s, e)'
    BY <2>1, <2>5 DEF Settled
  <2>7. QED
    BY <1>13, <2>1, <2>2, <2>6
<1>15. ASSUME NEW c \in Consumers, NEW s \in Hooked, DeadLetter(c, s)
       PROVE  Listed'
  <2>1. /\ \A d \in Consumers : d # c => consumer'[d] = consumer[d]
        /\ consumer[c].pc = "send" /\ consumer[c].ev \in Events /\ s \in DOMAIN consumer[c].left
        /\ consumer'[c].pc = "send" /\ consumer'[c].ev = consumer[c].ev
        /\ DOMAIN consumer'[c].left = DOMAIN consumer[c].left \ {s}
        /\ \/ <<s, consumer[c].ev>> \in dropped'
           \/ \E i \in DOMAIN letters' :
                  letters'[i].sub = s /\ letters'[i].ev = consumer[c].ev
    BY <1>15, LetterMade
  <2>2. UNCHANGED owed
    BY <1>15 DEF DeadLetter
  <2>3. \A e : e = consumer[c].ev => Settled(s, e)'
    BY <2>1 DEF Settled, Letter
  <2>4. QED
    BY <1>13, <2>1, <2>2, <2>3
<1>16. ASSUME NEW r \in Replayers,
              (\E i \in DOMAIN letters : StartReplay(r, i))
                 \/ (\E o \in Outcomes : ReplayAttempt(r, o)) \/ MarkReplayed(r)
       PROVE  Listed'
  BY <1>4, <1>16 DEF StartReplay, ReplayAttempt, MarkReplayed
<1>17. ASSUME NEW s \in Hooked, Subscribe(s) \/ Unsubscribe(s) PROVE Listed'
  BY <1>4, <1>17 DEF Subscribe, Unsubscribe
<1>18. QED
  BY <1>5, <1>6, <1>7, <1>8, <1>9, <1>11, <1>12, <1>14, <1>15, <1>16, <1>17
     DEF EventsNext, ConsumerStep

LEMMA ReplaysStep ==
    ASSUME EventsShape, ReplayRows, ReplayedIsDelivered, [EventsNext]_eventsVars
    PROVE  ReplayRows' /\ ReplayedIsDelivered'
<1>1. /\ \A p \in Pairs : accepted'[p] >= accepted[p]
      /\ \A i \in DOMAIN letters :
             /\ i \in DOMAIN letters'
             /\ letters'[i].sub = letters[i].sub /\ letters'[i].ev = letters[i].ev
  BY NothingUndone
<1>2. accepted \in [Pairs -> Nat] /\ accepted' \in [Pairs -> Nat]
  BY EventsShapeStep DEF EventsShape
\* A letter that is there stays the same letter, and delivered if it was.
<1>3. ASSUME NEW i \in DOMAIN letters
      PROVE  /\ i \in DOMAIN letters' /\ Letter(i)' = Letter(i) /\ Letter(i) \in Pairs
             /\ accepted[Letter(i)] > 0 => accepted'[Letter(i)] > 0
  <2>1. Letter(i)' = Letter(i)
    BY <1>1 DEF Letter
  <2>2. Letter(i) \in Pairs
    BY LetterShape
  <2>3. accepted[Letter(i)] \in Nat /\ accepted'[Letter(i)] \in Nat
        /\ accepted'[Letter(i)] >= accepted[Letter(i)]
    BY <1>1, <1>2, <2>2
  <2>4. QED
    BY <1>1, <2>1, <2>2, <2>3
\* A request that is where it was.
<1>4. ASSUME NEW q \in Replayers, replayer'[q] = replayer[q]
      PROVE  /\ replayer'[q].pc # "idle" => replayer'[q].row \in DOMAIN letters'
             /\ replayer'[q].pc = "mark" => accepted'[Letter(replayer[q].row)'] > 0
  <2>1. CASE replayer[q].pc = "idle"
    BY <1>4, <2>1
  <2>2. CASE replayer[q].pc # "idle"
    <3>1. PICK i \in DOMAIN letters : i = replayer[q].row
      BY <2>2 DEF ReplayRows
    <3>2. replayer[q].pc = "mark" => accepted[Letter(i)] > 0
      BY <3>1 DEF ReplayRows
    <3>3. replayer'[q].row = i /\ i \in DOMAIN letters' /\ Letter(i)' = Letter(i)
      BY <1>3, <1>4, <3>1
    <3>4. replayer[q].pc = "mark" => accepted'[Letter(i)'] > 0
      BY <1>3, <3>2, <3>3
    <3>5. Letter(replayer[q].row)' = Letter(i)'
      BY <3>3 DEF Letter
    <3>6. QED
      BY <1>4, <3>3, <3>4, <3>5
  <2>3. QED
    BY <2>1, <2>2
<1>5. UNCHANGED replayer => ReplayRows'
  BY <1>4 DEF ReplayRows
\* No letter is marked.
<1>6. ASSUME \A i \in DOMAIN letters' : letters'[i].replayed => i \in DOMAIN letters /\ letters[i].replayed
      PROVE  ReplayedIsDelivered'
  <2> SUFFICES ASSUME NEW i \in DOMAIN letters', letters'[i].replayed
               PROVE  accepted'[Letter(i)'] > 0
    BY DEF ReplayedIsDelivered
  <2>1. i \in DOMAIN letters /\ accepted[Letter(i)] > 0
    BY <1>6 DEF ReplayedIsDelivered
  <2>2. QED
    BY <1>3, <2>1
<1>7. UNCHANGED letters => ReplayedIsDelivered'
  BY <1>6
<1>8. CASE UNCHANGED eventsVars
  BY <1>5, <1>7, <1>8 DEF eventsVars
<1>9. ASSUME NEW e \in Events, PublishEvent(e) \/ AckWait(e) \/ MaxAge(e) \/ Redeliver(e)
      PROVE  UNCHANGED <<letters, replayer>>
  BY <1>9 DEF PublishEvent, AckWait, MaxAge, Redeliver
<1>10. ASSUME NEW c \in Consumers, NEW e \in Events, Pull(c, e)
       PROVE  UNCHANGED <<letters, replayer>>
  BY <1>10 DEF Pull
<1>11. ASSUME NEW c \in Consumers, Begin(c) \/ ListHooks(c) \/ Ack(c) \/ Crash(c)
       PROVE  UNCHANGED <<letters, replayer>>
  BY <1>11 DEF Begin, ListHooks, Ack, Crash
<1>12. ASSUME NEW c \in Consumers, NEW s \in Hooked, NEW o \in Outcomes, Attempt(c, s, o)
       PROVE  UNCHANGED <<letters, replayer>>
  BY <1>12 DEF Attempt
<1>13. ASSUME NEW c \in Consumers, NEW s \in Hooked, DeadLetter(c, s)
       PROVE  ReplayRows' /\ ReplayedIsDelivered'
  <2>1. UNCHANGED replayer
    BY <1>13 DEF DeadLetter
  <2>2. /\ \A i \in DOMAIN letters : letters'[i] = letters[i]
        /\ \A i \in DOMAIN letters' : i \in DOMAIN letters \/ ~letters'[i].replayed
    BY <1>13, LetterMade
  <2>3. QED
    BY <1>5, <1>6, <2>1, <2>2
<1>14. ASSUME NEW r \in Replayers, NEW i \in DOMAIN letters, StartReplay(r, i)
       PROVE  ReplayRows' /\ ReplayedIsDelivered'
  <2>1. UNCHANGED letters
    BY <1>14 DEF StartReplay
  <2>2. /\ replayer'[r].pc = "send" /\ replayer'[r].row = i
        /\ \A q \in Replayers : q # r => replayer'[q] = replayer[q]
    BY <1>14, ReplayStarts
  <2>3. ReplayRows'
    BY <1>3, <1>4, <2>2 DEF ReplayRows
  <2>4. QED
    BY <1>7, <2>1, <2>3
<1>15. ASSUME NEW r \in Replayers, NEW o \in Outcomes, ReplayAttempt(r, o)
       PROVE  ReplayRows' /\ ReplayedIsDelivered'
  <2>1. UNCHANGED letters
    BY <1>15 DEF ReplayAttempt
  <2>2. /\ replayer[r].pc = "send" /\ replayer[r].row \in DOMAIN letters
        /\ replayer'[r].pc = "mark" <=> o = "ok"
        /\ replayer'[r].row = replayer[r].row
        /\ \A q \in Replayers : q # r => replayer'[q] = replayer[q]
        /\ Letter(replayer[r].row) \in Pairs /\ Post(Letter(replayer[r].row), o)
    BY <1>15, ReplayPosts
  <2>3. PICK i \in DOMAIN letters : i = replayer[r].row
    BY <2>2
  <2>4. o = "ok" => accepted'[Letter(i)] = accepted[Letter(i)] + 1
    BY <2>2, <2>3, PostShape
  <2>5. o = "ok" => accepted'[Letter(i)] > 0
    BY <1>2, <1>3, <2>4
  <2>6. Letter(replayer[r].row)' = Letter(i) /\ i \in DOMAIN letters'
    BY <2>1, <2>2, <2>3 DEF Letter
  <2>7. /\ replayer'[r].row \in DOMAIN letters'
        /\ replayer'[r].pc = "mark" => accepted'[Letter(replayer[r].row)'] > 0
    BY <2>2, <2>3, <2>5, <2>6
  <2>8. ReplayRows'
    BY <1>4, <2>2, <2>7 DEF ReplayRows
  <2>9. QED
    BY <1>7, <2>1, <2>8
<1>16. ASSUME NEW r \in Replayers, MarkReplayed(r)
       PROVE  ReplayRows' /\ ReplayedIsDelivered'
  <2>1. /\ replayer[r].pc = "mark" /\ replayer[r].row \in DOMAIN letters
        /\ replayer'[r].pc = "done" /\ replayer'[r].row = replayer[r].row
        /\ \A q \in Replayers : q # r => replayer'[q] = replayer[q]
        /\ DOMAIN letters' = DOMAIN letters
        /\ \A i \in DOMAIN letters :
               letters'[i].replayed => letters[i].replayed \/ i = replayer[r].row
    BY <1>16, Marks
  <2>2. ReplayRows'
    BY <1>4, <2>1 DEF ReplayRows
  <2>3. ASSUME NEW i \in DOMAIN letters', letters'[i].replayed
        PROVE  accepted'[Letter(i)'] > 0
    <3>1. i \in DOMAIN letters
      BY <2>1
    <3>2. letters[i].replayed \/ i = replayer[r].row
      BY <2>1, <2>3, <3>1
    <3>3. accepted[Letter(i)] > 0
      BY <2>1, <3>1, <3>2 DEF ReplayedIsDelivered, ReplayRows
    <3>4. QED
      BY <1>3, <3>1, <3>3
  <2>4. QED
    BY <2>2, <2>3 DEF ReplayedIsDelivered
<1>17. ASSUME NEW s \in Hooked, Subscribe(s) \/ Unsubscribe(s)
       PROVE  UNCHANGED <<letters, replayer>>
  BY <1>17 DEF Subscribe, Unsubscribe
<1>18. QED
  BY <1>5, <1>7, <1>8, <1>9, <1>10, <1>11, <1>12, <1>13, <1>14, <1>15, <1>16, <1>17
     DEF EventsNext, ConsumerStep

-----------------------------------------------------------------------------
(* Counting what may still be delivered.                                   *)

LEMMA Counted ==
    ASSUME NEW s, NEW e
    PROVE  /\ IsFiniteSet(HeldBy(s, e)) /\ Cardinality(HeldBy(s, e)) \in Nat
           /\ IsFiniteSet(HeldBy(s, e)') /\ Cardinality(HeldBy(s, e)') \in Nat
           /\ IsFiniteSet(Replaying(s, e)) /\ Cardinality(Replaying(s, e)) \in Nat
           /\ IsFiniteSet(Replaying(s, e)') /\ Cardinality(Replaying(s, e)') \in Nat
<1>1. PICK P : P = Consumers \X (0 .. MaxBuffered)
  OBVIOUS
<1>2. IsFiniteSet(0 .. MaxBuffered)
  BY EventsConstants, FS_Interval
<1>3. IsFiniteSet(P)
  BY <1>1, <1>2, EventsConstants, FS_Product
<1>4. HeldBy(s, e) \in SUBSET P /\ HeldBy(s, e)' \in SUBSET P
  BY <1>1 DEF HeldBy
<1>5. IsFiniteSet(HeldBy(s, e)) /\ IsFiniteSet(HeldBy(s, e)')
  BY <1>3, <1>4, FS_Subset
<1>6. Replaying(s, e) \in SUBSET Replayers /\ Replaying(s, e)' \in SUBSET Replayers
  BY DEF Replaying
<1>7. IsFiniteSet(Replaying(s, e)) /\ IsFiniteSet(Replaying(s, e)')
  BY <1>6, EventsConstants, FS_Subset
<1>8. QED
  BY <1>5, <1>7, FS_CardinalityType

\* No more is under way, nothing more was taken, and no reason is gone.
LEMMA Eased ==
    ASSUME EventsShape, EventsShape', NEW s \in Hooked, NEW e \in Events, Budgeted(s, e),
           HeldBy(s, e)' \subseteq HeldBy(s, e), Replaying(s, e)' \subseteq Replaying(s, e),
           Undelivered(e)' <= Undelivered(e),
           accepted'[<<s, e>>] = accepted[<<s, e>>], excused'[<<s, e>>] >= excused[<<s, e>>]
    PROVE  Budgeted(s, e)'
<1>1. <<s, e>> \in Pairs
  BY DEF Pairs
<1>2. /\ accepted[<<s, e>>] \in Nat /\ excused[<<s, e>>] \in Nat
      /\ accepted'[<<s, e>>] \in Nat /\ excused'[<<s, e>>] \in Nat
  BY <1>1 DEF EventsShape
<1>3. Undelivered(e) \in Nat /\ Undelivered(e)' \in Nat
  BY DEF Undelivered
<1>4. /\ Cardinality(HeldBy(s, e)) \in Nat /\ Cardinality(HeldBy(s, e)') \in Nat
      /\ Cardinality(Replaying(s, e)) \in Nat /\ Cardinality(Replaying(s, e)') \in Nat
      /\ IsFiniteSet(HeldBy(s, e)) /\ IsFiniteSet(Replaying(s, e))
  BY Counted
<1>5. Cardinality(HeldBy(s, e)') <= Cardinality(HeldBy(s, e))
  BY <1>4, FS_Subset
<1>6. Cardinality(Replaying(s, e)') <= Cardinality(Replaying(s, e))
  BY <1>4, FS_Subset
<1>7. QED
  BY <1>2, <1>3, <1>4, <1>5, <1>6 DEF Budgeted

\* What every consumer holds it held before.
LEMMA HoldsLess ==
    ASSUME NEW s, NEW e,
           \A c \in Consumers, i \in 0 .. MaxBuffered : Holds(c, i, s, e)' => Holds(c, i, s, e)
    PROVE  HeldBy(s, e)' \subseteq HeldBy(s, e)
<1>1. ASSUME NEW x \in HeldBy(s, e)'
      PROVE  x \in HeldBy(s, e)
  <2>1. x \in Consumers \X (0 .. MaxBuffered) /\ Holds(x[1], x[2], s, e)'
    BY DEF HeldBy
  <2>2. x[1] \in Consumers /\ x[2] \in 0 .. MaxBuffered
    BY <2>1
  <2>3. Holds(x[1], x[2], s, e)
    BY <2>1, <2>2
  <2>4. QED
    BY <2>1, <2>3 DEF HeldBy
<1>2. QED
  BY <1>1

\* A consumer that goes on, or drops what it is at, holds nothing new.
LEMMA KeepsHolding ==
    ASSUME NEW s, NEW e, NEW c \in Consumers,
           \/ consumer'[c] = consumer[c] \/ consumer'[c].pc = "idle"
           \/ /\ consumer[c].pc = "list" /\ consumer'[c].pc = "send"
              /\ consumer'[c].ev = consumer[c].ev
           \/ /\ consumer[c].pc = "send" /\ consumer'[c].pc = "send"
              /\ consumer'[c].ev = consumer[c].ev
              /\ DOMAIN consumer'[c].left \subseteq DOMAIN consumer[c].left,
           buffered'[c] = buffered[c] \/ buffered'[c] = <<>>
    PROVE  \A i : Holds(c, i, s, e)' => Holds(c, i, s, e)
<1>1. \A i \in DOMAIN buffered'[c] : buffered'[c] = buffered[c]
  OBVIOUS
<1>2. QED
  BY <1>1 DEF Holds

\* The requests that send a letter still send the same one.
LEMMA KeepsReplaying ==
    ASSUME EventsShape, ReplayRows, [EventsNext]_eventsVars, NEW s, NEW e, NEW r \in Replayers,
           replayer'[r].pc = "send" => replayer[r].pc = "send" /\ replayer'[r].row = replayer[r].row
    PROVE  r \in Replaying(s, e)' => r \in Replaying(s, e)
<1> SUFFICES ASSUME r \in Replaying(s, e)' PROVE r \in Replaying(s, e)
  OBVIOUS
<1>1. replayer'[r].pc = "send" /\ Letter(replayer[r].row)' = <<s, e>>
  BY DEF Replaying
<1>2. replayer[r].pc = "send" /\ replayer'[r].row = replayer[r].row /\ replayer[r].row \in DOMAIN letters
  BY <1>1 DEF ReplayRows
<1>3. Letter(replayer[r].row)' = Letter(replayer[r].row)
  BY <1>2, NothingUndone DEF Letter
<1>4. QED
  BY <1>1, <1>2, <1>3 DEF Replaying

LEMMA BudgetStarts == EventsInit => Budget
<1> SUFFICES ASSUME EventsInit, NEW s \in Hooked, NEW e \in Events PROVE Budgeted(s, e)
  BY DEF Budget
<1>1. <<s, e>> \in Pairs
  BY DEF Pairs
<1>2. accepted[<<s, e>>] = 0 /\ excused[<<s, e>>] = 0
  BY <1>1 DEF EventsInit
<1>3. Undelivered(e) = 1
  BY DEF EventsInit, Undelivered
<1>4. HeldBy(s, e) = {}
  <2>1. \A c \in Consumers : consumer[c].pc = "idle" /\ DOMAIN buffered[c] = {}
    BY DEF EventsInit, Resting
  <2>2. QED
    BY <2>1 DEF HeldBy, Holds
<1>5. Replaying(s, e) = {}
  BY DEF EventsInit, Replaying
<1>6. Cardinality(HeldBy(s, e)) = 0 /\ Cardinality(Replaying(s, e)) = 0
  BY <1>4, <1>5, FS_EmptySet
<1>7. QED
  BY <1>2, <1>3, <1>6 DEF Budgeted

\* Taking up an event moves it one place: the number held is the same.
LEMMA BeginHolds ==
    ASSUME EventsShape, NEW c \in Consumers, Begin(c), NEW s, NEW e
    PROVE  Cardinality(HeldBy(s, e)') <= Cardinality(HeldBy(s, e))
<1>1. /\ consumer[c].pc = "idle" /\ 1 \in DOMAIN buffered[c]
      /\ consumer'[c].pc = "list" /\ consumer'[c].ev = buffered[c][1]
      /\ \A d \in Consumers : d # c => consumer'[d] = consumer[d] /\ buffered'[d] = buffered[d]
      /\ \A i \in DOMAIN buffered'[c] :
             i \in Nat /\ i + 1 \in DOMAIN buffered[c] /\ buffered'[c][i] = buffered[c][i + 1]
  BY Begins
<1>2. buffered[c] \in Seq(Events) /\ Len(buffered[c]) <= MaxBuffered /\ MaxBuffered \in Nat
  BY EventsConstants DEF EventsShape
<1>3. \A i \in DOMAIN buffered[c] : i \in 0 .. MaxBuffered
  BY <1>2
<1>4. PICK f : f = [x \in HeldBy(s, e)' |-> IF x[1] = c THEN <<c, x[2] + 1>> ELSE x]
  OBVIOUS
<1>5. ASSUME NEW x \in HeldBy(s, e)'
      PROVE  f[x] \in HeldBy(s, e)
  <2>1. /\ x \in Consumers \X (0 .. MaxBuffered) /\ Holds(x[1], x[2], s, e)'
        /\ x[1] \in Consumers /\ x[2] \in 0 .. MaxBuffered
    BY DEF HeldBy
  <2>2. CASE x[1] = c
    <3>1. f[x] = <<c, x[2] + 1>>
      BY <1>4, <2>2
    <3>2. Holds(c, x[2], s, e)'
      BY <2>1, <2>2
    <3>3. x[2] + 1 \in DOMAIN buffered[c] /\ buffered[c][x[2] + 1] = e
      <4>1. CASE x[2] = 0 /\ consumer'[c].ev = e
        <5>1. x[2] + 1 = 1
          BY <4>1
        <5>2. QED
          BY <1>1, <4>1, <5>1
      <4>2. CASE x[2] \in DOMAIN buffered'[c] /\ buffered'[c][x[2]] = e
        BY <1>1, <4>2
      <4>3. QED
        BY <3>2, <4>1, <4>2 DEF Holds
    <3>4. Holds(c, x[2] + 1, s, e)
      BY <3>3 DEF Holds
    <3>5. x[2] + 1 \in 0 .. MaxBuffered
      BY <1>3, <3>3
    <3>6. QED
      BY <3>1, <3>4, <3>5 DEF HeldBy
  <2>3. CASE x[1] # c
    <3>1. f[x] = x
      BY <1>4, <2>3
    <3>2. Holds(x[1], x[2], s, e)
      BY <1>1, <2>1, <2>3 DEF Holds
    <3>3. QED
      BY <2>1, <3>1, <3>2 DEF HeldBy
  <2>4. QED
    BY <2>2, <2>3
<1>6. f \in [HeldBy(s, e)' -> HeldBy(s, e)]
  BY <1>4, <1>5
<1>7. ASSUME NEW x \in HeldBy(s, e)', NEW y \in HeldBy(s, e)', f[x] = f[y]
      PROVE  x = y
  <2>1. /\ x = <<x[1], x[2]>> /\ x[2] \in Nat /\ y = <<y[1], y[2]>> /\ y[2] \in Nat
    BY <1>2 DEF HeldBy
  <2>2. /\ f[x] = IF x[1] = c THEN <<c, x[2] + 1>> ELSE <<x[1], x[2]>>
        /\ f[y] = IF y[1] = c THEN <<c, y[2] + 1>> ELSE <<y[1], y[2]>>
    BY <1>4, <2>1
  <2>3. PICK i \in Nat, j \in Nat, b \in Consumers, d \in Consumers :
           i = x[2] /\ j = y[2] /\ b = x[1] /\ d = y[1]
    BY <2>1 DEF HeldBy
  <2>4. <<IF b = c THEN c ELSE b, IF b = c THEN i + 1 ELSE i>>
           = <<IF d = c THEN c ELSE d, IF d = c THEN j + 1 ELSE j>>
    BY <1>7, <2>2, <2>3
  <2>5. b = d /\ i = j
    BY <2>4
  <2>6. QED
    BY <2>1, <2>3, <2>5
<1>8. f \in Injection(HeldBy(s, e)', HeldBy(s, e))
  BY <1>6, <1>7 DEF Injection, IsInjective
<1>9. QED
  BY <1>8, Counted, FS_Injection

LEMMA BudgetStep ==
    ASSUME EventsShape, ReplayRows, Budget, [EventsNext]_eventsVars
    PROVE  Budget'
<1> SUFFICES ASSUME NEW s \in Hooked, NEW e \in Events PROVE Budgeted(s, e)'
  BY DEF Budget
<1> DEFINE p == <<s, e>>
<1>1. EventsShape' /\ Budgeted(s, e)
  BY EventsShapeStep DEF Budget
<1>2. /\ p \in Pairs
      /\ accepted[p] \in Nat /\ excused[p] \in Nat /\ accepted'[p] \in Nat /\ excused'[p] \in Nat
  BY <1>1 DEF EventsShape, Pairs
<1>3. Undelivered(e) \in {0, 1} /\ Undelivered(e)' \in {0, 1}
  BY DEF Undelivered
<1>4. /\ Cardinality(HeldBy(s, e)) \in Nat /\ Cardinality(HeldBy(s, e)') \in Nat
      /\ Cardinality(Replaying(s, e)) \in Nat /\ Cardinality(Replaying(s, e)') \in Nat
      /\ IsFiniteSet(HeldBy(s, e)) /\ IsFiniteSet(Replaying(s, e))
      /\ IsFiniteSet(HeldBy(s, e)') /\ IsFiniteSet(Replaying(s, e)')
  BY Counted
<1>5. /\ buffered \in [Consumers -> Seq(Events)] /\ consumer \in [Consumers -> ConsumerStates]
      /\ message \in [Events -> {"none", "ready", "out", "acked", "gone"}]
      /\ accepted \in [Pairs -> Nat] /\ excused \in [Pairs -> Nat]
      /\ \A c \in Consumers : Len(buffered[c]) <= MaxBuffered
      /\ \A c \in Consumers : consumer[c].pc # "idle" => consumer[c].ev \in Events
  BY DEF EventsShape
<1>6. ASSUME UNCHANGED replayer
      PROVE  Replaying(s, e)' \subseteq Replaying(s, e)
  BY <1>6, KeepsReplaying DEF Replaying
<1>7. ASSUME UNCHANGED <<consumer, buffered>>
      PROVE  HeldBy(s, e)' \subseteq HeldBy(s, e)
  BY <1>7 DEF HeldBy, Holds
<1>8. HeldBy(s, e)' \subseteq HeldBy(s, e) =>
          Cardinality(HeldBy(s, e)') <= Cardinality(HeldBy(s, e))
  BY <1>4, FS_Subset
<1>9. Replaying(s, e)' \subseteq Replaying(s, e) =>
          Cardinality(Replaying(s, e)') <= Cardinality(Replaying(s, e))
  BY <1>4, FS_Subset
<1>10. UNCHANGED message => Undelivered(e)' <= Undelivered(e)
  BY <1>3 DEF Undelivered
\* The balance, in numbers.
<1>11. ASSUME accepted'[p] + Undelivered(e)' + Cardinality(HeldBy(s, e)')
                  + Cardinality(Replaying(s, e)') + excused[p]
                <= accepted[p] + Undelivered(e) + Cardinality(HeldBy(s, e))
                  + Cardinality(Replaying(s, e)) + excused'[p]
       PROVE  Budgeted(s, e)'
  BY <1>1, <1>2, <1>3, <1>4, <1>11 DEF Budgeted
<1> HIDE DEF p
<1>12. ASSUME HeldBy(s, e)' \subseteq HeldBy(s, e), Replaying(s, e)' \subseteq Replaying(s, e),
              accepted'[p] - accepted[p] + Undelivered(e)' - Undelivered(e)
                  <= excused'[p] - excused[p]
       PROVE  Budgeted(s, e)'
  BY <1>2, <1>3, <1>4, <1>8, <1>9, <1>11, <1>12
\* Nothing about s and e gets worse.
<1>13. ASSUME HeldBy(s, e)' \subseteq HeldBy(s, e), Replaying(s, e)' \subseteq Replaying(s, e),
              Undelivered(e)' <= Undelivered(e), UNCHANGED <<accepted, excused>>
       PROVE  Budgeted(s, e)'
  BY <1>2, <1>3, <1>12, <1>13
<1>14. CASE UNCHANGED eventsVars
  BY <1>6, <1>7, <1>10, <1>13, <1>14 DEF eventsVars
<1>15. ASSUME NEW f \in Events, PublishEvent(f) \/ MaxAge(f) PROVE Budgeted(s, e)'
  <2>1. UNCHANGED <<consumer, buffered, replayer, accepted, excused>>
    BY <1>15 DEF PublishEvent, MaxAge
  <2>2. Undelivered(e)' <= Undelivered(e)
    <3>1. message' \in {[message EXCEPT ![f] = "ready"], [message EXCEPT ![f] = "gone"]}
          /\ (message'[f] = "ready" => message[f] = "none")
      BY <1>5, <1>15 DEF PublishEvent, MaxAge
    <3>2. CASE e = f
      BY <1>5, <3>1, <3>2 DEF Undelivered
    <3>3. CASE e # f
      BY <1>5, <3>1, <3>3 DEF Undelivered
    <3>4. QED
      BY <3>2, <3>3
  <2>3. QED
    BY <1>6, <1>7, <1>13, <2>1, <2>2
<1>16. ASSUME NEW f \in Events, AckWait(f) \/ Redeliver(f) PROVE Budgeted(s, e)'
  <2>1. /\ UNCHANGED <<consumer, buffered, replayer, accepted>> /\ message[f] = "out"
        /\ message' = [message EXCEPT ![f] = "ready"]
        /\ excused' = AddOne(excused, Hooked \X {f})
    BY <1>16 DEF AckWait, Redeliver
  <2>2. excused'[p] = IF p \in Hooked \X {f} THEN excused[p] + 1 ELSE excused[p]
    BY <1>2, <1>5, <2>1, AddOneShape
  <2>3. p \in Hooked \X {f} <=> e = f
    BY DEF p
  <2>4. CASE e = f
    <3>1. Undelivered(e) = 0 /\ Undelivered(e)' = 1
      BY <1>5, <2>1, <2>4 DEF Undelivered
    <3>2. QED
      BY <1>2, <1>6, <1>7, <1>12, <2>1, <2>2, <2>3, <2>4, <3>1
  <2>5. CASE e # f
    <3>1. Undelivered(e)' = Undelivered(e)
      BY <1>5, <2>1, <2>5 DEF Undelivered
    <3>2. QED
      BY <1>2, <1>3, <1>6, <1>7, <1>12, <2>1, <2>2, <2>3, <2>5, <3>1
  <2>6. QED
    BY <2>4, <2>5
<1>17. ASSUME NEW c \in Consumers, NEW f \in Events, Pull(c, f) PROVE Budgeted(s, e)'
  <2>1. /\ UNCHANGED <<consumer, replayer, accepted, excused>> /\ message[f] = "ready"
        /\ message' = [message EXCEPT ![f] = "out"]
        /\ buffered' = [buffered EXCEPT ![c] = Append(buffered[c], f)]
    BY <1>5, <1>17 DEF Pull
  <2>2. PICK k : k = Len(buffered[c]) + 1
    OBVIOUS
  <2>3. /\ buffered[c] \in Seq(Events)
        /\ \A i \in DOMAIN Append(buffered[c], f) :
               \/ i \in DOMAIN buffered[c] /\ Append(buffered[c], f)[i] = buffered[c][i]
               \/ i = k /\ Append(buffered[c], f)[i] = f
    BY <1>5, <2>2
  <2>4. \A d \in Consumers : d # c => buffered'[d] = buffered[d]
    BY <1>5, <2>1
  <2>5. buffered'[c] = Append(buffered[c], f)
    BY <1>5, <2>1
  <2>6. \A d \in Consumers, i \in 0 .. MaxBuffered :
           Holds(d, i, s, e)' => Holds(d, i, s, e) \/ (d = c /\ i = k /\ e = f)
    BY <2>1, <2>3, <2>4, <2>5 DEF Holds
  <2>7. CASE e = f
    <3>1. Undelivered(e) = 1 /\ Undelivered(e)' = 0
      BY <1>5, <2>1, <2>7 DEF Undelivered
    <3>2. HeldBy(s, e)' \subseteq HeldBy(s, e) \cup {<<c, k>>}
      <4>1. ASSUME NEW x \in HeldBy(s, e)'
            PROVE  x \in HeldBy(s, e) \/ x = <<c, k>>
        <5>1. /\ x \in Consumers \X (0 .. MaxBuffered) /\ Holds(x[1], x[2], s, e)'
              /\ x[1] \in Consumers /\ x[2] \in 0 .. MaxBuffered /\ x = <<x[1], x[2]>>
          BY DEF HeldBy
        <5>2. Holds(x[1], x[2], s, e) \/ (x[1] = c /\ x[2] = k)
          BY <2>6, <5>1
        <5>3. QED
          BY <5>1, <5>2 DEF HeldBy
      <4>2. QED
        BY <4>1
    <3>3. PICK H : H = HeldBy(s, e) \cup {<<c, k>>}
      OBVIOUS
    <3>4. IsFiniteSet(H) /\ Cardinality(H) \in {Cardinality(HeldBy(s, e)), Cardinality(HeldBy(s, e)) + 1}
      BY <1>4, <3>3, FS_AddElement
    <3>5. Cardinality(HeldBy(s, e)') <= Cardinality(H)
      BY <3>2, <3>3, <3>4, FS_Subset
    <3>6. Cardinality(Replaying(s, e)') <= Cardinality(Replaying(s, e))
      BY <1>6, <1>9, <2>1
    <3>7. accepted'[p] = accepted[p] /\ excused'[p] = excused[p]
      BY <2>1
    <3>8. QED
      BY <1>2, <1>4, <1>11, <3>1, <3>4, <3>5, <3>6, <3>7
  <2>8. CASE e # f
    <3>1. Undelivered(e)' <= Undelivered(e)
      BY <1>3, <1>5, <2>1, <2>8 DEF Undelivered
    <3>2. HeldBy(s, e)' \subseteq HeldBy(s, e)
      BY <2>6, <2>8, HoldsLess
    <3>3. QED
      BY <1>6, <1>13, <2>1, <3>1, <3>2
  <2>9. QED
    BY <2>7, <2>8
<1>18. ASSUME NEW c \in Consumers, Begin(c) PROVE Budgeted(s, e)'
  <2>1. UNCHANGED <<message, replayer, accepted, excused>>
    BY <1>18 DEF Begin
  <2>2. Cardinality(HeldBy(s, e)') <= Cardinality(HeldBy(s, e))
    BY <1>18, BeginHolds
  <2>3. Cardinality(Replaying(s, e)') <= Cardinality(Replaying(s, e))
    BY <1>6, <1>9, <2>1
  <2>4. Undelivered(e)' <= Undelivered(e) /\ accepted'[p] = accepted[p] /\ excused'[p] = excused[p]
    BY <1>10, <2>1
  <2>5. QED
    BY <1>2, <1>3, <1>4, <1>11, <2>2, <2>3, <2>4
\* A consumer that takes up nothing.
<1>19. ASSUME NEW c \in Consumers, \A d \in Consumers : d # c => consumer'[d] = consumer[d],
              \A d \in Consumers : buffered'[d] = buffered[d] \/ buffered'[d] = <<>>,
              \/ consumer'[c].pc = "idle"
              \/ /\ consumer[c].pc = "list" /\ consumer'[c].pc = "send"
                 /\ consumer'[c].ev = consumer[c].ev
              \/ /\ consumer[c].pc = "send" /\ consumer'[c].pc = "send"
                 /\ consumer'[c].ev = consumer[c].ev
                 /\ DOMAIN consumer'[c].left \subseteq DOMAIN consumer[c].left
       PROVE  HeldBy(s, e)' \subseteq HeldBy(s, e)
  <2>1. \A d \in Consumers : \A i : Holds(d, i, s, e)' => Holds(d, i, s, e)
    BY <1>19, KeepsHolding
  <2>2. QED
    BY <2>1, HoldsLess
<1>20. ASSUME NEW c \in Consumers, ListHooks(c) \/ Ack(c) \/ Crash(c) PROVE Budgeted(s, e)'
  <2>1. UNCHANGED <<replayer, accepted, excused>>
    BY <1>20 DEF ListHooks, Ack, Crash
  <2>2. Undelivered(e)' <= Undelivered(e)
    <3>1. CASE UNCHANGED message
      BY <1>10, <3>1
    <3>2. CASE message' = Acked(consumer[c].ev) /\ consumer[c].ev \in Events
      <4>1. message'[e] \in {"acked", "gone", message[e]}
        BY <3>2, AckedShape
      <4>2. QED
        BY <1>3, <4>1 DEF Undelivered
    <3>3. QED
      BY <1>5, <1>20, <3>1, <3>2 DEF ListHooks, Ack, Crash
  <2>3. CASE consumer' = [consumer EXCEPT ![c] = Resting]
    <3>1. consumer'[c].pc = "idle" /\ \A d \in Consumers : d # c => consumer'[d] = consumer[d]
      BY <2>3, Rests
    <3>2. \A d \in Consumers : buffered'[d] = buffered[d] \/ buffered'[d] = <<>>
      BY <1>5, <1>20 DEF ListHooks, Ack, Crash
    <3>3. QED
      BY <1>6, <1>13, <1>19, <2>1, <2>2, <3>1, <3>2
  <2>4. CASE /\ consumer[c].pc = "list" /\ UNCHANGED buffered
             /\ consumer' = [consumer EXCEPT ![c].pc = "send",
                                            ![c].left = [t \in ActiveHooks |-> MaxAttempts]]
    <3>1. /\ \A d \in Consumers : d # c => consumer'[d] = consumer[d]
          /\ consumer'[c].ev = consumer[c].ev /\ consumer'[c].pc = "send"
      BY <2>4, Lists
    <3>2. QED
      BY <1>6, <1>13, <1>19, <2>1, <2>2, <2>4, <3>1
  <2>5. QED
    BY <1>20, <2>3, <2>4 DEF ListHooks, Ack, Crash
<1>21. ASSUME NEW c \in Consumers, NEW t \in Hooked, NEW o \in Outcomes, Attempt(c, t, o)
       PROVE  Budgeted(s, e)'
  <2>1. /\ \A d \in Consumers : d # c => consumer'[d] = consumer[d]
        /\ consumer[c].pc = "send" /\ consumer[c].ev \in Events /\ t \in DOMAIN consumer[c].left
        /\ consumer'[c].pc = "send" /\ consumer'[c].ev = consumer[c].ev
        /\ DOMAIN consumer'[c].left =
               IF o = "ok" THEN DOMAIN consumer[c].left \ {t} ELSE DOMAIN consumer[c].left
        /\ <<t, consumer[c].ev>> \in Pairs /\ Post(<<t, consumer[c].ev>>, o)
    BY <1>21, AttemptMade
  <2>2. UNCHANGED <<replayer, message, buffered>>
    BY <1>21 DEF Attempt
  <2>3. HeldBy(s, e)' \subseteq HeldBy(s, e)
    BY <1>19, <2>1, <2>2
  <2>4. Undelivered(e)' <= Undelivered(e) /\ Replaying(s, e)' \subseteq Replaying(s, e)
    BY <1>6, <1>10, <2>2
  <2>5. CASE p # <<t, consumer[c].ev>>
    <3>1. accepted'[p] = accepted[p] /\ excused'[p] = excused[p]
      BY <1>2, <2>1, <2>5, PostShape
    <3>2. QED
      BY <1>2, <1>3, <1>12, <2>3, <2>4, <3>1
  <2>6. CASE p = <<t, consumer[c].ev>> /\ o # "ok"
    <3>1. accepted'[p] - accepted[p] = excused'[p] - excused[p]
      BY <1>2, <2>1, <2>6, PostShape DEF Outcomes
    <3>2. QED
      BY <1>2, <1>3, <1>12, <2>3, <2>4, <3>1
  <2>7. CASE p = <<t, consumer[c].ev>> /\ o = "ok"
    <3>1. accepted'[p] = accepted[p] + 1 /\ excused'[p] = excused[p]
      BY <2>1, <2>7, PostShape
    <3>2. s = t /\ e = consumer[c].ev
      BY <2>7 DEF p
    <3>3. 0 \in 0 .. MaxBuffered /\ 0 \notin DOMAIN buffered[c]
      BY <1>5, EventsConstants
    <3>4. Holds(c, 0, s, e) /\ ~Holds(c, 0, s, e)'
      BY <2>1, <2>2, <2>7, <3>2, <3>3 DEF Holds
    <3>5. <<c, 0>> \in HeldBy(s, e) /\ <<c, 0>> \notin HeldBy(s, e)'
      BY <3>3, <3>4 DEF HeldBy
    <3>6. PICK H : H = HeldBy(s, e) \ {<<c, 0>>}
      OBVIOUS
    <3>7. IsFiniteSet(H) /\ Cardinality(H) = Cardinality(HeldBy(s, e)) - 1
      BY <1>4, <3>5, <3>6, FS_RemoveElement
    <3>8. Cardinality(HeldBy(s, e)') <= Cardinality(H)
      BY <2>3, <3>5, <3>6, <3>7, FS_Subset
    <3>9. Cardinality(Replaying(s, e)') <= Cardinality(Replaying(s, e))
      BY <1>9, <2>4
    <3>10. QED
      BY <1>2, <1>3, <1>4, <1>11, <2>4, <3>1, <3>7, <3>8, <3>9
  <2>8. QED
    BY <2>5, <2>6, <2>7
<1>22. ASSUME NEW c \in Consumers, NEW t \in Hooked, DeadLetter(c, t) PROVE Budgeted(s, e)'
  <2>1. /\ \A d \in Consumers : d # c => consumer'[d] = consumer[d]
        /\ consumer[c].pc = "send"
        /\ consumer'[c].pc = "send" /\ consumer'[c].ev = consumer[c].ev
        /\ DOMAIN consumer'[c].left = DOMAIN consumer[c].left \ {t}
    BY <1>22, LetterMade
  <2>2. UNCHANGED <<replayer, message, buffered, accepted, excused>>
    BY <1>22 DEF DeadLetter
  <2>3. HeldBy(s, e)' \subseteq HeldBy(s, e)
    BY <1>19, <2>1, <2>2
  <2>4. QED
    BY <1>6, <1>10, <1>13, <2>2, <2>3
<1>23. ASSUME NEW r \in Replayers, NEW i \in DOMAIN letters, StartReplay(r, i)
       PROVE  Budgeted(s, e)'
  <2>1. /\ UNCHANGED <<consumer, buffered, message, accepted, letters>>
        /\ excused' = AddOne(excused, {Letter(i)})
    BY <1>23 DEF StartReplay
  <2>2. /\ replayer'[r].pc = "send" /\ replayer'[r].row = i
        /\ \A q \in Replayers : q # r => replayer'[q] = replayer[q]
    BY <1>23, ReplayStarts
  <2>3. excused'[p] = IF p = Letter(i) THEN excused[p] + 1 ELSE excused[p]
    BY <1>2, <1>5, <2>1, AddOneShape
  <2>4. \A q \in Replaying(s, e)' : q = r \/ q \in Replaying(s, e)
    BY <2>2, KeepsReplaying DEF Replaying
  <2>5. Undelivered(e)' <= Undelivered(e) /\ HeldBy(s, e)' \subseteq HeldBy(s, e)
    BY <1>7, <1>10, <2>1
  <2>6. CASE p = Letter(i)
    <3>1. PICK R : R = Replaying(s, e) \cup {r}
      OBVIOUS
    <3>2. IsFiniteSet(R)
          /\ Cardinality(R) \in {Cardinality(Replaying(s, e)), Cardinality(Replaying(s, e)) + 1}
      BY <1>4, <3>1, FS_AddElement
    <3>3. Cardinality(Replaying(s, e)') <= Cardinality(R)
      BY <2>4, <3>1, <3>2, FS_Subset
    <3>4. Cardinality(HeldBy(s, e)') <= Cardinality(HeldBy(s, e))
      BY <1>8, <2>5
    <3>5. accepted'[p] = accepted[p] /\ excused'[p] = excused[p] + 1
      BY <2>1, <2>3, <2>6
    <3>6. QED
      BY <1>2, <1>3, <1>4, <1>11, <2>5, <3>2, <3>3, <3>4, <3>5
  <2>7. CASE p # Letter(i)
    <3>1. Letter(replayer[r].row)' = Letter(i)
      BY <2>1, <2>2 DEF Letter
    <3>2. r \notin Replaying(s, e)'
      BY <2>7, <3>1 DEF Replaying, p
    <3>3. Replaying(s, e)' \subseteq Replaying(s, e)
      BY <2>4, <3>2
    <3>4. accepted'[p] = accepted[p] /\ excused'[p] = excused[p]
      BY <2>1, <2>3, <2>7
    <3>5. QED
      BY <1>2, <1>3, <1>12, <2>5, <3>3, <3>4
  <2>8. QED
    BY <2>6, <2>7
<1>24. ASSUME NEW r \in Replayers, NEW o \in Outcomes, ReplayAttempt(r, o)
       PROVE  Budgeted(s, e)'
  <2>1. UNCHANGED <<consumer, buffered, message, letters>>
    BY <1>24 DEF ReplayAttempt
  <2>2. /\ replayer[r].pc = "send"
        /\ replayer'[r].pc = "mark" <=> o = "ok"
        /\ replayer'[r].row = replayer[r].row
        /\ \A q \in Replayers : q # r => replayer'[q] = replayer[q]
        /\ Letter(replayer[r].row) \in Pairs /\ Post(Letter(replayer[r].row), o)
    BY <1>24, ReplayPosts
  <2>3. \A q \in Replayers :
           replayer'[q].pc = "send" => replayer[q].pc = "send" /\ replayer'[q].row = replayer[q].row
    BY <2>2
  <2>4. Replaying(s, e)' \subseteq Replaying(s, e)
    BY <2>3, KeepsReplaying DEF Replaying
  <2>5. Undelivered(e)' <= Undelivered(e) /\ HeldBy(s, e)' \subseteq HeldBy(s, e)
    BY <1>7, <1>10, <2>1
  <2>6. CASE p # Letter(replayer[r].row)
    <3>1. accepted'[p] = accepted[p] /\ excused'[p] = excused[p]
      BY <1>2, <2>2, <2>6, PostShape
    <3>2. QED
      BY <1>2, <1>3, <1>12, <2>4, <2>5, <3>1
  <2>7. CASE p = Letter(replayer[r].row) /\ o # "ok"
    <3>1. accepted'[p] - accepted[p] = excused'[p] - excused[p]
      BY <1>2, <2>2, <2>7, PostShape DEF Outcomes
    <3>2. QED
      BY <1>2, <1>3, <1>12, <2>4, <2>5, <3>1
  <2>8. CASE p = Letter(replayer[r].row) /\ o = "ok"
    <3>1. accepted'[p] = accepted[p] + 1 /\ excused'[p] = excused[p]
      BY <2>2, <2>8, PostShape
    <3>2. r \in Replaying(s, e) /\ r \notin Replaying(s, e)'
      BY <2>2, <2>8 DEF Replaying, p
    <3>3. PICK R : R = Replaying(s, e) \ {r}
      OBVIOUS
    <3>4. IsFiniteSet(R) /\ Cardinality(R) = Cardinality(Replaying(s, e)) - 1
      BY <1>4, <3>2, <3>3, FS_RemoveElement
    <3>5. Cardinality(Replaying(s, e)') <= Cardinality(R)
      BY <2>4, <3>2, <3>3, <3>4, FS_Subset
    <3>6. Cardinality(HeldBy(s, e)') <= Cardinality(HeldBy(s, e))
      BY <1>8, <2>5
    <3>7. QED
      BY <1>2, <1>3, <1>4, <1>11, <2>5, <3>1, <3>4, <3>5, <3>6
  <2>9. QED
    BY <2>6, <2>7, <2>8
<1>25. ASSUME NEW r \in Replayers, MarkReplayed(r) PROVE Budgeted(s, e)'
  <2>1. UNCHANGED <<consumer, buffered, message, accepted, excused>>
    BY <1>25 DEF MarkReplayed
  <2>2. /\ replayer'[r].pc = "done" /\ \A q \in Replayers : q # r => replayer'[q] = replayer[q]
    BY <1>25, Marks
  <2>3. Replaying(s, e)' \subseteq Replaying(s, e)
    BY <2>2, KeepsReplaying DEF Replaying
  <2>4. QED
    BY <1>7, <1>10, <1>13, <2>1, <2>3
<1>26. ASSUME NEW t \in Hooked, Subscribe(t) \/ Unsubscribe(t) PROVE Budgeted(s, e)'
  <2>1. UNCHANGED <<consumer, buffered, message, replayer, accepted, excused>>
    BY <1>26 DEF Subscribe, Unsubscribe
  <2>2. QED
    BY <1>6, <1>7, <1>10, <1>13, <2>1
<1>27. QED
  BY <1>14, <1>15, <1>16, <1>17, <1>18, <1>20, <1>21, <1>22, <1>23, <1>24, <1>25, <1>26
     DEF EventsNext, ConsumerStep

\* An event that is settled has been delivered or has left a dead letter, a
\* duplicate has a cause, and a letter marked replayed arrived, for any number
\* of events, subscriptions, workers and replays (startConsumer,
\* deliverToSubscription, the replay route).
THEOREM EventsAreSafe == EventsSpec => []EventsSafe
<1>1. EventsInit => EventsInv
  <2> SUFFICES ASSUME EventsInit PROVE EventsInv
    OBVIOUS
  <2>1. EventsShape /\ Budget
    BY EventsShapeStarts, BudgetStarts
  <2>2. Stored /\ Listed /\ Delivered /\ ReplayRows /\ ReplayedIsDelivered
    <3>1. /\ \A c \in Consumers : consumer[c].pc = "idle" /\ DOMAIN buffered[c] = {}
          /\ \A r \in Replayers : replayer[r].pc = "idle"
          /\ DOMAIN letters = {} /\ owed = {}
      BY DEF EventsInit, Resting
    <3>2. QED
      BY <3>1 DEF Stored, Listed, Delivered, ReplayRows, ReplayedIsDelivered
  <2>3. QED
    BY <2>1, <2>2 DEF EventsInv
<1>2. EventsInv /\ [EventsNext]_eventsVars => EventsInv'
  BY EventsShapeStep, StoredStep, ListedStep, DeliveredStep, ReplaysStep, BudgetStep
     DEF EventsInv
<1>3. EventsInv => EventsSafe
  <2> SUFFICES ASSUME EventsInv PROVE EventsSafe
    OBVIOUS
  <2>1. EventsShape /\ Delivered /\ Budget /\ ReplayedIsDelivered
    BY DEF EventsInv
  <2>2. EventsTypeOK
    <3>1. \A c \in Consumers :
             /\ buffered[c] \in Seq(Events) /\ Len(buffered[c]) <= MaxBuffered
             /\ consumer[c].pc \in {"idle", "list", "send"}
             /\ consumer[c].pc # "idle" => consumer[c].ev \in Events
             /\ consumer[c].left \in Lefts
      BY <2>1 DEF EventsShape, ConsumerStates
    <3>2. \A c \in Consumers :
             /\ DOMAIN consumer[c].left \subseteq Hooked
             /\ \A s \in DOMAIN consumer[c].left : consumer[c].left[s] \in 0 .. MaxAttempts
      <4>1. \A l \in Lefts : DOMAIN l \subseteq Hooked
                             /\ \A s \in DOMAIN l : l[s] \in 0 .. MaxAttempts
        BY LeftsShape
      <4>2. QED
        BY <3>1, <4>1
    <3>3. \A r \in Replayers : replayer[r].pc \in {"idle", "send", "mark", "done", "failed"}
      BY <2>1 DEF EventsShape, ReplayStates
    <3>4. QED
      BY <2>1, <3>1, <3>2, <3>3 DEF EventsShape, EventsTypeOK, DeadLetters
  <2>3. \A q \in Pairs : \E s \in Hooked, e \in Events : q = <<s, e>>
    BY DEF Pairs
  <2>4. DeliveredOrDead
    <3> SUFFICES ASSUME NEW q \in owed, message[q[2]] = "acked"
                 PROVE  \/ accepted[q] > 0 \/ q \in dropped
                        \/ \E i \in DOMAIN letters : Letter(i) = q
      BY DEF DeliveredOrDead
    <3>1. q \in Pairs
      BY <2>1 DEF EventsShape
    <3>2. PICK s \in Hooked, e \in Events : q = <<s, e>>
      BY <2>3, <3>1
    <3>3. Settled(s, e)
      BY <2>1, <3>2 DEF Delivered
    <3>4. QED
      BY <3>2, <3>3 DEF Settled
  <2>5. DuplicatesExplained
    <3> SUFFICES ASSUME NEW q \in Pairs PROVE accepted[q] <= 1 + excused[q]
      BY DEF DuplicatesExplained
    <3>1. PICK s \in Hooked, e \in Events : q = <<s, e>>
      BY <2>3
    <3>2. Budgeted(s, e)
      BY <2>1 DEF Budget
    <3>3. accepted[q] \in Nat /\ excused[q] \in Nat /\ Undelivered(e) \in Nat
      BY <2>1 DEF EventsShape, Undelivered
    <3>4. Cardinality(HeldBy(s, e)) \in Nat /\ Cardinality(Replaying(s, e)) \in Nat
      BY Counted
    <3>5. QED
      BY <3>1, <3>2, <3>3, <3>4 DEF Budgeted
  <2>6. QED
    BY <2>1, <2>2, <2>4, <2>5 DEF EventsSafe
<1>4. QED
  BY <1>1, <1>2, <1>3, PTL DEF EventsSpec

-----------------------------------------------------------------------------
(* The builder's tabs.                                                     *)

LoadRecord == [board : 1 .. Boards, nr : Nat]
RelayRecord == [board : 1 .. Boards, canvas : Nat]
TabRecord == [board : 0 .. Boards, canvas : Nat, loads : SUBSET LoadRecord, seeded : BOOLEAN,
              armed : BOOLEAN]

BuilderShape ==
    /\ tab \in [Builders -> TabRecord]
    /\ stored \in [1 .. Boards -> Nat]
    /\ origin \in Seq(1 .. Boards)
    /\ relayed \in [Builders -> Seq(RelayRecord)]
    /\ builderSteps \in Nat
    /\ astray \in BOOLEAN /\ clashed \in BOOLEAN

\* Canvases are numbered as they are made, wherever they are.
CanvasesMade ==
    /\ Len(origin) <= MaxCanvases
    /\ \A t \in Builders : tab[t].canvas <= Len(origin)
    /\ \A t \in Builders : \A i \in DOMAIN relayed[t] : relayed[t][i].canvas <= Len(origin)
    /\ \A p \in 1 .. Boards : stored[p] \in 1 .. Len(origin)

\* A tab without a pipeline is empty; one with a pipeline has been rendered.
Opened ==
    \A t \in Builders :
        IF tab[t].board = NoBoard
        THEN tab[t].canvas = 0 /\ ~tab[t].armed /\ tab[t].loads = {}
        ELSE tab[t].seeded

\* What is on its way to a tab is of the pipeline it says.
RelaysOwn ==
    ~astray =>
        \A t \in Builders : \A i \in DOMAIN relayed[t] :
            relayed[t][i].canvas # 0 => origin[relayed[t][i].canvas] = relayed[t][i].board

\* The canvas a tab will show when what its room has sent it is applied: none can
\* be told while it has a broadcast or a load of its own before it.
Aims(t, c) ==
    \/ \E i \in ForRoom(t) : relayed[t][i].canvas = c /\ \A j \in ForRoom(t) : j <= i
    \/ ForRoom(t) = {} /\ ~tab[t].armed /\ tab[t].loads = {} /\ tab[t].canvas = c

\* The tabs of a room are about to agree.
Agreed ==
    ~clashed /\ misloaded = {} =>
        \A t, u \in Builders : tab[t].board = tab[u].board =>
            \A c, d : Aims(t, c) /\ Aims(u, d) => c = d

BuilderInv ==
    BuilderShape /\ CanvasesMade /\ Opened /\ CanvasExplained /\ RelaysOwn /\ Agreed

LEMMA BuilderStarts == BuilderInit => BuilderInv
<1> SUFFICES ASSUME BuilderInit PROVE BuilderInv
  OBVIOUS
<1> PICK s : s = [board |-> NoBoard, canvas |-> 0, loads |-> {}, seeded |-> FALSE, armed |-> FALSE]
  OBVIOUS
<1> PICK none : none = <<>>
  OBVIOUS
<1>1. /\ s \in TabRecord /\ s.board = NoBoard /\ s.canvas = 0 /\ s.loads = {}
      /\ s.armed = FALSE
  BY BuilderAssumption DEF TabRecord, NoBoard
<1>2. /\ tab = [t \in Builders |-> s] /\ \A t \in Builders : tab[t] = s
      /\ relayed = [t \in Builders |-> none] /\ \A t \in Builders : relayed[t] = none
      /\ none \in Seq(RelayRecord) /\ DOMAIN none = {} /\ Len(none) = 0
  BY DEF BuilderInit
<1>3. /\ origin \in Seq(1 .. Boards) /\ Len(origin) = Boards /\ stored \in [1 .. Boards -> Nat]
      /\ \A p \in 1 .. Boards : origin[p] = p /\ stored[p] = p
  BY BuilderAssumption DEF BuilderInit
<1>4. BuilderShape
  BY <1>1, <1>2, <1>3 DEF BuilderShape, BuilderInit
<1>5. CanvasesMade
  BY <1>1, <1>2, <1>3, BuilderAssumption DEF CanvasesMade
<1>6. Opened
  BY <1>1, <1>2 DEF Opened
<1>7. CanvasExplained
  BY <1>1, <1>2, <1>3 DEF CanvasExplained, Own
<1>8. RelaysOwn
  BY <1>2 DEF RelaysOwn
<1>9. Agreed
  <2>1. \A t \in Builders : ForRoom(t) = {}
    BY <1>2 DEF ForRoom
  <2>2. \A t \in Builders : \A c : Aims(t, c) => c = 0
    BY <2>1, <1>1, <1>2 DEF Aims
  <2> QED
    BY <2>2 DEF Agreed
<1> QED
  BY <1>4, <1>5, <1>6, <1>7, <1>8, <1>9 DEF BuilderInv

\* The effects of a render in a room.
LEMMA RenderedTab ==
  ASSUME NEW s \in TabRecord, s.board # NoBoard
  PROVE  /\ Rendered(s) \in TabRecord /\ Rendered(s).board = s.board
         /\ Rendered(s).canvas = s.canvas /\ Rendered(s).loads = s.loads
         /\ Rendered(s).seeded /\ (s.seeded => Rendered(s).armed)
<1> PICK has \in BOOLEAN : has = s.seeded
  BY DEF TabRecord
<1> PICK new : new = [s EXCEPT !.seeded = TRUE, !.armed = has]
  OBVIOUS
<1>1. Rendered(s) = new
  BY DEF Rendered
<1>2. /\ new \in TabRecord /\ new.board = s.board /\ new.canvas = s.canvas
      /\ new.loads = s.loads /\ new.seeded = TRUE /\ new.armed = has
  BY DEF TabRecord
<1> QED
  BY <1>1, <1>2

\* A room stays about to agree when a tab has something of its own to send or to
\* load, or leaves it.
LEMMA TabStirs ==
  ASSUME Agreed, NEW t \in Builders, relayed' = relayed,
         \A u \in Builders \ {t} : tab'[u] = tab[u],
         tab'[t].armed \/ tab'[t].loads # {},
         tab'[t].board = tab[t].board \/ ForRoom(t)' = {},
         ~clashed' => ~clashed, misloaded' = {} => misloaded = {}
  PROVE  Agreed'
<1>1. \A u \in Builders \ {t} : ForRoom(u)' = ForRoom(u)
  BY DEF ForRoom
<1>2. \A u \in Builders \ {t} : \A c : Aims(u, c)' => Aims(u, c)
  BY <1>1 DEF Aims
<1>3. \A c : Aims(t, c)' => Aims(t, c) /\ tab'[t].board = tab[t].board
  <2> SUFFICES ASSUME NEW c, Aims(t, c)' PROVE Aims(t, c) /\ tab'[t].board = tab[t].board
    OBVIOUS
  <2>1. ForRoom(t)' # {} /\ tab'[t].board = tab[t].board
    BY DEF Aims
  <2>2. ForRoom(t)' = ForRoom(t)
    BY <2>1 DEF ForRoom
  <2> QED
    BY <2>1, <2>2 DEF Aims
<1>4. \A u \in Builders : \A c : Aims(u, c)' => Aims(u, c) /\ tab'[u].board = tab[u].board
  BY <1>2, <1>3
<1> QED
  BY <1>4 DEF Agreed

LEMMA OpenPreserves ==
  ASSUME BuilderInv, NEW t \in Builders, NEW p \in 1 .. Boards, OpenBoard(t, p)
  PROVE  BuilderInv'
<1>1. BuilderShape /\ CanvasesMade /\ Opened /\ CanvasExplained /\ RelaysOwn /\ Agreed
  BY DEF BuilderInv
<1> PICK l : l = [board |-> p, nr |-> builderSteps]
  OBVIOUS
<1> PICK more : more = tab[t].loads \cup {l}
  OBVIOUS
<1> PICK s : s = [tab[t] EXCEPT !.board = p, !.seeded = FALSE, !.armed = FALSE,
                                !.loads = more]
  OBVIOUS
<1> PICK new : new = Rendered(s)
  OBVIOUS
<1>2. /\ tab' = [tab EXCEPT ![t] = new]
      /\ clashed' = (clashed \/ \E i \in DOMAIN relayed[t] : relayed[t][i].board = p)
      /\ UNCHANGED <<stored, origin, relayed, misloaded, astray>>
      /\ builderSteps' = builderSteps + 1
  BY DEF OpenBoard, BuilderStep
<1>3. tab[t] \in TabRecord /\ l \in LoadRecord /\ more \in SUBSET LoadRecord
  <2>1. tab[t] \in TabRecord /\ l \in LoadRecord
    BY <1>1 DEF BuilderShape, LoadRecord
  <2>2. tab[t].loads \in SUBSET LoadRecord
    BY <2>1 DEF TabRecord
  <2> QED
    BY <2>1, <2>2
<1>4. /\ s \in TabRecord /\ s.board = p /\ s.canvas = tab[t].canvas
      /\ l \in s.loads /\ p # NoBoard
  <2>1. /\ s \in TabRecord /\ s.board = p /\ s.canvas = tab[t].canvas
        /\ s.loads = more
    <3>1. p \in 0 .. Boards
      BY BuilderAssumption
    <3> QED
      BY <3>1, <1>3 DEF TabRecord
  <2> QED
    BY <2>1 DEF NoBoard
<1>5. /\ new \in TabRecord /\ new.board = p /\ new.canvas = tab[t].canvas
      /\ new.loads # {} /\ new.seeded
  BY <1>4, RenderedTab
<1>6. tab'[t] = new /\ \A u \in Builders \ {t} : tab'[u] = tab[u]
  BY <1>1, <1>2 DEF BuilderShape
<1>7. BuilderShape'
  BY <1>1, <1>2, <1>5 DEF BuilderShape
<1>8. CanvasesMade'
  BY <1>1, <1>2, <1>5, <1>6 DEF CanvasesMade
<1>9. Opened'
  BY <1>1, <1>4, <1>5, <1>6 DEF Opened
<1>10. CanvasExplained'
  BY <1>1, <1>2, <1>5, <1>6 DEF CanvasExplained, Own
<1>11. RelaysOwn'
  BY <1>1, <1>2 DEF RelaysOwn
<1>12. Agreed'
  <2>1. CASE clashed'
    BY <2>1 DEF Agreed
  <2>2. CASE ~clashed'
    <3>1. ~clashed /\ ForRoom(t)' = {}
      <4>1. ~ \E i \in DOMAIN relayed[t] : relayed[t][i].board = p
        BY <2>2, <1>2
      <4>2. DOMAIN relayed[t] = 1 .. Len(relayed[t])
        BY <1>1 DEF BuilderShape
      <4>3. ForRoom(t)' = {i \in 1 .. Len(relayed[t]) : relayed[t][i].board = p}
        BY <1>2, <1>5, <1>6 DEF ForRoom
      <4> QED
        BY <2>2, <4>1, <4>2, <4>3, <1>2
    <3> QED
      BY <3>1, <1>1, <1>2, <1>5, <1>6, TabStirs
  <2> QED
    BY <2>1, <2>2
<1> QED
  BY <1>7, <1>8, <1>9, <1>10, <1>11, <1>12 DEF BuilderInv

LEMMA LoadedPreserves ==
  ASSUME BuilderInv, NEW t \in Builders, NEW l \in tab[t].loads, BoardLoaded(t, l)
  PROVE  BuilderInv'
<1>1. BuilderShape /\ CanvasesMade /\ Opened /\ CanvasExplained /\ RelaysOwn /\ Agreed
  BY DEF BuilderInv
<1> PICK c : c = stored[l.board]
  OBVIOUS
<1> PICK s : s = [tab[t] EXCEPT !.loads = tab[t].loads \ {l}, !.canvas = c]
  OBVIOUS
<1> PICK new : new = Rendered(s)
  OBVIOUS
<1>2. /\ tab' = [tab EXCEPT ![t] = new]
      /\ misloaded' = IF l.board # tab[t].board THEN misloaded \cup {t} ELSE misloaded
      /\ UNCHANGED <<stored, origin, relayed, builderSteps, astray, clashed>>
  BY DEF BoardLoaded
<1>3. /\ tab[t] \in TabRecord /\ l \in LoadRecord /\ l.board \in 1 .. Boards
      /\ tab[t].board # NoBoard /\ tab[t].seeded
  BY <1>1 DEF BuilderShape, TabRecord, LoadRecord, Opened
<1>4. c \in 1 .. Len(origin) /\ c \in Nat
  BY <1>1, <1>3 DEF CanvasesMade
<1>5. /\ s \in TabRecord /\ s.board = tab[t].board /\ s.canvas = c /\ s.seeded
  BY <1>3, <1>4 DEF TabRecord
<1>6. /\ new \in TabRecord /\ new.board = tab[t].board /\ new.canvas = c
      /\ new.seeded /\ new.armed
  BY <1>3, <1>5, RenderedTab
<1>7. tab'[t] = new /\ \A u \in Builders \ {t} : tab'[u] = tab[u]
  BY <1>1, <1>2 DEF BuilderShape
<1>8. BuilderShape'
  BY <1>1, <1>2, <1>6 DEF BuilderShape
<1>9. CanvasesMade'
  BY <1>1, <1>2, <1>4, <1>6, <1>7 DEF CanvasesMade
<1>10. Opened'
  BY <1>1, <1>3, <1>6, <1>7 DEF Opened
<1>11. CanvasExplained'
  <2> SUFFICES ASSUME ~astray
               PROVE  /\ \A u \in Builders : u \in misloaded' \/ tab'[u].loads # {} \/ Own(u)'
                      /\ \A p \in 1 .. Boards : origin[stored[p]] = p
    BY <1>2 DEF CanvasExplained
  <2>1. /\ \A u \in Builders : u \in misloaded \/ tab[u].loads # {} \/ Own(u)
        /\ \A p \in 1 .. Boards : origin[stored[p]] = p
    BY <1>1 DEF CanvasExplained
  <2>2. t \in misloaded' \/ Own(t)'
    BY <2>1, <1>2, <1>3, <1>6, <1>7 DEF Own
  <2>3. \A u \in Builders \ {t} : Own(u)' <=> Own(u)
    BY <1>2, <1>7 DEF Own
  <2> QED
    BY <2>1, <2>2, <2>3, <1>2, <1>7
<1>12. RelaysOwn'
  BY <1>1, <1>2 DEF RelaysOwn
<1>13. Agreed'
  BY <1>1, <1>2, <1>6, <1>7, TabStirs
<1> QED
  BY <1>8, <1>9, <1>10, <1>11, <1>12, <1>13 DEF BuilderInv

LEMMA FailsPreserves ==
  ASSUME BuilderInv, NEW t \in Builders, NEW l \in tab[t].loads, BoardLoadFails(t, l)
  PROVE  BuilderInv'
<1>1. BuilderShape /\ CanvasesMade /\ Opened /\ CanvasExplained /\ RelaysOwn /\ Agreed
  BY DEF BuilderInv
<1> PICK new : new = [tab[t] EXCEPT !.loads = tab[t].loads \ {l}]
  OBVIOUS
<1>2. /\ tab' = [tab EXCEPT ![t] = new] /\ misloaded' = misloaded \cup {t}
      /\ UNCHANGED <<stored, origin, relayed, builderSteps, astray, clashed>>
  BY <1>1 DEF BoardLoadFails, BuilderShape
<1>3. /\ tab[t] \in TabRecord /\ tab[t].board # NoBoard
  BY <1>1 DEF BuilderShape, Opened
<1>4. /\ new \in TabRecord /\ new.board = tab[t].board /\ new.canvas = tab[t].canvas
      /\ new.seeded = tab[t].seeded
  BY <1>3 DEF TabRecord
<1>5. tab'[t] = new /\ \A u \in Builders \ {t} : tab'[u] = tab[u]
  BY <1>1, <1>2 DEF BuilderShape
<1>6. BuilderShape'
  BY <1>1, <1>2, <1>4 DEF BuilderShape
<1>7. CanvasesMade'
  BY <1>1, <1>2, <1>4, <1>5 DEF CanvasesMade
<1>8. Opened'
  BY <1>1, <1>3, <1>4, <1>5 DEF Opened
<1>9. CanvasExplained'
  BY <1>1, <1>2, <1>5 DEF CanvasExplained, Own
<1>10. RelaysOwn'
  BY <1>1, <1>2 DEF RelaysOwn
<1>11. Agreed'
  BY <1>2 DEF Agreed
<1> QED
  BY <1>6, <1>7, <1>8, <1>9, <1>10, <1>11 DEF BuilderInv

LEMMA EditPreserves ==
  ASSUME BuilderInv, NEW t \in Builders, EditCanvas(t) PROVE BuilderInv'
<1>1. BuilderShape /\ CanvasesMade /\ Opened /\ CanvasExplained /\ RelaysOwn /\ Agreed
  BY DEF BuilderInv
<1> PICK n \in Nat : n = Len(origin)
  BY <1>1 DEF BuilderShape
<1> PICK old : old = tab[t].canvas
  OBVIOUS
<1> PICK s : s = [tab[t] EXCEPT !.canvas = n + 1]
  OBVIOUS
<1> PICK new : new = Rendered(s)
  OBVIOUS
<1>2. /\ old # 0 /\ n < MaxCanvases /\ origin' = Append(origin, origin[old])
      /\ tab' = [tab EXCEPT ![t] = new]
      /\ UNCHANGED <<stored, relayed, builderSteps, misloaded, astray, clashed>>
  BY DEF EditCanvas
<1>3. tab[t] \in TabRecord /\ tab[t].board # NoBoard /\ tab[t].seeded
  BY <1>1, <1>2 DEF BuilderShape, Opened
<1>4. /\ s \in TabRecord /\ s.board = tab[t].board /\ s.canvas = n + 1 /\ s.seeded
      /\ s.loads = tab[t].loads
  BY <1>3 DEF TabRecord
<1>5. /\ new \in TabRecord /\ new.board = tab[t].board /\ new.canvas = n + 1
      /\ new.seeded /\ new.armed /\ new.loads = tab[t].loads
  BY <1>3, <1>4, RenderedTab
<1>6. tab'[t] = new /\ \A u \in Builders \ {t} : tab'[u] = tab[u]
  BY <1>1, <1>2 DEF BuilderShape
<1> PICK pipes : pipes = 1 .. Boards
  OBVIOUS
<1>7. old \in 1 .. n /\ origin[old] \in 1 .. Boards
  <2>1. old \in Nat /\ old <= n
    BY <1>1, <1>3 DEF CanvasesMade, TabRecord
  <2>2. old \in 1 .. n
    BY <2>1, <1>2
  <2> QED
    <3>1. origin \in Seq(pipes)
      BY <1>1 DEF BuilderShape
    <3>2. \A i \in 1 .. n : origin[i] \in pipes
      BY <3>1, ElementOfSeq
    <3> QED
      BY <2>2, <3>2
<1>8. /\ origin' \in Seq(1 .. Boards) /\ Len(origin') = n + 1 /\ origin'[n + 1] = origin[old]
      /\ \A i \in 1 .. n : origin'[i] = origin[i]
  BY <1>1, <1>2, <1>7 DEF BuilderShape
<1>9. BuilderShape'
  BY <1>1, <1>2, <1>5, <1>8 DEF BuilderShape
<1>10. CanvasesMade'
  <2>1. n + 1 <= MaxCanvases
    BY <1>2, BuilderAssumption
  <2>2. \A c \in Nat : c <= n => c <= n + 1
    OBVIOUS
  <2>3. \A u \in Builders : tab'[u].canvas <= n + 1
    <3>1. \A u \in Builders \ {t} : tab'[u].canvas \in Nat /\ tab'[u].canvas <= n
      BY <1>1, <1>6 DEF CanvasesMade, BuilderShape, TabRecord
    <3> QED
      BY <3>1, <2>2, <1>5, <1>6
  <2>4. \A u \in Builders : \A i \in DOMAIN relayed[u] : relayed[u][i].canvas <= n + 1
    <3> TAKE u \in Builders
    <3> TAKE i \in DOMAIN relayed[u]
    <3>1. relayed[u][i] \in RelayRecord
      BY <1>1 DEF BuilderShape
    <3>2. relayed[u][i].canvas \in Nat /\ relayed[u][i].canvas <= n
      BY <3>1, <1>1 DEF RelayRecord, CanvasesMade
    <3> QED
      BY <3>2, <2>2
  <2>5. \A p \in 1 .. Boards : stored[p] \in 1 .. n + 1
    BY <1>1 DEF CanvasesMade
  <2> QED
    BY <2>1, <2>3, <2>4, <2>5, <1>2, <1>8 DEF CanvasesMade
<1>11. Opened'
  BY <1>1, <1>3, <1>5, <1>6 DEF Opened
<1>12. CanvasExplained'
  <2> SUFFICES ASSUME ~astray
               PROVE  /\ \A u \in Builders : u \in misloaded \/ tab'[u].loads # {} \/ Own(u)'
                      /\ \A p \in 1 .. Boards : origin'[stored[p]] = p
    BY <1>2 DEF CanvasExplained
  <2>1. /\ \A u \in Builders : u \in misloaded \/ tab[u].loads # {} \/ Own(u)
        /\ \A p \in 1 .. Boards : origin[stored[p]] = p
    BY <1>1 DEF CanvasExplained
  <2>2. Own(t) => Own(t)'
    BY <1>2, <1>5, <1>6, <1>8 DEF Own
  <2>3. ASSUME NEW u \in Builders \ {t}, Own(u) PROVE Own(u)'
    <3>1. tab[u].canvas \in Nat /\ tab[u].canvas <= n
      BY <1>1 DEF CanvasesMade, BuilderShape, TabRecord
    <3>2. tab[u].canvas = 0 \/ tab[u].canvas \in 1 .. n
      BY <3>1
    <3> QED
      BY <3>2, <2>3, <1>6, <1>8 DEF Own
  <2>4. \A p \in 1 .. Boards : origin'[stored[p]] = p
    BY <2>1, <1>1, <1>8 DEF CanvasesMade
  <2>5. \A u \in Builders : tab'[u].loads = tab[u].loads
    BY <1>5, <1>6
  <2> QED
    BY <2>1, <2>2, <2>3, <2>4, <2>5
<1>13. RelaysOwn'
  <2> SUFFICES ASSUME ~astray, NEW u \in Builders, NEW i \in DOMAIN relayed[u],
                      relayed[u][i].canvas # 0
               PROVE  origin'[relayed[u][i].canvas] = relayed[u][i].board
    BY <1>2 DEF RelaysOwn
  <2>1. relayed[u][i] \in RelayRecord
    BY <1>1 DEF BuilderShape
  <2>2. relayed[u][i].canvas \in Nat /\ relayed[u][i].canvas <= n
    BY <2>1, <1>1 DEF RelayRecord, CanvasesMade
  <2>3. relayed[u][i].canvas \in 1 .. n
    BY <2>2
  <2> QED
    BY <2>3, <1>1, <1>8 DEF RelaysOwn
<1>14. Agreed'
  BY <1>1, <1>2, <1>5, <1>6, TabStirs
<1> QED
  BY <1>9, <1>10, <1>11, <1>12, <1>13, <1>14 DEF BuilderInv

LEMMA RerenderPreserves ==
  ASSUME BuilderInv, NEW t \in Builders, Rerender(t) PROVE BuilderInv'
<1>1. BuilderShape /\ CanvasesMade /\ Opened /\ CanvasExplained /\ RelaysOwn /\ Agreed
  BY DEF BuilderInv
<1> PICK new : new = Rendered(tab[t])
  OBVIOUS
<1>2. /\ tab[t].board # NoBoard /\ tab' = [tab EXCEPT ![t] = new]
      /\ builderSteps' = builderSteps + 1
      /\ UNCHANGED <<stored, origin, relayed, misloaded, astray, clashed>>
  BY DEF Rerender, BuilderStep
<1>3. tab[t] \in TabRecord /\ tab[t].seeded
  BY <1>1, <1>2 DEF BuilderShape, Opened
<1>4. /\ new \in TabRecord /\ new.board = tab[t].board /\ new.canvas = tab[t].canvas
      /\ new.seeded /\ new.armed /\ new.loads = tab[t].loads
  BY <1>2, <1>3, RenderedTab
<1>5. tab'[t] = new /\ \A u \in Builders \ {t} : tab'[u] = tab[u]
  BY <1>1, <1>2 DEF BuilderShape
<1>6. BuilderShape'
  BY <1>1, <1>2, <1>4 DEF BuilderShape
<1>7. CanvasesMade'
  BY <1>1, <1>2, <1>4, <1>5 DEF CanvasesMade
<1>8. Opened'
  BY <1>1, <1>2, <1>4, <1>5 DEF Opened
<1>9. CanvasExplained'
  BY <1>1, <1>2, <1>4, <1>5 DEF CanvasExplained, Own
<1>10. RelaysOwn'
  BY <1>1, <1>2 DEF RelaysOwn
<1>11. Agreed'
  BY <1>1, <1>2, <1>4, <1>5, TabStirs
<1> QED
  BY <1>6, <1>7, <1>8, <1>9, <1>10, <1>11 DEF BuilderInv

\* What a tab has after an edit was relayed to it.
LEMMA BroadcastPreserves ==
  ASSUME BuilderInv, NEW t \in Builders, BroadcastEdit(t) PROVE BuilderInv'
<1>1. BuilderShape /\ CanvasesMade /\ Opened /\ CanvasExplained /\ RelaysOwn /\ Agreed
  BY DEF BuilderInv
<1> PICK b, c : b = tab[t].board /\ c = tab[t].canvas
  OBVIOUS
<1> PICK msg : msg = [board |-> b, canvas |-> c]
  OBVIOUS
<1> PICK mates : mates = Roommates(t)
  OBVIOUS
<1> PICK new : new = [tab[t] EXCEPT !.armed = FALSE]
  OBVIOUS
<1>2. /\ tab[t].armed
      /\ relayed' = [u \in Builders |-> IF u \in mates THEN Append(relayed[u], msg)
                                        ELSE relayed[u]]
      /\ astray' = (astray \/ ~Own(t)) /\ clashed' = (clashed \/ ForRoom(t) # {})
      /\ UNCHANGED <<stored, origin, builderSteps, misloaded>>
  BY DEF BroadcastEdit
<1>3. tab' = [tab EXCEPT ![t] = new]
  BY <1>1 DEF BroadcastEdit, BuilderShape
<1>4. /\ tab[t] \in TabRecord /\ b \in 1 .. Boards /\ b # NoBoard /\ c \in Nat
      /\ msg \in RelayRecord /\ msg.board = b /\ msg.canvas = c
  <2>1. tab[t] \in TabRecord
    BY <1>1 DEF BuilderShape
  <2>2. b # NoBoard /\ b \in 0 .. Boards /\ c \in Nat
    BY <2>1, <1>1, <1>2 DEF Opened, TabRecord
  <2>3. b \in 1 .. Boards
    BY <2>2, BuilderAssumption DEF NoBoard
  <2> QED
    BY <2>1, <2>2, <2>3 DEF RelayRecord
<1>5. /\ new \in TabRecord /\ new.board = b /\ new.canvas = c /\ new.loads = tab[t].loads
      /\ new.seeded = tab[t].seeded /\ new.armed = FALSE
  BY <1>4 DEF TabRecord
<1>6. tab'[t] = new /\ \A u \in Builders \ {t} : tab'[u] = tab[u]
  BY <1>1, <1>3 DEF BuilderShape
<1>7. \A u \in Builders : /\ tab'[u].board = tab[u].board /\ tab'[u].canvas = tab[u].canvas
                          /\ tab'[u].loads = tab[u].loads
                          /\ tab'[u].seeded = tab[u].seeded
                          /\ tab'[u].armed => tab[u].armed
  BY <1>5, <1>6
<1>8. ASSUME NEW u \in mates
      PROVE  /\ u \in Builders \ {t} /\ tab[u].board = b /\ relayed[u] \in Seq(RelayRecord)
             /\ Len(relayed[u]) \in Nat
             /\ relayed'[u] \in Seq(RelayRecord) /\ Len(relayed'[u]) = Len(relayed[u]) + 1
             /\ relayed'[u][Len(relayed[u]) + 1] = msg
             /\ \A i \in 1 .. Len(relayed[u]) : relayed'[u][i] = relayed[u][i]
  <2>1. u \in Builders \ {t} /\ tab[u].board = b /\ relayed[u] \in Seq(RelayRecord)
    BY <1>1, <1>8 DEF Roommates, BuilderShape
  <2> PICK q : q = relayed[u]
    OBVIOUS
  <2>2. relayed'[u] = Append(q, msg) /\ q \in Seq(RelayRecord)
    BY <1>2, <1>8, <2>1
  <2> QED
    BY <2>1, <2>2, <1>4
<1>9. \A u \in Builders \ mates : relayed'[u] = relayed[u]
  BY <1>2
<1>10. relayed' \in [Builders -> Seq(RelayRecord)]
  <2>1. \A u \in Builders : relayed'[u] \in Seq(RelayRecord)
    BY <1>1, <1>8, <1>9 DEF BuilderShape
  <2> QED
    BY <2>1, <1>2
<1>11. BuilderShape'
  <2>1. tab' \in [Builders -> TabRecord]
    BY <1>1, <1>3, <1>5 DEF BuilderShape
  <2>2. astray' \in BOOLEAN /\ clashed' \in BOOLEAN
    BY <1>2
  <2> QED
    BY <2>1, <2>2, <1>1, <1>2, <1>10 DEF BuilderShape
<1>12. CanvasesMade'
  <2>1. \A u \in Builders : \A i \in DOMAIN relayed'[u] : relayed'[u][i].canvas <= Len(origin)
    <3> TAKE u \in Builders
    <3>1. CASE u \in mates
      <4> PICK n \in Nat : n = Len(relayed[u])
        BY <3>1, <1>8
      <4>1. DOMAIN relayed'[u] = 1 .. n + 1 /\ DOMAIN relayed[u] = 1 .. n
        BY <3>1, <1>8
      <4>2. \A i \in 1 .. n : relayed'[u][i].canvas <= Len(origin)
        BY <3>1, <4>1, <1>1, <1>8 DEF CanvasesMade
      <4>3. relayed'[u][n + 1].canvas <= Len(origin)
        BY <3>1, <1>1, <1>4, <1>8 DEF CanvasesMade
      <4>4. \A i \in 1 .. n + 1 : i \in 1 .. n \/ i = n + 1
        OBVIOUS
      <4> QED
        BY <4>1, <4>2, <4>3, <4>4
    <3>2. CASE u \notin mates
      BY <3>2, <1>1, <1>9 DEF CanvasesMade
    <3> QED
      BY <3>1, <3>2
  <2> QED
    BY <2>1, <1>1, <1>2, <1>7 DEF CanvasesMade
<1>13. Opened'
  BY <1>1, <1>7 DEF Opened
<1>14. CanvasExplained'
  BY <1>1, <1>2, <1>7 DEF CanvasExplained, Own
<1>15. RelaysOwn'
  <2> SUFFICES ASSUME ~astray', NEW u \in Builders, NEW i \in DOMAIN relayed'[u],
                      relayed'[u][i].canvas # 0
               PROVE  origin[relayed'[u][i].canvas] = relayed'[u][i].board
    BY <1>2 DEF RelaysOwn
  <2>1. ~astray /\ Own(t)
    BY <1>2
  <2>2. CASE u \in mates
    <3> PICK n \in Nat : n = Len(relayed[u])
      BY <2>2, <1>8
    <3>1. i \in 1 .. n + 1 /\ DOMAIN relayed[u] = 1 .. n
      BY <2>2, <1>8
    <3>2. CASE i \in 1 .. n
      BY <3>1, <3>2, <2>1, <2>2, <1>1, <1>8 DEF RelaysOwn
    <3>3. CASE i = n + 1
      BY <3>3, <2>1, <2>2, <1>4, <1>8 DEF Own
    <3> QED
      BY <3>1, <3>2, <3>3
  <2>3. CASE u \notin mates
    BY <2>1, <2>3, <1>1, <1>9 DEF RelaysOwn
  <2> QED
    BY <2>2, <2>3
<1>16. Agreed'
  <2> SUFFICES ASSUME ~clashed', misloaded' = {}, NEW u \in Builders, NEW v \in Builders,
                      tab'[u].board = tab'[v].board, NEW d, NEW e, Aims(u, d)', Aims(v, e)'
               PROVE  d = e
    BY DEF Agreed
  <2>1. ~clashed /\ misloaded = {} /\ ForRoom(t) = {}
    BY <1>2
  <2>2. ASSUME NEW w \in Builders, tab[w].board = b, NEW f, Aims(w, f)' PROVE f = c
    <3>1. CASE w = t
      <4>1. t \notin mates
        BY DEF Roommates
      <4>2. ForRoom(t)' = {}
        BY <2>1, <4>1, <1>7, <1>9 DEF ForRoom
      <4> QED
        BY <3>1, <4>2, <2>2, <1>7 DEF Aims
    <3>2. CASE w # t
      <4>1. w \in mates
        BY <3>2, <2>2 DEF Roommates
      <4> PICK n \in Nat : n = Len(relayed[w])
        BY <4>1, <1>8
      <4>2. Len(relayed'[w]) = n + 1 /\ relayed'[w][n + 1] = msg /\ tab'[w].board = b
        BY <4>1, <1>7, <1>8
      <4>3. ForRoom(w)' = {i \in 1 .. n + 1 : relayed'[w][i].board = b}
        BY <4>2 DEF ForRoom
      <4>4. n + 1 \in ForRoom(w)' /\ \A i \in ForRoom(w)' : i \in Nat /\ i <= n + 1
        BY <4>2, <4>3, <1>4
      <4>5. PICK i \in ForRoom(w)' : relayed'[w][i].canvas = f
                                      /\ \A j \in ForRoom(w)' : j <= i
        BY <4>4, <2>2 DEF Aims
      <4>6. i = n + 1
        BY <4>4, <4>5
      <4> QED
        BY <4>2, <4>5, <4>6, <1>4
    <3> QED
      BY <3>1, <3>2
  <2>3. ASSUME NEW w \in Builders, tab[w].board # b, NEW f, Aims(w, f)' PROVE Aims(w, f)
    <3>1. w \notin mates /\ w # t
      BY <2>3 DEF Roommates
    <3>2. ForRoom(w)' = ForRoom(w) /\ tab'[w] = tab[w] /\ relayed'[w] = relayed[w]
      BY <3>1, <1>6, <1>9 DEF ForRoom
    <3> QED
      BY <3>2, <2>3 DEF Aims
  <2>4. tab[u].board = tab[v].board
    BY <1>7
  <2>5. CASE tab[u].board = b
    BY <2>2, <2>4, <2>5
  <2>6. CASE tab[u].board # b
    <3>1. Aims(u, d) /\ Aims(v, e)
      BY <2>3, <2>4, <2>6
    <3> QED
      BY <3>1, <2>1, <2>4, <1>1 DEF Agreed
  <2> QED
    BY <2>5, <2>6
<1> QED
  BY <1>11, <1>12, <1>13, <1>14, <1>15, <1>16 DEF BuilderInv

LEMMA ApplyPreserves ==
  ASSUME BuilderInv, NEW t \in Builders, ApplyRemoteEdit(t) PROVE BuilderInv'
<1>1. BuilderShape /\ CanvasesMade /\ Opened /\ CanvasExplained /\ RelaysOwn /\ Agreed
  BY DEF BuilderInv
<1> PICK q : q = relayed[t]
  OBVIOUS
<1> PICK h : h = Head(q)
  OBVIOUS
<1> PICK rest : rest = Tail(q)
  OBVIOUS
<1>2. /\ q # <<>> /\ relayed' = [relayed EXCEPT ![t] = rest]
      /\ UNCHANGED <<stored, origin, builderSteps, misloaded, astray, clashed>>
  BY <1>1 DEF ApplyRemoteEdit, BuilderShape
<1>3. q \in Seq(RelayRecord) /\ tab[t] \in TabRecord
  BY <1>1 DEF BuilderShape
<1> PICK n \in Nat : n = Len(q)
  BY <1>3
<1>4. /\ n > 0 /\ h = q[1] /\ h \in RelayRecord /\ rest \in Seq(RelayRecord)
      /\ Len(rest) = n - 1 /\ \A i \in 1 .. n - 1 : rest[i] = q[i + 1]
  <2>1. n > 0
    BY <1>2, <1>3
  <2> QED
    BY <2>1, <1>3
<1>5. relayed'[t] = rest /\ \A u \in Builders \ {t} : relayed'[u] = relayed[u]
  BY <1>1, <1>2 DEF BuilderShape
<1> PICK mine \in BOOLEAN : mine = (h.board = tab[t].board)
  OBVIOUS
<1> PICK new : new = IF mine THEN [tab[t] EXCEPT !.canvas = h.canvas, !.armed = FALSE] ELSE tab[t]
  OBVIOUS
<1>6. tab' = [tab EXCEPT ![t] = new]
  <2>1. CASE mine
    BY <2>1, <1>1 DEF ApplyRemoteEdit, BuilderShape
  <2>2. CASE ~mine
    BY <2>2, <1>1 DEF ApplyRemoteEdit, BuilderShape
  <2> QED
    BY <2>1, <2>2
<1>7. h.board \in 1 .. Boards /\ h.canvas \in Nat /\ h.board # NoBoard
  BY <1>4 DEF RelayRecord, NoBoard
<1>8. /\ new \in TabRecord /\ new.board = tab[t].board /\ new.loads = tab[t].loads
      /\ new.seeded = tab[t].seeded
      /\ mine => new.canvas = h.canvas /\ ~new.armed
      /\ ~mine => new = tab[t]
  <2>1. CASE mine
    <3> PICK moved : moved = [tab[t] EXCEPT !.canvas = h.canvas, !.armed = FALSE]
      OBVIOUS
    <3>1. /\ moved \in TabRecord /\ moved.board = tab[t].board /\ moved.loads = tab[t].loads
          /\ moved.seeded = tab[t].seeded /\ moved.canvas = h.canvas /\ moved.armed = FALSE
      BY <1>3, <1>7 DEF TabRecord
    <3> QED
      BY <3>1, <2>1
  <2>2. CASE ~mine
    BY <2>2, <1>3
  <2> QED
    BY <2>1, <2>2
<1>9. tab'[t] = new /\ \A u \in Builders \ {t} : tab'[u] = tab[u]
  BY <1>1, <1>6 DEF BuilderShape
<1>10. BuilderShape'
  <2>1. tab' \in [Builders -> TabRecord] /\ relayed' \in [Builders -> Seq(RelayRecord)]
    BY <1>1, <1>2, <1>4, <1>6, <1>8 DEF BuilderShape
  <2> QED
    BY <2>1, <1>1, <1>2 DEF BuilderShape
<1>11. h.canvas <= Len(origin) /\ (~astray /\ h.canvas # 0 => origin[h.canvas] = h.board)
  <2>1. 1 \in DOMAIN relayed[t] /\ h = relayed[t][1]
    BY <1>3, <1>4
  <2> QED
    BY <2>1, <1>1 DEF CanvasesMade, RelaysOwn
<1>12. ASSUME NEW i \in DOMAIN relayed'[t]
       PROVE  i + 1 \in DOMAIN relayed[t] /\ relayed'[t][i] = relayed[t][i + 1]
  <2>1. i \in 1 .. n - 1
    BY <1>4, <1>5, <1>12
  <2>2. i + 1 \in 1 .. n
    BY <2>1
  <2> QED
    BY <2>1, <2>2, <1>3, <1>4, <1>5
<1>13. CanvasesMade'
  <2>1. \A u \in Builders : tab'[u].canvas <= Len(origin)
    <3>1. tab'[t].canvas <= Len(origin)
      BY <1>1, <1>8, <1>9, <1>11 DEF CanvasesMade
    <3> QED
      BY <3>1, <1>1, <1>9 DEF CanvasesMade
  <2>2. \A u \in Builders : \A i \in DOMAIN relayed'[u] : relayed'[u][i].canvas <= Len(origin)
    <3>1. \A i \in DOMAIN relayed'[t] : relayed'[t][i].canvas <= Len(origin)
      BY <1>1, <1>12 DEF CanvasesMade
    <3> QED
      BY <3>1, <1>1, <1>5 DEF CanvasesMade
  <2> QED
    BY <2>1, <2>2, <1>1, <1>2 DEF CanvasesMade
<1>14. Opened'
  <2>1. CASE mine
    <3>1. tab[t].board # NoBoard /\ tab[t].seeded
      BY <2>1, <1>1, <1>7 DEF Opened
    <3>2. tab'[t].board # NoBoard /\ tab'[t].seeded
      BY <3>1, <1>8, <1>9
    <3> QED
      BY <3>2, <1>1, <1>9 DEF Opened
  <2>2. CASE ~mine
    BY <2>2, <1>1, <1>8, <1>9 DEF Opened
  <2> QED
    BY <2>1, <2>2
<1>15. CanvasExplained'
  <2> SUFFICES ASSUME ~astray
               PROVE  \A u \in Builders : u \in misloaded \/ tab'[u].loads # {} \/ Own(u)'
    BY <1>1, <1>2 DEF CanvasExplained
  <2>1. \A u \in Builders : u \in misloaded \/ tab[u].loads # {} \/ Own(u)
    BY <1>1 DEF CanvasExplained
  <2>2. \A u \in Builders \ {t} : Own(u)' <=> Own(u)
    BY <1>2, <1>9 DEF Own
  <2>3. CASE mine
    <3>1. Own(t)'
      <4>1. tab'[t].canvas = h.canvas /\ tab'[t].board = h.board
        BY <2>3, <1>8, <1>9
      <4>2. h.canvas # 0 => origin[h.canvas] = h.board
        BY <1>11
      <4> QED
        BY <4>1, <4>2, <1>2 DEF Own
    <3> QED
      BY <3>1, <2>1, <2>2, <1>9
  <2>4. CASE ~mine
    <3>1. Own(t)' <=> Own(t)
      BY <2>4, <1>2, <1>8, <1>9 DEF Own
    <3>2. tab'[t].loads = tab[t].loads
      BY <1>8, <1>9
    <3>3. t \in misloaded \/ tab'[t].loads # {} \/ Own(t)'
      BY <3>1, <3>2, <2>1
    <3> QED
      BY <3>3, <2>1, <2>2, <1>9
  <2> QED
    BY <2>3, <2>4
<1>16. RelaysOwn'
  <2>1. ~astray => \A i \in DOMAIN relayed'[t] :
            relayed'[t][i].canvas # 0 => origin[relayed'[t][i].canvas] = relayed'[t][i].board
    BY <1>1, <1>12 DEF RelaysOwn
  <2> QED
    BY <2>1, <1>1, <1>2, <1>5 DEF RelaysOwn
<1>17. Agreed'
  <2>1. \A u \in Builders : tab'[u].board = tab[u].board
    BY <1>8, <1>9
  <2>2. \A u \in Builders \ {t} : \A c : Aims(u, c)' => Aims(u, c)
    <3>1. \A u \in Builders \ {t} : ForRoom(u)' = ForRoom(u)
      BY <1>5, <1>9 DEF ForRoom
    <3> QED
      BY <3>1, <1>5, <1>9 DEF Aims
  <2>3. ASSUME NEW c, Aims(t, c)' PROVE Aims(t, c)
    <3> PICK b : b = tab[t].board
      OBVIOUS
    <3>1. ForRoom(t) = {i \in 1 .. n : q[i].board = b}
      BY DEF ForRoom
    <3>2. ForRoom(t)' = {i \in 1 .. n - 1 : rest[i].board = b}
      BY <2>1, <1>4, <1>5 DEF ForRoom
    <3>3. \A i \in ForRoom(t)' : i + 1 \in ForRoom(t) /\ rest[i] = q[i + 1] /\ i \in 1 .. n - 1
      <4> TAKE i \in ForRoom(t)'
      <4>1. i \in 1 .. n - 1 /\ rest[i].board = b
        BY <3>2
      <4>2. i + 1 \in 1 .. n /\ rest[i] = q[i + 1]
        BY <4>1, <1>4
      <4> QED
        BY <4>1, <4>2, <3>1
    <3>4. \A i \in ForRoom(t) : i \in 1 .. n /\ (i = 1 \/ i - 1 \in ForRoom(t)')
      <4> TAKE i \in ForRoom(t)
      <4>1. i \in 1 .. n /\ q[i].board = b
        BY <3>1
      <4>2. CASE i # 1
        <5> PICK k \in 1 .. n - 1 : k = i - 1
          BY <4>1, <4>2
        <5>1. k + 1 = i
          BY <4>1
        <5>2. rest[k] = q[i]
          BY <5>1, <1>4
        <5>3. k \in ForRoom(t)'
          BY <5>2, <4>1, <3>2
        <5> QED
          BY <5>3, <4>1
      <4> QED
        BY <4>1, <4>2
    <3>5. CASE \E i \in ForRoom(t)' : rest[i].canvas = c /\ \A j \in ForRoom(t)' : j <= i
      <4>1. PICK i \in ForRoom(t)' : rest[i].canvas = c /\ \A j \in ForRoom(t)' : j <= i
        BY <3>5
      <4>2. i + 1 \in ForRoom(t) /\ q[i + 1].canvas = c /\ i \in 1 .. n - 1
        BY <4>1, <3>3
      <4>3. \A j \in ForRoom(t) : j <= i + 1
        <5> TAKE j \in ForRoom(t)
        <5>1. j \in 1 .. n /\ (j = 1 \/ j - 1 <= i)
          BY <3>4, <4>1
        <5> QED
          BY <5>1, <4>2
      <4> QED
        BY <4>2, <4>3 DEF Aims
    <3>6. CASE ForRoom(t)' = {} /\ ~new.armed /\ new.loads = {} /\ new.canvas = c
      <4>1. CASE mine
        <5>1. n >= 1
          BY <1>4
        <5>2. 1 \in ForRoom(t) /\ q[1].canvas = c
          <6>1. 1 \in 1 .. n /\ q[1].board = b
            <7>1. h.board = b
              BY <4>1
            <7>2. h = q[1] /\ 1 \in 1 .. n
              BY <5>1, <1>4
            <7> QED
              BY <7>1, <7>2
          <6>2. q[1].canvas = c
            BY <4>1, <3>6, <1>4, <1>8
          <6> QED
            BY <6>1, <6>2, <3>1
        <5>3. \A j \in ForRoom(t) : j <= 1
          BY <3>4, <3>6
        <5> QED
          BY <5>2, <5>3 DEF Aims
      <4>2. CASE ~mine
        <5>1. 1 \notin ForRoom(t)
          BY <4>2, <3>1, <1>4
        <5>2. ForRoom(t) = {}
          BY <5>1, <3>4, <3>6
        <5> QED
          BY <4>2, <5>2, <3>6, <1>8 DEF Aims
      <4> QED
        BY <4>1, <4>2
    <3> QED
      BY <3>5, <3>6, <2>3, <1>5, <1>9 DEF Aims
  <2> QED
    BY <2>1, <2>2, <2>3, <1>1, <1>2 DEF Agreed
<1> QED
  BY <1>10, <1>13, <1>14, <1>15, <1>16, <1>17 DEF BuilderInv

LEMMA SavePreserves ==
  ASSUME BuilderInv, NEW t \in Builders, SaveCanvas(t) PROVE BuilderInv'
<1>1. BuilderShape /\ CanvasesMade /\ Opened /\ CanvasExplained /\ RelaysOwn /\ Agreed
  BY DEF BuilderInv
<1> PICK b, c : b = tab[t].board /\ c = tab[t].canvas
  OBVIOUS
<1>2. /\ b # NoBoard /\ c # 0 /\ stored' = [stored EXCEPT ![b] = c]
      /\ astray' = (astray \/ ~Own(t))
      /\ UNCHANGED <<tab, origin, relayed, builderSteps, misloaded, clashed>>
  BY DEF SaveCanvas
<1>3. b \in 1 .. Boards /\ c \in Nat /\ c \in 1 .. Len(origin)
  <2>1. b \in 0 .. Boards /\ c \in Nat
    BY <1>1 DEF BuilderShape, TabRecord
  <2>2. c <= Len(origin) /\ Len(origin) \in Nat
    BY <1>1 DEF CanvasesMade, BuilderShape
  <2> QED
    BY <2>1, <2>2, <1>2, BuilderAssumption DEF NoBoard
<1>4. /\ stored' \in [1 .. Boards -> Nat] /\ stored'[b] = c
      /\ \A p \in (1 .. Boards) \ {b} : stored'[p] = stored[p]
  BY <1>1, <1>2, <1>3 DEF BuilderShape
<1>5. BuilderShape'
  <2>1. astray' \in BOOLEAN
    BY <1>2
  <2> QED
    BY <2>1, <1>1, <1>2, <1>4 DEF BuilderShape
<1>6. CanvasesMade'
  <2>1. \A p \in 1 .. Boards : stored'[p] \in 1 .. Len(origin)
    BY <1>1, <1>3, <1>4 DEF CanvasesMade
  <2> QED
    BY <2>1, <1>1, <1>2 DEF CanvasesMade
<1>7. Opened'
  BY <1>1, <1>2 DEF Opened
<1>8. CanvasExplained'
  <2> SUFFICES ASSUME ~astray'
               PROVE  /\ \A u \in Builders : u \in misloaded \/ tab[u].loads # {} \/ Own(u)
                      /\ \A p \in 1 .. Boards : origin[stored'[p]] = p
    BY <1>2 DEF CanvasExplained, Own
  <2>1. ~astray /\ Own(t)
    BY <1>2
  <2>2. /\ \A u \in Builders : u \in misloaded \/ tab[u].loads # {} \/ Own(u)
        /\ \A p \in 1 .. Boards : origin[stored[p]] = p
    BY <2>1, <1>1 DEF CanvasExplained
  <2>3. origin[stored'[b]] = b
    BY <2>1, <1>2, <1>4 DEF Own
  <2> QED
    BY <2>2, <2>3, <1>4
<1>9. RelaysOwn'
  BY <1>1, <1>2 DEF RelaysOwn
<1>10. Agreed'
  <2>1. \A u \in Builders : \A d : Aims(u, d)' <=> Aims(u, d)
    BY <1>2 DEF Aims, ForRoom
  <2> QED
    BY <2>1, <1>1, <1>2 DEF Agreed
<1> QED
  BY <1>5, <1>6, <1>7, <1>8, <1>9, <1>10 DEF BuilderInv

LEMMA BuilderStepKeeps == BuilderInv /\ [BuilderNext]_builderVars => BuilderInv'
<1> SUFFICES ASSUME BuilderInv, [BuilderNext]_builderVars PROVE BuilderInv'
  OBVIOUS
<1>1. ASSUME NEW t \in Builders, NEW p \in 1 .. Boards, OpenBoard(t, p) PROVE BuilderInv'
  BY <1>1, OpenPreserves
<1>2. ASSUME NEW t \in Builders, NEW l \in tab[t].loads, BoardLoaded(t, l) \/ BoardLoadFails(t, l)
      PROVE  BuilderInv'
  BY <1>2, LoadedPreserves, FailsPreserves
<1>3. ASSUME NEW t \in Builders,
             \/ EditCanvas(t) \/ Rerender(t) \/ BroadcastEdit(t) \/ ApplyRemoteEdit(t)
             \/ SaveCanvas(t)
      PROVE  BuilderInv'
  BY <1>3, EditPreserves, RerenderPreserves, BroadcastPreserves, ApplyPreserves, SavePreserves
<1>4. CASE UNCHANGED builderVars
  <2>1. BuilderShape' /\ CanvasesMade' /\ Opened' /\ CanvasExplained' /\ RelaysOwn'
    BY <1>4 DEF BuilderInv, builderVars, BuilderShape, CanvasesMade, Opened, CanvasExplained,
                Own, RelaysOwn
  <2>2. \A u \in Builders : \A d : Aims(u, d)' <=> Aims(u, d)
    BY <1>4 DEF builderVars, Aims, ForRoom
  <2>3. Agreed'
    BY <2>2, <1>4 DEF BuilderInv, Agreed, builderVars
  <2> QED
    BY <2>1, <2>3 DEF BuilderInv
<1> QED
  BY <1>1, <1>2, <1>3, <1>4 DEF BuilderNext

LEMMA BuilderInvIsSafe == BuilderInv => BuilderSafe
<1> SUFFICES ASSUME BuilderInv PROVE BuilderSafe
  OBVIOUS
<1>1. BuilderShape /\ CanvasesMade /\ Opened /\ CanvasExplained /\ RelaysOwn /\ Agreed
  BY DEF BuilderInv
<1>2. BuilderTypeOK
  <2>1. ASSUME NEW t \in Builders
        PROVE  /\ tab[t].board \in 0 .. Boards /\ tab[t].canvas \in 0 .. Len(origin)
               /\ tab[t].armed => tab[t].seeded /\ tab[t].board # NoBoard
    <3>1. tab[t].board \in 0 .. Boards /\ tab[t].canvas \in Nat /\ Len(origin) \in Nat
      BY <1>1 DEF BuilderShape, TabRecord
    <3>2. tab[t].canvas <= Len(origin)
      BY <1>1 DEF CanvasesMade
    <3> QED
      BY <3>1, <3>2, <1>1 DEF Opened
  <2> QED
    BY <2>1, <1>1 DEF BuilderTypeOK, CanvasesMade
<1>3. RoomAgrees
  <2> SUFFICES ASSUME ~clashed, misloaded = {}, NEW t \in Builders, NEW u \in Builders,
                      tab[t].board = tab[u].board, TabQuiet(t), TabQuiet(u)
               PROVE  tab[t].canvas = tab[u].canvas
    BY DEF RoomAgrees
  <2>1. Aims(t, tab[t].canvas) /\ Aims(u, tab[u].canvas)
    BY DEF Aims, TabQuiet
  <2> QED
    BY <2>1, <1>1 DEF Agreed
<1> QED
  BY <1>1, <1>2, <1>3 DEF BuilderSafe

\* The builder's tabs (the load, broadcast and applyRemoteEdit of PipelineBuilder)
\* neither mix pipelines up nor drift apart but for the crossings the parts name,
\* for every number of tabs and pipelines.
THEOREM BuilderIsSafe == BuilderSpec => []BuilderSafe
<1>1. BuilderSpec => []BuilderInv
  BY BuilderStarts, BuilderStepKeeps, PTL DEF BuilderSpec
<1> QED
  BY <1>1, BuilderInvIsSafe, PTL

-----------------------------------------------------------------------------
(* Incremental indexing.                                                   *)

IngestRecord ==
    [pc : {"free", "walk", "compared", "deliver"}, entries : SUBSET Docs,
     at : SUBSET Docs, docs : [Docs -> Seen], write : SUBSET Docs, delete : SUBSET Docs]

IngestShape ==
    /\ docFiles \in [Docs -> Revisions] /\ docSaves \in Revisions
    /\ fsEvents \subseteq Docs /\ changed \subseteq Docs /\ timer \in BOOLEAN
    /\ posts \in 0 .. MaxIngests /\ queued \in 0 .. MaxIngests
    /\ submitted \in 0 .. MaxIngests
    /\ ingest \in [IngestRuns -> IngestRecord]
    /\ bucket \in [Docs -> Revisions]
    /\ points \in [Docs -> [Chunks -> Revisions]]
    /\ ingestFaults \in 0 .. MaxIngestFaults
    /\ submitted + posts <= MaxIngests /\ queued <= submitted

\* The timer runs while there are paths to post: fire() takes both at once.
TimerKept == changed # {} => timer

\* No revision is from the future.
NoneAhead ==
    /\ \A d \in Docs : docFiles[d] <= docSaves /\ bucket[d] <= docSaves
    /\ \A r \in IngestRuns : \A d \in Docs : ingest[r].docs[d].mtime <= docSaves

\* What a run x holds of the files: the revision it took before it read a file
\* tells a file that has not changed since.
ReadsTruly(x, files) ==
    /\ x.at \subseteq x.entries
    /\ \A d, e \in x.at : d = e
    /\ x.pc # "walk" => x.entries = {}
    /\ \A d \in Docs :
         (x.docs[d].mtime # 0 /\ files[d] = x.docs[d].mtime) =>
            d \in x.at \/ x.docs[d].content = x.docs[d].mtime

\* A run x that is alone compared with the bucket b as it is, and delivers what
\* b records.
FollowsBucket(x, b) ==
    /\ x.pc = "compared" =>
         /\ x.write = WiredDocs(NewDocs(x.docs, b), Modified(x.docs, b))
         /\ x.delete = DeletedDocs(x.docs, b)
    /\ x.pc = "deliver" =>
         /\ \A d \in Docs : b[d] = x.docs[d].mtime
         /\ \A d \in x.write : x.docs[d].mtime # 0
         /\ \A d \in x.delete : x.docs[d].mtime = 0

\* What a run x has recorded and has not delivered yet.
ToWrite(x)  == IF x.pc = "deliver" THEN x.write ELSE {}
ToDelete(x) == IF x.pc = "deliver" THEN x.delete ELSE {}

\* What the store holds of a document is content c, and leftovers if it shrank.
Indexed(row, c, leftovers) ==
    \A i \in Chunks :
        \/ i <= ChunksOf[c] /\ row[i] = c
        \/ i > ChunksOf[c] /\ (row[i] = 0 \/ leftovers)

Alone == \A r, s \in IngestRuns : Active(r) /\ Active(s) => r = s

RecordedHolds ==
    \A d \in Docs :
        (/\ d \notin undelivered /\ docFiles[d] # 0 /\ bucket[d] = docFiles[d]
         /\ \A r \in IngestRuns : d \notin ToWrite(ingest[r]))
        => Indexed(points[d], docFiles[d], d \in shrunk)

UnrecordedHolds ==
    \A d \in Docs :
        (/\ d \notin undelivered /\ bucket[d] = 0
         /\ \A r \in IngestRuns : d \notin ToDelete(ingest[r]))
        => \A i \in Chunks : points[d][i] = 0

\* What holds until two runs have been under way at once.
IndexFollows ==
    /\ Alone
    /\ \A r \in IngestRuns : FollowsBucket(ingest[r], bucket)
    /\ RecordedHolds /\ UnrecordedHolds

IngestInv ==
    /\ IngestShape /\ TimerKept /\ ChangesFollowed /\ NoneAhead
    /\ \A r \in IngestRuns : ReadsTruly(ingest[r], docFiles)
    /\ overlapped \in BOOLEAN
    /\ ~overlapped => IndexFollows

LEMMA IngestConstants ==
    /\ MaxSaves \in Nat /\ MaxIngests \in Nat /\ MaxIngestFaults \in Nat
    /\ 0 \in Revisions /\ Revisions \subseteq Nat /\ NoDocs \in [Docs -> Seen]
    /\ NoRun \in IngestRecord
    /\ \A x \in Revisions : x + 1 \in Nat /\ (x < MaxSaves => x + 1 \in Revisions)
<1>1. MaxSaves \in Nat /\ MaxIngests \in Nat /\ MaxIngestFaults \in Nat
  BY IngestAssumption
<1>2. 0 \in Revisions /\ Revisions \subseteq Nat
  BY <1>1 DEF Revisions
<1>3. NoDocs \in [Docs -> Seen]
  BY <1>2 DEF NoDocs, Seen
<1>4. NoRun \in IngestRecord
  BY <1>3 DEF NoRun, IngestRecord
<1>5. \A x \in Revisions : x + 1 \in Nat /\ (x < MaxSaves => x + 1 \in Revisions)
  BY <1>1 DEF Revisions
<1> QED
  BY <1>1, <1>2, <1>3, <1>4, <1>5

LEMMA IngestRows ==
    ASSUME IngestShape, NEW r \in IngestRuns
    PROVE  /\ ingest[r] \in IngestRecord
           /\ \A d \in Docs : /\ ingest[r].docs[d] \in Seen
                             /\ ingest[r].docs[d].mtime \in Revisions
                             /\ ingest[r].docs[d].content \in Revisions
<1>1. ingest[r] \in IngestRecord
  BY DEF IngestShape
<1>2. ingest[r].docs \in [Docs -> Seen]
  BY <1>1 DEF IngestRecord
<1> QED
  BY <1>1, <1>2 DEF Seen

\* A slot without a run claims nothing.
LEMMA FreeSlot ==
    ASSUME NEW files, NEW b
    PROVE  /\ ReadsTruly(NoRun, files) /\ FollowsBucket(NoRun, b)
           /\ NoRun.pc = "free" /\ ToWrite(NoRun) = {} /\ ToDelete(NoRun) = {}
           /\ NoRun.docs = NoDocs
<1>1. NoRun.pc = "free" /\ NoRun.at = {} /\ NoRun.entries = {} /\ NoRun.docs = NoDocs
  BY DEF NoRun
<1>2. \A d \in Docs : NoRun.docs[d].mtime = 0
  BY <1>1 DEF NoDocs
<1> QED
  BY <1>1, <1>2 DEF ReadsTruly, FollowsBucket, ToWrite, ToDelete

LEMMA IngestStarts == IngestInit => IngestInv
<1> SUFFICES ASSUME IngestInit PROVE IngestInv
  OBVIOUS
<1>1. \A r \in IngestRuns : ingest[r] = NoRun
  BY DEF IngestInit
<1>2. IngestShape
  <2>1. /\ docFiles \in [Docs -> Revisions] /\ docSaves \in Revisions
        /\ bucket \in [Docs -> Revisions]
    BY IngestConstants DEF IngestInit
  <2>2. points \in [Docs -> [Chunks -> Revisions]]
    BY IngestConstants DEF IngestInit
  <2>3. ingest \in [IngestRuns -> IngestRecord]
    BY IngestConstants DEF IngestInit
  <2>4. /\ posts \in 0 .. MaxIngests /\ queued \in 0 .. MaxIngests
        /\ submitted \in 0 .. MaxIngests /\ ingestFaults \in 0 .. MaxIngestFaults
        /\ submitted + posts <= MaxIngests /\ queued <= submitted
    BY IngestConstants DEF IngestInit
  <2> QED
    BY <2>1, <2>2, <2>3, <2>4 DEF IngestInit, IngestShape
<1>3. NoneAhead
  <2>1. \A d \in Docs : NoDocs[d].mtime = 0
    BY DEF NoDocs
  <2> QED
    BY <1>1, <2>1, FreeSlot DEF IngestInit, NoneAhead
<1>4. \A r \in IngestRuns : ReadsTruly(ingest[r], docFiles) /\ FollowsBucket(ingest[r], bucket)
  BY <1>1, FreeSlot
<1>5. Alone
  BY <1>1, FreeSlot DEF Alone, Active
<1>6. RecordedHolds /\ UnrecordedHolds
  BY DEF IngestInit, RecordedHolds, UnrecordedHolds
<1>7. TimerKept /\ ChangesFollowed /\ overlapped \in BOOLEAN
  BY DEF IngestInit, TimerKept, ChangesFollowed
<1> QED
  BY <1>2, <1>3, <1>4, <1>5, <1>6, <1>7 DEF IngestInv, IndexFollows

-----------------------------------------------------------------------------
(* The tree and the watcher.                                               *)

\* A change of a file is a change to a revision no one has seen.
LEMMA SaveKeeps == ASSUME IngestInv, NEW d \in Docs, Save(d) PROVE IngestInv'
<1>u. /\ UNCHANGED <<changed, timer, posts, queued, submitted, ingest, bucket, points>>
      /\ UNCHANGED <<ingestFaults, undelivered, shrunk, overlapped>>
      /\ docSaves < MaxSaves /\ docSaves' = docSaves + 1 /\ fsEvents' = fsEvents \cup {d}
      /\ unfollowed' = unfollowed \cup {d}
  BY DEF Save, work, index
<1>s. IngestShape /\ NoneAhead /\ TimerKept /\ ChangesFollowed
  BY DEF IngestInv
<1>1. /\ docSaves \in Revisions /\ docSaves \in Nat /\ docSaves + 1 \in Revisions
      /\ docSaves + 1 \in Nat
  BY <1>s, <1>u, IngestConstants DEF IngestShape
<1>2. PICK rev \in {0, docSaves + 1} : docFiles' = [docFiles EXCEPT ![d] = rev]
  BY DEF Save
<1>3. rev \in Revisions /\ rev <= docSaves + 1 /\ (rev # 0 => rev > docSaves)
  BY <1>1, <1>2, IngestConstants
<1>4. docFiles' \in [Docs -> Revisions]
  BY <1>s, <1>2, <1>3 DEF IngestShape
<1>5. \A e \in Docs : e # d => docFiles'[e] = docFiles[e]
  BY <1>s, <1>2 DEF IngestShape
<1>6. docFiles'[d] = rev
  BY <1>s, <1>2 DEF IngestShape
<1>7. IngestShape'
  BY <1>s, <1>u, <1>1, <1>4 DEF IngestShape
<1>8. \A e \in Docs : bucket[e] \in Nat /\ docFiles[e] \in Nat
  BY <1>s, IngestConstants DEF IngestShape
<1>9. \A r \in IngestRuns : \A e \in Docs : ingest[r].docs[e].mtime \in Nat
  BY <1>s, IngestConstants, IngestRows
<1>10. NoneAhead'
  <2>1. \A e \in Docs : docFiles'[e] <= docSaves' /\ bucket'[e] <= docSaves'
    <3> TAKE e \in Docs
    <3>1. bucket[e] <= docSaves /\ docFiles[e] <= docSaves
      BY <1>s DEF NoneAhead
    <3>2. docFiles'[e] = docFiles[e] \/ docFiles'[e] = rev
      BY <1>5, <1>6
    <3> QED
      BY <3>1, <3>2, <1>8, <1>1, <1>3, <1>u
  <2>2. \A r \in IngestRuns : \A e \in Docs : ingest'[r].docs[e].mtime <= docSaves'
    <3> TAKE r \in IngestRuns
    <3> TAKE e \in Docs
    <3>1. ingest[r].docs[e].mtime <= docSaves /\ ingest[r].docs[e].mtime \in Nat
      BY <1>s, <1>9 DEF NoneAhead
    <3> QED
      BY <3>1, <1>1, <1>u
  <2> QED
    BY <2>1, <2>2 DEF NoneAhead
<1>11. \A r \in IngestRuns : ReadsTruly(ingest'[r], docFiles')
  <2> TAKE r \in IngestRuns
  <2>0. ReadsTruly(ingest[r], docFiles)
    BY DEF IngestInv
  <2>1. ASSUME NEW e \in Docs, ingest[r].docs[e].mtime # 0,
               docFiles'[e] = ingest[r].docs[e].mtime
        PROVE  e \in ingest[r].at \/ ingest[r].docs[e].content = ingest[r].docs[e].mtime
    <3>1. ingest[r].docs[e].mtime <= docSaves /\ ingest[r].docs[e].mtime \in Nat
      BY <1>s, <1>9 DEF NoneAhead
    <3>2. e # d
      BY <3>1, <2>1, <1>1, <1>3, <1>6
    <3> QED
      BY <3>2, <2>1, <2>0, <1>5 DEF ReadsTruly
  <2> QED
    BY <2>0, <2>1, <1>u DEF ReadsTruly
<1>12. TimerKept' /\ ChangesFollowed'
  <2>1. TimerKept'
    BY <1>s, <1>u DEF TimerKept
  <2>2. ChangesFollowed'
    BY <1>s, <1>u DEF ChangesFollowed
  <2> QED
    BY <2>1, <2>2
<1>13. ASSUME ~overlapped PROVE IndexFollows'
  <2>1. IndexFollows
    BY <1>13 DEF IngestInv
  <2>2. Alone' /\ \A r \in IngestRuns : FollowsBucket(ingest'[r], bucket')
    BY <2>1, <1>u DEF IndexFollows, Alone, Active
  <2>3. UnrecordedHolds'
    BY <2>1, <1>u DEF IndexFollows, UnrecordedHolds
  <2>4. ASSUME NEW e \in Docs, e \notin undelivered, docFiles'[e] # 0, bucket[e] = docFiles'[e],
               \A r \in IngestRuns : e \notin ToWrite(ingest[r])
        PROVE  Indexed(points[e], docFiles'[e], e \in shrunk)
    <3>1. bucket[e] <= docSaves /\ bucket[e] \in Nat
      BY <1>s, <1>8 DEF NoneAhead
    <3>2. e # d
      BY <3>1, <2>4, <1>1, <1>3, <1>6
    <3> QED
      BY <3>2, <2>4, <2>1, <1>5 DEF IndexFollows, RecordedHolds
  <2>5. RecordedHolds'
    BY <2>4, <1>u DEF RecordedHolds
  <2> QED
    BY <2>2, <2>3, <2>5 DEF IndexFollows
<1> QED
  BY <1>7, <1>10, <1>11, <1>12, <1>13, <1>u DEF IngestInv

\* What leaves the runs and the index alone keeps what is said of them.
LEMMA WatcherKeeps ==
    ASSUME IngestInv, IngestShape', TimerKept', ChangesFollowed',
           UNCHANGED watchedDir, UNCHANGED ingest, UNCHANGED index,
           UNCHANGED <<undelivered, shrunk, overlapped>>
    PROVE  IngestInv'
<1>u. UNCHANGED <<docFiles, docSaves, ingest, bucket, points, undelivered, shrunk, overlapped>>
  BY DEF watchedDir, index
<1>1. NoneAhead'
  BY <1>u DEF IngestInv, NoneAhead
<1>2. \A r \in IngestRuns : ReadsTruly(ingest'[r], docFiles')
  BY <1>u DEF IngestInv
<1>3. ASSUME ~overlapped PROVE IndexFollows'
  <2>1. IndexFollows
    BY <1>3 DEF IngestInv
  <2>2. Alone' /\ \A r \in IngestRuns : FollowsBucket(ingest'[r], bucket')
    BY <2>1, <1>u DEF IndexFollows, Alone, Active
  <2>3. RecordedHolds'
    BY <2>1, <1>u DEF IndexFollows, RecordedHolds
  <2>4. UnrecordedHolds'
    BY <2>1, <1>u DEF IndexFollows, UnrecordedHolds
  <2> QED
    BY <2>2, <2>3, <2>4 DEF IndexFollows
<1> QED
  BY <1>1, <1>2, <1>3, <1>u DEF IngestInv

LEMMA NoticeKeeps == ASSUME IngestInv, NEW d \in Docs, Notice(d) PROVE IngestInv'
<1>u. /\ d \in fsEvents /\ fsEvents' = fsEvents \ {d} /\ changed' = changed \cup {d}
      /\ timer' = TRUE /\ UNCHANGED <<posts, queued, submitted, ingestFaults, unfollowed>>
      /\ UNCHANGED <<docFiles, docSaves, ingest, bucket, points, undelivered, shrunk, overlapped>>
  BY DEF Notice, work, watchedDir, index, ingestGhosts
<1>s. IngestShape /\ TimerKept /\ ChangesFollowed
  BY DEF IngestInv
<1>1. IngestShape'
  BY <1>s, <1>u DEF IngestShape
<1>2. TimerKept' /\ ChangesFollowed'
  <2>1. TimerKept'
    BY <1>u DEF TimerKept
  <2>2. ASSUME NEW e \in unfollowed, ~(posts > 0)
        PROVE  e \in fsEvents' \/ e \in changed'
    BY <2>2, <1>s, <1>u DEF ChangesFollowed
  <2>3. ChangesFollowed'
    BY <2>2, <1>u DEF ChangesFollowed
  <2> QED
    BY <2>1, <2>3
<1> QED
  BY <1>1, <1>2, <1>u, WatcherKeeps DEF watchedDir, index

LEMMA FireKeeps == ASSUME IngestInv, Fire PROVE IngestInv'
<1>u. /\ timer /\ timer' = FALSE /\ changed' = {}
      /\ posts' = IF changed # {} THEN posts + 1 ELSE posts
      /\ submitted + posts' <= MaxIngests
      /\ UNCHANGED <<fsEvents, queued, submitted, ingestFaults, unfollowed>>
      /\ UNCHANGED <<docFiles, docSaves, ingest, bucket, points, undelivered, shrunk, overlapped>>
  BY DEF Fire, work, watchedDir, index, ingestGhosts
<1>s. IngestShape /\ TimerKept /\ ChangesFollowed
  BY DEF IngestInv
<1>0. posts \in Nat /\ submitted \in Nat /\ MaxIngests \in Nat
  BY <1>s, IngestConstants DEF IngestShape
<1>1. posts' \in 0 .. MaxIngests /\ (posts > 0 => posts' > 0) /\ (changed # {} => posts' > 0)
  BY <1>u, <1>0
<1>2. IngestShape'
  BY <1>s, <1>u, <1>1 DEF IngestShape
<1>3. TimerKept'
  BY <1>u DEF TimerKept
<1>4. ChangesFollowed'
  <2>1. CASE changed # {}
    BY <2>1, <1>1 DEF ChangesFollowed
  <2>2. CASE changed = {}
    BY <2>2, <1>1, <1>u, <1>s DEF ChangesFollowed
  <2> QED
    BY <2>1, <2>2
<1> QED
  BY <1>2, <1>3, <1>4, <1>u, WatcherKeeps DEF watchedDir, index

\* A POST that ends, accepted or failed, forgets what no event stands for.
LEMMA PostEnds ==
    ASSUME IngestShape, TimerKept, ChangesFollowed, posts > 0, posts' = posts - 1,
           UNCHANGED <<fsEvents, changed, timer>>,
           unfollowed' = IF posts = 1 THEN unfollowed \cap (fsEvents \cup changed) ELSE unfollowed
    PROVE  posts' \in 0 .. MaxIngests /\ posts' + 1 = posts /\ TimerKept' /\ ChangesFollowed'
<1>0. posts \in 0 .. MaxIngests /\ MaxIngests \in Nat
  BY IngestConstants DEF IngestShape
<1>1. posts' \in 0 .. MaxIngests /\ posts' + 1 = posts
  BY <1>0
<1>2. TimerKept'
  BY DEF TimerKept
<1>3. CASE posts = 1
  <2>1. ASSUME NEW d \in unfollowed' PROVE d \in fsEvents \/ (d \in changed /\ timer)
    BY <1>3, <2>1 DEF TimerKept
  <2> QED
    BY <1>1, <1>2, <2>1 DEF ChangesFollowed
<1>4. CASE posts # 1
  <2>1. posts' > 0
    BY <1>4, <1>0
  <2> QED
    BY <2>1, <1>1, <1>2 DEF ChangesFollowed
<1> QED
  BY <1>1, <1>2, <1>3, <1>4

LEMMA SubmitKeeps == ASSUME IngestInv, Submit \/ PostFails PROVE IngestInv'
<1>u. /\ posts > 0 /\ posts' = posts - 1
      /\ unfollowed' = IF posts = 1 THEN unfollowed \cap (fsEvents \cup changed) ELSE unfollowed
      /\ UNCHANGED <<fsEvents, changed, timer>>
      /\ UNCHANGED <<docFiles, docSaves, ingest, bucket, points, undelivered, shrunk, overlapped>>
  BY DEF Submit, PostFails, work, watchedDir, index
<1>s. IngestShape /\ TimerKept /\ ChangesFollowed
  BY DEF IngestInv
<1>1. posts' \in 0 .. MaxIngests /\ posts' + 1 = posts /\ TimerKept' /\ ChangesFollowed'
  BY <1>u, <1>s, PostEnds
<1>0. /\ queued \in Nat /\ submitted \in Nat /\ MaxIngests \in Nat /\ posts \in Nat
      /\ submitted + posts <= MaxIngests /\ queued <= submitted
      /\ ingestFaults \in Nat /\ ingestFaults <= MaxIngestFaults /\ MaxIngestFaults \in Nat
  BY <1>s, IngestConstants DEF IngestShape
<1>2. /\ queued' \in 0 .. MaxIngests /\ submitted' \in 0 .. MaxIngests
      /\ submitted' + posts' <= MaxIngests /\ queued' <= submitted'
      /\ ingestFaults' \in 0 .. MaxIngestFaults
  <2>1. CASE Submit
    <3>1. queued' = queued + 1 /\ submitted' = submitted + 1 /\ ingestFaults' = ingestFaults
      BY <2>1 DEF Submit
    <3> QED
      BY <3>1, <1>0, <1>1, <1>u
  <2>2. CASE PostFails
    <3>1. /\ queued' = queued /\ submitted' = submitted
          /\ ingestFaults < MaxIngestFaults /\ ingestFaults' = ingestFaults + 1
      BY <2>2 DEF PostFails, IngestFault, work
    <3> QED
      BY <3>1, <1>0, <1>1, <1>u
  <2> QED
    BY <2>1, <2>2
<1>3. IngestShape'
  BY <1>s, <1>u, <1>1, <1>2 DEF IngestShape
<1> QED
  BY <1>1, <1>3, <1>u, WatcherKeeps DEF watchedDir, index

-----------------------------------------------------------------------------
(* The runs.                                                               *)

\* A step of run r that leaves the disk and the index alone: its new record
\* must be as honest as the old one, and not forget what it has to deliver.
LEMMA RunMoves ==
    ASSUME IngestInv, NEW r \in IngestRuns, NEW y \in IngestRecord,
           ingest' = [ingest EXCEPT ![r] = y],
           UNCHANGED <<docFiles, docSaves, fsEvents, changed, timer, posts, queued, submitted>>,
           UNCHANGED <<bucket, points, unfollowed, shrunk, overlapped>>,
           ingestFaults' \in 0 .. MaxIngestFaults,
           undelivered \subseteq undelivered',
           ReadsTruly(y, docFiles),
           \A d \in Docs : y.docs[d].mtime <= docSaves,
           y.pc # "free" => Active(r),
           ~overlapped => FollowsBucket(y, bucket),
           \A d \in Docs : d \in ToWrite(ingest[r]) => d \in ToWrite(y) \/ d \in undelivered',
           \A d \in Docs : d \in ToDelete(ingest[r]) => d \in ToDelete(y) \/ d \in undelivered'
    PROVE  IngestInv'
<1>s. IngestShape /\ TimerKept /\ ChangesFollowed /\ NoneAhead
  BY DEF IngestInv
<1>1. \A s \in IngestRuns : s # r => ingest'[s] = ingest[s]
  BY <1>s DEF IngestShape
<1>2. ingest'[r] = y
  BY <1>s DEF IngestShape
<1>3. IngestShape'
  <2>1. ingest' \in [IngestRuns -> IngestRecord]
    BY <1>s DEF IngestShape
  <2> QED
    BY <1>s, <2>1 DEF IngestShape
<1>4. TimerKept' /\ ChangesFollowed'
  BY <1>s DEF TimerKept, ChangesFollowed
<1>5. NoneAhead'
  <2>1. ASSUME NEW s \in IngestRuns, NEW d \in Docs
        PROVE  ingest'[s].docs[d].mtime <= docSaves
    BY <1>s, <1>1, <1>2 DEF NoneAhead
  <2> QED
    BY <1>s, <2>1 DEF NoneAhead
<1>6. \A s \in IngestRuns : ReadsTruly(ingest'[s], docFiles')
  <2> TAKE s \in IngestRuns
  <2>1. ReadsTruly(ingest[s], docFiles)
    BY DEF IngestInv
  <2> QED
    BY <2>1, <1>1, <1>2
<1>7. ASSUME ~overlapped PROVE IndexFollows'
  <2>0. Alone /\ RecordedHolds /\ UnrecordedHolds
    BY <1>7 DEF IngestInv, IndexFollows
  <2>1. \A s \in IngestRuns : ingest'[s].pc # "free" => Active(s)
    BY <1>1, <1>2 DEF Active
  <2>2. Alone'
    BY <2>0, <2>1 DEF Alone, Active
  <2>3. \A s \in IngestRuns : FollowsBucket(ingest'[s], bucket')
    <3> TAKE s \in IngestRuns
    <3>1. FollowsBucket(ingest[s], bucket)
      BY <1>7 DEF IngestInv, IndexFollows
    <3> QED
      BY <3>1, <1>1, <1>2, <1>7
  <2>4. \A d \in Docs : d \notin undelivered' /\ (\A s \in IngestRuns : d \notin ToWrite(ingest'[s]))
            => d \notin undelivered /\ \A s \in IngestRuns : d \notin ToWrite(ingest[s])
    BY <1>1, <1>2
  <2>5. \A d \in Docs : d \notin undelivered' /\ (\A s \in IngestRuns : d \notin ToDelete(ingest'[s]))
            => d \notin undelivered /\ \A s \in IngestRuns : d \notin ToDelete(ingest[s])
    BY <1>1, <1>2
  <2>6. RecordedHolds'
    BY <2>0, <2>4 DEF RecordedHolds
  <2>7. UnrecordedHolds'
    BY <2>0, <2>5 DEF UnrecordedHolds
  <2> QED
    BY <2>2, <2>3, <2>6, <2>7 DEF IndexFollows
<1> QED
  BY <1>3, <1>4, <1>5, <1>6, <1>7 DEF IngestInv

LEMMA FaultCounted == ASSUME IngestShape, IngestFault PROVE ingestFaults' \in 0 .. MaxIngestFaults
  BY IngestConstants DEF IngestShape, IngestFault

LEMMA ReaddirFailsKeeps == ASSUME IngestInv, NEW r \in IngestRuns, ReaddirFails(r) PROVE IngestInv'
<1>s. IngestShape /\ NoneAhead /\ ReadsTruly(ingest[r], docFiles)
  BY DEF IngestInv
<1>1. PICK y : y = [ingest[r] EXCEPT !.entries = {}]
  OBVIOUS
<1>2. ingest[r] \in IngestRecord
  BY <1>s, IngestRows
<1>3. /\ y \in IngestRecord /\ y.pc = "walk" /\ y.entries = {} /\ y.at = {}
      /\ y.docs = ingest[r].docs
  BY <1>1, <1>2 DEF IngestRecord, ReaddirFails
<1>4. ingest' = [ingest EXCEPT ![r] = y]
  BY <1>1 DEF ReaddirFails
<1>5. ReadsTruly(y, docFiles)
  BY <1>3, <1>s DEF ReadsTruly, ReaddirFails
<1>6. FollowsBucket(y, bucket) /\ ToWrite(ingest[r]) = {} /\ ToDelete(ingest[r]) = {}
  BY <1>3 DEF FollowsBucket, ToWrite, ToDelete, ReaddirFails
<1>7. \A d \in Docs : y.docs[d].mtime <= docSaves
  BY <1>3, <1>s DEF NoneAhead
<1>8. ingestFaults' \in 0 .. MaxIngestFaults
  BY <1>s, FaultCounted DEF ReaddirFails
<1>9. Active(r)
  BY DEF Active, ReaddirFails
<1>10. UNCHANGED <<watchedDir, watcher, work, index, ingestGhosts>>
  BY DEF ReaddirFails
<1>11. /\ UNCHANGED <<docFiles, docSaves, fsEvents, changed, timer, posts, queued, submitted>>
       /\ UNCHANGED <<bucket, points, unfollowed, shrunk, overlapped, undelivered>>
  BY <1>10 DEF watchedDir, watcher, work, index, ingestGhosts
<1> QED
  BY <1>3, <1>4, <1>5, <1>6, <1>7, <1>8, <1>9, <1>11, RunMoves

\* A run that ends has to leave to the undelivered what it did not deliver.
LEMMA EndKeeps ==
    ASSUME IngestInv, NEW r \in IngestRuns, EndRun(r), Active(r),
           UNCHANGED <<watchedDir, watcher, work, index>>,
           UNCHANGED <<unfollowed, shrunk, overlapped>>,
           ingestFaults' \in 0 .. MaxIngestFaults,
           undelivered' = undelivered \cup ToWrite(ingest[r]) \cup ToDelete(ingest[r])
    PROVE  IngestInv'
<1>1. ReadsTruly(NoRun, docFiles) /\ FollowsBucket(NoRun, bucket)
  BY FreeSlot
<1>2. NoRun \in IngestRecord
  BY IngestConstants
<1>3. \A d \in Docs : NoRun.docs[d].mtime <= docSaves
  <2>1. \A d \in Docs : NoRun.docs[d].mtime = 0
    BY DEF NoRun, NoDocs
  <2>2. 0 <= docSaves
    BY IngestConstants DEF IngestInv, IngestShape
  <2> QED
    BY <2>1, <2>2
<1>4. ingest' = [ingest EXCEPT ![r] = NoRun]
  BY DEF EndRun
<1>5. /\ UNCHANGED <<docFiles, docSaves, fsEvents, changed, timer, posts, queued, submitted>>
      /\ UNCHANGED <<bucket, points>>
  BY DEF watchedDir, watcher, work, index
<1> QED
  BY <1>1, <1>2, <1>3, <1>4, <1>5, RunMoves

LEMMA StatFileKeeps ==
    ASSUME IngestInv, NEW r \in IngestRuns, NEW d \in Docs, StatFile(r, d) PROVE IngestInv'
<1>s. IngestShape /\ NoneAhead /\ ReadsTruly(ingest[r], docFiles)
  BY DEF IngestInv
<1>u. /\ ingest[r].pc = "walk" /\ ingest[r].at = {} /\ d \in ingest[r].entries
      /\ UNCHANGED <<watchedDir, watcher, work, index, ingestFaults, ingestGhosts>>
  BY DEF StatFile
<1>0. /\ Active(r) /\ ToWrite(ingest[r]) = {} /\ ToDelete(ingest[r]) = {}
      /\ ingestFaults' \in 0 .. MaxIngestFaults
      /\ UNCHANGED <<unfollowed, undelivered, shrunk, overlapped>>
  BY <1>u, <1>s DEF Active, ToWrite, ToDelete, IngestShape, ingestGhosts
<1>1. CASE docFiles[d] = 0
  <2>1. EndRun(r)
    BY <1>1 DEF StatFile
  <2> QED
    BY <2>1, <1>0, <1>u, EndKeeps
<1>2. CASE docFiles[d] # 0
  <2>1. PICK n : n = [ingest[r].docs EXCEPT ![d].mtime = docFiles[d]]
    OBVIOUS
  <2>2. PICK y : y = [ingest[r] EXCEPT !.at = {d}, !.docs = n]
    OBVIOUS
  <2>3. ingest[r] \in IngestRecord /\ docFiles[d] \in Revisions
    BY <1>s, IngestRows DEF IngestShape
  <2>4. ingest[r].docs \in [Docs -> Seen]
    BY <2>3 DEF IngestRecord
  <2>5. n \in [Docs -> Seen]
    BY <2>4, <2>3, <2>1 DEF Seen
  <2>6. \A e \in Docs : e # d => n[e] = ingest[r].docs[e]
    BY <2>4, <2>1
  <2>7. n[d].mtime = docFiles[d]
    BY <2>4, <2>1 DEF Seen
  <2>8. /\ y \in IngestRecord /\ y.pc = "walk" /\ y.at = {d} /\ y.docs = n
        /\ y.entries = ingest[r].entries
    BY <2>2, <2>3, <2>5, <1>u DEF IngestRecord
  <2>9. ingest' = [ingest EXCEPT ![r] = y]
    BY <1>2, <2>1, <2>2, <2>3 DEF StatFile, IngestShape, IngestRecord
  <2>10. ReadsTruly(y, docFiles)
    <3>1. ASSUME NEW e \in Docs, y.docs[e].mtime # 0, docFiles[e] = y.docs[e].mtime
          PROVE  e \in y.at \/ y.docs[e].content = y.docs[e].mtime
      BY <3>1, <2>6, <2>8, <1>s, <1>u DEF ReadsTruly
    <3> QED
      BY <3>1, <2>8, <1>u DEF ReadsTruly
  <2>11. \A e \in Docs : y.docs[e].mtime <= docSaves
    <3> TAKE e \in Docs
    <3>1. CASE e = d
      BY <3>1, <2>7, <2>8, <1>s DEF NoneAhead
    <3>2. CASE e # d
      BY <3>2, <2>6, <2>8, <1>s DEF NoneAhead
    <3> QED
      BY <3>1, <3>2
  <2>12. FollowsBucket(y, bucket)
    BY <2>8 DEF FollowsBucket
  <2>13. /\ UNCHANGED <<docFiles, docSaves, fsEvents, changed, timer, posts, queued, submitted>>
         /\ UNCHANGED <<bucket, points>>
    BY <1>u DEF watchedDir, watcher, work, index
  <2> QED
    BY <1>0, <2>8, <2>9, <2>10, <2>11, <2>12, <2>13, RunMoves
<1> QED
  BY <1>1, <1>2

LEMMA ReadFileKeeps ==
    ASSUME IngestInv, NEW r \in IngestRuns, NEW d \in Docs, ReadFile(r, d) PROVE IngestInv'
<1>s. IngestShape /\ NoneAhead /\ ReadsTruly(ingest[r], docFiles)
  BY DEF IngestInv
<1>u. /\ d \in ingest[r].at
      /\ UNCHANGED <<watchedDir, watcher, work, index, ingestFaults, ingestGhosts>>
  BY DEF ReadFile
<1>1. PICK z : z = IF docFiles[d] = 0 THEN NoDocs[d]
                   ELSE [ingest[r].docs[d] EXCEPT !.content = docFiles[d]]
  OBVIOUS
<1>2. PICK n : n = [ingest[r].docs EXCEPT ![d] = z]
  OBVIOUS
<1>3. PICK y : y = [ingest[r] EXCEPT !.at = {}, !.entries = ingest[r].entries \ {d}, !.docs = n]
  OBVIOUS
<1>4. ingest[r] \in IngestRecord /\ docFiles[d] \in Revisions /\ ingest[r].docs[d] \in Seen
  BY <1>s, IngestRows DEF IngestShape
<1>5. z \in Seen /\ (z.mtime = 0 \/ z = [ingest[r].docs[d] EXCEPT !.content = docFiles[d]])
  BY <1>1, <1>4, IngestConstants DEF Seen, NoDocs
<1>6. /\ z.mtime = 0 \/ z.mtime = ingest[r].docs[d].mtime
      /\ z.mtime = 0 \/ z.content = docFiles[d]
  BY <1>5, <1>4 DEF Seen
<1>7. ingest[r].docs \in [Docs -> Seen]
  BY <1>4 DEF IngestRecord
<1>8. n \in [Docs -> Seen] /\ n[d] = z /\ \A e \in Docs : e # d => n[e] = ingest[r].docs[e]
  BY <1>7, <1>2, <1>5
<1>9. ingest[r].pc = "walk"
  BY <1>u, <1>s DEF ReadsTruly
<1>10. /\ y \in IngestRecord /\ y.pc = "walk" /\ y.at = {} /\ y.docs = n
       /\ y.entries = ingest[r].entries \ {d}
  BY <1>3, <1>4, <1>8, <1>9 DEF IngestRecord
<1>11. ingest' = [ingest EXCEPT ![r] = y]
  BY <1>1, <1>2, <1>3, <1>4 DEF ReadFile, IngestShape, IngestRecord
<1>12. ReadsTruly(y, docFiles)
  <2>1. ASSUME NEW e \in Docs, y.docs[e].mtime # 0, docFiles[e] = y.docs[e].mtime
        PROVE  y.docs[e].content = y.docs[e].mtime
    <3>1. CASE e = d
      BY <3>1, <2>1, <1>6, <1>8, <1>10
    <3>2. CASE e # d
      <4>1. y.docs[e] = ingest[r].docs[e] /\ e \notin ingest[r].at
        BY <3>2, <1>8, <1>10, <1>s, <1>u DEF ReadsTruly
      <4> QED
        BY <4>1, <2>1, <1>s DEF ReadsTruly
    <3> QED
      BY <3>1, <3>2
  <2> QED
    BY <2>1, <1>10 DEF ReadsTruly
<1>13. \A e \in Docs : y.docs[e].mtime <= docSaves
  <2> TAKE e \in Docs
  <2>1. ingest[r].docs[e].mtime <= docSaves /\ 0 <= docSaves
    BY <1>s, IngestConstants DEF NoneAhead, IngestShape
  <2> QED
    BY <2>1, <1>6, <1>8, <1>10
<1>14. /\ FollowsBucket(y, bucket) /\ ToWrite(ingest[r]) = {} /\ ToDelete(ingest[r]) = {}
       /\ Active(r)
  BY <1>9, <1>10 DEF FollowsBucket, ToWrite, ToDelete, Active
<1>15. /\ UNCHANGED <<docFiles, docSaves, fsEvents, changed, timer, posts, queued, submitted>>
       /\ UNCHANGED <<bucket, points, unfollowed, undelivered, shrunk, overlapped>>
       /\ ingestFaults' \in 0 .. MaxIngestFaults
  BY <1>u, <1>s DEF watchedDir, watcher, work, index, ingestGhosts, IngestShape
<1> QED
  BY <1>10, <1>11, <1>12, <1>13, <1>14, <1>15, RunMoves

LEMMA CompareKeeps == ASSUME IngestInv, NEW r \in IngestRuns, Compare(r) PROVE IngestInv'
<1>s. IngestShape /\ NoneAhead /\ ReadsTruly(ingest[r], docFiles)
  BY DEF IngestInv
<1>u. /\ ingest[r].pc = "walk" /\ ingest[r].entries = {}
      /\ UNCHANGED <<watchedDir, watcher, work, index, ingestFaults, ingestGhosts>>
  BY DEF Compare
<1>1. PICK w : w = WiredDocs(NewDocs(ingest[r].docs, bucket), Modified(ingest[r].docs, bucket))
  OBVIOUS
<1>2. PICK g : g = DeletedDocs(ingest[r].docs, bucket)
  OBVIOUS
<1>3. PICK y : y = [ingest[r] EXCEPT !.pc = "compared", !.write = w, !.delete = g]
  OBVIOUS
<1>4. w \subseteq Docs /\ g \subseteq Docs
  BY <1>1, <1>2 DEF WiredDocs, NewDocs, Modified, DeletedDocs
<1>5. ingest[r] \in IngestRecord
  BY <1>s, IngestRows
<1>6. /\ y \in IngestRecord /\ y.pc = "compared" /\ y.write = w /\ y.delete = g
      /\ y.docs = ingest[r].docs /\ y.at = ingest[r].at /\ y.entries = {}
  BY <1>3, <1>4, <1>5, <1>u DEF IngestRecord
<1>7. ingest' = [ingest EXCEPT ![r] = y]
  BY <1>1, <1>2, <1>3, <1>5 DEF Compare, IngestShape, IngestRecord
<1>8. ReadsTruly(y, docFiles)
  BY <1>6, <1>s, <1>u DEF ReadsTruly
<1>9. FollowsBucket(y, bucket)
  BY <1>6, <1>1, <1>2 DEF FollowsBucket
<1>10. \A e \in Docs : y.docs[e].mtime <= docSaves
  BY <1>6, <1>s DEF NoneAhead
<1>11. ToWrite(ingest[r]) = {} /\ ToDelete(ingest[r]) = {} /\ Active(r)
  BY <1>u DEF ToWrite, ToDelete, Active
<1>12. /\ UNCHANGED <<docFiles, docSaves, fsEvents, changed, timer, posts, queued, submitted>>
       /\ UNCHANGED <<bucket, points, unfollowed, undelivered, shrunk, overlapped>>
       /\ ingestFaults' \in 0 .. MaxIngestFaults
  BY <1>u, <1>s DEF watchedDir, watcher, work, index, ingestGhosts, IngestShape
<1> QED
  BY <1>6, <1>7, <1>8, <1>9, <1>10, <1>11, <1>12, RunMoves

LEMMA FinishKeeps == ASSUME IngestInv, NEW r \in IngestRuns, Finish(r) PROVE IngestInv'
<1>1. /\ EndRun(r) /\ Active(r) /\ ToWrite(ingest[r]) = {} /\ ToDelete(ingest[r]) = {}
      /\ UNCHANGED <<watchedDir, watcher, work, index, ingestFaults, ingestGhosts>>
  BY DEF Finish, Active, ToWrite, ToDelete
<1>2. ingestFaults' \in 0 .. MaxIngestFaults
  BY <1>1 DEF IngestInv, IngestShape
<1> QED
  BY <1>1, <1>2, EndKeeps DEF ingestGhosts

LEMMA IngestFailsKeeps == ASSUME IngestInv, NEW r \in IngestRuns, IngestFails(r) PROVE IngestInv'
<1>1. /\ EndRun(r) /\ Active(r)
      /\ UNCHANGED <<watchedDir, watcher, work, index, unfollowed, shrunk, overlapped>>
  BY DEF IngestFails
<1>2. ingestFaults' \in 0 .. MaxIngestFaults
  BY FaultCounted DEF IngestFails, IngestInv
<1>3. undelivered' = undelivered \cup ToWrite(ingest[r]) \cup ToDelete(ingest[r])
  BY DEF IngestFails, ToWrite, ToDelete
<1> QED
  BY <1>1, <1>2, <1>3, EndKeeps

LEMMA StartIngestKeeps == ASSUME IngestInv, NEW r \in IngestRuns, StartIngest(r) PROVE IngestInv'
<1>s. IngestShape /\ NoneAhead /\ TimerKept /\ ChangesFollowed
  BY DEF IngestInv
<1>u. /\ ~Active(r) /\ queued > 0 /\ queued' = queued - 1
      /\ overlapped' = (overlapped \/ \E s \in IngestRuns : Active(s))
      /\ UNCHANGED <<watchedDir, watcher, submitted, index, ingestFaults, unfollowed,
                     undelivered, shrunk>>
  BY DEF StartIngest
<1>v. /\ UNCHANGED <<docFiles, docSaves, fsEvents, changed, timer, posts, submitted>>
      /\ UNCHANGED <<bucket, points, ingestFaults, unfollowed, undelivered, shrunk>>
  BY <1>u DEF watchedDir, watcher, index
<1>1. PICK es : es = {d \in Docs : docFiles[d] # 0}
  OBVIOUS
<1>2. PICK y : y = [NoRun EXCEPT !.pc = "walk", !.entries = es]
  OBVIOUS
<1>3. /\ y \in IngestRecord /\ y.pc = "walk" /\ y.entries = es /\ y.at = {} /\ y.docs = NoDocs
  BY <1>1, <1>2, IngestConstants DEF IngestRecord, NoRun
<1>4. ingest' = [ingest EXCEPT ![r] = y]
  BY <1>1, <1>2 DEF StartIngest
<1>5. \A s \in IngestRuns : s # r => ingest'[s] = ingest[s]
  BY <1>s, <1>4 DEF IngestShape
<1>6. ingest'[r] = y
  BY <1>s, <1>4 DEF IngestShape
<1>7. \A d \in Docs : y.docs[d].mtime = 0
  BY <1>3 DEF NoDocs
<1>8. ReadsTruly(y, docFiles) /\ FollowsBucket(y, bucket) /\ ToWrite(y) = {} /\ ToDelete(y) = {}
  BY <1>3, <1>7 DEF ReadsTruly, FollowsBucket, ToWrite, ToDelete
<1>9. IngestShape'
  <2>1. ingest' \in [IngestRuns -> IngestRecord]
    BY <1>s, <1>3, <1>4 DEF IngestShape
  <2>2. queued' \in 0 .. MaxIngests /\ queued' <= submitted
    BY <1>s, <1>u, IngestConstants DEF IngestShape
  <2> QED
    BY <1>s, <1>v, <2>1, <2>2 DEF IngestShape
<1>10. TimerKept' /\ ChangesFollowed'
  BY <1>s, <1>v DEF TimerKept, ChangesFollowed
<1>11. NoneAhead'
  <2>1. 0 <= docSaves
    BY <1>s, IngestConstants DEF IngestShape
  <2>2. ASSUME NEW s \in IngestRuns, NEW d \in Docs PROVE ingest'[s].docs[d].mtime <= docSaves
    BY <2>1, <1>s, <1>5, <1>6, <1>7 DEF NoneAhead
  <2> QED
    BY <1>s, <1>v, <2>2 DEF NoneAhead
<1>12. \A s \in IngestRuns : ReadsTruly(ingest'[s], docFiles')
  <2> TAKE s \in IngestRuns
  <2>1. ReadsTruly(ingest[s], docFiles)
    BY DEF IngestInv
  <2> QED
    BY <2>1, <1>5, <1>6, <1>8, <1>v
<1>13. ASSUME ~overlapped' PROVE IndexFollows'
  <2>0. ~overlapped /\ \A s \in IngestRuns : ~Active(s)
    BY <1>13, <1>u
  <2>1. IndexFollows
    BY <2>0 DEF IngestInv
  <2>2. Alone'
    BY <2>0, <1>5 DEF Alone, Active
  <2>3. \A s \in IngestRuns : FollowsBucket(ingest'[s], bucket')
    <3> TAKE s \in IngestRuns
    <3>1. FollowsBucket(ingest[s], bucket)
      BY <2>1 DEF IndexFollows
    <3> QED
      BY <3>1, <1>5, <1>6, <1>8, <1>v
  <2>4. \A s \in IngestRuns : ToWrite(ingest[s]) = {} /\ ToDelete(ingest[s]) = {}
    BY <2>0 DEF Active, ToWrite, ToDelete
  <2>5. RecordedHolds'
    BY <2>1, <2>4, <1>v DEF IndexFollows, RecordedHolds
  <2>6. UnrecordedHolds'
    BY <2>1, <2>4, <1>v DEF IndexFollows, UnrecordedHolds
  <2> QED
    BY <2>2, <2>3, <2>5, <2>6 DEF IndexFollows
<1>14. overlapped' \in BOOLEAN
  BY <1>u DEF IngestInv
<1> QED
  BY <1>9, <1>10, <1>11, <1>12, <1>13, <1>14 DEF IngestInv

\* A step of run r that records or delivers what it holds, the index apart.
LEMMA Delivers ==
    ASSUME IngestInv, NEW r \in IngestRuns, NEW y \in IngestRecord,
           ingest' = [ingest EXCEPT ![r] = y], y.docs = ingest[r].docs,
           y.at = ingest[r].at, y.entries = ingest[r].entries,
           ingest[r].pc \in {"compared", "deliver"}, y.pc = "deliver",
           bucket' \in [Docs -> Revisions], points' \in [Docs -> [Chunks -> Revisions]],
           \A d \in Docs : bucket'[d] <= docSaves,
           UNCHANGED <<docFiles, docSaves, fsEvents, changed, timer, posts, queued, submitted>>,
           UNCHANGED <<ingestFaults, unfollowed, overlapped>>,
           ~overlapped => /\ FollowsBucket(y, bucket') /\ RecordedHolds' /\ UnrecordedHolds'
                          /\ \A s \in IngestRuns : s # r => ~Active(s)
    PROVE  IngestInv'
<1>s. IngestShape /\ TimerKept /\ ChangesFollowed /\ NoneAhead
  BY DEF IngestInv
<1>1. \A s \in IngestRuns : s # r => ingest'[s] = ingest[s]
  BY <1>s DEF IngestShape
<1>2. ingest'[r] = y
  BY <1>s DEF IngestShape
<1>3. IngestShape'
  <2>1. ingest' \in [IngestRuns -> IngestRecord]
    BY <1>s DEF IngestShape
  <2> QED
    BY <1>s, <2>1 DEF IngestShape
<1>4. TimerKept' /\ ChangesFollowed'
  BY <1>s DEF TimerKept, ChangesFollowed
<1>5. NoneAhead'
  <2>1. ASSUME NEW s \in IngestRuns, NEW d \in Docs
        PROVE  ingest'[s].docs[d].mtime <= docSaves
    BY <1>s, <1>1, <1>2 DEF NoneAhead
  <2> QED
    BY <1>s, <2>1 DEF NoneAhead
<1>6. \A s \in IngestRuns : ReadsTruly(ingest'[s], docFiles')
  <2> TAKE s \in IngestRuns
  <2>1. ReadsTruly(ingest[s], docFiles)
    BY DEF IngestInv
  <2>2. ReadsTruly(ingest[r], docFiles) => ReadsTruly(y, docFiles)
    BY DEF ReadsTruly
  <2> QED
    BY <2>1, <2>2, <1>1, <1>2
<1>7. ASSUME ~overlapped PROVE IndexFollows'
  <2>1. \A s \in IngestRuns : s # r => ~Active(s)
    BY <1>7
  <2>2. Alone'
    BY <2>1, <1>1 DEF Alone, Active
  <2>3. \A s \in IngestRuns : FollowsBucket(ingest'[s], bucket')
    <3> TAKE s \in IngestRuns
    <3>1. s # r => FollowsBucket(ingest[s], bucket')
      BY <2>1 DEF FollowsBucket, Active
    <3> QED
      BY <3>1, <1>1, <1>2, <1>7
  <2> QED
    BY <2>2, <2>3, <1>7 DEF IndexFollows
<1> QED
  BY <1>3, <1>4, <1>5, <1>6, <1>7 DEF IngestInv

\* While no two runs have overlapped, the others of an active run are free.
LEMMA OthersFree ==
    ASSUME IngestInv, ~overlapped, NEW r \in IngestRuns, Active(r)
    PROVE  /\ \A s \in IngestRuns : s # r => ~Active(s)
           /\ \A s \in IngestRuns : s # r => ToWrite(ingest[s]) = {} /\ ToDelete(ingest[s]) = {}
<1>1. \A s \in IngestRuns : s # r => ~Active(s)
  BY DEF IngestInv, IndexFollows, Alone
<1> QED
  BY <1>1 DEF Active, ToWrite, ToDelete

LEMMA RecordStateKeeps == ASSUME IngestInv, NEW r \in IngestRuns, RecordState(r) PROVE IngestInv'
<1>s. IngestShape /\ NoneAhead
  BY DEF IngestInv
<1>u. /\ ingest[r].pc = "compared" /\ bucket' = [d \in Docs |-> ingest[r].docs[d].mtime]
      /\ undelivered' = undelivered \cup Unwired(r)
      /\ UNCHANGED <<docFiles, docSaves, fsEvents, changed, timer, posts, queued, submitted>>
      /\ UNCHANGED <<points, ingestFaults, unfollowed, shrunk, overlapped>>
  BY DEF RecordState, watchedDir, watcher, work
<1>1. PICK y : y = [ingest[r] EXCEPT !.pc = "deliver"]
  OBVIOUS
<1>2. ingest[r] \in IngestRecord
  BY <1>s, IngestRows
<1>3. /\ y \in IngestRecord /\ y.pc = "deliver" /\ y.docs = ingest[r].docs
      /\ y.write = ingest[r].write /\ y.delete = ingest[r].delete
      /\ y.at = ingest[r].at /\ y.entries = ingest[r].entries
  BY <1>1, <1>2 DEF IngestRecord
<1>4. ingest' = [ingest EXCEPT ![r] = y]
  BY <1>1, <1>2 DEF RecordState, IngestShape, IngestRecord
<1>5. \A s \in IngestRuns : s # r => ingest'[s] = ingest[s]
  BY <1>s, <1>4 DEF IngestShape
<1>6. ingest'[r] = y
  BY <1>s, <1>4 DEF IngestShape
<1>7. \A d \in Docs : bucket'[d] = ingest[r].docs[d].mtime
  BY <1>u
<1>8. bucket' \in [Docs -> Revisions] /\ \A d \in Docs : bucket'[d] <= docSaves
  BY <1>s, <1>u, IngestRows DEF NoneAhead
<1>9. points' \in [Docs -> [Chunks -> Revisions]]
  BY <1>s, <1>u DEF IngestShape
<1>10. ASSUME ~overlapped
       PROVE  /\ FollowsBucket(y, bucket') /\ RecordedHolds' /\ UnrecordedHolds'
              /\ \A s \in IngestRuns : s # r => ~Active(s)
  <2>a. Active(r)
    BY <1>u DEF Active
  <2>b. /\ \A s \in IngestRuns : s # r => ~Active(s)
        /\ \A s \in IngestRuns : ToWrite(ingest[s]) = {} /\ ToDelete(ingest[s]) = {}
    BY <2>a, <1>10, <1>u, OthersFree DEF ToWrite, ToDelete
  <2>0. RecordedHolds /\ UnrecordedHolds /\ FollowsBucket(ingest[r], bucket)
    BY <1>10 DEF IngestInv, IndexFollows
  <2>1. PICK new : new = NewDocs(ingest[r].docs, bucket)
    OBVIOUS
  <2>2. PICK modified : modified = Modified(ingest[r].docs, bucket)
    OBVIOUS
  <2>3. /\ y.write = (IF modified # {} THEN modified ELSE new)
        /\ y.delete = DeletedDocs(ingest[r].docs, bucket)
    BY <2>0, <2>1, <2>2, <1>3, <1>u DEF FollowsBucket, WiredDocs
  <2>4. \A d \in Docs : d \in new <=> ingest[r].docs[d].mtime # 0 /\ bucket[d] = 0
    BY <2>1 DEF NewDocs
  <2>5. \A d \in Docs : d \in modified <=>
            /\ ingest[r].docs[d].mtime # 0 /\ bucket[d] # 0
            /\ bucket[d] # ingest[r].docs[d].mtime
    BY <2>2 DEF Modified
  <2>6. \A d \in Docs : d \in y.delete <=> ingest[r].docs[d].mtime = 0 /\ bucket[d] # 0
    BY <2>3 DEF DeletedDocs
  <2>7. y.write \subseteq Docs /\ y.delete \subseteq Docs
    BY <1>3 DEF IngestRecord
  <2>8. FollowsBucket(y, bucket')
    <3>1. \A d \in y.write : y.docs[d].mtime # 0
      BY <2>3, <2>4, <2>5, <2>7, <1>3
    <3>2. \A d \in y.delete : y.docs[d].mtime = 0
      BY <2>6, <2>7, <1>3
    <3> QED
      BY <3>1, <3>2, <1>3, <1>7 DEF FollowsBucket
  <2>9. undelivered' = undelivered \cup (new \ y.write)
    BY <2>1, <1>3, <1>u DEF Unwired
  <2>10. ToWrite(y) = y.write /\ ToDelete(y) = y.delete
    BY <1>3 DEF ToWrite, ToDelete
  <2>11. RecordedHolds'
    <3> SUFFICES ASSUME NEW d \in Docs, d \notin undelivered', docFiles[d] # 0,
                        bucket'[d] = docFiles[d],
                        \A s \in IngestRuns : d \notin ToWrite(ingest'[s])
                 PROVE  Indexed(points[d], docFiles[d], d \in shrunk)
      BY <1>u DEF RecordedHolds
    <3>1. d \notin y.write
      BY <1>6, <2>10
    <3>2. d \notin new /\ d \notin undelivered
      BY <3>1, <2>9
    <3>3. ingest[r].docs[d].mtime # 0 /\ ingest[r].docs[d].mtime = docFiles[d]
      BY <1>7
    <3>4. d \notin modified
      BY <3>1, <2>3
    <3>5. bucket[d] = docFiles[d]
      BY <3>2, <3>3, <3>4, <2>4, <2>5
    <3> QED
      BY <3>2, <3>5, <2>0, <2>b DEF RecordedHolds
  <2>12. UnrecordedHolds'
    <3> SUFFICES ASSUME NEW d \in Docs, d \notin undelivered', bucket'[d] = 0,
                        \A s \in IngestRuns : d \notin ToDelete(ingest'[s])
                 PROVE  \A i \in Chunks : points[d][i] = 0
      BY <1>u DEF UnrecordedHolds
    <3>1. d \notin y.delete /\ d \notin undelivered /\ ingest[r].docs[d].mtime = 0
      BY <1>6, <1>7, <2>9, <2>10
    <3>2. bucket[d] = 0
      BY <3>1, <2>6
    <3> QED
      BY <3>1, <3>2, <2>0, <2>b DEF UnrecordedHolds
  <2> QED
    BY <2>8, <2>11, <2>12, <2>b
<1> QED
  BY <1>u, <1>3, <1>4, <1>8, <1>9, <1>10, Delivers

LEMMA UpsertPointsKeeps == ASSUME IngestInv, NEW r \in IngestRuns, UpsertPoints(r) PROVE IngestInv'
<1>s. IngestShape /\ NoneAhead /\ ReadsTruly(ingest[r], docFiles)
  BY DEF IngestInv
<1>u. /\ ingest[r].pc = "deliver"
      /\ points' = [d \in Docs |-> IF d \in ingest[r].write
                                   THEN Upserted(d, ingest[r].docs[d].content)
                                   ELSE points[d]]
      /\ undelivered' = undelivered \ ingest[r].write
      /\ shrunk' = shrunk \cup
                   {d \in ingest[r].write : \E i \in Chunks :
                      /\ i > ChunksOf[ingest[r].docs[d].content]
                      /\ points[d][i] # 0}
      /\ UNCHANGED <<docFiles, docSaves, fsEvents, changed, timer, posts, queued, submitted>>
      /\ UNCHANGED <<bucket, ingestFaults, unfollowed, overlapped>>
  BY DEF UpsertPoints, watchedDir, watcher, work
<1>1. PICK y : y = [ingest[r] EXCEPT !.write = {}]
  OBVIOUS
<1>2. ingest[r] \in IngestRecord
  BY <1>s, IngestRows
<1>3. /\ y \in IngestRecord /\ y.pc = "deliver" /\ y.docs = ingest[r].docs
      /\ y.write = {} /\ y.delete = ingest[r].delete
      /\ y.at = ingest[r].at /\ y.entries = ingest[r].entries
  BY <1>1, <1>2, <1>u DEF IngestRecord
<1>4. ingest' = [ingest EXCEPT ![r] = y]
  BY <1>1, <1>2 DEF UpsertPoints, IngestShape, IngestRecord
<1>5. \A s \in IngestRuns : s # r => ingest'[s] = ingest[s]
  BY <1>s, <1>4 DEF IngestShape
<1>6. ingest'[r] = y
  BY <1>s, <1>4 DEF IngestShape
<1>7. points' \in [Docs -> [Chunks -> Revisions]]
  <2> SUFFICES ASSUME NEW d \in Docs PROVE points'[d] \in [Chunks -> Revisions]
    BY <1>u
  <2>1. points[d] \in [Chunks -> Revisions] /\ ingest[r].docs[d].content \in Revisions
    BY <1>s, IngestRows DEF IngestShape
  <2>2. Upserted(d, ingest[r].docs[d].content) \in [Chunks -> Revisions]
    BY <2>1 DEF Upserted
  <2> QED
    BY <2>1, <2>2, <1>u
<1>8. bucket' \in [Docs -> Revisions] /\ \A d \in Docs : bucket'[d] <= docSaves
  BY <1>s, <1>u DEF NoneAhead, IngestShape
<1>10. ASSUME ~overlapped
       PROVE  /\ FollowsBucket(y, bucket') /\ RecordedHolds' /\ UnrecordedHolds'
              /\ \A s \in IngestRuns : s # r => ~Active(s)
  <2>a. Active(r)
    BY <1>u DEF Active
  <2>b. \A s \in IngestRuns : s # r => ~Active(s) /\ ToWrite(ingest[s]) = {} /\ ToDelete(ingest[s]) = {}
    BY <2>a, <1>10, OthersFree
  <2>0. RecordedHolds /\ UnrecordedHolds /\ FollowsBucket(ingest[r], bucket)
    BY <1>10 DEF IngestInv, IndexFollows
  <2>1. FollowsBucket(y, bucket')
    BY <2>0, <1>3, <1>u DEF FollowsBucket
  <2>2. /\ \A d \in Docs : bucket[d] = ingest[r].docs[d].mtime
        /\ \A d \in ingest[r].write : ingest[r].docs[d].mtime # 0
    BY <2>0, <1>u DEF FollowsBucket
  <2>3. /\ ToWrite(ingest[r]) = ingest[r].write /\ ToDelete(ingest[r]) = ingest[r].delete
        /\ ToWrite(y) = {} /\ ToDelete(y) = ingest[r].delete
    BY <1>u, <1>3 DEF ToWrite, ToDelete
  <2>4. RecordedHolds'
    <3> SUFFICES ASSUME NEW d \in Docs, d \notin undelivered', docFiles[d] # 0,
                        bucket[d] = docFiles[d],
                        \A s \in IngestRuns : d \notin ToWrite(ingest'[s])
                 PROVE  Indexed(points'[d], docFiles[d], d \in shrunk')
      BY <1>u DEF RecordedHolds
    <3>1. CASE d \notin ingest[r].write
      <4>1. \A s \in IngestRuns : d \notin ToWrite(ingest[s])
        BY <3>1, <2>b, <2>3
      <4>2. d \notin undelivered /\ points'[d] = points[d] /\ (d \in shrunk => d \in shrunk')
        BY <3>1, <1>u
      <4>3. Indexed(points[d], docFiles[d], d \in shrunk)
        BY <4>1, <4>2, <2>0 DEF RecordedHolds
      <4> QED
        BY <4>2, <4>3 DEF Indexed
    <3>2. CASE d \in ingest[r].write
      <4>0. ingest[r].docs[d].mtime = docFiles[d] /\ ingest[r].docs[d].mtime # 0 /\ d \notin ingest[r].at
        BY <2>2, <1>s, <1>u DEF ReadsTruly
      <4>1. ingest[r].docs[d].content = docFiles[d]
        BY <4>0, <1>s DEF ReadsTruly
      <4>2. points'[d] = Upserted(d, docFiles[d])
        BY <3>2, <4>1, <1>u
      <4>3. ASSUME NEW i \in Chunks
            PROVE  \/ i <= ChunksOf[docFiles[d]] /\ points'[d][i] = docFiles[d]
                   \/ i > ChunksOf[docFiles[d]] /\ (points'[d][i] = 0 \/ d \in shrunk')
        <5>0. docFiles[d] \in 1 .. MaxSaves /\ i \in Nat
          BY <1>s, IngestAssumption DEF IngestShape, Revisions, Chunks
        <5>1. ChunksOf[docFiles[d]] \in Nat
          BY <5>0, IngestAssumption
        <5>2. CASE i <= ChunksOf[docFiles[d]]
          BY <5>2, <4>2 DEF Upserted
        <5>3. CASE ~(i <= ChunksOf[docFiles[d]])
          <6>1. points'[d][i] = points[d][i] /\ i > ChunksOf[docFiles[d]]
            BY <5>0, <5>1, <5>3, <4>2 DEF Upserted
          <6>2. points[d][i] # 0 => d \in shrunk'
            BY <6>1, <3>2, <4>1, <1>u
          <6> QED
            BY <6>1, <6>2
        <5> QED
          BY <5>2, <5>3
      <4> QED
        BY <4>3 DEF Indexed
    <3> QED
      BY <3>1, <3>2
  <2>5. UnrecordedHolds'
    <3> SUFFICES ASSUME NEW d \in Docs, d \notin undelivered', bucket[d] = 0,
                        \A s \in IngestRuns : d \notin ToDelete(ingest'[s])
                 PROVE  \A i \in Chunks : points'[d][i] = 0
      BY <1>u DEF UnrecordedHolds
    <3>1. d \notin ingest[r].write
      BY <2>2
    <3>2. d \notin undelivered /\ points'[d] = points[d]
      BY <3>1, <1>u
    <3>3. \A s \in IngestRuns : d \notin ToDelete(ingest[s])
      BY <2>3, <1>5, <1>6
    <3> QED
      BY <3>2, <3>3, <2>0 DEF UnrecordedHolds
  <2> QED
    BY <2>1, <2>4, <2>5, <2>b
<1> QED
  BY <1>u, <1>3, <1>4, <1>7, <1>8, <1>10, Delivers

LEMMA DeletePointsKeeps == ASSUME IngestInv, NEW r \in IngestRuns, DeletePoints(r) PROVE IngestInv'
<1>s. IngestShape /\ NoneAhead
  BY DEF IngestInv
<1>u. /\ ingest[r].pc = "deliver"
      /\ points' = [d \in Docs |-> IF d \in ingest[r].delete
                                   THEN [i \in Chunks |-> 0] ELSE points[d]]
      /\ undelivered' = undelivered \ ingest[r].delete
      /\ shrunk' = shrunk \ ingest[r].delete
      /\ UNCHANGED <<docFiles, docSaves, fsEvents, changed, timer, posts, queued, submitted>>
      /\ UNCHANGED <<bucket, ingestFaults, unfollowed, overlapped>>
  BY DEF DeletePoints, watchedDir, watcher, work
<1>1. PICK y : y = [ingest[r] EXCEPT !.delete = {}]
  OBVIOUS
<1>2. ingest[r] \in IngestRecord
  BY <1>s, IngestRows
<1>3. /\ y \in IngestRecord /\ y.pc = "deliver" /\ y.docs = ingest[r].docs
      /\ y.write = ingest[r].write /\ y.delete = {}
      /\ y.at = ingest[r].at /\ y.entries = ingest[r].entries
  BY <1>1, <1>2, <1>u DEF IngestRecord
<1>4. ingest' = [ingest EXCEPT ![r] = y]
  BY <1>1, <1>2 DEF DeletePoints, IngestShape, IngestRecord
<1>5. \A s \in IngestRuns : s # r => ingest'[s] = ingest[s]
  BY <1>s, <1>4 DEF IngestShape
<1>6. ingest'[r] = y
  BY <1>s, <1>4 DEF IngestShape
<1>7. points' \in [Docs -> [Chunks -> Revisions]]
  <2> SUFFICES ASSUME NEW d \in Docs PROVE points'[d] \in [Chunks -> Revisions]
    BY <1>u
  <2>1. points[d] \in [Chunks -> Revisions] /\ [i \in Chunks |-> 0] \in [Chunks -> Revisions]
    BY <1>s, IngestConstants DEF IngestShape
  <2> QED
    BY <2>1, <1>u
<1>8. bucket' \in [Docs -> Revisions] /\ \A d \in Docs : bucket'[d] <= docSaves
  BY <1>s, <1>u DEF NoneAhead, IngestShape
<1>10. ASSUME ~overlapped
       PROVE  /\ FollowsBucket(y, bucket') /\ RecordedHolds' /\ UnrecordedHolds'
              /\ \A s \in IngestRuns : s # r => ~Active(s)
  <2>a. Active(r)
    BY <1>u DEF Active
  <2>b. \A s \in IngestRuns : s # r => ~Active(s) /\ ToWrite(ingest[s]) = {} /\ ToDelete(ingest[s]) = {}
    BY <2>a, <1>10, OthersFree
  <2>0. RecordedHolds /\ UnrecordedHolds /\ FollowsBucket(ingest[r], bucket)
    BY <1>10 DEF IngestInv, IndexFollows
  <2>1. FollowsBucket(y, bucket')
    BY <2>0, <1>3, <1>u DEF FollowsBucket
  <2>2. \A d \in ingest[r].delete : d \in Docs => bucket[d] = 0
    BY <2>0, <1>u DEF FollowsBucket
  <2>3. /\ ToWrite(ingest[r]) = ingest[r].write /\ ToDelete(ingest[r]) = ingest[r].delete
        /\ ToWrite(y) = ingest[r].write /\ ToDelete(y) = {}
    BY <1>u, <1>3 DEF ToWrite, ToDelete
  <2>4. RecordedHolds'
    <3> SUFFICES ASSUME NEW d \in Docs, d \notin undelivered', docFiles[d] # 0,
                        bucket[d] = docFiles[d],
                        \A s \in IngestRuns : d \notin ToWrite(ingest'[s])
                 PROVE  Indexed(points'[d], docFiles[d], d \in shrunk')
      BY <1>u DEF RecordedHolds
    <3>1. d \notin ingest[r].delete
      BY <2>2
    <3>2. /\ d \notin undelivered /\ points'[d] = points[d] /\ (d \in shrunk => d \in shrunk')
          /\ \A s \in IngestRuns : d \notin ToWrite(ingest[s])
      BY <3>1, <1>u, <1>5, <1>6, <2>3
    <3>3. Indexed(points[d], docFiles[d], d \in shrunk)
      BY <3>2, <2>0 DEF RecordedHolds
    <3> QED
      BY <3>2, <3>3 DEF Indexed
  <2>5. UnrecordedHolds'
    <3> SUFFICES ASSUME NEW d \in Docs, d \notin undelivered', bucket[d] = 0,
                        \A s \in IngestRuns : d \notin ToDelete(ingest'[s])
                 PROVE  \A i \in Chunks : points'[d][i] = 0
      BY <1>u DEF UnrecordedHolds
    <3>1. CASE d \in ingest[r].delete
      BY <3>1, <1>u
    <3>2. CASE d \notin ingest[r].delete
      <4>1. d \notin undelivered /\ points'[d] = points[d]
        BY <3>2, <1>u
      <4>2. \A s \in IngestRuns : d \notin ToDelete(ingest[s])
        BY <3>2, <2>3, <2>b
      <4> QED
        BY <4>1, <4>2, <2>0 DEF UnrecordedHolds
    <3> QED
      BY <3>1, <3>2
  <2> QED
    BY <2>1, <2>4, <2>5, <2>b
<1> QED
  BY <1>u, <1>3, <1>4, <1>7, <1>8, <1>10, Delivers

-----------------------------------------------------------------------------

LEMMA IngestStep == IngestInv /\ [IngestNext]_ingestVars => IngestInv'
<1> SUFFICES ASSUME IngestInv, [IngestNext]_ingestVars PROVE IngestInv'
  OBVIOUS
<1>1. ASSUME NEW d \in Docs, Save(d) \/ Notice(d) PROVE IngestInv'
  BY <1>1, SaveKeeps, NoticeKeeps
<1>2. CASE Fire \/ Submit \/ PostFails
  BY <1>2, FireKeeps, SubmitKeeps
<1>3. ASSUME NEW r \in IngestRuns,
             StartIngest(r) \/ ReaddirFails(r) \/ Compare(r) \/ RecordState(r)
      PROVE  IngestInv'
  BY <1>3, StartIngestKeeps, ReaddirFailsKeeps, CompareKeeps, RecordStateKeeps
<1>4. ASSUME NEW r \in IngestRuns,
             UpsertPoints(r) \/ DeletePoints(r) \/ Finish(r) \/ IngestFails(r)
      PROVE  IngestInv'
  BY <1>4, UpsertPointsKeeps, DeletePointsKeeps, FinishKeeps, IngestFailsKeeps
<1>5. ASSUME NEW r \in IngestRuns, NEW d \in Docs, StatFile(r, d) \/ ReadFile(r, d)
      PROVE  IngestInv'
  BY <1>5, StatFileKeeps, ReadFileKeeps
<1>6. CASE UNCHANGED ingestVars
  <2>1. /\ UNCHANGED <<watchedDir, watcher, work, ingest, index, ingestFaults, ingestGhosts>>
    BY <1>6 DEF ingestVars
  <2>2. IngestShape' /\ TimerKept' /\ ChangesFollowed'
    BY <2>1 DEF IngestInv, IngestShape, TimerKept, ChangesFollowed, watchedDir, watcher, work,
                index, ingestGhosts
  <2> QED
    BY <2>1, <2>2, WatcherKeeps DEF ingestGhosts
<1> QED
  BY <1>1, <1>2, <1>3, <1>4, <1>5, <1>6 DEF IngestNext

LEMMA IngestInvIsSafe == IngestInv => IngestSafe
<1> SUFFICES ASSUME IngestInv PROVE IngestSafe
  OBVIOUS
<1>1. IngestTypeOK
  BY DEF IngestInv, IngestShape, IngestTypeOK, IngestRecord
<1>2. \A r \in IngestRuns : \A d \in Docs :
         /\ d \notin ingest[r].write => d \notin ToWrite(ingest[r])
         /\ d \notin ingest[r].delete => d \notin ToDelete(ingest[r])
  BY DEF ToWrite, ToDelete
<1>3. RecordedIsIndexed
  BY <1>2 DEF IngestInv, IndexFollows, RecordedHolds, Indexed, RecordedIsIndexed
<1>4. UnrecordedIsGone
  BY <1>2 DEF IngestInv, IndexFollows, UnrecordedHolds, UnrecordedIsGone
<1> QED
  BY <1>1, <1>3, <1>4 DEF IngestInv, IngestSafe

\* The file watcher, filesystem_source, delta_filter and the vector store nodes:
\* whatever is saved and whatever fails, no change is lost before a POST, and
\* until two runs overlap the index holds what the recorded state says it holds
\* but for the cases the parts name, for every number of files and runs.
THEOREM IngestIsSafe == IngestSpec => []IngestSafe
<1>1. IngestSpec => []IngestInv
  BY IngestStarts, IngestStep, PTL DEF IngestSpec
<1> QED
  BY <1>1, IngestInvIsSafe, PTL
=============================================================================
