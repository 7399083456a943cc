---------------------------- MODULE PlatformHooks ---------------------------
(***************************************************************************)
(* The pre lane of the platform plugins: an operation asks every hook      *)
(* before it is performed.  The hooks run one after the other in priority  *)
(* order, each under a deadline; one of them calls the tenant's gate       *)
(* webhooks, all at once, while administrators add and remove them.        *)
(***************************************************************************)
EXTENDS Naturals, Sequences, FiniteSets

CONSTANTS
    Hooks,     \* the hooks in priority order: the failure policy of each, or
               \* "gate" for the built-in one that calls the gate webhooks
    Gates,     \* ids of subscriptions with the phase pre
    Fields,    \* fields a patch can set
    Mutable,   \* the catalog's mutablePatch for the event
    Envelope,  \* ENVELOPE_PATCH_FIELDS: what the next hook sees
    Applies    \* fields the caller takes from the merged patch

ASSUME HooksConstants ==
    /\ Hooks \in Seq({"open", "closed", "gate"})
    \* the built-in hook is registered once
    /\ \A i, j \in DOMAIN Hooks : Hooks[i] = "gate" /\ Hooks[j] = "gate" => i = j
    /\ Mutable \subseteq Fields /\ Envelope \subseteq Fields /\ Applies \subseteq Fields

Verdicts == {"allow", "veto", "down"}

VARIABLES
    gates,      \* gates[g]: "new", "active" or "deleted"
    op,         \* the operation: where it is and which hook is asked
    working,    \* working[f]: the event the hooks see, by the hook that set f
    merged,     \* merged[f]: the patch for the caller, 0 where it sets nothing
    answers,    \* answers[g]: verdict of a gate called for the hook at work
    performed,  \* the fields the operation was performed with, <<>> before
    said,       \* history: what each hook decided
    heard,      \* history: heard[g]: the verdict gate g gave in time
    steady      \* history: gates active since the operation was received

hooksVars == <<gates, op, working, merged, answers, performed, said, heard, steady>>

hooksHistory == <<heard, steady>>

HooksTypeOK ==
    /\ gates \in [Gates -> {"new", "active", "deleted"}]
    /\ op \in [pc : {"hook", "gates", "passed", "done", "blocked"},
               k : 1 .. Len(Hooks) + 1]
    /\ working \in [Fields -> 0 .. Len(Hooks)]
    /\ merged \in [Fields -> 0 .. Len(Hooks)]
    /\ answers \in [DOMAIN answers -> Verdicts \cup {"none"}]
    /\ DOMAIN answers \subseteq Gates
    /\ performed \in {<<>>} \cup [Fields -> 0 .. Len(Hooks)]
    /\ Len(said) \in {op.k - 1, op.k}
    /\ heard \in [Gates -> Verdicts \cup {"none"}]
    /\ steady \subseteq Gates

HooksInit ==
    /\ gates \in [Gates -> {"new", "active"}]
    /\ op = [pc |-> IF Hooks = <<>> THEN "passed" ELSE "hook", k |-> 1]
    /\ working = [f \in Fields |-> 0]
    /\ merged = [f \in Fields |-> 0]
    /\ answers = <<>>
    /\ performed = <<>>
    /\ said = <<>>
    /\ heard = [g \in Gates |-> "none"]
    /\ steady = {g \in Gates : gates[g] = "active"}

-----------------------------------------------------------------------------
(* What the dispatcher makes of a hook's decision.                         *)

Policy(k) == IF Hooks[k] = "closed" THEN "closed" ELSE "open"

\* The hook continued: ask the next one, or let the operation pass.
NextHook ==
    /\ op' = IF op.k = Len(Hooks) THEN [pc |-> "passed", k |-> op.k + 1]
             ELSE [pc |-> "hook", k |-> op.k + 1]
    /\ answers' = <<>>

\* The hook denied or failed: no later hook is asked.
ShortCircuit ==
    /\ op' = [op EXCEPT !.pc = "blocked"]
    /\ answers' = <<>>

Say(what) == said' = Append(said, what)

\* Mutant: an earlier hook's value is kept.
MergeFirst(m, k, patch) ==
    [f \in Fields |-> IF f \in patch \cap Mutable /\ m[f] = 0 THEN k ELSE m[f]]

\* filterPatch and applyEnvelopePatch on what hook k asks to set.
Merge(m, k, patch) == [f \in Fields |-> IF f \in patch \cap Mutable THEN k ELSE m[f]]

Show(w, k, patch) ==
    [f \in Fields |-> IF f \in patch \cap Mutable \cap Envelope THEN k ELSE w[f]]

-----------------------------------------------------------------------------
(* A hook of a module or the sidecar.                                      *)

Asked == op.pc = "hook" /\ Hooks[op.k] # "gate"

Mutate ==
    \E patch \in SUBSET Fields :
        /\ Asked
        /\ Say("mutate")
        /\ merged' = Merge(merged, op.k, patch)
        /\ working' = Show(working, op.k, patch)
        /\ NextHook
        /\ UNCHANGED <<gates, performed, hooksHistory>>

Pass ==
    /\ Asked
    /\ Say("continue")
    /\ NextHook
    /\ UNCHANGED <<gates, working, merged, performed, hooksHistory>>

RefuseRequest ==
    \E what \in {"deny", "fail"} :
        /\ Asked
        /\ Say(what)
        /\ ShortCircuit
        /\ UNCHANGED <<gates, working, merged, performed, hooksHistory>>

\* runBefore's catch: the hook threw, or its deadline passed first.  A gate
\* hook that runs out of time loses the verdicts it already has.
Errs ==
    /\ op.pc \in {"hook", "gates"}
    /\ Say("error")
    /\ IF Policy(op.k) = "closed" THEN ShortCircuit ELSE NextHook
    /\ UNCHANGED <<gates, working, merged, performed, hooksHistory>>

-----------------------------------------------------------------------------
(* The gate hook: list the active gates, call all of them, wait for all.   *)

ListGates ==
    LET active == {g \in Gates : gates[g] = "active"} IN
    /\ op.pc = "hook" /\ Hooks[op.k] = "gate"
    /\ \/ /\ active = {}
          /\ Say("continue")
          /\ NextHook
       \/ /\ active # {}
          /\ op' = [op EXCEPT !.pc = "gates"]
          /\ answers' = [g \in active |-> "none"]
          /\ UNCHANGED said
    /\ UNCHANGED <<gates, working, merged, performed, hooksHistory>>

\* A gate answers: 2xx without a veto, a veto, or anything else (fail open).
GateAnswers(g, v) ==
    /\ op.pc = "gates" /\ g \in DOMAIN answers /\ answers[g] = "none"
    /\ answers' = [answers EXCEPT ![g] = v]
    /\ heard' = [heard EXCEPT ![g] = v]
    /\ UNCHANGED <<gates, op, working, merged, performed, said, steady>>

Answered == \A g \in DOMAIN answers : answers[g] # "none"

Denies == \E g \in DOMAIN answers : answers[g] = "veto"

GatesDecide ==
    /\ op.pc = "gates" /\ Answered
    /\ IF Denies THEN Say("deny") /\ ShortCircuit ELSE Say("continue") /\ NextHook
    /\ UNCHANGED <<gates, working, merged, performed, hooksHistory>>

-----------------------------------------------------------------------------
(* The caller: interceptAccept, interceptMutation and the lifecycle hooks  *)
(* take their fields of the merged patch and go on to the operation.       *)

Perform ==
    /\ op.pc = "passed"
    /\ op' = [op EXCEPT !.pc = "done"]
    /\ performed' = [f \in Fields |-> IF f \in Applies THEN merged[f] ELSE 0]
    /\ UNCHANGED <<gates, working, merged, answers, said, hooksHistory>>

-----------------------------------------------------------------------------
(* Administration of the gates.                                            *)

CreateGate(g) ==
    /\ gates[g] = "new"
    /\ gates' = [gates EXCEPT ![g] = "active"]
    /\ UNCHANGED <<op, working, merged, answers, performed, said, hooksHistory>>

DeleteGate(g) ==
    /\ gates[g] = "active"
    /\ gates' = [gates EXCEPT ![g] = "deleted"]
    /\ steady' = steady \ {g}
    /\ UNCHANGED <<op, working, merged, answers, performed, said, heard>>

HooksNext ==
    \/ Mutate
    \/ Pass
    \/ RefuseRequest
    \/ Errs
    \/ ListGates
    \/ \E g \in Gates, v \in Verdicts : GateAnswers(g, v)
    \/ GatesDecide
    \/ Perform
    \/ \E g \in Gates : CreateGate(g) \/ DeleteGate(g)

HooksSpec == HooksInit /\ [][HooksNext]_hooksVars

-----------------------------------------------------------------------------

\* Hook k stopped the operation: it denied, it failed, or it is a fail-closed
\* hook that threw or ran out of time.
Stops(k) == said[k] \in {"deny", "fail"} \/ (said[k] = "error" /\ Policy(k) = "closed")

(* An operation is performed only after every hook was asked and none stopped
   it, and it is blocked exactly at the first hook that did: a fail-open error
   never hides a refusal, nor does a later hook undo one (intercept). *)
HooksDecide ==
    /\ op.pc \in {"passed", "done"} =>
           Len(said) = Len(Hooks) /\ \A k \in DOMAIN said : ~Stops(k)
    /\ op.pc = "blocked" => \A k \in DOMAIN said : Stops(k) <=> k = op.k

(* A gate webhook that was active all the while an operation was being decided
   has had its say: unless the gate hook itself ran out of time, it was called
   and did not veto (gateWebhookPlugin).  Gates come and go meanwhile. *)
GatesHeeded ==
    \A k \in DOMAIN said :
        op.pc = "done" /\ Hooks[k] = "gate" /\ said[k] # "error"
            => \A g \in steady : heard[g] \in {"allow", "down"}

(* What the hooks were shown is what is performed: each envelope field the
   caller takes has the value the last hook saw or set, and a field the catalog
   does not list keeps its own however many hooks rewrite the event
   (filterPatch, applyEnvelopePatch, the callers). *)
JudgedIsPerformed ==
    op.pc = "done" =>
        \A f \in Fields :
            /\ (f \in Envelope \cap Applies) => (performed[f] = working[f])
            /\ (f \notin Mutable) => (performed[f] = 0)

\* What is performed is what every hook and gate has let pass, also when they
\* fail, time out or change meanwhile (intercept, gateWebhookPlugin).
HooksSafe ==
    /\ HooksTypeOK /\ HooksDecide /\ GatesHeeded /\ JudgedIsPerformed
=============================================================================
