--------------------------- MODULE ConfigResolver ---------------------------
(***************************************************************************)
(* ConfigResolver.resolve for one key: the rows that apply to a run are    *)
(* put in the order of their scopes, checked one by one, and the last that *)
(* passes wins.  A row is its scope and what the checks find out about it. *)
(* Every list of rows is an input; the answer is compared with a reference *)
(* that neither sorts nor filters.                                         *)
(***************************************************************************)
EXTENDS Naturals, Sequences, SequencesExt, FiniteSets

CONSTANTS
    Scopes,      \* CONFIG_SCOPE_PRECEDENCE, the most trusted first
    Candidates,  \* rows: scope, locked, fits (value and scope are allowed by the
                 \* definition), ours (matchesScope)
    MaxRows      \* bound: rows for a key, overrides of the invocation included

ASSUME ConfigConstants ==
    /\ \A c \in Candidates : c.scope \in ToSet(Scopes) /\ {c.locked, c.fits, c.ours} \subseteq BOOLEAN
    /\ MaxRows \in Nat

VARIABLES
    definition,  \* tenantOverridable, runtimeOverridable; required without a default
    candidates,  \* candidateValues, in the order they were read
    answer       \* the result, once there is one

configVars == <<definition, candidates, answer>>

None == [scope |-> "none", locked |-> FALSE, fits |-> TRUE, ours |-> TRUE]

Unresolved == [done |-> FALSE, winner |-> None, locked |-> FALSE, violated |-> FALSE]

ConfigTypeOK ==
    /\ candidates \in Seq(Candidates)
    /\ answer.winner \in Candidates \cup {None}
    /\ {answer.done, answer.locked, answer.violated} \subseteq BOOLEAN

ConfigInit ==
    /\ \E o \in BOOLEAN, required \in BOOLEAN :
           definition = [tenantOverridable |-> o, runtimeOverridable |-> o, required |-> required]
    /\ candidates \in BoundedSeq(Candidates, MaxRows)
    /\ answer = Unresolved

Rank(s) == CHOOSE i \in DOMAIN Scopes : Scopes[i] = s

\* The rows that match, sorted by scope; rows of a scope stay in their order.
Relevant(rows) ==
    FlattenSeq([i \in DOMAIN Scopes |->
                   SelectSeq(rows, LAMBDA c : c.ours /\ c.scope = Scopes[i])])

LockedByHigherTrust(c, all) ==
    \E i \in DOMAIN all : all[i].locked /\ Rank(all[i].scope) < Rank(c.scope)

\* validateCandidate finds something; a row that is rejected itself still locks.
CandidateIsRejected(c, all) ==
    \/ ~c.fits
    \/ c.scope \in {"tenant", "tenant_pipeline"} /\ ~definition.tenantOverridable
    \/ c.scope = "runtime" /\ ~definition.runtimeOverridable
    \/ LockedByHigherTrust(c, all)

\* The answer for a list of rows; the default has no winner.  (A definition with
\* overridable = false is reported as locked too, which changes nothing else.)
ResolvedFrom(rows) ==
    LET relevant   == Relevant(rows)
        applicable == SelectSeq(relevant, LAMBDA c : ~CandidateIsRejected(c, relevant))
        defaulted  == applicable = <<>>
    IN  [done     |-> TRUE,
         winner   |-> IF defaulted THEN None ELSE Last(applicable),
         locked   |-> \E i \in DOMAIN applicable : applicable[i].locked,
         violated |-> \/ Len(applicable) < Len(relevant)
                      \/ defaulted /\ definition.required]

\* resolve; in strict mode `violated` throws.
Resolve ==
    /\ ~answer.done
    /\ answer' = ResolvedFrom(candidates)
    /\ UNCHANGED <<definition, candidates>>

ConfigNext == Resolve

ConfigSpec == ConfigInit /\ [][ConfigNext]_configVars

-----------------------------------------------------------------------------
(* Properties                                                              *)

\* Positions of rows of the run, and of those that may take effect: fit, allowed
\* to override, and not behind a lock.
Ours == {i \in DOMAIN candidates : candidates[i].ours}

Takes(i) ==
    LET c == candidates[i]
    IN  /\ c.fits
        /\ c.scope \in {"tenant", "tenant_pipeline"} => definition.tenantOverridable
        /\ c.scope = "runtime" => definition.runtimeOverridable
        /\ \A j \in Ours : candidates[j].locked => Rank(candidates[j].scope) >= Rank(c.scope)

\* The winner is the row of the least trusted scope that may take effect, the
\* last of them in the order they were read; there is a default exactly if no
\* row may (resolve).
WinnerExact ==
    answer.done =>
        LET may == {i \in Ours : Takes(i)}
        IN  IF may = {} THEN answer.winner = None
            ELSE \E i \in may :
                     /\ answer.winner = candidates[i]
                     /\ \A j \in may \ {i} :
                            \/ Rank(candidates[j].scope) < Rank(candidates[i].scope)
                            \/ candidates[j].scope = candidates[i].scope /\ j < i

\* Rows that are read in another order give the same answer, unless two of the
\* winning scope may take effect (an environment by name and by id).
OrderMatters ==
    answer.done /\ ResolvedFrom(Reverse(candidates)).winner # answer.winner =>
        Cardinality({i \in Ours : Takes(i) /\ candidates[i].scope = answer.winner.scope}) > 1

\* A lock of any row stands: nothing of a less trusted scope wins, and an answer
\* without violations has passed over no row of the run.
LocksStand ==
    answer.done /\ answer.winner # None =>
        /\ \A j \in Ours : candidates[j].locked =>
               Rank(answer.winner.scope) <= Rank(candidates[j].scope)
        /\ ~answer.violated => \A j \in Ours : Rank(candidates[j].scope) <= Rank(answer.winner.scope)

ConfigSafe == ConfigTypeOK /\ WinnerExact /\ OrderMatters /\ LocksStand
=============================================================================
