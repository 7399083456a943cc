----------------------------- MODULE AgentPulls -----------------------------
(***************************************************************************)
(* The Wazuh pulls that visit one agent after the other and go on when a   *)
(* read fails: wazuh_syscollector_pull (one read per inventory item),      *)
(* wazuh_vulns_pull (one paged read per agent, the pages are those of      *)
(* PagedPulls) and wazuh_ruleset_pull (groups, the configuration of each   *)
(* group through a cache, active response).  Group configurations change   *)
(* while a pull runs.                                                      *)
(***************************************************************************)
EXTENDS PagedPulls

CONSTANTS
    AgentCount,      \* agents the upstream node handed over, numbered from 1
    MaxAgents,       \* maxAgents
    Items,           \* inventory items, in the order they are read
    Groups,          \* agent groups
    MaxConfigEdits   \* bound: changes of group configurations

ASSUME AgentConstants ==
    /\ {AgentCount, MaxAgents} \subseteq Nat \ {0}
    /\ Items \in Seq(STRING)
    /\ IsFiniteSet(Groups)
    /\ MaxConfigEdits \in Nat

\* agentIds.slice(0, maxAgents).
Trimmed == 1 .. Least(AgentCount, MaxAgents)

VARIABLES
    kind,         \* which pull: "syscollector", "vulns" or "ruleset"
    served,       \* agents done so far
    reads,        \* outcomes of the present agent's reads, in order
    todo,         \* ruleset: groups of the present agent, <<>> before they are known
    rowOf,        \* the result: rows per agent
    missing,      \* missingAgents
    unread,       \* perItemErrors and perAgentErrors, as the agents they name
    cache,        \* groupConfigCache
    config,       \* config[g]: the configuration the manager has now
    configEdits,  \* changes left
    handed,       \* handed[a]: the groups in the input row, if it has the field
    outcome       \* history: the reads of every agent

agentVars == <<kind, served, reads, todo, rowOf, missing, unread, cache, config, configEdits,
               handed, outcome>>

NoReads == <<>>

NoGroupField == {"no group field"}

AgentTypeOK ==
    /\ served \in 0 .. AgentCount
    /\ DOMAIN rowOf \subseteq Trimmed
    /\ missing \subseteq Trimmed /\ unread \subseteq Trimmed
    /\ DOMAIN cache \subseteq Groups

AgentInit ==
    /\ kind \in {"syscollector", "vulns", "ruleset"}
    /\ served = 0
    /\ reads = NoReads /\ todo = NoReads
    /\ rowOf = <<>> /\ cache = <<>>
    /\ missing = {} /\ unread = {}
    /\ config = [g \in Groups |-> 0]
    /\ configEdits = IF kind = "ruleset" THEN MaxConfigEdits ELSE 0
    /\ IF kind = "ruleset" THEN handed \in [Trimmed -> (SUBSET Groups) \cup {NoGroupField}]
       ELSE handed = [a \in Trimmed |-> NoGroupField]
    /\ outcome = [a \in Trimmed |-> NoReads]

Present == served + 1

Visiting(k) == kind = k /\ Present \in Trimmed

\* The loop goes on with the next agent.
FileAgent(all) ==
    /\ served' = served + 1
    /\ reads' = NoReads /\ todo' = NoReads
    /\ outcome' = [outcome EXCEPT ![Present] = all]

\* A map with one more entry.
Put(map, key, value) ==
    [x \in DOMAIN map \cup {key} |-> IF x = key THEN value ELSE map[x]]

WithRow(row) == Put(rowOf, Present, row)

\* One inventory item: rows, none, 404, or an error that is recorded.  After
\* the last one the agent has a row if there was any data, or is missing.
ReadItem(o) ==
    /\ Visiting("syscollector")
    /\ LET all == Append(reads, o)
       IN  IF Len(all) < Len(Items)
           THEN /\ reads' = all
                /\ UNCHANGED <<served, todo, outcome, rowOf, missing>>
           ELSE /\ FileAgent(all)
                /\ IF "rows" \in ToSet(all)
                   THEN /\ rowOf' = WithRow({i \in DOMAIN all : all[i] = "rows"})
                        /\ UNCHANGED missing
                   ELSE /\ missing' = missing \cup {Present}
                        /\ UNCHANGED rowOf
    /\ unread' = IF o = "error" THEN unread \cup {Present} ELSE unread
    /\ UNCHANGED <<kind, cache, config, configEdits, handed>>

\* One agent's vulnerabilities: rows, whole or truncated, none, 404 or an error.
ReadVulns(o) ==
    /\ Visiting("vulns")
    /\ FileAgent(<<o>>)
    /\ rowOf' = IF o \in {"rows", "truncated"} THEN WithRow(o) ELSE rowOf
    /\ missing' = IF o \in {"empty", "404"} THEN missing \cup {Present} ELSE missing
    /\ unread' = IF o = "error" THEN unread \cup {Present} ELSE unread
    /\ UNCHANGED <<kind, cache, config, configEdits, handed>>

\* The groups of an agent, from its input row or by fetchAgentGroups: S, or 404
\* or an error.  Without groups the agent is missing.
ReadGroups(S, o) ==
    /\ Visiting("ruleset")
    /\ todo = NoReads
    /\ handed[Present] = NoGroupField \/ (handed[Present] = S /\ o = "rows")
    /\ IF o = "rows" /\ S # {}
       THEN /\ todo' = SetToSeq(S)
            /\ UNCHANGED <<served, reads, outcome, missing>>
       ELSE /\ FileAgent(<<o>>)
            /\ missing' = missing \cup {Present}
    /\ unread' = IF o = "error" THEN unread \cup {Present} ELSE unread
    /\ UNCHANGED <<kind, rowOf, cache, config, configEdits, handed>>

\* The first group of the agent that the cache has no configuration for.
NextGroup == IF \E i \in DOMAIN todo : todo[i] \notin DOMAIN cache
             THEN {todo[CHOOSE i \in DOMAIN todo :
                           /\ todo[i] \notin DOMAIN cache
                           /\ \A j \in 1 .. i - 1 : todo[j] \in DOMAIN cache]}
             ELSE {}

\* GroupConfigRead: the configuration as it is now, or that it cannot be read.
ConfigRead(g, o) == [readable |-> o = "rows", config |-> IF o = "rows" THEN config[g] ELSE 0]

\* safeFetchGroupConfig: the answer, or that there was none, goes into the cache.
ReadGroupConfig(o) ==
    /\ Visiting("ruleset")
    /\ \E g \in NextGroup : cache' = Put(cache, g, ConfigRead(g, o))
    /\ UNCHANGED <<kind, served, reads, todo, rowOf, missing, unread, config, configEdits, handed,
                   outcome>>

\* fetchAgentActiveResponsePosture, or skipActiveResponse: readable or not.  The
\* row is authoritative if this and all group configurations were.
ReadActiveResponse(o) ==
    /\ Visiting("ruleset")
    /\ todo # NoReads
    /\ NextGroup = {}
    /\ FileAgent(<<o>>)
    /\ LET configs == [g \in ToSet(todo) |-> cache[g]]
       IN  rowOf' = WithRow([configs |-> configs,
                             authoritative |-> /\ o = "rows"
                                               /\ \A g \in DOMAIN configs : configs[g].readable])
    /\ UNCHANGED <<kind, missing, unread, cache, config, configEdits, handed>>

\* Somebody changes the agent.conf of a group.
EditConfig(g) ==
    /\ configEdits > 0
    /\ configEdits' = configEdits - 1
    /\ config' = [config EXCEPT ![g] = @ + 1]
    /\ UNCHANGED <<kind, served, reads, todo, rowOf, missing, unread, cache, handed, outcome>>

AgentNext ==
    \/ \E o \in {"rows", "empty", "404", "error"} : ReadItem(o)
    \/ \E o \in {"rows", "truncated", "empty", "404", "error"} : ReadVulns(o)
    \/ \E S \in SUBSET Groups, o \in {"rows", "404", "error"} : ReadGroups(S, o)
    \/ \E o \in {"rows", "error"} : ReadGroupConfig(o) \/ ReadActiveResponse(o)
    \/ \E g \in Groups : EditConfig(g)

AgentSpec == AgentInit /\ [][AgentNext]_agentVars

-----------------------------------------------------------------------------
(* Properties                                                              *)

\* Every agent that was visited is in the result or named in the metadata, and
\* never reported as missing beside a row.
Accounted ==
    /\ 1 .. served = DOMAIN rowOf \cup missing \cup (IF kind = "vulns" THEN unread ELSE {})
    /\ DOMAIN rowOf \cap missing = {}

\* An agent is missing without an error only if its reads really found nothing,
\* and every inventory item that had rows is in its row (empty tolerance).
NothingDropped ==
    /\ kind = "ruleset" \/ \A a \in missing \ unread : ToSet(outcome[a]) \subseteq {"empty", "404"}
    /\ kind = "syscollector" =>
           \A a \in 1 .. served, i \in DOMAIN Items :
               outcome[a][i] = "rows" => a \in DOMAIN rowOf /\ i \in rowOf[a]

\* All rows of a pull tell the same about a group, whatever happens to its
\* configuration meanwhile, and one row's authority speaks for the group in all
\* the others (groupConfigCache).
GroupsAgree ==
    kind = "ruleset" =>
        \A a, b \in DOMAIN rowOf :
            \A g \in DOMAIN rowOf[a].configs \cap DOMAIN rowOf[b].configs :
                /\ rowOf[a].configs[g] = rowOf[b].configs[g]
                /\ rowOf[a].authoritative => rowOf[b].configs[g].readable

\* A pull says which of its agents it could not read, agrees with itself about
\* groups, and can be relied on where it calls itself whole.
PullsSafe == PagesSafe /\ AgentTypeOK /\ Accounted /\ NothingDropped /\ GroupsAgree
=============================================================================
