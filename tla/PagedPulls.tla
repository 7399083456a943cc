----------------------------- MODULE PagedPulls -----------------------------
(***************************************************************************)
(* Source plugins that read a list page by page while it changes: the      *)
(* Kubernetes list walk (a snapshot behind a continue token) and the Wazuh *)
(* reads (offset and limit into the list as it is now): agents,            *)
(* vulnerabilities of an agent from the server API or from the indexer,    *)
(* and the rules of the manager.  What is read is compared with a list     *)
(* that others edit between any two requests, because a consumer treats    *)
(* what a whole pull does not show as gone.                                *)
(***************************************************************************)
EXTENDS Naturals, Sequences, SequencesExt, FiniteSets

CONSTANTS
    Pullers,      \* the pulls to look at
    ListSizes,    \* bounds: lengths of the list when a pull begins
    Limit,        \* rows per page
    PageCap,      \* maxPages, and the fixed number of pages of the server API
    Window,       \* INDEXER_RESULT_WINDOW
    HitsCounted,  \* external: how far the indexer counts the hits it reports
    MaxRules,     \* rulesetMaxRules
    MaxEdits      \* bound: changes of the list during a pull

\* The pull can only tell that the window was too small if more is counted.
ASSUME PullConstants ==
    /\ Pullers \subseteq {"k8s", "agents", "server", "indexer", "rules"}
    /\ ListSizes \subseteq Nat
    /\ {Limit, PageCap, Window, MaxRules} \subseteq Nat \ {0}
    /\ MaxEdits \in Nat
    /\ HitsCounted \in Nat /\ HitsCounted > Window

VARIABLES
    puller,    \* which pull this is
    list,      \* the rows the server has now, in its order
    snapshot,  \* the list behind the continue token
    pulled,    \* rows fetched so far
    pages,     \* requests answered so far
    verdict,   \* "none", or what the result says: "whole", "partial", "failed"
    edits,     \* changes left
    fresh,     \* the next row to be created
    kept,      \* history: rows listed ever since the pull began
    slides,    \* history: rows removed before the offset
    shoves     \* history: rows created before the offset

pullVars == <<puller, list, snapshot, pulled, pages, verdict, edits, fresh, kept, slides, shoves>>

PullTypeOK ==
    /\ puller \in Pullers
    /\ {list, snapshot, pulled} \subseteq Seq(1 .. fresh - 1)
    /\ pages \in 0 .. PageCap + MaxRules + Window
    /\ verdict \in {"none", "whole", "partial", "failed"}

PullInit ==
    /\ puller \in Pullers
    /\ \E n \in ListSizes : list = [i \in 1 .. n |-> i] /\ fresh = n + 1
    /\ snapshot = <<>> /\ pulled = <<>>
    /\ pages = 0
    /\ verdict = "none"
    /\ edits = MaxEdits
    /\ kept = ToSet(list)
    /\ slides = 0 /\ shoves = 0

-----------------------------------------------------------------------------
(* The list changes while the pull waits                                   *)

Waiting == verdict = "none" /\ pages > 0

CreateRow(i) ==
    /\ Waiting
    /\ edits > 0
    /\ edits' = edits - 1
    /\ list' = InsertAt(list, i, fresh)
    /\ fresh' = fresh + 1
    /\ shoves' = IF i <= Len(pulled) THEN shoves + 1 ELSE shoves
    /\ UNCHANGED <<puller, snapshot, pulled, pages, verdict, kept, slides>>

DeleteRow(i) ==
    /\ Waiting
    /\ edits > 0
    /\ edits' = edits - 1
    /\ list' = RemoveAt(list, i)
    /\ kept' = kept \ {list[i]}
    /\ slides' = IF i <= Len(pulled) THEN slides + 1 ELSE slides
    /\ UNCHANGED <<puller, snapshot, pulled, pages, verdict, fresh, shoves>>

-----------------------------------------------------------------------------
(* Requests                                                                *)

Least(a, b) == IF a <= b THEN a ELSE b

\* The rows after an offset.
PageOf(seq, offset, size) == SubSeq(seq, offset + 1, Least(offset + size, Len(seq)))

\* A page is added to what was read; the verdict follows from it.
TakePage(page, result) ==
    /\ pulled' = pulled \o page
    /\ pages' = pages + 1
    /\ verdict' = result
    /\ UNCHANGED <<puller, list, edits, fresh, kept, slides, shoves>>

Asking(p) == puller = p /\ verdict = "none"

\* pullOneResource: the first page fixes the snapshot, the walk ends when there
\* is no continue token, or as a partial scan at maxPages.
K8sPage ==
    /\ Asking("k8s")
    /\ pages < PageCap
    /\ snapshot' = IF pages = 0 THEN list ELSE snapshot
    /\ LET page == PageOf(snapshot', Len(pulled), Limit)
       IN  TakePage(page, IF Len(pulled) + Len(page) = Len(snapshot') THEN "whole"
                          ELSE IF pages + 1 = PageCap THEN "partial"
                          ELSE "none")

\* Mutant: a token that is gone makes the walk go on in a new list.
K8sPageFailsRelists ==
    /\ Asking("k8s")
    /\ pages < PageCap
    /\ pages' = pages + 1
    /\ snapshot' = list
    /\ verdict' = IF pages + 1 = PageCap THEN "partial" ELSE "none"
    /\ UNCHANGED <<puller, list, pulled, edits, fresh, kept, slides, shoves>>

\* The request throws, or is answered by 410, another status or no JSON: the
\* scan is partial, with what there is.
K8sPageFails ==
    /\ Asking("k8s")
    /\ pages < PageCap
    /\ pages' \in {pages, pages + 1}
    /\ verdict' = "partial"
    /\ UNCHANGED <<puller, list, snapshot, pulled, edits, fresh, kept, slides, shoves>>

\* wazuh_agents_pull: ends on a short page, when the reported total has been
\* read, or at maxPages; truncated says that the cap left rows unread.
AgentsPage ==
    /\ Asking("agents")
    /\ pages < PageCap
    /\ LET page  == PageOf(list, Len(pulled), Limit)
           total == Len(list)
           read  == Len(pulled) + Len(page)
           ends  == Len(page) < Limit \/ (total > 0 /\ read >= total) \/ pages + 1 = PageCap
       IN  TakePage(page, IF ~ends THEN "none"
                          ELSE IF pages + 1 >= PageCap /\ total > read THEN "partial"
                          ELSE "whole")
    /\ UNCHANGED snapshot

\* fetchAgentVulnsViaServerApi: the same, but nothing says that the cap was met.
ServerVulnsPage ==
    /\ Asking("server")
    /\ pages < PageCap
    /\ LET page == PageOf(list, Len(pulled), Limit)
           ends == \/ Len(page) < Limit
                   \/ Len(pulled) + Len(page) >= Len(list)
                   \/ pages + 1 = PageCap
       IN  TakePage(page, IF ends THEN "whole" ELSE "none")
    /\ UNCHANGED snapshot

\* fetchAgentVulnsViaIndexer: pages within the result window, then compares the
\* last total with what it has.
IndexerPage ==
    /\ Asking("indexer")
    /\ LET size  == Least(Limit, Window - Len(pulled))
           page  == PageOf(list, Len(pulled), size)
           read  == Len(pulled) + Len(page)
           total == Least(Len(list), HitsCounted)
       IN  TakePage(page, IF Len(page) = size /\ read < Window THEN "none"
                          ELSE IF total > read THEN "partial"
                          ELSE "whole")
    /\ UNCHANGED snapshot

\* fetchManagerRulesetSummary: ends on a short page or at maxRules; truncated
\* when a full last page leaves rules unread.
RulesPage ==
    /\ Asking("rules")
    /\ Len(pulled) < MaxRules
    /\ LET limit == Least(Least(Limit, MaxRules), MaxRules - Len(pulled))
           page  == PageOf(list, Len(pulled), limit)
           read  == Len(pulled) + Len(page)
       IN  TakePage(page, IF Len(page) < limit THEN "whole"
                          ELSE IF read < MaxRules THEN "none"
                          ELSE IF Len(list) > read THEN "partial"
                          ELSE "whole")
    /\ UNCHANGED snapshot

\* A Wazuh request is rejected: the node fails, or the agent or the summary is
\* recorded as unreadable; the rows read before are dropped.
RequestFails ==
    /\ puller # "k8s"
    /\ verdict = "none"
    /\ verdict' = "failed"
    /\ pulled' = <<>>
    /\ UNCHANGED <<puller, list, snapshot, pages, edits, fresh, kept, slides, shoves>>

PullNext ==
    \/ \E i \in 1 .. Len(list) + 1 : CreateRow(i)
    \/ \E i \in 1 .. Len(list) : DeleteRow(i)
    \/ K8sPage \/ K8sPageFails
    \/ AgentsPage \/ ServerVulnsPage \/ IndexerPage \/ RulesPage
    \/ RequestFails

PullSpec == PullInit /\ [][PullNext]_pullVars

-----------------------------------------------------------------------------
(* Properties                                                              *)

\* A scan holds rows of one snapshot only, in its order, and all of them when it
\* calls itself complete, however the list changes (pullOneResource).
OneSnapshot ==
    puller = "k8s" =>
        /\ IsPrefix(pulled, snapshot)
        /\ verdict = "whole" => pulled = snapshot

\* A pull that does not call itself truncated shows every row that was there all
\* the time, but for one row per deletion before its offset; only the server API
\* can also stop at its page cap without a word.
WholeCovers ==
    verdict = "whole" =>
        \/ puller = "k8s"
        \/ Cardinality(kept \ ToSet(pulled)) <= slides
        \/ puller = "server" /\ pages = PageCap

\* A row is read twice only when another one was created before the offset.
RepeatsExplained == Len(pulled) - Cardinality(ToSet(pulled)) <= shoves

\* A pull that calls itself truncated has left a listed row unread.
TruncatedIsReal ==
    verdict = "partial" /\ puller # "k8s" => ~(ToSet(list) \subseteq ToSet(pulled))

\* What a paged pull says about its own completeness can be relied on.
PagesSafe == PullTypeOK /\ OneSnapshot /\ WholeCovers /\ RepeatsExplained /\ TruncatedIsReal
=============================================================================
