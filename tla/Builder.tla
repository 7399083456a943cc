------------------------------ MODULE Builder ------------------------------
(***************************************************************************)
(* The canvas of the pipeline builder (components/PipelineBuilder.tsx):    *)
(* opening a saved pipeline, editing it, saving it, and sharing it with    *)
(* the other tabs of its room.                                             *)
(*                                                                         *)
(* Canvas contents are numbered; origin[c] is the pipeline content c was   *)
(* made for.  A state change and the render and effects that follow it are *)
(* one step.  useBuilderRoom returns a new object on every render, so the  *)
(* broadcast effect runs on every render, whatever caused it.  The room's  *)
(* sockets are LiveEvents' concern: here every tab is connected.           *)
(***************************************************************************)
EXTENDS Naturals, FiniteSets, Sequences

CONSTANTS
    Builders,        \* browser tabs with the builder open
    Boards,          \* saved pipelines, numbered from 1
    MaxCanvases,     \* bound: contents ever made (one per pipeline to begin with)
    MaxBuilderSteps  \* bound: pipelines opened and extra renders

ASSUME BuilderAssumption ==
    /\ Boards \in Nat /\ MaxCanvases \in Nat /\ MaxBuilderSteps \in Nat
    /\ Boards <= MaxCanvases

NoBoard == 0

VARIABLES
    tab,        \* tab[t]: the state of tab t's builder
    stored,     \* stored[p]: the content of the latest version of pipeline p
    origin,     \* origin[c]: the pipeline content c was made for
    relayed,    \* relayed[t]: edits the server has relayed to tab t
    builderSteps,
    misloaded,  \* history: tabs that took the answer to an earlier load
    astray,     \* history: a tab has sent a canvas under another pipeline's id
    clashed     \* history: broadcasts passed each other, or one came in a later visit

builderVars == <<tab, stored, origin, relayed, builderSteps, misloaded, astray, clashed>>

\* `loads` are listVersions calls under way; `seeded` is broadcastSeededRef,
\* `armed` a pending 300 ms timer.
BuilderInit ==
    /\ tab = [t \in Builders |-> [board |-> NoBoard, canvas |-> 0, loads |-> {},
                                  seeded |-> FALSE, armed |-> FALSE]]
    /\ stored = [p \in 1 .. Boards |-> p]
    /\ origin = [c \in 1 .. Boards |-> c]
    /\ relayed = [t \in Builders |-> <<>>]
    /\ builderSteps = 0
    /\ misloaded = {}
    /\ astray = FALSE
    /\ clashed = FALSE

BuilderStep ==
    /\ builderSteps < MaxBuilderSteps
    /\ builderSteps' = builderSteps + 1

\* The tab's canvas is one of the pipeline the tab says it edits.
Own(t) == tab[t].canvas # 0 => origin[tab[t].canvas] = tab[t].board

\* Mutant: only edits are broadcast, not what was loaded.
RenderedLoads(s) ==
    IF s.seeded THEN [s EXCEPT !.armed = s.loads # {}] ELSE [s EXCEPT !.seeded = TRUE]

\* The effects of a render that no remote edit caused: the pending broadcast
\* is cancelled and, but for the first render in the room, a new one is due.
Rendered(s) ==
    IF s.board = NoBoard THEN s
    ELSE [s EXCEPT !.seeded = TRUE, !.armed = s.seeded]

\* A pipeline is opened: identity and room change at once, the canvas when
\* the versions have been fetched.
OpenBoard(t, p) ==
    /\ BuilderStep
    /\ tab[t].board # p
    /\ tab' = [tab EXCEPT ![t] =
         Rendered([@ EXCEPT !.board = p, !.seeded = FALSE, !.armed = FALSE,
                            !.loads = tab[t].loads \cup {[board |-> p, nr |-> builderSteps]}])]
    /\ clashed' = (clashed \/ \E i \in DOMAIN relayed[t] : relayed[t][i].board = p)
    /\ UNCHANGED <<stored, origin, relayed, misloaded, astray>>

\* The answer arrives and is put on the canvas, whichever pipeline the tab is
\* on by now.
BoardLoaded(t, l) ==
    /\ tab' = [tab EXCEPT ![t] =
         Rendered([@ EXCEPT !.loads = tab[t].loads \ {l}, !.canvas = stored[l.board]])]
    /\ misloaded' = IF l.board # tab[t].board THEN misloaded \cup {t} ELSE misloaded
    /\ UNCHANGED <<stored, origin, relayed, builderSteps, astray, clashed>>

\* The load fails and the canvas stays as it is.
BoardLoadFails(t, l) ==
    /\ tab' = [tab EXCEPT ![t].loads = @ \ {l}]
    /\ misloaded' = misloaded \cup {t}
    /\ UNCHANGED <<stored, origin, relayed, builderSteps, astray, clashed>>

\* The user changes the canvas.
EditCanvas(t) ==
    /\ tab[t].canvas # 0
    /\ Len(origin) < MaxCanvases
    /\ origin' = Append(origin, origin[tab[t].canvas])
    /\ tab' = [tab EXCEPT ![t] = Rendered([@ EXCEPT !.canvas = Len(origin) + 1])]
    /\ UNCHANGED <<stored, relayed, builderSteps, misloaded, astray, clashed>>

\* Any other render: a roster arrives, a query refreshes, a node is selected.
Rerender(t) ==
    /\ BuilderStep
    /\ tab[t].board # NoBoard
    /\ tab' = [tab EXCEPT ![t] = Rendered(@)]
    /\ UNCHANGED <<stored, origin, relayed, misloaded, astray, clashed>>

Roommates(t) == {u \in Builders \ {t} : tab[u].board = tab[t].board}

ForRoom(t) == {i \in 1 .. Len(relayed[t]) : relayed[t][i].board = tab[t].board}

\* The 300 ms are over: the whole canvas goes to the other tabs of the room.
BroadcastEdit(t) ==
    /\ tab[t].armed
    /\ tab' = [tab EXCEPT ![t].armed = FALSE]
    /\ relayed' = [u \in Builders |-> IF u \in Roommates(t)
                   THEN Append(relayed[u], [board |-> tab[t].board, canvas |-> tab[t].canvas])
                   ELSE relayed[u]]
    /\ astray' = (astray \/ ~Own(t))
    /\ clashed' = (clashed \/ ForRoom(t) # {})
    /\ UNCHANGED <<stored, origin, builderSteps, misloaded>>

\* An edit arrives: if the tab still listens to that room it replaces the
\* canvas; the render cancels the tab's own broadcast and starts none.
ApplyRemoteEdit(t) ==
    /\ relayed[t] # <<>>
    /\ relayed' = [relayed EXCEPT ![t] = Tail(@)]
    /\ tab' = IF Head(relayed[t]).board = tab[t].board
              THEN [tab EXCEPT ![t].canvas = Head(relayed[t]).canvas, ![t].armed = FALSE]
              ELSE tab
    /\ UNCHANGED <<stored, origin, builderSteps, misloaded, astray, clashed>>

\* Save: a new version, of the pipeline the tab says it edits, with what is
\* on the canvas.
SaveCanvas(t) ==
    /\ tab[t].board # NoBoard
    /\ tab[t].canvas \notin {0, stored[tab[t].board]}
    /\ stored' = [stored EXCEPT ![tab[t].board] = tab[t].canvas]
    /\ astray' = (astray \/ ~Own(t))
    /\ UNCHANGED <<tab, origin, relayed, builderSteps, misloaded, clashed>>

BuilderNext == \E t \in Builders :
    \/ \E p \in 1 .. Boards : OpenBoard(t, p)
    \/ \E l \in tab[t].loads : BoardLoaded(t, l) \/ BoardLoadFails(t, l)
    \/ EditCanvas(t) \/ Rerender(t) \/ BroadcastEdit(t)
    \/ ApplyRemoteEdit(t) \/ SaveCanvas(t)

BuilderSpec == BuilderInit /\ [][BuilderNext]_builderVars

-----------------------------------------------------------------------------
(* Properties                                                              *)

\* Types, and: a broadcast is pending only in a room whose first render has
\* been skipped.
BuilderTypeOK ==
    /\ \A t \in Builders :
         /\ tab[t].board \in 0 .. Boards
         /\ tab[t].canvas \in 0 .. Len(origin)
         /\ tab[t].armed => tab[t].seeded /\ tab[t].board # NoBoard
    /\ \A p \in 1 .. Boards : stored[p] \in 1 .. Len(origin)
    /\ Len(origin) <= MaxCanvases

\* Pipelines are not mixed up: a tab shows a canvas of another pipeline than
\* its own only while a load is under way, after loads that crossed or failed,
\* or after a tab in that condition saved or broadcast it; and so for what is
\* stored.  A late edit of a room the tab has left never causes it.
CanvasExplained ==
    ~astray =>
        /\ \A t \in Builders : t \in misloaded \/ tab[t].loads # {} \/ Own(t)
        /\ \A p \in 1 .. Boards : origin[stored[p]] = p

TabQuiet(t) == ~tab[t].armed /\ ForRoom(t) = {} /\ tab[t].loads = {}

\* A room agrees: when nothing is pending in two tabs of a room, they show the
\* same canvas, unless two broadcasts passed each other, a broadcast arrived in
\* a later visit to the room, or a load crossed another or failed.
RoomAgrees ==
    ~clashed /\ misloaded = {} =>
        \A t, u \in Builders :
            /\ tab[t].board = tab[u].board
            /\ TabQuiet(t) /\ TabQuiet(u)
            => tab[t].canvas = tab[u].canvas

\* Tabs that open, edit, save and share pipelines neither mix pipelines up nor
\* drift apart, but for the crossings named in the parts (the load, broadcast
\* and applyRemoteEdit of PipelineBuilder).
BuilderSafe ==
    /\ BuilderTypeOK /\ CanvasExplained /\ RoomAgrees
============================================================================
