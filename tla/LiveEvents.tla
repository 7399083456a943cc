----------------------------- MODULE LiveEvents -----------------------------
(***************************************************************************)
(* The live-events socket: EventsProvider and useBuilderRoom in each       *)
(* browser tab, and the handler of /api/events with its connections and    *)
(* Builder rooms.  A socket is an ordered pair of message queues; opening, *)
(* closing, the authentication and the timers take time on both sides.     *)
(***************************************************************************)
EXTENDS Naturals, Sequences, FiniteSets

CONSTANTS
    Tabs,       \* browser tabs
    Rooms,      \* pipelines that can be open in the Builder
    Plans,      \* bounds: per tab, how often it signs in (signIns) and opens
                \* or leaves a room (visits), and how many faults there are
    MaxSockets  \* sockets a tab can come to with these bounds

ASSUME LiveConstants ==
    /\ MaxSockets \in Nat /\ IsFiniteSet(Rooms)
    /\ \A p \in Plans :
           /\ p.signIns \in [Tabs -> Nat] /\ p.visits \in [Tabs -> Nat] /\ p.faults \in Nat
           /\ \A t \in Tabs : MaxSockets >= 2 * p.signIns[t] + p.faults

Sockets == Tabs \X (1 .. MaxSockets)

VARIABLES
    signed,     \* signed[t]: auth.status is "authenticated"
    signIns,    \* sign-ins left
    visits,     \* room changes left
    desired,    \* desired[t]: desiredRoomsRef
    cancelled,  \* cancelled[t]: cancelledRef
    wsRef,      \* wsRef[t]: number of the tab's current socket, 0 for null
    made,       \* made[t]: sockets made so far
    pending,    \* pending[t]: reconnect timers that have not fired
    timerRef,   \* timerRef[t]: does reconnectTimerRef name one of them
    roster,     \* roster[t]: the members last shown, per room
    cli,        \* cli[s]: readyState in the browser; "closed" after its event
    up, down,   \* messages to the server, and to the browser
    srv,        \* srv[s]: "none", "new", "authing", "ready" or "gone"
    hup,        \* hup[s]: the server has called close, or the network is gone
    joined,     \* joined[s]: conn.rooms
    members,    \* members[r]: the server's room map
    faults,     \* faults left
    hurried     \* history: signed in while an old socket was still closing

liveVars == <<signed, signIns, visits, desired, cancelled, wsRef, made, pending, timerRef,
              roster, cli, up, down, srv, hup, joined, members, faults, hurried>>

server == <<srv, hup, joined, members>>

Requests == {<<"auth">>} \cup ({"join", "leave", "touch"} \X Rooms)

LiveTypeOK ==
    /\ signed \in [Tabs -> BOOLEAN]
    /\ desired \in [Tabs -> SUBSET Rooms]
    /\ cancelled \in [Tabs -> BOOLEAN]
    /\ wsRef \in [Tabs -> 0 .. MaxSockets]
    /\ made \in [Tabs -> 0 .. MaxSockets]
    /\ pending \in [Tabs -> 0 .. MaxSockets]
    /\ timerRef \in [Tabs -> BOOLEAN]
    /\ roster \in [Tabs -> [Rooms -> SUBSET Sockets]]
    /\ cli \in [Sockets -> {"none", "connecting", "open", "closing", "closed"}]
    /\ \A s \in Sockets : \A i \in DOMAIN up[s] : up[s][i] \in Requests
    /\ srv \in [Sockets -> {"none", "new", "authing", "ready", "gone"}]
    /\ joined \in [Sockets -> SUBSET Rooms]
    /\ members \in [Rooms -> SUBSET Sockets]

LiveInit ==
    /\ signed = [t \in Tabs |-> FALSE]
    /\ \E p \in Plans : signIns = p.signIns /\ visits = p.visits /\ faults = p.faults
    /\ desired = [t \in Tabs |-> {}]
    /\ cancelled = [t \in Tabs |-> TRUE]
    /\ wsRef = [t \in Tabs |-> 0]
    /\ made = [t \in Tabs |-> 0]
    /\ pending = [t \in Tabs |-> 0]
    /\ timerRef = [t \in Tabs |-> FALSE]
    /\ roster = [t \in Tabs |-> [r \in Rooms |-> {}]]
    /\ cli = [s \in Sockets |-> "none"]
    /\ up = [s \in Sockets |-> <<>>]
    /\ down = [s \in Sockets |-> <<>>]
    /\ srv = [s \in Sockets |-> "none"]
    /\ hup = [s \in Sockets |-> FALSE]
    /\ joined = [s \in Sockets |-> {}]
    /\ members = [r \in Rooms |-> {}]
    /\ hurried = [t \in Tabs |-> FALSE]

-----------------------------------------------------------------------------
(* The browser                                                             *)

\* A sequence of messages for the rooms of a set, in some order.
Each(kind, S) == CHOOSE q \in [1 .. Cardinality(S) -> {kind} \X S] :
                     \A r \in S : \E i \in DOMAIN q : q[i][2] = r

\* send: nothing happens unless wsRef is an open socket.
SendOn(t, msgs) ==
    IF wsRef[t] # 0 /\ cli[<<t, wsRef[t]>>] = "open"
    THEN [up EXCEPT ![<<t, wsRef[t]>>] = @ \o msgs]
    ELSE up

\* connect(): a new socket becomes the current one.
Connect(t) ==
    /\ made' = [made EXCEPT ![t] = @ + 1]
    /\ wsRef' = [wsRef EXCEPT ![t] = made[t] + 1]
    /\ cli' = [cli EXCEPT ![<<t, made[t] + 1>>] = "connecting"]

\* The effect when the tab becomes authenticated.
SignIn(t) ==
    /\ ~signed[t]
    /\ signIns[t] > 0
    /\ signIns' = [signIns EXCEPT ![t] = @ - 1]
    /\ signed' = [signed EXCEPT ![t] = TRUE]
    /\ cancelled' = [cancelled EXCEPT ![t] = FALSE]
    /\ Connect(t)
    /\ hurried' = [hurried EXCEPT ![t] = @ \/ \E k \in 1 .. MaxSockets :
                                               cli[<<t, k>>] \notin {"none", "closed"}]
    /\ UNCHANGED <<visits, desired, pending, timerRef, roster, up, down, server,
                   faults>>

\* Logout, or a session that is refused on refresh: the Builder unmounts and
\* leaves its room; the effect's cleanup cancels, clears the timer that
\* reconnectTimerRef names, and closes the current socket.
SignOut(t) ==
    /\ signed[t]
    /\ signed' = [signed EXCEPT ![t] = FALSE]
    /\ desired' = [desired EXCEPT ![t] = {}]
    /\ up' = SendOn(t, Each("leave", desired[t]))
    /\ cancelled' = [cancelled EXCEPT ![t] = TRUE]
    /\ pending' = [pending EXCEPT ![t] = IF timerRef[t] THEN @ - 1 ELSE @]
    /\ timerRef' = [timerRef EXCEPT ![t] = FALSE]
    /\ cli' = IF wsRef[t] = 0 THEN cli ELSE [cli EXCEPT ![<<t, wsRef[t]>>] = "closing"]
    /\ wsRef' = [wsRef EXCEPT ![t] = 0]
    /\ UNCHANGED <<signIns, visits, made, roster, down, server, faults,
                   hurried>>

\* The upgrade: the server remembers the connection, and `open` in the browser
\* presents the token.  Without one the socket is closed.
Handshake(s) ==
    /\ cli[s] = "connecting"
    /\ ~hup[s]
    /\ srv' = [srv EXCEPT ![s] = "new"]
    /\ \/ /\ cli' = [cli EXCEPT ![s] = "open"]
          /\ up' = [up EXCEPT ![s] = <<<<"auth">>>>]
          /\ UNCHANGED faults
       \/ /\ faults > 0
          /\ faults' = faults - 1
          /\ cli' = [cli EXCEPT ![s] = "closing"]
          /\ UNCHANGED up
    /\ UNCHANGED <<signed, signIns, visits, desired, cancelled, wsRef, made,
                   pending, timerRef, roster, down, hup, joined, members,
                   hurried>>

\* Mutant: rooms are not joined again on `ready`.
ReadyForgets(s) ==
    /\ cli[s] = "open"
    /\ down[s] # <<>>
    /\ Head(down[s]) = <<"ready">>
    /\ down' = [down EXCEPT ![s] = Tail(@)]
    /\ UNCHANGED <<signed, signIns, visits, desired, cancelled, wsRef, made,
                   pending, timerRef, roster, cli, up, server, faults, hurried>>

\* `message` in the browser: ready joins the desired rooms again and sets the
\* status (with it useBuilderRoom's effect is cleaned up and run again, which
\* leaves and joins once more: the last join stands for all three) ...
Ready(s) ==
    /\ cli[s] = "open"
    /\ down[s] # <<>>
    /\ Head(down[s]) = <<"ready">>
    /\ down' = [down EXCEPT ![s] = Tail(@)]
    /\ up' = [up EXCEPT ![s] = @ \o Each("join", desired[s[1]])]
    /\ UNCHANGED <<signed, signIns, visits, desired, cancelled, wsRef, made,
                   pending, timerRef, roster, cli, server, faults, hurried>>

\* ... and a roster goes to the room's subscriber, if it has one.
Roster(s) ==
    /\ cli[s] = "open"
    /\ down[s] # <<>>
    /\ Head(down[s])[1] = "roster"
    /\ down' = [down EXCEPT ![s] = Tail(@)]
    /\ roster' = IF Head(down[s])[2] \in desired[s[1]]
                 THEN [roster EXCEPT ![s[1]][Head(down[s])[2]] = Head(down[s])[3]]
                 ELSE roster
    /\ UNCHANGED <<signed, signIns, visits, desired, cancelled, wsRef, made,
                   pending, timerRef, cli, up, server, faults, hurried>>

\* Mutant: the close of any socket forgets the current one, and nothing is
\* tried again.
CloseEventClears(s) ==
    /\ cli[s] = "closing" \/ (cli[s] # "none" /\ cli[s] # "closed" /\ hup[s] /\ down[s] = <<>>)
    /\ cli' = [cli EXCEPT ![s] = "closed"]
    /\ down' = [down EXCEPT ![s] = <<>>]
    /\ wsRef' = [wsRef EXCEPT ![s[1]] = 0]
    /\ UNCHANGED <<signed, signIns, visits, desired, cancelled, made, roster,
                   up, server, faults, hurried, pending, timerRef>>

\* `close` in the browser, after the messages that came before it: unless the
\* effect has been cancelled, a timer is set and reconnectTimerRef overwritten.
CloseEvent(s) ==
    /\ cli[s] = "closing" \/ (cli[s] # "none" /\ cli[s] # "closed" /\ hup[s] /\ down[s] = <<>>)
    /\ cli' = [cli EXCEPT ![s] = "closed"]
    /\ down' = [down EXCEPT ![s] = <<>>]
    /\ wsRef' = IF wsRef[s[1]] = s[2] THEN [wsRef EXCEPT ![s[1]] = 0] ELSE wsRef
    /\ IF cancelled[s[1]] THEN UNCHANGED <<pending, timerRef>>
       ELSE /\ pending' = [pending EXCEPT ![s[1]] = @ + 1]
            /\ timerRef' = [timerRef EXCEPT ![s[1]] = TRUE]
    /\ UNCHANGED <<signed, signIns, visits, desired, cancelled, made, roster,
                   up, server, faults, hurried>>

\* A reconnect timer fires; connect() does nothing when cancelled.
TimerFires(t) ==
    /\ pending[t] > 0
    /\ pending' = [pending EXCEPT ![t] = @ - 1]
    /\ timerRef' = [timerRef EXCEPT ![t] = FALSE]
    /\ IF cancelled[t] THEN UNCHANGED <<made, wsRef, cli>>
       ELSE Connect(t)
    /\ UNCHANGED <<signed, signIns, visits, desired, cancelled, roster, up,
                   down, server, faults, hurried>>

\* useBuilderRoom: the Builder opens on a pipeline, or leaves it.
OpenRoom(t, r) ==
    /\ signed[t]
    /\ desired[t] = {}
    /\ visits[t] > 0
    /\ visits' = [visits EXCEPT ![t] = @ - 1]
    /\ desired' = [desired EXCEPT ![t] = {r}]
    /\ roster' = [roster EXCEPT ![t][r] = {}]
    /\ up' = SendOn(t, <<<<"join", r>>>>)
    /\ UNCHANGED <<signed, signIns, cancelled, wsRef, made, pending, timerRef,
                   cli, down, server, faults, hurried>>

LeaveRoom(t) ==
    /\ desired[t] # {}
    /\ visits[t] > 0
    /\ visits' = [visits EXCEPT ![t] = @ - 1]
    /\ desired' = [desired EXCEPT ![t] = {}]
    /\ up' = SendOn(t, Each("leave", desired[t]))
    /\ UNCHANGED <<signed, signIns, cancelled, wsRef, made, pending, timerRef,
                   roster, cli, down, server, faults, hurried>>

\* setFocus and broadcastEdit: presence for the server, a roster for everyone.
Touch(t) ==
    /\ desired[t] # {}
    /\ visits[t] > 0
    /\ visits' = [visits EXCEPT ![t] = @ - 1]
    /\ up' = SendOn(t, Each("touch", desired[t]))
    /\ UNCHANGED <<signed, signIns, desired, cancelled, wsRef, made, pending,
                   timerRef, roster, cli, down, server, faults, hurried>>

-----------------------------------------------------------------------------
(* The server                                                              *)

browser == <<signed, signIns, visits, desired, cancelled, wsRef, made, pending, timerRef,
             roster, cli, hurried>>

\* send: only to a socket that is still open here.
IsOpen(s) == srv[s] \in {"new", "authing", "ready"} /\ ~hup[s]

\* A roster replaces one of the same room right before it, still unread.
PushRoster(q, msg) ==
    IF q # <<>> /\ q[Len(q)][1] = "roster" /\ q[Len(q)][2] = msg[2]
    THEN [q EXCEPT ![Len(q)] = msg]
    ELSE Append(q, msg)

\* The rosters of the rooms in R: only the first can follow one of its own room.
PushRosters(q, R, ids) ==
    LET told == Each("roster", R)
        msgs == [i \in DOMAIN told |-> <<"roster", told[i][2], ids[told[i][2]]>>]
    IN  IF R = {} THEN q ELSE PushRoster(q, Head(msgs)) \o Tail(msgs)

\* broadcastRoster, with the room as it will be.
Broadcast(r, ids) ==
    [s \in Sockets |-> IF s \in ids /\ IsOpen(s) THEN PushRoster(down[s], <<"roster", r, ids>>)
                       ELSE down[s]]

\* The auth frame: handleAuth runs, and awaits.
HandleAuth(s) ==
    /\ srv[s] = "new"
    /\ up[s] # <<>>
    /\ Head(up[s]) = <<"auth">>
    /\ up' = [up EXCEPT ![s] = Tail(@)]
    /\ srv' = [srv EXCEPT ![s] = "authing"]
    /\ UNCHANGED <<browser, down, hup, joined, members, faults>>

\* handleAuth is through: the principal is set and `ready` sent, or the socket
\* is closed.
AuthDone(s) ==
    /\ srv[s] = "authing"
    /\ \/ /\ srv' = [srv EXCEPT ![s] = "ready"]
          /\ down' = IF IsOpen(s) THEN [down EXCEPT ![s] = Append(@, <<"ready">>)] ELSE down
          /\ UNCHANGED <<hup, faults>>
       \/ /\ faults > 0
          /\ faults' = faults - 1
          /\ hup' = [hup EXCEPT ![s] = TRUE]
          /\ srv' = [srv EXCEPT ![s] = "new"]
          /\ UNCHANGED down
    /\ UNCHANGED <<browser, up, joined, members>>

\* builder:join; before the authentication is through it is only refused.
Join(s) ==
    /\ srv[s] = "ready"
    /\ up[s] # <<>>
    /\ Head(up[s])[1] = "join"
    /\ LET r == Head(up[s])[2]
       IN  /\ joined' = [joined EXCEPT ![s] = @ \cup {r}]
           /\ members' = [members EXCEPT ![r] = @ \cup {s}]
           /\ down' = Broadcast(r, members'[r])
    /\ up' = [up EXCEPT ![s] = Tail(@)]
    /\ UNCHANGED <<browser, srv, hup, faults>>

\* builder:leave: the others learn of it.
Leave(s) ==
    /\ srv[s] = "ready"
    /\ up[s] # <<>>
    /\ Head(up[s])[1] = "leave"
    /\ LET r == Head(up[s])[2]
       IN  IF s \in members[r]
           THEN /\ joined' = [joined EXCEPT ![s] = @ \ {r}]
                /\ members' = [members EXCEPT ![r] = @ \ {s}]
                /\ down' = Broadcast(r, members'[r])
           ELSE UNCHANGED <<joined, members, down>>
    /\ up' = [up EXCEPT ![s] = Tail(@)]
    /\ UNCHANGED <<browser, srv, hup, faults>>

\* builder:presence and builder:edit of a member: everyone gets the roster.
Presence(s) ==
    /\ srv[s] = "ready"
    /\ up[s] # <<>>
    /\ Head(up[s])[1] = "touch"
    /\ LET r == Head(up[s])[2]
       IN  down' = IF r \in joined[s] THEN Broadcast(r, members[r]) ELSE down
    /\ up' = [up EXCEPT ![s] = Tail(@)]
    /\ UNCHANGED <<browser, srv, hup, joined, members, faults>>

\* Any other frame of a connection without a principal is answered by an error.
Unauthenticated(s) ==
    /\ srv[s] \in {"new", "authing"}
    /\ up[s] # <<>>
    /\ Head(up[s]) # <<"auth">>
    /\ up' = [up EXCEPT ![s] = Tail(@)]
    /\ UNCHANGED <<browser, down, server, faults>>

\* AUTH_TIMEOUT_MS passes, the grants of the principal have gone, or the
\* network drops the socket with everything on it.
ServerCloses(s) ==
    /\ IsOpen(s)
    /\ faults > 0
    /\ faults' = faults - 1
    /\ hup' = [hup EXCEPT ![s] = TRUE]
    /\ UNCHANGED <<browser, up, down, srv, joined, members>>

NetworkDrop(s) ==
    /\ cli[s] \in {"connecting", "open"}
    /\ ~hup[s]
    /\ faults > 0
    /\ faults' = faults - 1
    /\ hup' = [hup EXCEPT ![s] = TRUE]
    /\ up' = [up EXCEPT ![s] = <<>>]
    /\ down' = [down EXCEPT ![s] = <<>>]
    /\ UNCHANGED <<browser, srv, joined, members>>

\* `close` on the server, after the messages before it: leave every room and
\* forget the connection.
Close(s) ==
    /\ srv[s] \in {"new", "authing", "ready"}
    /\ cli[s] \in {"closing", "closed"} \/ hup[s]
    /\ up[s] = <<>>
    /\ srv' = [srv EXCEPT ![s] = "gone"]
    /\ joined' = [joined EXCEPT ![s] = {}]
    /\ members' = [r \in Rooms |-> members[r] \ {s}]
    /\ down' = [d \in Sockets |->
                   PushRosters(down[d], {r \in joined[s] : IsOpen(d) /\ d \in members'[r]},
                               members')]
    /\ UNCHANGED <<browser, up, hup, faults>>

-----------------------------------------------------------------------------
TabSteps(t) ==
    \/ TimerFires(t)
    \/ \E k \in 1 .. MaxSockets : LET s == <<t, k>>
         IN  Handshake(s) \/ Ready(s) \/ Roster(s) \/ CloseEvent(s)

ServerSteps(s) ==
    \/ HandleAuth(s) \/ AuthDone(s) \/ Unauthenticated(s)
    \/ Join(s) \/ Leave(s) \/ Presence(s) \/ Close(s)

LiveNext ==
    \/ \E t \in Tabs : SignIn(t) \/ SignOut(t) \/ LeaveRoom(t) \/ Touch(t) \/ TabSteps(t)
    \/ \E t \in Tabs, r \in Rooms : OpenRoom(t, r)
    \/ \E s \in Sockets : ServerSteps(s) \/ ServerCloses(s) \/ NetworkDrop(s)

LiveSpec == LiveInit /\ [][LiveNext]_liveVars

-----------------------------------------------------------------------------
(* Properties                                                              *)

LiveSockets(t) == {k \in 1 .. MaxSockets : cli[<<t, k>>] \in {"connecting", "open"}}

\* A tab has one socket or one reconnect timer, never more, as long as it does
\* not sign in again while an earlier socket is still closing (cancelledRef,
\* wsRef, reconnectTimerRef).
OneUnlessHurried ==
    \A t \in Tabs : ~hurried[t] => Cardinality(LiveSockets(t)) + pending[t] <= 1

\* Only living connections are in a room, and the server's two views of the
\* membership agree (leaveRoom from the close handler).
RoomsAreLive ==
    \A r \in Rooms, s \in Sockets :
        /\ s \in members[r] => srv[s] = "ready"
        /\ s \in members[r] <=> r \in joined[s]

\* Nothing is on its way on a tab's sockets.
WireQuiet(t) ==
    \A k \in 1 .. MaxSockets : up[<<t, k>>] = <<>> /\ down[<<t, k>>] = <<>>

Connected(t) ==
    /\ wsRef[t] # 0
    /\ LET s == <<t, wsRef[t]>> IN cli[s] = "open" /\ srv[s] = "ready" /\ ~hup[s]

\* Once a connected tab has come to rest it is in the rooms it has open and in
\* no other, whatever was sent before the authentication was through
\* (desiredRoomsRef).
MembershipSettles ==
    \A t \in Tabs, r \in Rooms :
        WireQuiet(t) /\ Connected(t) => (<<t, wsRef[t]>> \in members[r] <=> r \in desired[t])

\* ... and shows the members the room has, if its earlier sockets are gone on
\* both sides and it never had two at once (broadcastRoster on every join,
\* leave and close).
RosterSettles ==
    \A t \in Tabs : \A r \in desired[t] :
        /\ ~hurried[t] /\ WireQuiet(t) /\ Connected(t)
        /\ \A k \in 1 .. MaxSockets \ {wsRef[t]} :
               cli[<<t, k>>] \in {"none", "closed"} /\ srv[<<t, k>>] \in {"none", "gone"}
        => roster[t][r] = members[r]

\* A tab that stays signed in is connected for good once the faults are over
\* (scheduleReconnect).
StaysConnected == \A t \in Tabs : <>[]signed[t] => <>[](Connected(t) \/ ~signed[t])

\* Tabs and server agree, once the wire is quiet, on who is in which room, and a
\* tab keeps one socket unless it signed in before the old one was gone
\* (EventsProvider, mountWebsocket).
LiveSafe ==
    /\ LiveTypeOK /\ OneUnlessHurried /\ RoomsAreLive /\ MembershipSettles
    /\ RosterSettles
=============================================================================
