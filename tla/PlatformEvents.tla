---------------------------- MODULE PlatformEvents --------------------------
(***************************************************************************)
(* The post lane of the platform plugins: events are published to a        *)
(* JetStream stream, the workers share one durable consumer, and the       *)
(* built-in observer posts each event to the tenant's webhooks.  What      *)
(* cannot be posted becomes a dead letter an administrator may replay.     *)
(***************************************************************************)
EXTENDS Naturals, Sequences, FiniteSets

CONSTANTS
    Events,         \* post events, each of one operation
    Consumers,      \* workers that consume the stream
    Hooked,         \* ids of webhook subscriptions whose globs match
    Replayers,      \* replay requests an administrator may send
    MaxAttempts,    \* MAX_ATTEMPTS of deliverToSubscription
    MaxBuffered,    \* max_messages of consume()
    MaxEventFaults  \* bound on faults: lost calls and answers, deadlines,
                    \* crashes, failed reads and writes, expired messages

ASSUME EventsConstants ==
    /\ MaxAttempts \in Nat \ {0} /\ MaxBuffered \in Nat \ {0}
    /\ MaxEventFaults \in Nat
    /\ IsFiniteSet(Consumers) /\ IsFiniteSet(Replayers)

Resting == [pc |-> "idle", ev |-> 0, left |-> <<>>]

VARIABLES
    hooked,       \* hooked[s]: "new", "active" or "deleted"
    message,      \* message[e]: "none", "ready", "out", "acked" or "gone"
    buffered,     \* buffered[c]: messages pulled and not begun
    consumer,     \* consumer[c]: the event being delivered and, for each
                  \* subscription it was listed for, the attempts left
    letters,      \* dead letters: subscription, event, replayed_at set
    replayer,     \* replayer[r]: a replay request
    eventFaults,  \* faults left
    accepted,     \* history: accepted[<<s, e>>]: times s took e
    excused,      \* history: excused[<<s, e>>]: reasons for s to get e again
    owed,         \* history: <<s, e>>, s active since e was stored
    dropped       \* history: <<s, e>> a failed read or write gave up

eventsVars == <<hooked, message, buffered, consumer, letters, replayer, eventFaults,
                accepted, excused, owed, dropped>>

Pairs == Hooked \X Events

EventsTypeOK ==
    /\ hooked \in [Hooked -> {"new", "active", "deleted"}]
    /\ message \in [Events -> {"none", "ready", "out", "acked", "gone"}]
    /\ \A c \in Consumers :
           /\ buffered[c] \in Seq(Events) /\ Len(buffered[c]) <= MaxBuffered
           /\ consumer[c].pc \in {"idle", "list", "send"}
           /\ consumer[c].pc # "idle" => consumer[c].ev \in Events
           /\ DOMAIN consumer[c].left \subseteq Hooked
           /\ \A s \in DOMAIN consumer[c].left : consumer[c].left[s] \in 0 .. MaxAttempts
    /\ letters \in Seq([sub : Hooked, ev : Events, replayed : BOOLEAN])
    /\ \A r \in Replayers :
           replayer[r].pc \in {"idle", "send", "mark", "done", "failed"}
    /\ eventFaults \in 0 .. MaxEventFaults
    /\ accepted \in [Pairs -> Nat] /\ excused \in [Pairs -> Nat]
    /\ owed \subseteq Pairs /\ dropped \subseteq Pairs

EventsInit ==
    /\ hooked \in [Hooked -> {"new", "active"}]
    /\ message = [e \in Events |-> "none"]
    /\ buffered = [c \in Consumers |-> <<>>]
    /\ consumer = [c \in Consumers |-> Resting]
    /\ letters = <<>>
    /\ replayer = [r \in Replayers |-> [pc |-> "idle"]]
    /\ eventFaults = MaxEventFaults
    /\ accepted = [p \in Pairs |-> 0]
    /\ excused = [p \in Pairs |-> 0]
    /\ owed = {}
    /\ dropped = {}

-----------------------------------------------------------------------------

EventFault == eventFaults > 0 /\ eventFaults' = eventFaults - 1

ActiveHooks == {s \in Hooked : hooked[s] = "active"}

AddOne(f, pairs) == [p \in Pairs |-> IF p \in pairs THEN f[p] + 1 ELSE f[p]]

(* Publishing is fire and forget: the event is stored, or lost.            *)

PublishEvent(e) ==
    /\ message[e] = "none"
    /\ \/ /\ message' = [message EXCEPT ![e] = "ready"]
          /\ owed' = owed \cup (ActiveHooks \X {e})
          /\ UNCHANGED eventFaults
       \/ /\ message' = [message EXCEPT ![e] = "gone"]
          /\ EventFault
          /\ UNCHANGED owed
    /\ UNCHANGED <<hooked, buffered, consumer, letters, replayer, accepted, excused, dropped>>

(* The stream: pushes ahead of the consumer loop, gives a message out      *)
(* again when it was not acknowledged in time, and forgets it after a day. *)

Pull(c, e) ==
    /\ message[e] = "ready" /\ Len(buffered[c]) < MaxBuffered
    /\ message' = [message EXCEPT ![e] = "out"]
    /\ buffered' = [buffered EXCEPT ![c] = Append(@, e)]
    /\ UNCHANGED <<hooked, consumer, letters, replayer, eventFaults, accepted, excused,
                   owed, dropped>>

AckWait(e) ==
    /\ message[e] = "out" /\ EventFault
    /\ message' = [message EXCEPT ![e] = "ready"]
    /\ excused' = AddOne(excused, Hooked \X {e})
    /\ UNCHANGED <<hooked, buffered, consumer, letters, replayer, accepted, owed, dropped>>

MaxAge(e) ==
    /\ message[e] \in {"ready", "out"} /\ EventFault
    /\ message' = [message EXCEPT ![e] = "gone"]
    /\ UNCHANGED <<hooked, buffered, consumer, letters, replayer, accepted, excused,
                   owed, dropped>>

-----------------------------------------------------------------------------
(* The consumer loop: one message at a time, deliver, then ack whatever    *)
(* came of it.                                                             *)

Begin(c) ==
    /\ consumer[c].pc = "idle" /\ buffered[c] # <<>>
    /\ consumer' = [consumer EXCEPT ![c] = [Resting EXCEPT !.pc = "list", !.ev = Head(buffered[c])]]
    /\ buffered' = [buffered EXCEPT ![c] = Tail(@)]
    /\ UNCHANGED <<hooked, message, letters, replayer, eventFaults, accepted, excused,
                   owed, dropped>>

Acked(e) == [message EXCEPT ![e] = IF @ = "gone" THEN "gone" ELSE "acked"]

\* Mutant: the message is acknowledged before it is delivered.
ListHooksAcks(c) ==
    /\ consumer[c].pc = "list"
    /\ consumer' = [consumer EXCEPT ![c].pc = "send",
                                    ![c].left = [s \in ActiveHooks |-> MaxAttempts]]
    /\ message' = Acked(consumer[c].ev)
    /\ UNCHANGED <<hooked, buffered, letters, replayer, eventFaults, accepted, excused, owed,
                   dropped>>

\* listActiveForTenant: the subscriptions of this moment.  When the read fails
\* the observer's error is logged and the message acknowledged all the same.
ListHooks(c) ==
    LET e == consumer[c].ev IN
    /\ consumer[c].pc = "list"
    /\ \/ /\ consumer' = [consumer EXCEPT ![c].pc = "send",
                                          ![c].left = [s \in ActiveHooks |-> MaxAttempts]]
          /\ UNCHANGED <<message, eventFaults, dropped>>
       \/ /\ EventFault
          /\ consumer' = [consumer EXCEPT ![c] = Resting]
          /\ message' = Acked(e)
          /\ dropped' = dropped \cup (Hooked \X {e})
    /\ UNCHANGED <<hooked, buffered, letters, replayer, accepted, excused, owed>>

Without(f, s) == [x \in DOMAIN f \ {s} |-> f[x]]

\* What one attempt comes to: the webhook takes the event, refuses it or is
\* down, or takes it and the answer is lost.
Post(p, outcome) ==
    /\ outcome = "lost" => EventFault
    /\ outcome # "lost" => UNCHANGED eventFaults
    /\ accepted' = AddOne(accepted, IF outcome = "refused" THEN {} ELSE {p})
    /\ excused' = AddOne(excused, IF outcome = "lost" THEN {p} ELSE {})

Attempt(c, s, outcome) ==
    LET left == consumer[c].left IN
    /\ consumer[c].pc = "send" /\ s \in DOMAIN left /\ left[s] > 0
    /\ Post(<<s, consumer[c].ev>>, outcome)
    /\ consumer' = [consumer EXCEPT ![c].left =
                       IF outcome = "ok" THEN Without(left, s)
                       ELSE [left EXCEPT ![s] = left[s] - 1]]
    /\ UNCHANGED <<hooked, message, buffered, letters, replayer, owed, dropped>>

\* Attempts exhausted: the dead letter is written, unless the write fails, as
\* it does when the subscription it refers to is gone.
DeadLetter(c, s) ==
    LET e == consumer[c].ev IN
    /\ consumer[c].pc = "send" /\ s \in DOMAIN consumer[c].left /\ consumer[c].left[s] = 0
    /\ consumer' = [consumer EXCEPT ![c].left = Without(@, s)]
    /\ \/ /\ hooked[s] = "active"
          /\ letters' = Append(letters, [sub |-> s, ev |-> e, replayed |-> FALSE])
          /\ UNCHANGED <<eventFaults, dropped>>
       \/ /\ IF hooked[s] = "active" THEN EventFault ELSE UNCHANGED eventFaults
          /\ dropped' = dropped \cup {<<s, e>>}
          /\ UNCHANGED letters
    /\ UNCHANGED <<hooked, message, buffered, replayer, accepted, excused, owed>>

\* Every delivery is settled: acknowledge.
Ack(c) ==
    /\ consumer[c].pc = "send" /\ DOMAIN consumer[c].left = {}
    /\ message' = Acked(consumer[c].ev)
    /\ consumer' = [consumer EXCEPT ![c] = Resting]
    /\ UNCHANGED <<hooked, buffered, letters, replayer, eventFaults, accepted, excused,
                   owed, dropped>>

\* A worker dies and comes back, or its consumer is closed: what it holds is
\* not acknowledged.
Crash(c) ==
    /\ consumer[c].pc # "idle" \/ buffered[c] # <<>>
    /\ EventFault
    /\ consumer' = [consumer EXCEPT ![c] = Resting]
    /\ buffered' = [buffered EXCEPT ![c] = <<>>]
    /\ UNCHANGED <<hooked, message, letters, replayer, accepted, excused, owed, dropped>>

\* The server notices at the deadline: a message nobody holds is given again.
Redeliver(e) ==
    /\ message[e] = "out"
    /\ \A c \in Consumers :
           consumer[c].ev # e /\ \A i \in DOMAIN buffered[c] : buffered[c][i] # e
    /\ message' = [message EXCEPT ![e] = "ready"]
    /\ excused' = AddOne(excused, Hooked \X {e})
    /\ UNCHANGED <<hooked, buffered, consumer, letters, replayer, eventFaults, accepted, owed,
                   dropped>>

-----------------------------------------------------------------------------
(* POST /event-subscriptions/failures/:id/replay.  It reads the letter,    *)
(* posts the event and marks the letter; nothing keeps two from crossing.  *)

Letter(i) == <<letters[i].sub, letters[i].ev>>

StartReplay(r, i) ==
    /\ replayer[r].pc = "idle"
    /\ replayer' = [replayer EXCEPT ![r] = [pc |-> "send", row |-> i, left |-> MaxAttempts]]
    /\ excused' = AddOne(excused, {Letter(i)})
    /\ UNCHANGED <<hooked, message, buffered, consumer, letters, eventFaults, accepted, owed,
                   dropped>>

ReplayAttempt(r, outcome) ==
    /\ replayer[r].pc = "send"
    /\ Post(Letter(replayer[r].row), outcome)
    /\ replayer' = [replayer EXCEPT ![r].left = @ - 1,
                       ![r].pc = IF outcome = "ok" THEN "mark"
                                 ELSE IF replayer[r].left = 1 THEN "failed" ELSE "send"]
    /\ UNCHANGED <<hooked, message, buffered, consumer, letters, owed, dropped>>

MarkReplayed(r) ==
    /\ replayer[r].pc = "mark"
    /\ letters' = [letters EXCEPT ![replayer[r].row].replayed = TRUE]
    /\ replayer' = [replayer EXCEPT ![r].pc = "done"]
    /\ UNCHANGED <<hooked, message, buffered, consumer, eventFaults, accepted, excused, owed,
                   dropped>>

-----------------------------------------------------------------------------
(* Administration of the subscriptions.                                    *)

Subscribe(s) ==
    /\ hooked[s] = "new"
    /\ hooked' = [hooked EXCEPT ![s] = "active"]
    /\ UNCHANGED <<message, buffered, consumer, letters, replayer, eventFaults, accepted,
                   excused, owed, dropped>>

Unsubscribe(s) ==
    /\ hooked[s] = "active"
    /\ hooked' = [hooked EXCEPT ![s] = "deleted"]
    /\ owed' = owed \ ({s} \X Events)
    /\ UNCHANGED <<message, buffered, consumer, letters, replayer, eventFaults, accepted,
                   excused, dropped>>

Outcomes == {"ok", "refused", "lost"}

ConsumerStep(c) ==
    \/ Begin(c) \/ ListHooks(c) \/ Ack(c)
    \/ \E s \in Hooked, o \in Outcomes : Attempt(c, s, o)
    \/ \E s \in Hooked : DeadLetter(c, s)

EventsNext ==
    \/ \E e \in Events : PublishEvent(e) \/ AckWait(e) \/ MaxAge(e) \/ Redeliver(e)
    \/ \E c \in Consumers, e \in Events : Pull(c, e)
    \/ \E c \in Consumers : ConsumerStep(c) \/ Crash(c)
    \/ \E r \in Replayers, i \in DOMAIN letters : StartReplay(r, i)
    \/ \E r \in Replayers, o \in Outcomes : ReplayAttempt(r, o)
    \/ \E r \in Replayers : MarkReplayed(r)
    \/ \E s \in Hooked : Subscribe(s) \/ Unsubscribe(s)

EventsSpec == EventsInit /\ [][EventsNext]_eventsVars

-----------------------------------------------------------------------------

(* Settled is delivered or recorded: when a message is acknowledged, each
   subscription that has been active since it was stored has taken the event
   or has a dead letter for it, unless a read of the subscriptions or the
   dead-letter write itself failed (the consumer always acks). *)
DeliveredOrDead ==
    \A p \in owed :
        message[p[2]] = "acked" =>
            \/ accepted[p] > 0 \/ p \in dropped
            \/ \E i \in DOMAIN letters : Letter(i) = p

(* A webhook takes an event more often than once only for a reason: a message
   given out again, an answer that was lost, a replay (deliverToSubscription
   stops at the first 2xx). *)
DuplicatesExplained == \A p \in Pairs : accepted[p] <= 1 + excused[p]

(* A dead letter says replayed only if the webhook has taken its event, however
   replays of the same letter cross (the replay route). *)
ReplayedIsDelivered ==
    \A i \in DOMAIN letters : letters[i].replayed => accepted[Letter(i)] > 0

\* An event that is settled has been delivered or has left a dead letter, a
\* duplicate has a cause, and a letter marked replayed arrived (startConsumer,
\* deliverToSubscription, the replay route).
EventsSafe ==
    /\ EventsTypeOK /\ DeliveredOrDead /\ DuplicatesExplained
    /\ ReplayedIsDelivered
=============================================================================
