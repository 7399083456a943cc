------------------------------ MODULE Scheduler ------------------------------
(***************************************************************************)
(* The cron scheduler: prime() and the ticks of every worker pod over the  *)
(* schedules table, with the routes that edit it.  A tick looks at         *)
(* isLeader() once, works on the rows listDue returned, and enqueues and   *)
(* marks one schedule after the other; each await is a step boundary.      *)
(* Leadership is the ideal election of module Leadership.                  *)
(*                                                                         *)
(* A cron expression is abstracted to its period: c fires at the multiples *)
(* of c.  Period 0 is one nextAfter rejects (say, after its timezone was   *)
(* edited alone, which no route validates).                                *)
(***************************************************************************)
EXTENDS Naturals, FiniteSets

CONSTANTS
    Pods,         \* workers with the scheduler enabled
    InFlight,     \* ticks of one pod that may be in flight together
    Schedules,    \* rows of the schedules table
    Crons,        \* cron expressions rows start with, as periods
    Null,         \* next_run_at IS NULL; no entry
    Authorizing,  \* is the scheduler wired with an Authorizer
    MaxClock,     \* bound on time
    MaxFaults,    \* bound on crashes, failed calls and leader changes
    MaxEdits      \* bound on edits through the API

ASSUME SchedulerConstants ==
    /\ InFlight \in Nat \ {0}
    /\ Crons \subseteq Nat \ {0}
    /\ \E m \in Crons \cup {0} : \A c \in Crons : c <= m
    /\ Null \notin Nat
    /\ Authorizing \in BOOLEAN
    /\ MaxClock \in Nat
    /\ MaxFaults \in Nat
    /\ MaxEdits \in Nat

VARIABLES
    clock,       \* the wall clock all parties share
    believers,   \* pods whose isLeader() is true
    cron, next, state,   \* the rows: expression, next_run_at, enabled/deleted
    pc,          \* pc[t]: where tick t stands
    at,          \* at[t]: `at` of tick t
    due,         \* due[t]: the rows it still has to handle
    cur,         \* cur[t]: {the row between its enqueue and its markRun}
    fired,       \* history: occurrences <<s, next_run_at>> enqueued
    again,       \* history: occurrences enqueued more than once
    lastAt,      \* history: latest `at` s was handled for, or edited at
    overlapped,  \* history: schedules two ticks worked on at a time
    unmarked,    \* history: schedules whose enqueue was not followed by markRun
    clobbered,   \* history: schedules where a stale row may overwrite a new one
    faults, edits

table   == <<cron, next, state>>
ticks   == <<pc, at, due, cur>>
history == <<fired, again, lastAt, overlapped, unmarked, clobbered>>
bounds  == <<faults, edits>>
vars    == <<clock, believers, cron, next, state, pc, at, due, cur, fired, again,
             lastAt, overlapped, unmarked, clobbered, faults, edits>>

Ticks   == Pods \X (1 .. InFlight)
Periods == Crons \cup {0}
Horizon == MaxClock + CHOOSE m \in Periods : \A c \in Periods : c <= m
Times   == 0 .. Horizon
Entries == [s : Schedules, o : Times \cup {Null}, c : Periods]

TypeOK ==
    /\ clock \in 0 .. MaxClock
    /\ believers \in SUBSET Pods
    /\ cron \in [Schedules -> Periods]
    /\ next \in [Schedules -> Times \cup {Null}]
    /\ state \in [Schedules -> {"enabled", "disabled", "deleted"}]
    /\ pc \in [Ticks -> {"new", "priming", "idle", "listing", "working"}]
    /\ at \in [Ticks -> 0 .. MaxClock]
    /\ due \in [Ticks -> SUBSET Entries]
    /\ cur \in [Ticks -> SUBSET Entries]
    /\ fired \in SUBSET (Schedules \X Times)
    /\ again \in SUBSET (Schedules \X Times)
    /\ lastAt \in [Schedules -> 0 .. MaxClock]
    /\ overlapped \in SUBSET Schedules
    /\ unmarked \in SUBSET Schedules
    /\ clobbered \in SUBSET Schedules
    /\ faults \in 0 .. MaxFaults
    /\ edits \in 0 .. MaxEdits

\* First firing time strictly after a.
nextAfter(c, a) == ((a \div c) + 1) * c

\* start(): one call primes and then ticks, the others are interval ticks.
Started(t) == IF t[2] = 1 THEN "new" ELSE "idle"

\* Rows come from the API with next_run_at, or from a migration without.
Init ==
    /\ clock = 0
    /\ believers = {}
    /\ cron \in [Schedules -> Crons]
    /\ \E seeded \in SUBSET Schedules :
          next = [s \in Schedules |-> IF s \in seeded THEN Null ELSE nextAfter(cron[s], 0)]
    /\ state = [s \in Schedules |-> "enabled"]
    /\ pc = [t \in Ticks |-> Started(t)]
    /\ at = [t \in Ticks |-> 0]
    /\ due = [t \in Ticks |-> {}]
    /\ cur = [t \in Ticks |-> {}]
    /\ fired = {}
    /\ again = {}
    /\ lastAt = [s \in Schedules |-> 0]
    /\ overlapped = {}
    /\ unmarked = {}
    /\ clobbered = {}
    /\ faults = 0
    /\ edits = 0

-----------------------------------------------------------------------------
(* The environment                                                         *)

Clock == /\ clock < MaxClock
         /\ clock' = clock + 1
         /\ UNCHANGED <<believers, table, ticks, history, bounds>>

Fault == faults < MaxFaults /\ faults' = faults + 1 /\ UNCHANGED edits

Election == INSTANCE Leadership

Elect(p) ==
    /\ Election!Gain(p)
    /\ UNCHANGED <<clock, table, ticks, history, bounds>>

Depose(p) ==
    /\ Election!Lose(p)
    /\ Fault
    /\ UNCHANGED <<clock, table, ticks, history>>

\* The pod dies: its ticks vanish, and a new process starts.
Crash(p) ==
    /\ Fault
    /\ believers' = believers \ {p}
    /\ pc' = [t \in Ticks |-> IF t[1] = p THEN Started(t) ELSE pc[t]]
    /\ due' = [t \in Ticks |-> IF t[1] = p THEN {} ELSE due[t]]
    /\ cur' = [t \in Ticks |-> IF t[1] = p THEN {} ELSE cur[t]]
    /\ unmarked' = unmarked \cup {e.s : e \in UNION {cur[t] : t \in {p} \X (1 .. InFlight)}}
    /\ UNCHANGED <<clock, table, at, fired, again, lastAt, overlapped, clobbered>>

-----------------------------------------------------------------------------
(* prime()                                                                 *)

Goto(t, place) == pc' = [pc EXCEPT ![t] = place]

Entry(s) == [s |-> s, o |-> next[s], c |-> cron[s]]

Enabled == {s \in Schedules : state[s] = "enabled"}

\* listEnabled; the rows without next_run_at are worked on.
PrimeList(t) ==
    /\ pc[t] = "new"
    /\ Goto(t, "priming")
    /\ due' = [due EXCEPT ![t] = {Entry(s) : s \in {x \in Enabled : next[x] = Null}}]
    /\ UNCHANGED <<clock, believers, table, at, cur, history, bounds>>

\* markRun for one of them, with a fresh now().
PrimeMark(t, e) ==
    /\ pc[t] = "priming"
    /\ e \in due[t]
    /\ e.c # 0
    /\ state[e.s] # "deleted"
    /\ due' = [due EXCEPT ![t] = @ \ {e}]
    /\ next' = [next EXCEPT ![e.s] = nextAfter(e.c, clock)]
    /\ IF next[e.s] = Null
         THEN lastAt' = [lastAt EXCEPT ![e.s] = clock] /\ UNCHANGED clobbered
         ELSE clobbered' = clobbered \cup {e.s} /\ UNCHANGED lastAt
    /\ UNCHANGED <<clock, believers, cron, state, pc, at, cur, fired, again,
                   overlapped, unmarked, bounds>>

\* A row whose next fire time cannot be computed is passed over.
SkipBadCron(t, e) ==
    /\ pc[t] \in {"priming", "working"}
    /\ cur[t] = {}
    /\ e \in due[t]
    /\ e.c = 0
    /\ due' = [due EXCEPT ![t] = @ \ {e}]
    /\ UNCHANGED <<clock, believers, table, pc, at, cur, history, bounds>>

-----------------------------------------------------------------------------
(* tick()                                                                  *)

\* The interval fires, or prime() is done, on a leader.
TickStart(t) ==
    /\ pc[t] = "idle"
    /\ t[1] \in believers
    /\ Goto(t, "listing")
    /\ at' = [at EXCEPT ![t] = clock]
    /\ UNCHANGED <<clock, believers, table, due, cur, history, bounds>>

Due(a) == {s \in Enabled : next[s] # Null /\ next[s] <= a}

\* Schedules some other tick has listed and not finished with.
HeldElsewhere(t) ==
    {e.s : e \in UNION {due[u] : u \in {v \in Ticks \ {t} : pc[v] = "working"}}}

\* Mutant: only rows whose time is exactly `at`.
ListDueExact(t) ==
    LET rows == {s \in Due(at[t]) : next[s] = at[t]} IN
    /\ pc[t] = "listing"
    /\ Goto(t, "working")
    /\ due' = [due EXCEPT ![t] = {Entry(s) : s \in rows}]
    /\ overlapped' = overlapped \cup (rows \cap HeldElsewhere(t))
    /\ UNCHANGED <<clock, believers, table, at, cur, fired, again, lastAt,
                   unmarked, clobbered, bounds>>

\* listDue(at)
ListDue(t) ==
    /\ pc[t] = "listing"
    /\ Goto(t, "working")
    /\ due' = [due EXCEPT ![t] = {Entry(s) : s \in Due(at[t])}]
    /\ overlapped' = overlapped \cup (Due(at[t]) \cap HeldElsewhere(t))
    /\ UNCHANGED <<clock, believers, table, at, cur, fired, again, lastAt,
                   unmarked, clobbered, bounds>>

\* The loop takes the rows ORDER BY next_run_at.
Turn(t, e) ==
    /\ pc[t] = "working"
    /\ cur[t] = {}
    /\ e \in due[t]
    /\ \A f \in due[t] : e.o <= f.o
    /\ e.c # 0
    /\ cur' = [cur EXCEPT ![t] = {e}]

\* queue.enqueue of a run_pipeline or system job, under a fresh id.
Enqueue(t, e) ==
    /\ Turn(t, e)
    /\ fired' = fired \cup {<<e.s, e.o>>}
    /\ again' = again \cup ({<<e.s, e.o>>} \cap fired)
    /\ UNCHANGED <<clock, believers, table, pc, at, due, lastAt, overlapped,
                   unmarked, clobbered, bounds>>

\* paused_no_grant: no job, but the schedule advances.
Refuse(t, e) ==
    /\ Authorizing
    /\ Turn(t, e)
    /\ UNCHANGED <<clock, believers, table, pc, at, due, history, bounds>>

Later(a, b) == IF a < b THEN b ELSE a

\* Mutant: the next fire time counts from now, not from `at`.
MarkRunFromNow(t, e) ==
    /\ cur[t] = {e}
    /\ state[e.s] # "deleted"
    /\ next' = [next EXCEPT ![e.s] = nextAfter(e.c, clock)]
    /\ lastAt' = [lastAt EXCEPT ![e.s] = Later(@, at[t])]
    /\ due' = [due EXCEPT ![t] = @ \ {e}]
    /\ cur' = [cur EXCEPT ![t] = {}]
    /\ UNCHANGED <<clock, believers, cron, state, pc, at, fired, again,
                   overlapped, unmarked, clobbered, bounds>>

\* markRun writes back what the tick computed from its copy of the row.
MarkRun(t, e) ==
    /\ cur[t] = {e}
    /\ state[e.s] # "deleted"
    /\ next' = [next EXCEPT ![e.s] = nextAfter(e.c, at[t])]
    /\ lastAt' = [lastAt EXCEPT ![e.s] = Later(@, at[t])]
    /\ due' = [due EXCEPT ![t] = @ \ {e}]
    /\ cur' = [cur EXCEPT ![t] = {}]
    /\ UNCHANGED <<clock, believers, cron, state, pc, at, fired, again,
                   overlapped, unmarked, clobbered, bounds>>

\* The loop, of prime() or of tick(), is through.
Finish(t) ==
    /\ pc[t] \in {"priming", "working"}
    /\ due[t] = {}
    /\ Goto(t, "idle")
    /\ UNCHANGED <<clock, believers, table, at, due, cur, history, bounds>>

\* An awaited call rejects (markRun does so for a deleted row): the rest of
\* the rows is left for a later tick.
Abort(t) ==
    /\ pc[t] \in {"new", "priming", "listing", "working"}
    /\ \/ Fault
       \/ /\ \E e \in (IF pc[t] = "priming" THEN due[t] ELSE cur[t]) : state[e.s] = "deleted"
          /\ UNCHANGED bounds
    /\ Goto(t, "idle")
    /\ due' = [due EXCEPT ![t] = {}]
    /\ cur' = [cur EXCEPT ![t] = {}]
    /\ unmarked' = unmarked \cup {e.s : e \in cur[t]}
    /\ UNCHANGED <<clock, believers, table, at, fired, again, lastAt,
                   overlapped, clobbered>>

-----------------------------------------------------------------------------
(* The schedule routes                                                     *)

Edited(s) ==
    /\ state[s] # "deleted"
    /\ edits < MaxEdits
    /\ edits' = edits + 1
    /\ UNCHANGED <<clock, believers, ticks, fired, again, overlapped, unmarked, faults>>

\* Mutant: next_run_at is the first firing time at or after now.
PutCronInclusive(s, c) ==
    /\ Edited(s)
    /\ cron' = [cron EXCEPT ![s] = c]
    /\ next' = [next EXCEPT ![s] = ((clock + c - 1) \div c) * c]
    /\ lastAt' = [lastAt EXCEPT ![s] = clock]
    /\ clobbered' = IF \E t \in Ticks : \E e \in due[t] : e.s = s
                      THEN clobbered \cup {s} ELSE clobbered
    /\ UNCHANGED state

\* PUT with a cron: next_run_at is computed anew.
PutCron(s, c) ==
    /\ Edited(s)
    /\ cron' = [cron EXCEPT ![s] = c]
    /\ next' = [next EXCEPT ![s] = nextAfter(c, clock)]
    /\ lastAt' = [lastAt EXCEPT ![s] = clock]
    /\ clobbered' = IF \E t \in Ticks : \E e \in due[t] : e.s = s
                      THEN clobbered \cup {s} ELSE clobbered
    /\ UNCHANGED state

\* PUT with a timezone alone: not validated, next_run_at stays.
PutTimezone(s) ==
    /\ Edited(s)
    /\ cron' = [cron EXCEPT ![s] = 0]
    /\ UNCHANGED <<next, state, lastAt, clobbered>>

\* PATCH enabled, and DELETE.
SetState(s, to) ==
    /\ Edited(s)
    /\ to # state[s]
    /\ state' = [state EXCEPT ![s] = to]
    /\ UNCHANGED <<cron, next, lastAt, clobbered>>

-----------------------------------------------------------------------------

TickStep(t) ==
    \/ PrimeList(t) \/ TickStart(t) \/ ListDue(t) \/ Finish(t)
    \/ \E e \in due[t] :
          \/ PrimeMark(t, e) \/ SkipBadCron(t, e)
          \/ Enqueue(t, e) \/ Refuse(t, e) \/ MarkRun(t, e)

Next ==
    \/ Clock
    \/ \E p \in Pods : Elect(p) \/ Depose(p) \/ Crash(p)
    \/ \E t \in Ticks : TickStep(t) \/ Abort(t)
    \/ \E s \in Schedules :
          \/ \E c \in Crons : PutCron(s, c)
          \/ PutTimezone(s)
          \/ \E to \in {"enabled", "disabled", "deleted"} : SetState(s, to)

Spec == Init /\ [][Next]_vars

\* The election finds a leader, intervals fire and awaited calls return.
Fairness == /\ WF_vars(\E p \in Pods : Elect(p))
            /\ \A t \in Ticks : WF_vars(TickStep(t) \/ Abort(t))

FairSpec == Spec /\ Fairness

-----------------------------------------------------------------------------
(* Properties                                                              *)

\* No occurrence is slept through: next_run_at is never beyond the first
\* firing time after the last tick that handled the schedule (or its last
\* edit), however ticks overlap, fail, or finish out of order.
NoGap ==
    \A s \in Schedules :
        next[s] # Null /\ cron[s] # 0 /\ s \notin clobbered =>
            next[s] <= nextAfter(cron[s], lastAt[s])

\* The rows are well-formed, and none of them sleeps through an occurrence
\* (tick, markRun, prime).
SchedSafe == TypeOK /\ NoGap

\* An occurrence is enqueued a second time only if two ticks had the row in
\* hand together, or a tick died between its enqueue and its markRun.
DoubleExplained ==
    \A o \in again : o[1] \in overlapped \cup unmarked

\* A due schedule is dealt with once faults and edits end: fired, refused,
\* disabled, deleted, or its cron is broken.
EventuallyHandled ==
    \A s \in Schedules :
        (s \in Due(clock) /\ cron[s] # 0) ~> ~(s \in Due(clock) /\ cron[s] # 0)
=============================================================================
