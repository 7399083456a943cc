-------------------------- MODULE SchedulerProofs --------------------------
(***************************************************************************)
(* Proofs about Scheduler, for any pods, ticks in flight, schedules,       *)
(* periods and bounds.                                                     *)
(***************************************************************************)
EXTENDS Scheduler, TLAPS

\* What the loop of a tick knows: the row in hand is one of those it listed,
\* and tick() listed none whose time is later than its `at`.
Shape ==
    \A t \in Ticks :
        /\ at[t] <= clock
        /\ cur[t] \subseteq due[t]
        /\ cur[t] # {} => pc[t] = "working"
        /\ \A e \in cur[t] : e.c # 0 /\ cur[t] = {e}
        /\ pc[t] = "working" => \A e \in due[t] : e.o # Null /\ e.o <= at[t]

\* A copy of a row that is still to be handled has the row's expression,
\* unless the row's was broken or replaced since.
Copies ==
    \A t \in Ticks : \A e \in due[t] :
        e.s \in clobbered \/ cron[e.s] \in {e.c, 0}

Calm == Schedules \ (overlapped \cup unmarked)

\* One tick at a time has a calm schedule, in one copy.
Single ==
    \A t, u \in Ticks : \A e \in due[t], f \in due[u] :
        /\ pc[t] = "working"
        /\ pc[u] = "working"
        /\ e.s = f.s
        /\ e.s \in Calm
        => t = u /\ e = f

\* What was enqueued for a calm schedule is older than the copy in hand, but
\* for the copy that was just enqueued.
Ahead ==
    \A t \in Ticks : \A e \in due[t] : \A x \in fired :
        /\ pc[t] = "working"
        /\ x[1] = e.s
        /\ e.s \in Calm
        => x[2] < e.o \/ (e \in cur[t] /\ x[2] <= e.o)

\* It is also older than the row's next_run_at, until markRun is due.
Behind ==
    \A x \in fired :
        /\ x[2] <= clock
        /\ x[1] \in Calm =>
              \/ next[x[1]] # Null /\ x[2] < next[x[1]]
              \/ \E t \in Ticks : \E e \in cur[t] : e.s = x[1] /\ x[2] <= e.o

Once == Single /\ Ahead /\ Behind /\ DoubleExplained

-----------------------------------------------------------------------------
(* Firing times                                                            *)

\* Division by a period: a lies between two consecutive multiples of it.
LEMMA Division ==
  ASSUME NEW c \in Nat \ {0}, NEW a \in Nat
  PROVE  /\ a \div c \in Nat
         /\ (a \div c) * c <= a
         /\ a < (a \div c) * c + c
OBVIOUS

\* nextAfter(c, a) is later than a, and by no more than one period.
LEMMA NextAfterBounds ==
  ASSUME NEW c \in Nat \ {0}, NEW a \in Nat
  PROVE  nextAfter(c, a) \in Nat /\ a < nextAfter(c, a) /\ nextAfter(c, a) <= a + c
BY Division DEF nextAfter

\* nextAfter(c, _) never goes back in time.
LEMMA NextAfterMonotone ==
  ASSUME NEW c \in Nat \ {0}, NEW a \in Nat, NEW b \in Nat, a <= b
  PROVE  nextAfter(c, a) <= nextAfter(c, b)
BY Division DEF nextAfter

\* The horizon leaves room for a period after any time on the clock.
LEMMA WithinHorizon ==
  /\ Horizon \in Nat
  /\ \A c \in Crons : \A a \in 0 .. MaxClock : nextAfter(c, a) \in Times /\ nextAfter(c, a) \in Nat
<1> DEFINE m == CHOOSE x \in Periods : \A c \in Periods : c <= x
<1>1. \E x \in Periods : \A c \in Periods : c <= x
  BY SchedulerConstants DEF Periods
<1>2. m \in Periods /\ \A c \in Periods : c <= m
  BY <1>1
<1>3. m \in Nat /\ Horizon = MaxClock + m
  <2>1. m \in Nat
    <3>1. Periods \subseteq Nat
      BY SchedulerConstants DEF Periods
    <3>2. QED
      BY <1>2, <3>1
  <2>2. Horizon = MaxClock + m
    BY DEF Horizon
  <2>3. QED
    BY <2>1, <2>2
<1>4. ASSUME NEW c \in Crons, NEW a \in 0 .. MaxClock
      PROVE  nextAfter(c, a) \in Times /\ nextAfter(c, a) \in Nat
  <2>1. c \in Nat \ {0} /\ a \in Nat /\ c <= m
    BY <1>2, SchedulerConstants DEF Periods
  <2>2. nextAfter(c, a) \in Nat /\ nextAfter(c, a) <= a + c
    BY <2>1, NextAfterBounds
  <2>3. QED
    BY <1>3, <2>1, <2>2, SchedulerConstants DEF Times
<1>5. QED
  BY <1>3, <1>4, SchedulerConstants

-----------------------------------------------------------------------------
(* Types                                                                   *)

\* The rows start well-formed, and no tick has one.
LEMMA InitSafe ==
  ASSUME Init
  PROVE  TypeOK /\ Shape /\ Copies /\ NoGap /\ Once
<1> USE SchedulerConstants
<1>1. \A s \in Schedules : cron[s] \in Crons /\ nextAfter(cron[s], 0) \in Times
  <2>1. 0 \in 0 .. MaxClock
    OBVIOUS
  <2>2. \A s \in Schedules : cron[s] \in Crons
    BY DEF Init
  <2>3. QED
    BY <2>1, <2>2, WithinHorizon
<1>2. next \in [Schedules -> Times \cup {Null}]
  BY <1>1 DEF Init
<1>3. TypeOK
  BY <1>2 DEF Init, TypeOK, Periods, Started
<1>4. Shape /\ Copies /\ Once
  BY DEF Init, Shape, Copies, Once, Single, Ahead, Behind, DoubleExplained
<1>5. NoGap
  BY <1>1, WithinHorizon DEF Init, NoGap, Times
<1>6. QED
  BY <1>3, <1>4, <1>5

\* A copy of a row is an entry.
LEMMA EntryType ==
  ASSUME TypeOK, NEW s \in Schedules
  PROVE  /\ Entry(s) \in Entries
         /\ Entry(s).s = s
         /\ Entry(s).o = next[s]
         /\ Entry(s).c = cron[s]
BY DEF TypeOK, Entry, Entries

\* Every step keeps the variables in their types.
LEMMA TypeStep ==
  ASSUME TypeOK, Shape, [Next]_vars
  PROVE  TypeOK'
<1> USE SchedulerConstants DEF table, ticks, history, bounds
<1>1. ASSUME Clock
      PROVE  TypeOK'
  BY <1>1 DEF Clock, TypeOK
<1>2. ASSUME NEW p \in Pods, Elect(p) \/ Depose(p)
      PROVE  TypeOK'
  BY <1>2 DEF Elect, Depose, Fault, Election!Gain, Election!Lose, TypeOK
<1>3. ASSUME NEW p \in Pods, Crash(p)
      PROVE  TypeOK'
  <2>1. pc' \in [Ticks -> {"new", "priming", "idle", "listing", "working"}]
    BY <1>3 DEF Crash, Started, TypeOK
  <2>2. due' \in [Ticks -> SUBSET Entries] /\ cur' \in [Ticks -> SUBSET Entries]
    BY <1>3 DEF Crash, TypeOK
  <2>3. unmarked' \in SUBSET Schedules
    <3>1. {p} \X (1 .. InFlight) \subseteq Ticks
      BY DEF Ticks
    <3>2. \A e \in UNION {cur[t] : t \in {p} \X (1 .. InFlight)} : e.s \in Schedules
      BY <3>1 DEF TypeOK, Entries
    <3>3. QED
      BY <1>3, <3>2 DEF Crash, TypeOK
  <2>4. QED
    BY <1>3, <2>1, <2>2, <2>3 DEF Crash, Fault, TypeOK
<1>4. ASSUME NEW t \in Ticks, PrimeList(t)
      PROVE  TypeOK'
  <2>1. {Entry(s) : s \in {x \in Enabled : next[x] = Null}} \subseteq Entries
    BY EntryType DEF Enabled
  <2>2. QED
    BY <1>4, <2>1 DEF PrimeList, Goto, TypeOK
<1>5. ASSUME NEW t \in Ticks, NEW e \in due[t], PrimeMark(t, e)
      PROVE  TypeOK'
  <2>1. e.s \in Schedules /\ e.c \in Crons
    BY <1>5 DEF PrimeMark, TypeOK, Entries, Periods
  <2>2. nextAfter(e.c, clock) \in Times
    BY <2>1, WithinHorizon DEF TypeOK
  <2>3. lastAt' \in [Schedules -> 0 .. MaxClock] /\ clobbered' \in SUBSET Schedules
    BY <1>5, <2>1 DEF PrimeMark, TypeOK
  <2>4. QED
    BY <1>5, <2>1, <2>2, <2>3 DEF PrimeMark, TypeOK
<1>6. ASSUME NEW t \in Ticks, NEW e \in due[t], SkipBadCron(t, e)
      PROVE  TypeOK'
  BY <1>6 DEF SkipBadCron, TypeOK
<1>7. ASSUME NEW t \in Ticks, TickStart(t) \/ Finish(t)
      PROVE  TypeOK'
  BY <1>7 DEF TickStart, Finish, Goto, TypeOK
<1>8. ASSUME NEW t \in Ticks, ListDue(t)
      PROVE  TypeOK'
  <2>1. {Entry(s) : s \in Due(at[t])} \subseteq Entries
    BY EntryType DEF Due, Enabled
  <2>2. Due(at[t]) \subseteq Schedules
    BY DEF Due, Enabled
  <2>3. QED
    BY <1>8, <2>1, <2>2 DEF ListDue, Goto, TypeOK
<1>9. ASSUME NEW t \in Ticks, NEW e \in due[t], Enqueue(t, e)
      PROVE  TypeOK'
  <2>1. e \in Entries /\ e.s \in Schedules /\ e.o \in Times
    BY <1>9 DEF Enqueue, Turn, TypeOK, Shape, Entries
  <2>2. QED
    BY <1>9, <2>1 DEF Enqueue, Turn, TypeOK
<1>10. ASSUME NEW t \in Ticks, NEW e \in due[t], Refuse(t, e)
       PROVE  TypeOK'
  <2>1. e \in Entries
    BY <1>10 DEF TypeOK
  <2>2. QED
    BY <1>10, <2>1 DEF Refuse, Turn, TypeOK
<1>11. ASSUME NEW t \in Ticks, NEW e \in due[t], MarkRun(t, e)
       PROVE  TypeOK'
  <2>1. e.s \in Schedules /\ e.c \in Periods /\ at[t] \in 0 .. MaxClock
    BY <1>11 DEF TypeOK, Entries
  <2>2. nextAfter(e.c, at[t]) \in Times
    BY <1>11, <2>1, WithinHorizon DEF MarkRun, Shape, Periods
  <2>3. QED
    BY <1>11, <2>1, <2>2 DEF MarkRun, Later, TypeOK
<1>12. ASSUME NEW t \in Ticks, Abort(t)
       PROVE  TypeOK'
  <2>1. \A e \in cur[t] : e.s \in Schedules
    BY DEF TypeOK, Entries
  <2>2. QED
    BY <1>12, <2>1 DEF Abort, Fault, Goto, TypeOK
<1>13. ASSUME NEW s \in Schedules, NEW c \in Crons, PutCron(s, c)
       PROVE  TypeOK'
  <2>1. nextAfter(c, clock) \in Times
    BY WithinHorizon DEF TypeOK
  <2>2. clobbered' \in SUBSET Schedules
    BY <1>13 DEF PutCron, TypeOK
  <2>3. QED
    BY <1>13, <2>1, <2>2 DEF PutCron, Edited, Periods, TypeOK
<1>14. ASSUME NEW s \in Schedules,
              PutTimezone(s) \/ \E to \in {"enabled", "disabled", "deleted"} : SetState(s, to)
       PROVE  TypeOK'
  BY <1>14 DEF PutTimezone, SetState, Edited, Periods, TypeOK
<1>15. CASE UNCHANGED vars
  BY <1>15 DEF vars, TypeOK
<1>16. QED
  BY <1>1, <1>2, <1>3, <1>4, <1>5, <1>6, <1>7, <1>8, <1>9, <1>10, <1>11, <1>12,
     <1>13, <1>14, <1>15 DEF Next, TickStep

-----------------------------------------------------------------------------
(* The loop                                                                *)

\* Every step keeps the shape of the loop.
LEMMA ShapeStep ==
  ASSUME TypeOK, Shape, [Next]_vars
  PROVE  Shape'
<1> USE SchedulerConstants DEF table, ticks, history, bounds
<1>1. ASSUME Clock
      PROVE  Shape'
  BY <1>1 DEF Clock, TypeOK, Shape
<1>2. ASSUME NEW p \in Pods, Elect(p) \/ Depose(p)
      PROVE  Shape'
  BY <1>2 DEF Elect, Depose, Fault, Shape
<1>3. ASSUME NEW p \in Pods, Crash(p)
      PROVE  Shape'
  BY <1>3 DEF Crash, Started, TypeOK, Shape
<1>4. ASSUME NEW t \in Ticks, PrimeList(t)
      PROVE  Shape'
  BY <1>4 DEF PrimeList, Goto, TypeOK, Shape
<1>5. ASSUME NEW t \in Ticks, NEW e \in due[t], PrimeMark(t, e) \/ SkipBadCron(t, e)
      PROVE  Shape'
  BY <1>5 DEF PrimeMark, SkipBadCron, TypeOK, Shape
<1>6. ASSUME NEW t \in Ticks, TickStart(t) \/ Finish(t)
      PROVE  Shape'
  BY <1>6 DEF TickStart, Finish, Goto, TypeOK, Shape
<1>7. ASSUME NEW t \in Ticks, ListDue(t)
      PROVE  Shape'
  <2>1. \A s \in Due(at[t]) : Entry(s).o # Null /\ Entry(s).o <= at[t]
    BY EntryType DEF Due, Enabled
  <2>2. QED
    BY <1>7, <2>1 DEF ListDue, Goto, TypeOK, Shape
<1>8. ASSUME NEW t \in Ticks, NEW e \in due[t], Enqueue(t, e) \/ Refuse(t, e)
      PROVE  Shape'
  BY <1>8 DEF Enqueue, Refuse, Turn, TypeOK, Shape
<1>9. ASSUME NEW t \in Ticks, NEW e \in due[t], MarkRun(t, e)
      PROVE  Shape'
  BY <1>9 DEF MarkRun, TypeOK, Shape
<1>10. ASSUME NEW t \in Ticks, Abort(t)
       PROVE  Shape'
  BY <1>10 DEF Abort, Goto, TypeOK, Shape
<1>11. ASSUME NEW s \in Schedules,
              \/ \E c \in Crons : PutCron(s, c)
              \/ PutTimezone(s)
              \/ \E to \in {"enabled", "disabled", "deleted"} : SetState(s, to)
       PROVE  Shape'
  BY <1>11 DEF PutCron, PutTimezone, SetState, Edited, Shape
<1>12. CASE UNCHANGED vars
  BY <1>12 DEF vars, Shape
<1>13. QED
  BY <1>1, <1>2, <1>3, <1>4, <1>5, <1>6, <1>7, <1>8, <1>9, <1>10, <1>11, <1>12
     DEF Next, TickStep

-----------------------------------------------------------------------------
(* No occurrence is slept through                                          *)

\* Every step keeps the copies true to their rows.
LEMMA CopiesStep ==
  ASSUME TypeOK, Shape, Copies, [Next]_vars
  PROVE  Copies'
<1> USE SchedulerConstants DEF table, ticks, history, bounds
<1>1. ASSUME Clock \/ \E p \in Pods : Elect(p) \/ Depose(p) \/ Crash(p)
      PROVE  Copies'
  BY <1>1 DEF Clock, Elect, Depose, Crash, Fault, TypeOK, Copies
<1>2. ASSUME NEW t \in Ticks, PrimeList(t) \/ ListDue(t)
      PROVE  Copies'
  <2>1. \A s \in Schedules : Entry(s).s = s /\ Entry(s).c = cron[s]
    BY EntryType
  <2>2. due'[t] \subseteq {Entry(s) : s \in Schedules}
    BY <1>2 DEF PrimeList, ListDue, Due, Enabled, TypeOK
  <2>3. \A u \in Ticks \ {t} : due'[u] = due[u]
    BY <1>2 DEF PrimeList, ListDue, TypeOK
  <2>4. QED
    BY <1>2, <2>1, <2>2, <2>3 DEF PrimeList, ListDue, Copies
<1>3. ASSUME NEW t \in Ticks, NEW e \in due[t],
             \/ PrimeMark(t, e) \/ SkipBadCron(t, e)
             \/ Enqueue(t, e) \/ Refuse(t, e) \/ MarkRun(t, e)
      PROVE  Copies'
  <2>1. \A u \in Ticks : due'[u] \subseteq due[u]
    BY <1>3 DEF PrimeMark, SkipBadCron, Enqueue, Refuse, Turn, MarkRun, TypeOK
  <2>2. cron' = cron /\ clobbered \subseteq clobbered'
    BY <1>3 DEF PrimeMark, SkipBadCron, Enqueue, Refuse, MarkRun
  <2>3. QED
    BY <2>1, <2>2 DEF Copies
<1>4. ASSUME NEW t \in Ticks, TickStart(t) \/ Finish(t) \/ Abort(t)
      PROVE  Copies'
  BY <1>4 DEF TickStart, Finish, Abort, TypeOK, Copies
<1>5. ASSUME NEW s \in Schedules, NEW c \in Crons, PutCron(s, c)
      PROVE  Copies'
  BY <1>5 DEF PutCron, Edited, TypeOK, Copies
<1>6. ASSUME NEW s \in Schedules, PutTimezone(s)
      PROVE  Copies'
  BY <1>6 DEF PutTimezone, Edited, TypeOK, Copies
<1>7. ASSUME NEW s \in Schedules, NEW to \in {"enabled", "disabled", "deleted"}, SetState(s, to)
      PROVE  Copies'
  BY <1>7 DEF SetState, Edited, Copies
<1>8. CASE UNCHANGED vars
  BY <1>8 DEF vars, Copies
<1>9. QED
  BY <1>1, <1>2, <1>3, <1>4, <1>5, <1>6, <1>7, <1>8 DEF Next, TickStep

\* Every step keeps next_run_at within a firing of the last one handled.
LEMMA NoGapStep ==
  ASSUME TypeOK, Shape, Copies, NoGap, [Next]_vars
  PROVE  NoGap'
<1> USE SchedulerConstants DEF table, ticks, history, bounds
<1>1. CASE UNCHANGED <<cron, next, lastAt, clobbered>>
  BY <1>1 DEF NoGap
<1>2. ASSUME NEW t \in Ticks, NEW e \in due[t], PrimeMark(t, e)
      PROVE  NoGap'
  <2>1. e.s \in Schedules /\ e.c \in Crons /\ nextAfter(e.c, clock) \in Nat
    <3>1. e.s \in Schedules /\ e.c \in Crons
      BY <1>2 DEF PrimeMark, TypeOK, Entries, Periods
    <3>2. QED
      BY <3>1, WithinHorizon DEF TypeOK
  <2>2. e.s \in clobbered \/ cron[e.s] \in {e.c, 0}
    BY DEF Copies
  <2>3. QED
    BY <1>2, <2>1, <2>2 DEF PrimeMark, TypeOK, NoGap
<1>3. ASSUME NEW t \in Ticks, NEW e \in due[t], MarkRun(t, e)
      PROVE  NoGap'
  <2>1. e.s \in Schedules /\ e.c \in Crons /\ e.c \in Nat \ {0}
    <3>1. e \in Entries /\ e.c # 0
      BY <1>3 DEF MarkRun, Shape, TypeOK
    <3>2. QED
      BY <3>1 DEF Entries, Periods
  <2>2. e.s \in clobbered \/ cron[e.s] \in {e.c, 0}
    BY DEF Copies
  <2>3. at[t] \in Nat /\ lastAt'[e.s] \in Nat /\ at[t] <= lastAt'[e.s]
    BY <1>3, <2>1 DEF MarkRun, Later, TypeOK
  <2>4. next'[e.s] = nextAfter(e.c, at[t])
    BY <1>3, <2>1 DEF MarkRun, TypeOK
  <2>5. nextAfter(e.c, at[t]) <= nextAfter(e.c, lastAt'[e.s])
    BY <2>1, <2>3, NextAfterMonotone
  <2>6. \A s \in Schedules \ {e.s} : next'[s] = next[s] /\ lastAt'[s] = lastAt[s]
    BY <1>3 DEF MarkRun, TypeOK
  <2>7. QED
    BY <1>3, <2>1, <2>2, <2>4, <2>5, <2>6 DEF MarkRun, NoGap
<1>4. ASSUME NEW s \in Schedules, NEW c \in Crons, PutCron(s, c)
      PROVE  NoGap'
  <2>1. nextAfter(c, clock) \in Nat
    BY WithinHorizon DEF TypeOK
  <2>2. QED
    BY <1>4, <2>1 DEF PutCron, TypeOK, NoGap
<1>5. ASSUME NEW s \in Schedules, PutTimezone(s)
      PROVE  NoGap'
  BY <1>5 DEF PutTimezone, TypeOK, NoGap
<1>6. QED
  BY <1>1, <1>2, <1>3, <1>4, <1>5
     DEF Next, TickStep, Clock, Elect, Depose, Crash, PrimeList, SkipBadCron, TickStart,
         ListDue, Enqueue, Refuse, Finish, Abort, SetState, vars

-----------------------------------------------------------------------------
(* No occurrence is enqueued twice unexplained                             *)

\* Every step keeps one copy of a calm schedule in hand.
LEMMA SingleStep ==
  ASSUME TypeOK, Shape, Single, [Next]_vars
  PROVE  Single'
<1> USE SchedulerConstants DEF table, ticks, history, bounds
<1>1. ASSUME NEW t \in Ticks, ListDue(t)
      PROVE  Single'
  <2>1. /\ due' = [due EXCEPT ![t] = {Entry(s) : s \in Due(at[t])}]
        /\ pc' = [pc EXCEPT ![t] = "working"]
        /\ pc[t] = "listing"
        /\ overlapped' = overlapped \cup (Due(at[t]) \cap HeldElsewhere(t))
        /\ unmarked' = unmarked
    BY <1>1 DEF ListDue, Goto
  <2>2. \A s \in Due(at[t]) : Entry(s).s = s
    BY EntryType DEF Due, Enabled
  <2>3. ASSUME NEW u \in Ticks \ {t}, NEW f \in due'[u], pc'[u] = "working"
        PROVE  f.s \in HeldElsewhere(t) /\ f \in due[u] /\ pc[u] = "working"
    BY <2>1, <2>3 DEF HeldElsewhere, TypeOK
  <2>4. \A e \in due'[t] : e.s \in Due(at[t]) /\ e = Entry(e.s)
    BY <2>1, <2>2 DEF TypeOK
  <2>5. QED
    BY <2>1, <2>3, <2>4 DEF Single, Calm
<1>2. ASSUME /\ \A u \in Ticks : due'[u] \subseteq due[u] \/ pc'[u] # "working"
             /\ \A u \in Ticks : pc'[u] = "working" => pc[u] = "working"
             /\ overlapped \subseteq overlapped'
             /\ unmarked \subseteq unmarked'
      PROVE  Single'
  BY <1>2 DEF Single, Calm
<1>3. ASSUME NEW t \in Ticks, PrimeList(t)
      PROVE  Single'
  <2>1. \A u \in Ticks : due'[u] \subseteq due[u] \/ pc'[u] # "working"
    BY <1>3 DEF PrimeList, Goto, TypeOK
  <2>2. QED
    BY <1>2, <1>3, <2>1 DEF PrimeList, Goto, TypeOK
<1>4. ASSUME NEW t \in Ticks, TickStart(t) \/ Finish(t) \/ Abort(t)
      PROVE  Single'
  BY <1>2, <1>4 DEF TickStart, Finish, Abort, Goto, TypeOK
<1>5. ASSUME NEW t \in Ticks, NEW e \in due[t],
             \/ PrimeMark(t, e) \/ SkipBadCron(t, e)
             \/ Enqueue(t, e) \/ Refuse(t, e) \/ MarkRun(t, e)
      PROVE  Single'
  BY <1>2, <1>5 DEF PrimeMark, SkipBadCron, Enqueue, Refuse, Turn, MarkRun, TypeOK
<1>6. ASSUME NEW p \in Pods, Crash(p)
      PROVE  Single'
  BY <1>2, <1>6 DEF Crash, Started, TypeOK
<1>7. ASSUME UNCHANGED <<due, pc, overlapped, unmarked>>
      PROVE  Single'
  BY <1>2, <1>7
<1>8. QED
  BY <1>1, <1>3, <1>4, <1>5, <1>6, <1>7
     DEF Next, TickStep, Clock, Elect, Depose, PutCron, PutTimezone, SetState, Edited, vars

\* Every step keeps what was enqueued older than the copy in hand.
LEMMA AheadStep ==
  ASSUME TypeOK, Shape, Single, Ahead, Behind, [Next]_vars
  PROVE  Ahead'
<1> USE SchedulerConstants DEF table, ticks, history, bounds
<1>1. ASSUME NEW t \in Ticks, ListDue(t)
      PROVE  Ahead'
  <2>1. /\ due' = [due EXCEPT ![t] = {Entry(s) : s \in Due(at[t])}]
        /\ pc' = [pc EXCEPT ![t] = "working"]
        /\ pc[t] = "listing"
        /\ overlapped' = overlapped \cup (Due(at[t]) \cap HeldElsewhere(t))
        /\ UNCHANGED <<unmarked, fired, cur>>
    BY <1>1 DEF ListDue, Goto
  <2>2. \A s \in Due(at[t]) : Entry(s).s = s /\ Entry(s).o = next[s]
    BY EntryType DEF Due, Enabled
  <2>3. \A e \in due'[t] : e.s \in Due(at[t]) /\ e.o = next[e.s]
    BY <2>1, <2>2 DEF TypeOK
  <2>4. ASSUME NEW u \in Ticks, NEW f \in cur[u]
        PROVE  f.s \in HeldElsewhere(t)
    BY <2>1, <2>4 DEF HeldElsewhere, Shape
  <2>5. ASSUME NEW e \in due'[t], NEW x \in fired, x[1] = e.s, e.s \in Calm'
        PROVE  x[2] < e.o
    <3>1. e.s \in Calm /\ e.s \notin HeldElsewhere(t)
      BY <2>1, <2>3, <2>5 DEF Calm
    <3>2. QED
      BY <2>3, <2>4, <2>5, <3>1 DEF Behind
  <2>6. QED
    BY <2>1, <2>5 DEF Ahead, Calm, TypeOK
<1>2. ASSUME /\ \A u \in Ticks : pc'[u] # "working" \/
                   /\ pc[u] = "working"
                   /\ due'[u] \subseteq due[u]
                   /\ \A e \in cur[u] : e \in due'[u] => e \in cur'[u]
             /\ fired' = fired
             /\ overlapped \subseteq overlapped'
             /\ unmarked \subseteq unmarked'
      PROVE  Ahead'
  BY <1>2 DEF Ahead, Calm
<1>3. ASSUME NEW t \in Ticks, NEW e \in due[t], Enqueue(t, e)
      PROVE  Ahead'
  <2>1. /\ pc[t] = "working" /\ cur[t] = {}
        /\ cur' = [cur EXCEPT ![t] = {e}]
        /\ fired' = fired \cup {<<e.s, e.o>>}
        /\ UNCHANGED <<pc, due, overlapped, unmarked>>
    BY <1>3 DEF Enqueue, Turn
  <2>2. e.o \in Nat
    BY <2>1, WithinHorizon DEF Shape, TypeOK, Entries, Times
  <2>3. ASSUME NEW u \in Ticks, NEW f \in due[u], NEW x \in fired',
               pc[u] = "working", x[1] = f.s, f.s \in Calm
        PROVE  x[2] < f.o \/ (f \in cur'[u] /\ x[2] <= f.o)
    <3>1. CASE x \in fired
      BY <2>1, <2>3, <3>1 DEF Ahead, TypeOK
    <3>2. CASE x = <<e.s, e.o>>
      <4>1. u = t /\ f = e
        BY <2>1, <2>3, <3>2 DEF Single
      <4>2. QED
        BY <2>1, <2>2, <3>2, <4>1 DEF TypeOK
    <3>3. QED
      BY <2>1, <2>3, <3>1, <3>2
  <2>4. QED
    BY <2>1, <2>3 DEF Ahead, Calm
<1>4. ASSUME NEW t \in Ticks, NEW e \in due[t],
             PrimeMark(t, e) \/ SkipBadCron(t, e) \/ Refuse(t, e) \/ MarkRun(t, e)
      PROVE  Ahead'
  BY <1>2, <1>4 DEF PrimeMark, SkipBadCron, Refuse, Turn, MarkRun, Shape, TypeOK
<1>5. ASSUME NEW t \in Ticks, PrimeList(t) \/ TickStart(t) \/ Finish(t) \/ Abort(t)
      PROVE  Ahead'
  BY <1>2, <1>5 DEF PrimeList, TickStart, Finish, Abort, Goto, TypeOK
<1>6. ASSUME NEW p \in Pods, Crash(p)
      PROVE  Ahead'
  BY <1>2, <1>6 DEF Crash, Started, TypeOK
<1>7. ASSUME UNCHANGED <<due, cur, pc, fired, overlapped, unmarked>>
      PROVE  Ahead'
  BY <1>2, <1>7
<1>8. QED
  BY <1>1, <1>3, <1>4, <1>5, <1>6, <1>7
     DEF Next, TickStep, Clock, Elect, Depose, PutCron, PutTimezone, SetState, Edited, vars

\* Every step keeps what was enqueued older than next_run_at, or leaves the
\* copy that was enqueued in hand.
LEMMA BehindStep ==
  ASSUME TypeOK, Shape, Single, Ahead, Behind, [Next]_vars
  PROVE  Behind'
<1> USE SchedulerConstants DEF table, ticks, history, bounds
<1>0. \A x \in fired : x[1] \in Schedules /\ x[2] \in Nat
  BY WithinHorizon DEF TypeOK, Times
<1>1. ASSUME NEW s \in Schedules, NEW c \in Crons, NEW a \in 0 .. MaxClock,
             next' = [next EXCEPT ![s] = nextAfter(c, a)],
             UNCHANGED <<clock, fired, overlapped, unmarked>>,
             \A u \in Ticks : \A e \in cur[u] : e \in cur'[u] \/ e.s = s,
             \A x \in fired : x[1] = s /\ s \in Calm => x[2] <= a
      PROVE  Behind'
  <2>1. nextAfter(c, a) \in Nat /\ a < nextAfter(c, a)
    BY <1>1, NextAfterBounds, SchedulerConstants
  <2>2. QED
    BY <1>0, <1>1, <2>1 DEF Behind, Calm, TypeOK
<1>2. ASSUME NEW t \in Ticks, NEW e \in due[t], PrimeMark(t, e)
      PROVE  Behind'
  <2>1. e.s \in Schedules /\ e.c \in Crons
    BY <1>2 DEF PrimeMark, TypeOK, Entries, Periods
  <2>2. QED
    BY <1>1, <1>2, <2>1 DEF PrimeMark, Behind, TypeOK
<1>3. ASSUME NEW s \in Schedules, NEW c \in Crons, PutCron(s, c)
      PROVE  Behind'
  BY <1>1, <1>3 DEF PutCron, Edited, Behind, TypeOK
<1>4. ASSUME NEW t \in Ticks, NEW e \in due[t], MarkRun(t, e)
      PROVE  Behind'
  <2>1. e \in Entries /\ e.c # 0 /\ pc[t] = "working" /\ e.o # Null /\ e.o <= at[t]
    BY <1>4 DEF MarkRun, Shape, TypeOK
  <2>2. e.s \in Schedules /\ e.c \in Crons /\ e.o \in Nat /\ at[t] \in 0 .. MaxClock
    BY <2>1, WithinHorizon DEF Entries, Periods, Times, TypeOK
  <2>3. \A x \in fired : x[1] = e.s /\ e.s \in Calm => x[2] <= at[t]
    BY <1>0, <2>1, <2>2 DEF Ahead
  <2>4. \A u \in Ticks : \A f \in cur[u] : f \in cur'[u] \/ f.s = e.s
    BY <1>4 DEF MarkRun, TypeOK
  <2>5. QED
    BY <1>1, <1>4, <2>2, <2>3, <2>4 DEF MarkRun
<1>5. ASSUME NEW t \in Ticks, NEW e \in due[t], Enqueue(t, e)
      PROVE  Behind'
  <2>1. /\ pc[t] = "working" /\ cur[t] = {}
        /\ cur' = [cur EXCEPT ![t] = {e}]
        /\ fired' = fired \cup {<<e.s, e.o>>}
        /\ UNCHANGED <<clock, next, overlapped, unmarked>>
    BY <1>5 DEF Enqueue, Turn
  <2>2. e.o \in Nat /\ e.o <= at[t] /\ at[t] <= clock /\ at[t] \in Nat /\ clock \in Nat
    BY <2>1, WithinHorizon DEF Shape, TypeOK, Entries, Times
  <2>3. \A u \in Ticks : cur[u] \subseteq cur'[u]
    BY <2>1 DEF TypeOK
  <2>4. e \in cur'[t]
    BY <2>1 DEF TypeOK
  <2>5. QED
    BY <2>1, <2>2, <2>3, <2>4 DEF Behind, Calm
<1>6. ASSUME /\ fired' = fired /\ next' = next
             /\ clock' \in Nat /\ clock <= clock'
             /\ overlapped \subseteq overlapped'
             /\ unmarked \subseteq unmarked'
             /\ \A u \in Ticks : \A e \in cur[u] : e \in cur'[u] \/ e.s \in unmarked'
      PROVE  Behind'
  <2>1. \A x \in fired : x[2] <= clock'
    BY <1>0, <1>6 DEF Behind, TypeOK
  <2>2. QED
    BY <1>6, <2>1 DEF Behind, Calm
<1>7. ASSUME NEW t \in Ticks, NEW e \in due[t], SkipBadCron(t, e) \/ Refuse(t, e)
      PROVE  Behind'
  BY <1>6, <1>7 DEF SkipBadCron, Refuse, Turn, TypeOK
<1>8. ASSUME NEW t \in Ticks,
             PrimeList(t) \/ TickStart(t) \/ ListDue(t) \/ Finish(t) \/ Abort(t)
      PROVE  Behind'
  BY <1>6, <1>8 DEF PrimeList, TickStart, ListDue, Finish, Abort, TypeOK
<1>9. ASSUME NEW p \in Pods, Crash(p)
      PROVE  Behind'
  <2>1. \A u \in Ticks : u[1] = p => u \in {p} \X (1 .. InFlight)
    BY DEF Ticks
  <2>2. \A u \in Ticks : \A e \in cur[u] : e \in cur'[u] \/ e.s \in unmarked'
    BY <1>9, <2>1 DEF Crash, TypeOK
  <2>3. QED
    BY <1>6, <1>9, <2>2 DEF Crash, TypeOK
<1>10. CASE Clock
  BY <1>6, <1>10 DEF Clock, TypeOK
<1>11. CASE UNCHANGED <<clock, next, cur, fired, overlapped, unmarked>>
  BY <1>6, <1>11 DEF TypeOK
<1>12. QED
  BY <1>2, <1>3, <1>4, <1>5, <1>7, <1>8, <1>9, <1>10, <1>11
     DEF Next, TickStep, Elect, Depose, PutTimezone, SetState, Edited, vars

\* Every step keeps every double enqueue explained.
LEMMA DoubleStep ==
  ASSUME TypeOK, Shape, Ahead, DoubleExplained, [Next]_vars
  PROVE  DoubleExplained'
<1> USE SchedulerConstants DEF table, ticks, history, bounds
<1>1. ASSUME NEW t \in Ticks, NEW e \in due[t], Enqueue(t, e)
      PROVE  DoubleExplained'
  <2>1. pc[t] = "working" /\ cur[t] = {} /\ e.s \in Schedules /\ e.o \in Nat
    BY <1>1, WithinHorizon DEF Enqueue, Turn, Shape, TypeOK, Entries, Times
  <2>2. <<e.s, e.o>> \in fired => e.s \in overlapped \cup unmarked
    BY <2>1 DEF Ahead, Calm
  <2>3. QED
    BY <1>1, <2>2 DEF Enqueue, DoubleExplained
<1>2. ASSUME again' = again, overlapped \subseteq overlapped', unmarked \subseteq unmarked'
      PROVE  DoubleExplained'
  BY <1>2 DEF DoubleExplained
<1>3. QED
  BY <1>1, <1>2
     DEF Next, TickStep, Clock, Elect, Depose, Crash, PrimeList, PrimeMark, SkipBadCron,
         TickStart, ListDue, Refuse, MarkRun, Finish, Abort, PutCron, PutTimezone, SetState,
         Edited, vars

-----------------------------------------------------------------------------

\* A due occurrence is never slept through: however the ticks of all pods
\* overlap, fail and finish, next_run_at stays within one firing of the last
\* tick() or edit that handled the schedule, and the table is well-formed.
THEOREM SchedulerSafe == Spec => []SchedSafe
<1>1. Init => TypeOK /\ Shape /\ Copies /\ NoGap
  BY InitSafe
<1>2. TypeOK /\ Shape /\ Copies /\ NoGap /\ [Next]_vars
      => TypeOK' /\ Shape' /\ Copies' /\ NoGap'
  BY TypeStep, ShapeStep, CopiesStep, NoGapStep
<1>3. TypeOK /\ NoGap => SchedSafe
  BY DEF SchedSafe
<1>4. QED
  BY <1>1, <1>2, <1>3, PTL DEF Spec

\* tick() enqueues an occurrence twice only where two ticks held the row at
\* once or a tick died between its enqueue and its markRun.
THEOREM DoubleRunsExplained == Spec => []DoubleExplained
<1>1. Init => TypeOK /\ Shape /\ Once
  BY InitSafe
<1>2. TypeOK /\ Shape /\ Once /\ [Next]_vars => TypeOK' /\ Shape' /\ Once'
  BY TypeStep, ShapeStep, SingleStep, AheadStep, BehindStep, DoubleStep DEF Once
<1>3. Once => DoubleExplained
  BY DEF Once
<1>4. QED
  BY <1>1, <1>2, <1>3, PTL DEF Spec
=============================================================================
