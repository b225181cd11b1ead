-------------------------------- MODULE Tasks -------------------------------
(***************************************************************************)
(* task/task.go: the goroutines of RunTask, PeriodicTask and               *)
(* ScheduleDailyTask.  All three recover from a panic of the function they *)
(* are given, outside of their loop: its goroutine ends.                   *)
(*                                                                         *)
(* The clock counts the ticks that really pass, and is not set back.  What *)
(* it says in local time is the calendar: when each day starts and when,   *)
(* by time.Date, the daily task is due on it.  A day on which clocks are   *)
(* changed is longer or shorter than the others.  A function takes at      *)
(* least one tick, and a sleeper may wake up late.                         *)
(***************************************************************************)
EXTENDS Integers

CONSTANTS
  DayTicks,   \* ticks in 24 hours
  Change,     \* ticks by which clocks are changed
  LastDay,    \* the last day of a calendar
  Calendars,  \* the calendars of the hour, minute and second asked for
  MaxWall     \* bound on the clock

\* Two dues are 24 hours apart, but for a change between them.  Where clocks are
\* put forward at midnight, time.Date may answer with a time before it.
IsCalendar(c) ==
  /\ c \in [0..LastDay -> [start : Int, due : Int]] /\ c[0].start = 0
  /\ \A d, e \in 0..LastDay :
       d < e => c[d].start < c[e].start /\ c[d].due < c[e].start /\ c[d].due < c[e].due
  /\ \A d \in 0..LastDay : c[d].start - Change <= c[d].due
  /\ \A d \in 0..(LastDay - 1) :
       c[d + 1].due - c[d].due \in (DayTicks - Change)..(DayTicks + Change)
  /\ \A t \in 0..MaxWall : \E d \in 0..(LastDay - 1) : c[d].start <= t /\ t < c[d + 1].start

ASSUME TaskAssumption ==
  /\ DayTicks \in Nat \ {0} /\ Change \in 0..(DayTicks - 1)
  /\ LastDay \in Nat /\ MaxWall \in Nat
  /\ \A c \in Calendars : IsCalendar(c)

VARIABLES
  once,        \* the goroutine of RunTask
  periodic,    \* the caller of PeriodicTask: off, run, select or ended
  cancelled,   \* ctx.Done()
  panicked,    \* the periodic function has panicked
  daily,       \* the goroutine of ScheduleDailyTask
  days,        \* the calendar
  wall,
  slot,        \* when the daily task is or was last to run
  startedAt    \* when it was started last

taskVars == <<once, periodic, cancelled, panicked, daily, days, wall, slot, startedAt>>

TaskInitWith(c) ==
  /\ once = "off" /\ periodic = "off" /\ daily = "off"
  /\ cancelled = FALSE /\ panicked = FALSE
  /\ days = c /\ wall = 0 /\ slot = -DayTicks /\ startedAt = -1

TaskInit == \E c \in Calendars : TaskInitWith(c)

\* fn() returns or panics; either way the goroutine ends, and it alone.
RunTask ==
  /\ \/ once = "off" /\ once' = "run"
     \/ once = "run" /\ once' = "ended"
  /\ UNCHANGED <<periodic, cancelled, panicked, daily, days, wall, slot, startedAt>>

(***************************************************************************)
(* PeriodicTask                                                            *)
(***************************************************************************)
PeriodicStart ==
  /\ periodic = "off" /\ periodic' = "run"
  /\ UNCHANGED <<once, cancelled, panicked, daily, days, wall, slot, startedAt>>

PeriodicReturn ==
  /\ periodic = "run" /\ periodic' = "select"
  /\ UNCHANGED <<once, cancelled, panicked, daily, days, wall, slot, startedAt>>

PeriodicPanic ==
  /\ periodic = "run" /\ periodic' = "ended" /\ panicked' = TRUE
  /\ UNCHANGED <<once, cancelled, daily, days, wall, slot, startedAt>>

\* select takes either case if both are ready.
PeriodicTimer ==
  /\ periodic = "select" /\ periodic' = "run"
  /\ UNCHANGED <<once, cancelled, panicked, daily, days, wall, slot, startedAt>>

\* break in place of return leaves the select and not the loop.
PeriodicBreak ==
  /\ periodic = "select" /\ cancelled /\ periodic' = "run"
  /\ UNCHANGED <<once, cancelled, panicked, daily, days, wall, slot, startedAt>>

PeriodicDone ==
  /\ periodic = "select" /\ cancelled /\ periodic' = "ended"
  /\ UNCHANGED <<once, cancelled, panicked, daily, days, wall, slot, startedAt>>

Cancel ==
  /\ ~cancelled /\ cancelled' = TRUE
  /\ UNCHANGED <<once, periodic, panicked, daily, days, wall, slot, startedAt>>

(***************************************************************************)
(* ScheduleDailyTask                                                       *)
(***************************************************************************)
Today(t) == CHOOSE d \in 0..(LastDay - 1) : days[d].start <= t /\ t < days[d + 1].start

\* Today at the time given, however late that is.
NextToday(t) == days[Today(t)].due

Next24h(t) ==
  LET next == days[Today(t)].due
  IN  IF next < t THEN next + DayTicks ELSE next

DailySleep ==
  /\ \/ daily = "off"
     \/ daily = "run" /\ wall > startedAt
  /\ slot' = Next24h(wall) /\ daily' = "sleep"
  /\ UNCHANGED <<once, periodic, cancelled, panicked, days, wall, startedAt>>

DailyRun ==
  /\ daily = "sleep" /\ wall >= slot
  /\ daily' = "run" /\ startedAt' = wall
  /\ UNCHANGED <<once, periodic, cancelled, panicked, days, wall, slot>>

DailyPanic ==
  /\ daily = "run" /\ daily' = "ended"
  /\ UNCHANGED <<once, periodic, cancelled, panicked, days, wall, slot, startedAt>>

Tick ==
  /\ wall < MaxWall /\ wall' = wall + 1
  /\ UNCHANGED <<once, periodic, cancelled, panicked, daily, days, slot, startedAt>>

PeriodicStep == PeriodicReturn \/ PeriodicPanic \/ PeriodicTimer

TaskNext ==
  \/ RunTask \/ PeriodicStart \/ PeriodicStep \/ PeriodicDone \/ Cancel
  \/ DailySleep \/ DailyRun \/ DailyPanic \/ Tick

\* The function returns, the timer fires, and select, which chooses among the
\* ready cases at random, does not pass over ctx.Done() for ever.
TaskFairness == WF_taskVars(PeriodicStep) /\ SF_taskVars(PeriodicDone)

TaskSpec == TaskInit /\ [][TaskNext]_taskVars /\ TaskFairness

(***************************************************************************)
(* Properties                                                              *)
(***************************************************************************)
\* PeriodicTask runs its function again and again until it panics or the
\* context is cancelled, and does not outlive the cancellation.
PeriodicRunsUntil ==
  /\ (periodic = "select") ~> (periodic \in {"run", "ended"})
  /\ [](periodic = "ended" => panicked \/ cancelled)
  /\ (cancelled /\ periodic # "off") ~> (periodic = "ended")

\* No clock is changed from the due time of day d to that of the next day, each
\* a time of its day.
Regular(d) ==
  /\ days[d].start <= days[d].due /\ days[d + 1].start <= days[d + 1].due
  /\ days[d + 1].due = days[d].due + DayTicks

\* ScheduleDailyTask chooses a time that is off from a day's due time by no more
\* than the clocks are changed, and on a regular day the first one due from now
\* on, so that none is left out.  It never goes back, and runs its function for
\* one time again only where that time, 24 hours after it was due, is the same
\* day still, one of more than 24 hours.
DailySlotsInOrder ==
  [][ slot' # slot \/ (daily = "run" /\ daily' = "sleep") =>
        LET d == Today(wall)
        IN  /\ \E e \in d..(d + 1) : slot' - days[e].due \in (-Change)..Change
            /\ slot' >= slot
            /\ slot' > slot \/ days[d + 1].start - days[d].due > DayTicks
            /\ Regular(d) =>
                 /\ wall <= slot' /\ \E e \in 0..LastDay : slot' = days[e].due
                 /\ \A e \in 0..LastDay : days[e].due >= wall => slot' <= days[e].due ]_taskVars
=============================================================================
