---------------------------- MODULE LazyAlerter -----------------------------
(***************************************************************************)
(* The lazy alerts of alert/common.go (CommonAlerter.DoAlertTextLazy) and  *)
(* alert/lark.go (LarkAlerter, with an interval of 120s and a reset of     *)
(* 900s): the errors of a group are reported as often as they occur, and   *)
(* an alert goes out only when they persist, at most one per interval.     *)
(*                                                                         *)
(* DoAlertTextLazy holds the alerter's mutex while AlertText posts to the  *)
(* webhook, so the calls of all groups are serialised and a call that      *)
(* alerts is two steps.  Time is time.Now().Unix(), taken to be monotonic. *)
(***************************************************************************)
EXTENDS Integers

CONSTANTS
    Group,      \* names of groups ("" is the group of AlertTextLazy)
    NoGroup,    \* the group of no call
    Interval,   \* lazyInterval
    Reset,      \* lazyReset
    MaxGap,     \* reports of a steady failure are at most this far apart
    MaxTime     \* bound on the clock

ASSUME AlerterAssumption ==
    /\ Interval \in Nat \ {0} /\ Reset \in Nat /\ MaxTime \in Nat
    /\ Interval < Reset
    /\ NoGroup \notin Group

(* Reports that come often enough that a reset is never due before the next *)
(* alert: 120 + 780 = 900 for the Lark alerter. *)
ASSUME GapAssumption == MaxGap \in Nat \ {0} /\ Interval + MaxGap <= Reset

(* No entry in lazyTimer, or an event that has not happened. *)
Never == -1

Idle == [group |-> NoGroup, at |-> Never]

VARIABLES
    now,         \* time.Now().Unix()
    lazyTimer,   \* ca.lazyTimer: a time per group, or Never
    sending,     \* the call that holds the mutex while it posts, or none
    first,       \* history: time of the first report of each group
    last,        \* history: time of the last report of each group
    alerted,     \* history: time of the last alert of each group
    reports,     \* history: times of all reports of each group
    steady       \* history: has no two reports, or report and now, further apart
                 \* than MaxGap

vars == <<now, lazyTimer, sending, first, last, alerted, reports, steady>>

Time == Nat \cup {Never}

(* Reports of a group persist: another one came at least an interval and    *)
(* less than a reset before time t. *)
Persists(g, t) == \E r \in reports[g] : t - r >= Interval /\ t - r < Reset

TypeOK ==
    /\ now \in Nat
    /\ lazyTimer \in [Group -> Time]
    /\ sending = Idle \/ sending \in [group : Group, at : Nat]
    /\ first \in [Group -> Time]
    /\ last \in [Group -> Time]
    /\ alerted \in [Group -> Time]
    /\ reports \in [Group -> SUBSET Nat]
    /\ steady \in [Group -> BOOLEAN]

Init ==
    /\ now = 0
    /\ lazyTimer = [g \in Group |-> Never]
    /\ sending = Idle
    /\ first = [g \in Group |-> Never]
    /\ last = [g \in Group |-> Never]
    /\ alerted = [g \in Group |-> Never]
    /\ reports = [g \in Group |-> {}]
    /\ steady = [g \in Group |-> TRUE]

(* What every report leaves in the history. *)
Note(g) ==
    /\ first' = [first EXCEPT ![g] = IF @ = Never THEN now ELSE @]
    /\ last' = [last EXCEPT ![g] = now]
    /\ reports' = [reports EXCEPT ![g] = @ \cup {now}]

(* The mutex is free: no call is posting. *)
Unlocked == sending = Idle

(* The first report of a group, and one that comes after a reset: the timer *)
(* starts, nothing is sent. *)
Start(g) ==
    /\ Unlocked
    /\ lazyTimer[g] = Never \/ now - lazyTimer[g] >= Reset
    /\ lazyTimer' = [lazyTimer EXCEPT ![g] = now]
    /\ Note(g)
    /\ UNCHANGED <<now, sending, alerted, steady>>

(* The mutants of Alert. *)
AlertEager(g) ==
    /\ Unlocked
    /\ lazyTimer[g] # Never
    /\ now - lazyTimer[g] < Reset
    /\ now - lazyTimer[g] >= Interval - 1
    /\ sending' = [group |-> g, at |-> now]
    /\ alerted' = [alerted EXCEPT ![g] = now]
    /\ Note(g)
    /\ UNCHANGED <<now, lazyTimer, steady>>

AlertWithoutReset(g) ==
    /\ Unlocked
    /\ lazyTimer[g] # Never
    /\ now - lazyTimer[g] >= Interval
    /\ sending' = [group |-> g, at |-> now]
    /\ alerted' = [alerted EXCEPT ![g] = now]
    /\ Note(g)
    /\ UNCHANGED <<now, lazyTimer, steady>>

(* The interval has passed since the timer started: target.AlertText, with  *)
(* the mutex held. *)
Alert(g) ==
    /\ Unlocked
    /\ lazyTimer[g] # Never
    /\ now - lazyTimer[g] < Reset
    /\ now - lazyTimer[g] >= Interval
    /\ sending' = [group |-> g, at |-> now]
    /\ alerted' = [alerted EXCEPT ![g] = now]
    /\ Note(g)
    /\ UNCHANGED <<now, lazyTimer, steady>>

(* AlertText returned: the timer restarts from the time the call read, and  *)
(* the mutex is released. *)
Sent ==
    /\ sending # Idle
    /\ lazyTimer' = [lazyTimer EXCEPT ![sending.group] = sending.at]
    /\ sending' = Idle
    /\ UNCHANGED <<now, first, last, alerted, reports, steady>>

(* Mutant of Drop. *)
DropRestarts(g) ==
    /\ Unlocked
    /\ lazyTimer[g] # Never
    /\ now - lazyTimer[g] < Interval
    /\ lazyTimer' = [lazyTimer EXCEPT ![g] = now]
    /\ Note(g)
    /\ UNCHANGED <<now, sending, alerted, steady>>

(* Less than an interval: the report is dropped. *)
Drop(g) ==
    /\ Unlocked
    /\ lazyTimer[g] # Never
    /\ now - lazyTimer[g] < Reset
    /\ now - lazyTimer[g] < Interval
    /\ Note(g)
    /\ UNCHANGED <<now, lazyTimer, sending, alerted, steady>>

Tick ==
    /\ now < MaxTime
    /\ now' = now + 1
    /\ steady' = [g \in Group |-> steady[g] /\ (last[g] = Never \/ now + 1 - last[g] <= MaxGap)]
    /\ UNCHANGED <<lazyTimer, sending, first, last, alerted, reports>>

(* A call of AlertTextLazyGroup(g, ...), or of AlertTextLazy for "". *)
Report(g) == Start(g) \/ Alert(g) \/ Drop(g)

Next ==
    \/ \E g \in Group : Report(g)
    \/ Sent
    \/ Tick

Spec == Init /\ [][Next]_vars

-----------------------------------------------------------------------------
(* Properties *)

(* Two alerts of one group are at least an interval apart, whatever the     *)
(* pattern of reports, of other groups too, and however long the webhook    *)
(* takes: DoAlertTextLazy reads the timer, posts and restarts it under one  *)
(* mutex.                                                                   *)
AlertsAreSpaced ==
    [][\A g \in Group :
         alerted'[g] # alerted[g] /\ alerted[g] # Never =>
            alerted'[g] - alerted[g] >= Interval]_vars

(* An alert means the error persists: an earlier report of the group is at  *)
(* least an interval and less than a reset old.  A burst, and a report      *)
(* after a long silence, never alert.                                       *)
AlertMeansPersistent ==
    [][\A g \in Group : alerted'[g] # alerted[g] => Persists(g, now)]_vars

(* The last alert of g, or its first report while there was none. *)
Base(g) == IF alerted[g] # Never THEN alerted[g] ELSE first[g]

(* A failure that is reported steadily is alerted in time: from the first   *)
(* report to the first alert, and from one alert to the next, less than an  *)
(* interval and a gap pass.  The reset, which silences a call, cannot hit.  *)
SteadyIsAlerted ==
    \A g \in Group : steady[g] /\ last[g] # Never => now - Base(g) < Interval + MaxGap

(* The inductive invariant: the timer of a group is the time of one of its  *)
(* reports and not older than its last alert, except while that alert is    *)
(* being posted; no recorded time is in the future.                         *)
AlertInv ==
    /\ TypeOK
    /\ \A g \in Group :
        /\ lazyTimer[g] # Never => lazyTimer[g] \in reports[g]
        /\ lazyTimer[g] = Never <=> last[g] = Never
        /\ lazyTimer[g] <= now /\ alerted[g] <= now /\ last[g] <= now
        /\ sending.group # g => alerted[g] <= lazyTimer[g]
        /\ sending # Idle /\ sending.group = g =>
             sending.at = alerted[g] /\ sending.at \in reports[g] /\ last[g] # Never

(* Its strengthening for steady failures: the timer is exactly the last     *)
(* alert or the first report, and the last report came less than an         *)
(* interval after it.                                                       *)
SteadyInv ==
    /\ AlertInv
    /\ \A g \in Group :
        /\ first[g] = Never <=> last[g] = Never
        /\ alerted[g] # Never => last[g] # Never
        /\ steady[g] /\ last[g] # Never =>
            /\ now - last[g] <= MaxGap
            /\ Base(g) <= last[g]
            /\ last[g] - Base(g) < Interval
            /\ sending = Idle \/ sending.group # g => lazyTimer[g] = Base(g)
=============================================================================
