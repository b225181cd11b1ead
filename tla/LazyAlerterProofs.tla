-------------------------- MODULE LazyAlerterProofs --------------------------
(***************************************************************************)
(* Lazy alerts are spaced, mean a persistent error and are not overdue in  *)
(* a steady failure, for every interval, reset and set of groups.       *)
(***************************************************************************)
EXTENDS LazyAlerter, TLAPS

(* No report yet: the invariant holds. *)
LEMMA InitInv == Init => AlertInv
  BY AlerterAssumption DEF Init, AlertInv, TypeOK, Time, Never, Idle

(* A report, the end of a post and the clock preserve the invariant. *)
LEMMA InvStep == AlertInv /\ [Next]_vars => AlertInv'
  <1> SUFFICES ASSUME AlertInv, [Next]_vars PROVE AlertInv'
    OBVIOUS
  <1> USE AlerterAssumption DEF AlertInv, TypeOK, Time, Never, Idle
  <1>1. ASSUME NEW g \in Group, Start(g) PROVE AlertInv'
    BY <1>1 DEF Start, Unlocked, Note
  <1>2. ASSUME NEW g \in Group, Alert(g) PROVE AlertInv'
    BY <1>2 DEF Alert, Unlocked, Note
  <1>3. ASSUME NEW g \in Group, Drop(g) PROVE AlertInv'
    BY <1>3 DEF Drop, Unlocked, Note
  <1>4. CASE Sent
    BY <1>4 DEF Sent
  <1>5. CASE Tick
    BY <1>5 DEF Tick
  <1>6. CASE UNCHANGED vars
    BY <1>6 DEF vars
  <1> QED
    BY <1>1, <1>2, <1>3, <1>4, <1>5, <1>6 DEF Next, Report

(* The invariant holds of every behaviour of the alerter. *)
THEOREM AlertInvariant == Spec => []AlertInv
  <1> QED
    BY InitInv, InvStep, PTL DEF Spec

(* Only Alert records an alert, so a change of alerted is an Alert step.    *)
LEMMA OnlyAlert ==
    ASSUME AlertInv, [Next]_vars, NEW g \in Group, alerted'[g] # alerted[g]
    PROVE  Alert(g) /\ alerted'[g] = now
  <1> USE DEF AlertInv, TypeOK
  <1>1. ASSUME NEW h \in Group, Start(h) \/ Drop(h) PROVE FALSE
    BY <1>1 DEF Start, Drop
  <1>2. ~Sent /\ ~Tick /\ ~UNCHANGED vars
    BY DEF Sent, Tick, vars
  <1>3. PICK h \in Group : Alert(h)
    BY <1>1, <1>2 DEF Next, Report
  <1>4. h = g
    BY <1>3 DEF Alert
  <1> QED
    BY <1>3, <1>4 DEF Alert

(* Two alerts of a group are at least an interval apart. *)
THEOREM SpacedAlerts == Spec => AlertsAreSpaced
  <1>1. ASSUME AlertInv, [Next]_vars
        PROVE  \A g \in Group : alerted'[g] # alerted[g] /\ alerted[g] # Never =>
                   alerted'[g] - alerted[g] >= Interval
    <2> SUFFICES ASSUME NEW g \in Group, alerted'[g] # alerted[g], alerted[g] # Never
                 PROVE  alerted'[g] - alerted[g] >= Interval
      OBVIOUS
    <2>1. Alert(g) /\ alerted'[g] = now
      BY <1>1, OnlyAlert
    <2>2. alerted[g] <= lazyTimer[g]
      BY <1>1, <2>1, AlerterAssumption DEF Alert, Unlocked, AlertInv, Idle
    <2> QED
      BY <1>1, <2>1, <2>2, AlerterAssumption DEF Alert, AlertInv, TypeOK, Time, Never
  <1> QED
    BY <1>1, AlertInvariant, PTL DEF Spec, AlertsAreSpaced

(* Every alert is backed by an earlier report of its group. *)
THEOREM PersistentAlerts == Spec => AlertMeansPersistent
  <1>1. ASSUME AlertInv, [Next]_vars
        PROVE  \A g \in Group : alerted'[g] # alerted[g] => Persists(g, now)
    <2> SUFFICES ASSUME NEW g \in Group, alerted'[g] # alerted[g] PROVE Persists(g, now)
      OBVIOUS
    <2>1. Alert(g)
      BY <1>1, OnlyAlert
    <2>2. lazyTimer[g] \in reports[g]
      BY <1>1, <2>1 DEF Alert, AlertInv
    <2> QED
      BY <2>1, <2>2 DEF Alert, Persists
  <1> QED
    BY <1>1, AlertInvariant, PTL DEF Spec, AlertMeansPersistent

(* The steps preserve the stronger invariant. *)
LEMMA SteadyStep == SteadyInv /\ [Next]_vars => SteadyInv'
  <1> SUFFICES ASSUME SteadyInv, [Next]_vars PROVE SteadyInv'
    OBVIOUS
  <1>0. AlertInv'
    BY InvStep DEF SteadyInv
  <1> USE AlerterAssumption, GapAssumption
      DEF SteadyInv, AlertInv, TypeOK, Time, Never, Idle, Base
  <1>1. ASSUME NEW g \in Group, Start(g) PROVE SteadyInv'
    BY <1>0, <1>1 DEF Start, Unlocked, Note
  <1>2. ASSUME NEW g \in Group, Alert(g) PROVE SteadyInv'
    BY <1>0, <1>2 DEF Alert, Unlocked, Note
  <1>3. ASSUME NEW g \in Group, Drop(g) PROVE SteadyInv'
    BY <1>0, <1>3 DEF Drop, Unlocked, Note
  <1>4. CASE Sent
    BY <1>0, <1>4 DEF Sent
  <1>5. CASE Tick
    <2>1. ASSUME NEW g \in Group, steady'[g]
          PROVE  steady[g] /\ (last[g] = Never \/ now + 1 - last[g] <= MaxGap)
      BY <1>5, <2>1, Zenon DEF Tick
    <2>2. now' = now + 1 /\ UNCHANGED <<lazyTimer, sending, first, last, alerted>>
      BY <1>5 DEF Tick
    <2> QED
      BY <1>0, <2>1, <2>2
  <1>6. CASE UNCHANGED vars
    BY <1>0, <1>6 DEF vars
  <1> QED
    BY <1>1, <1>2, <1>3, <1>4, <1>5, <1>6 DEF Next, Report

(* While a group keeps failing, its next alert is less than an interval and *)
(* a gap away. *)
THEOREM SteadyAlerts == Spec => []SteadyIsAlerted
  <1>1. Init => SteadyInv
    BY InitInv, AlerterAssumption, GapAssumption
    DEF Init, SteadyInv, Base, Never, Idle
  <1>2. SteadyInv => SteadyIsAlerted
    BY AlerterAssumption, GapAssumption
    DEF SteadyInv, SteadyIsAlerted, AlertInv, TypeOK, Time, Never, Base
  <1> QED
    BY <1>1, <1>2, SteadyStep, PTL DEF Spec
=============================================================================
