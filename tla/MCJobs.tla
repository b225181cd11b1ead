------------------------------- MODULE MCJobs -------------------------------
(***************************************************************************)
(* What a service does in the background: it hands over transactions and   *)
(* runs tasks.  The two share no state; a behaviour is one of either.      *)
(***************************************************************************)
EXTENDS TxStore, Tasks

VARIABLE part

jobVars == <<part, txVars, taskVars>>

(* Two workers with one transaction, plain or padded and with different     *)
(* contents, with one hash on two chains, or with a deposit and a payment.  *)
Job(kind, of, form, value) ==
  [kind |-> kind, of |-> of, name |-> [word |-> "x", form |-> form], value |-> value]

MCTxLoads ==
  LET pair(a, b) == [w \in TxWorkers |-> IF w = "u" THEN a ELSE b]
  IN  { pair(Job(k, 1, f, "a"), Job(k, 1, g, "b")) : k \in {"src", "dst"}, f \in {"lower", "padded"},
                                                     g \in {"lower", "padded"} }
      \cup { pair(Job("src", 1, f, "a"), Job("src", 2, "padded", "a")) : f \in {"lower", "padded"} }
      \cup { pair(Job("src", 1, "padded", "a"), Job("dst", 1, "padded", "a")) }

TxIdle == TxInitWith(CHOOSE js \in TxLoads : TRUE, "off")

(* Three days, one of which may be longer or shorter by a change of the     *)
(* clocks.  The function is due at any tick of a day, and on the day of the  *)
(* change before or after it.                                               *)
MCCalendar(changed, by, hour, shift) ==
  [d \in 0..LastDay |->
     LET start == d * DayTicks + (IF d > changed THEN by ELSE 0)
     IN  [start |-> start, due |-> start + hour + (IF d = changed THEN shift ELSE 0)]]

MCCalendars ==
  UNION { { c \in { MCCalendar(n, by, hour, s) : n \in 0..2, hour \in 0..(DayTicks - 1), s \in {0, by} } : IsCalendar(c) }
            : by \in {-Change, 0, Change} }

TaskIdle == TaskInitWith(CHOOSE c \in Calendars : TRUE)

JobInit ==
  /\ part \in {"store", "tasks"}
  /\ IF part = "store" THEN TxInit /\ TaskIdle ELSE TxIdle /\ TaskInit

JobNext ==
  \/ part = "store" /\ TxNext /\ UNCHANGED <<part, taskVars>>
  \/ part = "tasks" /\ TaskNext /\ UNCHANGED <<part, txVars>>

JobSpec == JobInit /\ [][JobNext]_jobVars /\ TxFairness /\ TaskFairness
=============================================================================
