----------------------------- MODULE Snapshots -----------------------------
(***************************************************************************)
(* What a reader of a table manager relies on, and all it has to know of   *)
(* the loads: the tables change at their own pace, and what is shown of    *)
(* them is replaced as a whole, by every usable row of a content that each *)
(* table has had.  It may be an old one: the promise is wholeness, not     *)
(* freshness.                                                              *)
(***************************************************************************)
EXTENDS Naturals, Sequences

CONSTANTS
  Contents,     \* the contents a table may have
  Usable(_, _)  \* the rows of a content of a table that a reader gets to see

VARIABLES
  past,   \* the contents each table has had, the current one last
  shown   \* the views of the tables that the indexes give: never more than one

vars == <<past, shown>>

\* Before the first load the indexes are empty.
Init ==
  /\ \A t \in DOMAIN past : past[t] \in { <<c>> : c \in Contents }
  /\ shown = { [t \in DOMAIN past |-> {}] }

\* Another program edits a table.
Change ==
  /\ \E t \in DOMAIN past, c \in Contents : past' = [past EXCEPT ![t] = Append(@, c)]
  /\ UNCHANGED shown

\* The view that shows content n[t] of each table t.
Snapshot(n) == [t \in DOMAIN past |-> Usable(t, past[t][n[t]])]

\* A load puts a snapshot in the place of what was shown.
Replace ==
  /\ \E n \in [DOMAIN past -> UNION { DOMAIN past[t] : t \in DOMAIN past }] :
       /\ \A t \in DOMAIN past : n[t] \in DOMAIN past[t]
       /\ shown' = { Snapshot(n) }
  /\ UNCHANGED past

Next == Change \/ Replace

Spec == Init /\ [][Next]_vars
=============================================================================
