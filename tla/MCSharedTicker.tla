--------------------------- MODULE MCSharedTicker ---------------------------
(* Two owners that share a refresh ticker and, if they expire, an expire     *)
(* ticker. *)
EXTENDS SharedTicker, TLC

CONSTANTS c1, c2, r1, e1

(* Both caches have the same refresh duration. *)
MCRefreshShared == (c1 :> r1) @@ (c2 :> r1)

(* Only the first cache enables expiry. *)
MCExpireFirst == (c1 :> e1) @@ (c2 :> NoTicker)

(* No cache enables expiry. *)
MCExpireNone == [c \in {c1, c2} |-> NoTicker]
=============================================================================
