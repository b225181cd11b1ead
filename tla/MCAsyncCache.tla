---------------------------- MODULE MCAsyncCache ----------------------------
(* Small instances of AsyncCache. *)
EXTENDS AsyncCache, TLC

CONSTANTS a, b, k1

ClientSymmetry == Permutations({a, b})

AllCalls == {"get", "getOrSet", "setDefault", "deleteIf"}

Cached(c) == [expire |-> FALSE, clients |-> c, calls |-> AllCalls]

(* One client against both passes, two clients against the refresh pass. *)
MCSetups ==
    {Cached({a, b})}
      \cup { [Cached({c}) EXCEPT !.expire = TRUE] : c \in {a, b} }

(* Two clients that share flights. *)
MCFlights == {[Cached({a, b}) EXCEPT !.calls = {"get", "getOrSet"}]}

MCOne == {Cached({a})}

MCExpiring == {[Cached({a}) EXCEPT !.expire = TRUE]}

MCTwo == {Cached({a, b})}
=============================================================================
