----------------------------- MODULE TxRegister -----------------------------
(***************************************************************************)
(* What the transaction tables promise the services that share them: a     *)
(* register per transaction that is written at most once and never         *)
(* rewritten, however often and by whomever the transaction is reported.   *)
(***************************************************************************)
CONSTANTS TxKeys, TxValues

VARIABLE register   \* key -> the set of its values, of at most one element

RegisterInit == register = [k \in TxKeys |-> {}]

Write(k, v) ==
  /\ register[k] = {}
  /\ register' = [register EXCEPT ![k] = {v}]

RegisterSpec == RegisterInit /\ [][\E k \in TxKeys, v \in TxValues : Write(k, v)]_register
=============================================================================
