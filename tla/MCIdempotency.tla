---------------------------- MODULE MCIdempotency ----------------------------
(***************************************************************************)
(* A small instance of Idempotency: one key of the endpoint that creates   *)
(* orders, for which a client may send two different orders, and two keys  *)
(* of the endpoint that confirms them, both used for one order.            *)
(***************************************************************************)
EXTENDS Idempotency, TLC

CONSTANTS t1, t2, t3, none, k1, k2, k3, order, otherOrder, confirm, here, there

MCAsks ==
  [k \in Key |-> IF k = k1 THEN {order, otherOrder} ELSE {confirm}]
MCKeyCompany == [k \in Key |-> IF k = k1 THEN here ELSE there]

TxnSymmetry == Permutations(Txn)
=============================================================================
