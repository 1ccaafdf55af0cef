--------------------------- MODULE MCLoginThrottle ---------------------------
(***************************************************************************)
(* A small instance of LoginThrottle: up to three logins at once and four  *)
(* in all, where two failures lock a scope.                                *)
(***************************************************************************)
EXTENDS LoginThrottle, TLC

CONSTANTS l1, l2, l3, user, here, there

Symmetry == Permutations(Login)
=============================================================================
