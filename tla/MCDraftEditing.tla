--------------------------- MODULE MCDraftEditing ---------------------------
(***************************************************************************)
(* A small instance of DraftEditing: alice saves again when nothing        *)
(* answers, bob saves once; each visits the screen once.                   *)
(***************************************************************************)
EXTENDS DraftEditing, TLC

CONSTANTS alice, bob, x, y

Once == [u \in User |-> 1]
Again == [u \in User |-> IF u = alice THEN 2 ELSE 1]

TextSymmetry == Permutations(Text)
=============================================================================
