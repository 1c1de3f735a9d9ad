---------------------------- MODULE MCBookRequests ----------------------------
(***************************************************************************)
(* Small instances of BookRequests for TLC.                                *)
(***************************************************************************)
EXTENDS BookRequests, TLC

CONSTANT t1

MCEditTerms == {[terms |-> t1, paid |-> TRUE]}
MCNoEdit == {[terms |-> DefaultTerms, paid |-> TRUE]}

MCSymmetry == Permutations(Request) \cup Permutations(Key)
              \cup Permutations(Principal \ {Owner})
=============================================================================
