-------------------------------- MODULE MCWeb --------------------------------
(***************************************************************************)
(* Small instances of the two web front ends: the sids, the accounts and   *)
(* the requests of the browser are interchangeable, and so are the         *)
(* spellings of a nonce.                                                   *)
(***************************************************************************)
EXTENDS Web, TLC

MCSymmetry == Permutations(Sid) \cup Permutations(Account) \cup Permutations(Tab)
              \cup Permutations(Spelling)
=============================================================================
