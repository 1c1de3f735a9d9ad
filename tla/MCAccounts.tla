------------------------------ MODULE MCAccounts ------------------------------
(***************************************************************************)
(* Small instances of Accounts for TLC.  Ids, keys, codes and requests are *)
(* interchangeable.                                                        *)
(***************************************************************************)
EXTENDS Accounts, TLC

MCSymmetry == Permutations(Account) \cup Permutations(Code) \cup Permutations(Key)
              \cup Permutations(Login) \cup Permutations(Session)
=============================================================================
