----------------------------- MODULE MCReputation -----------------------------
(***************************************************************************)
(* Small instances of Reputation for TLC.                                  *)
(***************************************************************************)
EXTENDS Reputation, TLC

MCSymmetry == Permutations(Listing) \cup Permutations(Booking)
              \cup Permutations(Principal) \cup Permutations(Wallet)
=============================================================================
