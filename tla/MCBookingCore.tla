---------------------------- MODULE MCBookingCore ----------------------------
(***************************************************************************)
(* Small instances of BookingCore for TLC.  Listings, bookings and syncers *)
(* are interchangeable, so runs that check safety use their permutations.  *)
(***************************************************************************)
EXTENDS BookingCore, TLC

MCCapacities == {0, 1, 3}
MCOneCapacity == {2}
MCOneTick == {1}

MCSymmetry == Permutations(Listing) \cup Permutations(Booking) \cup Permutations(Syncer)
=============================================================================
