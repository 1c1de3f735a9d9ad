------------------------------- MODULE Escrow -------------------------------
(***************************************************************************)
(* What the hub promises about the money of a booking, whatever requests,  *)
(* synchronisations and restarts happen: a paid booking is held, then      *)
(* released or refunded once; a settled release can only be undone into a  *)
(* refund; a free booking is waived and may be fulfilled or cancelled; an  *)
(* instant booking is final from the start.  SPEC.md section 5 draws this  *)
(* diagram; BookingCore is shown to implement it.                          *)
(***************************************************************************)
CONSTANT Booking

VARIABLE escrow

Final(from, to) ==
    \/ from = "HELD"     /\ to \in {"RELEASED", "REFUNDED"}
    \/ from = "WAIVED"   /\ to \in {"RELEASED", "REFUNDED"}
    \/ from = "RELEASED" /\ to = "REFUNDED"

Init == escrow = [b \in Booking |-> "none"]

Open(b) ==
    /\ escrow[b] = "none"
    /\ \E s \in {"HELD", "WAIVED", "DIRECT"} :
            escrow' = [escrow EXCEPT ![b] = s]

Move(b) ==
    \E s \in {"RELEASED", "REFUNDED"} :
        /\ Final(escrow[b], s)
        /\ escrow' = [escrow EXCEPT ![b] = s]

Next == \E b \in Booking : Open(b) \/ Move(b)

Spec == Init /\ [][Next]_escrow
=============================================================================
