---------------------------- MODULE DurableStore ----------------------------
(***************************************************************************)
(* What the hub needs of its storage: snapshots are numbered in the order  *)
(* their writes begin; a start gets one of them whole, never one older     *)
(* than the last whose write returned.  0 is the missing state.            *)
(***************************************************************************)
EXTENDS Naturals

VARIABLES
    begun,          \* the newest snapshot whose write began
    returned,       \* the newest whose write returned
    running         \* what a hub last started from

storeVars == <<begun, returned, running>>

Init == begun = 0 /\ returned = 0 /\ running = 0

Begin  == begun' = begun + 1 /\ UNCHANGED <<returned, running>>
Return == returned' = begun /\ UNCHANGED <<begun, running>>
Load   == running' \in returned..begun /\ UNCHANGED <<begun, returned>>

Next == Begin \/ Return \/ Load

Spec == Init /\ [][Next]_storeVars
=============================================================================
