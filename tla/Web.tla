---------------------------------- MODULE Web ----------------------------------
(***************************************************************************)
(* The two web front ends with requests in flight: the payments of X402    *)
(* and the browser's chat of Chat.  They share no state; one is chosen at  *)
(* the start and the other stands still.  The chat part may also stand     *)
(* still, its requests being bounded, so that a deadlock is one of the     *)
(* payments.                                                               *)
(***************************************************************************)
EXTENDS X402, Sequences

CONSTANTS
    (* Chat *) Sid, Account, Item, Paid, Tab, None, Serialized,
               MaxBookings, MaxRequests, MaxForgets

VARIABLES
    part,
    (* Chat *) live, bookings, sessions, stash, cookie, minted, req, shown, warned,
               sent, lost, told

Ch == INSTANCE Chat

(* "None" is none of the things it may stand in for, and a reply that says *)
(* nothing new names no account.                                           *)
ASSUME ChatAssumption ==
    /\ None \notin Sid \cup Account \cup {"same"} \cup Ch!SessionType
    /\ "same" \notin Account
    /\ MaxBookings \in Nat

chatVars == <<live, bookings, sessions, stash, cookie, minted, req, shown, warned,
              sent, lost, told>>
webVars == <<part, vars, chatVars>>

WebInit == part \in {"payments", "chat"} /\ Init /\ Ch!Init
WebNext ==
    /\ part' = part
    /\ \/ part = "payments" /\ Next /\ UNCHANGED chatVars
       \/ part = "chat" /\ (Ch!Next \/ UNCHANGED chatVars) /\ UNCHANGED vars
WebSpec == WebInit /\ [][WebNext]_webVars

(* A number books the listing that was shown at it (Chat).                 *)
BookedAsShown == Ch!BookedAsShown
(* A session's cancel tokens are those of its own account's bookings (Chat). *)
CancelTokensFit == Ch!CancelTokensFit
(* The browser acts as the account it was last told it acts as (Chat).     *)
ToldIsActing == Ch!ToldIsActing
(* Only a session warned about an account erases it (Chat).                *)
ErasedAsWarned == Ch!ErasedAsWarned
=============================================================================
