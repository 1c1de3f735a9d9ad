----------------------------- MODULE BookingCore -----------------------------
(***************************************************************************)
(* The booking engine of the hub (everlist/app.py): listings with counted  *)
(* inventory, bookings with their escrow state, the public ledger, the     *)
(* mirror of the on-chain escrows, and the snapshot on disk.               *)
(*                                                                         *)
(* Handlers run in threads; what one does while it holds LOCK is one       *)
(* action.  A handler that reads, lets go of LOCK and comes back (token    *)
(* check then transition, chain read then mirror) is several actions.      *)
(***************************************************************************)
EXTENDS Integers, FiniteSets

CONSTANTS
    Listing,      \* listing ids; the per-vertical counters never reuse one
    Booking,      \* booking ids; token_hex(12), never reused
    Ref,          \* on-chain escrows: (contract, escrow_id) pairs
    Syncer,       \* concurrent POST /admin/sync-escrow requests
    NoRef,        \* a booking without escrow_ref
    NoListing,    \* the listing field of an unused booking id
    Capacity,     \* the capacities organizers choose
    MaxQty,       \* largest quantity of one booking (100 in the code)
    Window,       \* the refund windows organizers choose, in clock ticks
    MaxTime,      \* bound of the clock
    MaxCrashes,   \* bound on restarts
    SettleAuto,   \* HUB_PAY_MODE=testnet and HUB_SETTLE_MODE=auto
    DiskFaults    \* may the snapshot raise: disk full, or the nonce table
                  \* changing size while _persist_locked copies it

ASSUME CoreAssumption ==
    /\ IsFiniteSet(Booking)
    /\ NoRef \notin Ref
    /\ NoListing \notin Listing
    /\ Capacity \subseteq Nat
    /\ MaxQty \in Nat \ {0}
    /\ Window \subseteq Nat \ {0}
    /\ MaxTime \in Nat
    /\ MaxCrashes \in Nat
    /\ SettleAuto \in BOOLEAN
    /\ DiskFaults \in BOOLEAN

VARIABLES
    listing,      \* LISTINGS
    booking,      \* BOOKINGS
    entry,        \* LEDGER: the escrow field of the booking's own entry
    lastSync,     \* LEDGER: "to" of the booking's newest escrow_sync entry
    settled,      \* LEDGER holds an x402_settlement entry (it has no "booking" key)
    shadowed,     \* bookings whose entry comes after that settlement entry
    spent,        \* cancel tokens whose nonce is in hublib._NONCES
    disk,         \* the last snapshot written
    confirming,   \* confirm requests past verify_token, waiting for LOCK
    cancelling,   \* cancel requests past verify_token, waiting for LOCK
    syncSnap,     \* per sync request: the escrow states copied under LOCK
    syncRead,     \* per sync request: the chain answer being applied
    chain,        \* public state of the on-chain escrows (external)
    now,          \* time.time()
    crashes       \* restarts so far (bound only)

ledgerVars == <<entry, lastSync, settled, shadowed>>
requestVars == <<confirming, cancelling, syncSnap, syncRead>>
memVars == <<listing, booking, ledgerVars, spent>>
vars == <<memVars, disk, requestVars, chain, now, crashes>>

EscrowState == {"HELD", "WAIVED", "DIRECT", "RELEASED", "REFUNDED"}
ChainState == {"NONE", "HELD", "RELEASED", "REFUNDED"}
Rail == {"escrow", "instant"}

ListingRec == [st : {"absent", "live", "gone"}, tracks : BOOLEAN,
               capacity : Nat, registered : Nat, paid : BOOLEAN,
               rail : Rail, window : Nat, archived : BOOLEAN]
BookingRec == [escrow : EscrowState \cup {"none"}, listing : Listing \cup {NoListing},
               qty : 0..MaxQty, window : Nat, created : Nat, ref : Ref \cup {NoRef}]

NewListing == [st |-> "absent", tracks |-> FALSE, capacity |-> 0, registered |-> 0,
               paid |-> FALSE, rail |-> "escrow", window |-> 0, archived |-> FALSE]
NewBooking == [escrow |-> "none", listing |-> NoListing, qty |-> 0,
               window |-> 0, created |-> 0, ref |-> NoRef]
NoRead == [b |-> "none", chain |-> "NONE"]

Snapshot == [listing |-> listing, booking |-> booking, entry |-> entry,
             lastSync |-> lastSync, settled |-> settled, shadowed |-> shadowed,
             spent |-> spent]
SnapshotType ==
    [listing : [Listing -> ListingRec], booking : [Booking -> BookingRec],
     entry : [Booking -> EscrowState \cup {"none"}],
     lastSync : [Booking -> EscrowState \cup {"none"}],
     settled : BOOLEAN, shadowed : SUBSET Booking, spent : SUBSET Booking]

Init ==
    /\ listing = [l \in Listing |-> NewListing]
    /\ booking = [b \in Booking |-> NewBooking]
    /\ entry = [b \in Booking |-> "none"]
    /\ lastSync = [b \in Booking |-> "none"]
    /\ settled = FALSE
    /\ shadowed = {}
    /\ spent = {}
    /\ disk = Snapshot
    /\ confirming = {}
    /\ cancelling = {}
    /\ syncSnap = [s \in Syncer |-> [b \in Booking |-> "none"]]
    /\ syncRead = [s \in Syncer |-> NoRead]
    /\ chain = [r \in Ref |-> "NONE"]
    /\ now = 0
    /\ crashes = 0

(* _persist_locked: the atomic snapshot at the end of every mutation.  When
   the write raises, the handler dies after it changed memory.             *)
Persist ==
    \/ disk' = Snapshot'
    \/ DiskFaults /\ disk' = disk

-----------------------------------------------------------------------------
(* Listings.                                                               *)

Live(l) == listing[l].st = "live"

(* The window of the payment terms: the instant rail has none.             *)
TermsWindow(r, w) == IF r = "instant" THEN 0 ELSE w

(* A tracked vertical starts its registered counter at 0.                  *)
OpenListing(tracks, paid, c, r, w) ==
    [st |-> "live", tracks |-> tracks, capacity |-> IF tracks THEN c ELSE 0,
     registered |-> 0, paid |-> paid, rail |-> r, window |-> TermsWindow(r, w),
     archived |-> FALSE]

(* POST /listings.                                                         *)
CreateListing(l) ==
    /\ listing[l].st = "absent"
    /\ \E tracks, paid \in BOOLEAN, c \in Capacity, r \in Rail, w \in Window :
         /\ tracks => c > 0
         /\ listing' = [listing EXCEPT ![l] = OpenListing(tracks, paid, c, r, w)]
    /\ UNCHANGED <<booking, ledgerVars, spent, requestVars, chain, now, crashes>>
    /\ Persist

(* Mutant: only money in escrow binds a listing.                           *)
ActiveHeldOnly(l) == {b \in Booking : booking[b].listing = l /\ booking[b].escrow = "HELD"}

(* Bookings that still bind the listing: delete refuses while one exists.  *)
Active(l) == {b \in Booking : /\ booking[b].listing = l
                              /\ booking[b].escrow \in {"HELD", "WAIVED", "DIRECT"}}

EditedListing(rec, paid, c, r, w) ==
    [rec EXCEPT !.capacity = IF rec.tracks THEN c ELSE rec.capacity,
                !.paid = paid, !.rail = r, !.window = TermsWindow(r, w)]

(* manage: edit.  Price, capacity and payment terms may change at any time;
   capacity never below what is registered.                                *)
EditListing(l) ==
    /\ Live(l)
    /\ \E paid \in BOOLEAN, c \in Capacity, r \in Rail, w \in Window :
         /\ listing[l].tracks => c >= listing[l].registered
         /\ listing' = [listing EXCEPT ![l] = EditedListing(listing[l], paid, c, r, w)]
    /\ UNCHANGED <<booking, ledgerVars, spent, requestVars, chain, now, crashes>>
    /\ Persist

(* manage: archive and unarchive; also what account deletion does to a
   listing it owns.                                                        *)
ArchiveListing(l) ==
    /\ Live(l)
    /\ listing' = [listing EXCEPT ![l].archived = ~@]
    /\ UNCHANGED <<booking, ledgerVars, spent, requestVars, chain, now, crashes>>
    /\ Persist

DeleteListing(l) ==
    /\ Live(l)
    /\ Active(l) = {}
    /\ listing' = [listing EXCEPT ![l].st = "gone"]
    /\ UNCHANGED <<booking, ledgerVars, spent, requestVars, chain, now, crashes>>
    /\ Persist

-----------------------------------------------------------------------------
(* Bookings.                                                               *)

(* Mutant: the duplicate wall looks at unsettled bookings only.            *)
RefTakenWhileHeld(r) == \E b \in Booking : booking[b].ref = r /\ booking[b].escrow = "HELD"

RefTaken(r) == \E b \in Booking : booking[b].ref = r

(* The escrow state a booking starts in.                                   *)
Opening(rec) == IF ~rec.paid THEN "WAIVED"
                ELSE IF rec.rail = "instant" THEN "DIRECT" ELSE "HELD"

(* Mutant: the capacity check forgets the quantity.                        *)
HasRoomForOne(l, q) ==
    listing[l].tracks => listing[l].registered + 1 <= listing[l].capacity

HasRoom(l, q) ==
    listing[l].tracks => listing[l].registered + q <= listing[l].capacity

(* The reservation section of POST /book: every check and every change.    *)
Reserve(b, l, q, r) ==
    /\ booking[b].escrow = "none"
    /\ Live(l)
    /\ ~listing[l].archived
    /\ HasRoom(l, q)
    /\ r # NoRef => /\ Opening(listing[l]) = "HELD"
                    /\ ~RefTaken(r)
    /\ booking' = [booking EXCEPT ![b] =
         [escrow |-> Opening(listing[l]), listing |-> l, qty |-> q,
          window |-> listing[l].window, created |-> now, ref |-> r]]
    /\ entry' = [entry EXCEPT ![b] = Opening(listing[l])]
    /\ shadowed' = IF settled THEN shadowed \cup {b} ELSE shadowed
    /\ listing' = [listing EXCEPT
         ![l].registered = IF listing[l].tracks THEN @ + q ELSE @]
    /\ UNCHANGED <<lastSync, settled, spent, requestVars, chain, now, crashes>>

(* Mutant: the snapshot is written before the seats are counted.           *)
BookWrittenEarly(b, l, q, r) ==
    /\ Reserve(b, l, q, r)
    /\ disk' = [Snapshot' EXCEPT !.listing = listing]

Book(b, l, q, r) == Reserve(b, l, q, r) /\ Persist

(* Mutant: the transition is not written to the ledger.                    *)
LedgerSkipped(b, s) == UNCHANGED ledgerVars /\ Persist

(* "for t in LEDGER: if t['booking'] == bid": an x402_settlement entry has no
   such key, so the loop raises when it reaches one.  Entries before it have
   been rewritten by then, and neither the rest of the ledger nor the disk is.*)
LedgerLoop(b, s) ==
    /\ entry' = IF settled /\ b \in shadowed THEN entry ELSE [entry EXCEPT ![b] = s]
    /\ UNCHANGED <<lastSync, settled, shadowed>>
    /\ IF settled THEN disk' = disk ELSE Persist

(* POST /book/{id}/confirm: verify_token spends the owner's token first.   *)
VerifyConfirm(b) ==
    /\ booking[b].escrow # "none"
    /\ b \notin confirming
    /\ confirming' = confirming \cup {b}
    /\ UNCHANGED <<memVars, disk, cancelling, syncSnap, syncRead, chain, now, crashes>>

(* Mutant: the handler answers without writing the snapshot.               *)
ConfirmUnwritten(b) ==
    /\ b \in confirming
    /\ confirming' = confirming \ {b}
    /\ booking[b].escrow \in {"HELD", "WAIVED"}
    /\ booking' = [booking EXCEPT ![b].escrow = "RELEASED"]
    /\ entry' = [entry EXCEPT ![b] = "RELEASED"]
    /\ UNCHANGED <<listing, lastSync, settled, shadowed, spent, disk, cancelling,
                   syncSnap, syncRead, chain, now, crashes>>

Confirm(b) ==
    /\ b \in confirming
    /\ confirming' = confirming \ {b}
    /\ booking[b].escrow \in {"HELD", "WAIVED"}
    /\ booking' = [booking EXCEPT ![b].escrow = "RELEASED"]
    /\ UNCHANGED <<listing, spent, cancelling, syncSnap, syncRead, chain, now, crashes>>
    /\ LedgerLoop(b, "RELEASED")

RefuseConfirm(b) ==
    /\ b \in confirming
    /\ booking[b].escrow \notin {"HELD", "WAIVED"}
    /\ confirming' = confirming \ {b}
    /\ UNCHANGED <<memVars, disk, cancelling, syncSnap, syncRead, chain, now, crashes>>

(* Mutant: the nonce is spent before the subject of the token is checked,
   so a token tried on another booking is lost.                            *)
VerifyCancelEager(b) ==
    /\ booking[b].escrow # "none"
    /\ b \notin spent
    /\ spent' = spent \cup {b}
    /\ cancelling' \in {cancelling, cancelling \cup {b}}
    /\ UNCHANGED <<listing, booking, ledgerVars, disk, confirming, syncSnap, syncRead,
                   chain, now, crashes>>

(* POST /book/{id}/cancel: the buyer has one cancel token per booking.  Its
   TTL outlives the refund window, so expiry never refuses it in time.  The
   nonce is in memory only until some handler persists.                    *)
VerifyCancel(b) ==
    /\ booking[b].escrow # "none"
    /\ b \notin spent
    /\ spent' = spent \cup {b}
    /\ cancelling' = cancelling \cup {b}
    /\ UNCHANGED <<listing, booking, ledgerVars, disk, confirming, syncSnap, syncRead,
                   chain, now, crashes>>

WindowOpen(b) == now <= booking[b].created + booking[b].window

Cancellable(b) ==
    \/ booking[b].escrow = "HELD" /\ WindowOpen(b)
    \/ booking[b].escrow = "WAIVED"

(* Mutant: a cancellation gives one seat back, whatever was booked.        *)
GiveBackOne(l, q) ==
    IF Live(l) /\ listing[l].tracks
    THEN [listing EXCEPT ![l].registered = IF @ >= 1 THEN @ - 1 ELSE @]
    ELSE listing

(* max(0, registered - quantity)                                           *)
Freed(n, q) == IF n >= q THEN n - q ELSE 0

(* The seats go back with the transition.                                  *)
GiveBack(l, q) ==
    IF Live(l) /\ listing[l].tracks
    THEN [listing EXCEPT ![l].registered = Freed(listing[l].registered, q)]
    ELSE listing

Cancel(b) ==
    /\ b \in cancelling
    /\ cancelling' = cancelling \ {b}
    /\ Cancellable(b)
    /\ booking' = [booking EXCEPT ![b].escrow = "REFUNDED"]
    /\ listing' = GiveBack(booking[b].listing, booking[b].qty)
    /\ UNCHANGED <<spent, confirming, syncSnap, syncRead, chain, now, crashes>>
    /\ LedgerLoop(b, "REFUNDED")

RefuseCancel(b) ==
    /\ b \in cancelling
    /\ ~Cancellable(b)
    /\ cancelling' = cancelling \ {b}
    /\ UNCHANGED <<memVars, disk, confirming, syncSnap, syncRead, chain, now, crashes>>

-----------------------------------------------------------------------------
(* POST /admin/sync-escrow: copy the targets under LOCK, read the chain for
   each without it, come back under LOCK to mirror the answer.             *)

Idle(s) == syncSnap[s] = [b \in Booking |-> "none"] /\ syncRead[s] = NoRead

SyncStart(s) ==
    /\ Idle(s)
    /\ syncSnap' = [syncSnap EXCEPT ![s] = [b \in Booking |->
           IF booking[b].ref # NoRef /\ booking[b].escrow \in {"HELD", "RELEASED", "REFUNDED"}
           THEN booking[b].escrow ELSE "none"]]
    /\ UNCHANGED <<memVars, disk, confirming, cancelling, syncRead, chain, now, crashes>>

SyncReadChain(s, b) ==
    /\ syncRead[s] = NoRead
    /\ syncSnap[s][b] # "none"
    /\ chain[booking[b].ref] # "NONE"
    /\ syncRead' = [syncRead EXCEPT ![s] = [b |-> b, chain |-> chain[booking[b].ref]]]
    /\ UNCHANGED <<memVars, disk, confirming, cancelling, syncSnap, chain, now, crashes>>

(* IndexerError, an unknown escrow included: the booking is left alone and
   the loop goes on.                                                       *)
SyncError(s, b) ==
    /\ syncRead[s] = NoRead
    /\ syncSnap[s][b] # "none"
    /\ syncSnap' = [syncSnap EXCEPT ![s][b] = "none"]
    /\ UNCHANGED <<memVars, disk, confirming, cancelling, syncRead, chain, now, crashes>>

(* Mutant: no settled state is ever left (the M16 carve-out is missing).   *)
DownwardAll(hub, c) == hub # "HELD" /\ c # hub

Downward(hub, c) == \/ c = "HELD" /\ hub # "HELD"
                    \/ c = "RELEASED" /\ hub = "REFUNDED"

(* Mutant: the copied state is not compared with the booking again.        *)
MirrorsStale(s, b) ==
    LET hub == syncSnap[s][b]
        c == syncRead[s].chain IN
    /\ c # hub
    /\ ~Downward(hub, c)

(* The item is written when the chain is ahead of the copied state and the
   booking still has that state; otherwise it is only reported.            *)
Mirrors(s, b) ==
    LET hub == syncSnap[s][b]
        c == syncRead[s].chain IN
    /\ c # hub
    /\ ~Downward(hub, c)
    /\ booking[b].escrow = hub

SyncApply(s, b) ==
    /\ syncRead[s] # NoRead
    /\ syncRead[s].b = b
    /\ IF Mirrors(s, b)
       THEN /\ booking' = [booking EXCEPT ![b].escrow = syncRead[s].chain]
            /\ lastSync' = [lastSync EXCEPT ![b] = syncRead[s].chain]
            /\ UNCHANGED <<listing, entry, settled, shadowed, spent>>
            /\ Persist
       ELSE UNCHANGED <<memVars, disk>>
    /\ syncRead' = [syncRead EXCEPT ![s] = NoRead]
    /\ syncSnap' = [syncSnap EXCEPT ![s][b] = "none"]
    /\ UNCHANGED <<confirming, cancelling, chain, now, crashes>>

-----------------------------------------------------------------------------
(* GET /premium/events in settle mode: the settlement goes to the ledger.  *)
SettlePremium ==
    /\ SettleAuto
    /\ ~settled
    /\ settled' = TRUE
    /\ UNCHANGED <<listing, booking, entry, lastSync, shadowed, spent, requestVars,
                   chain, now, crashes>>
    /\ Persist

(* The escrow contract as the indexer shows it: create, release, refund and
   the mutual refund after a release.                                      *)
ChainMove(r) ==
    /\ \E c \in ChainState :
         /\ \/ chain[r] = "NONE" /\ c = "HELD"
            \/ chain[r] = "HELD" /\ c \in {"RELEASED", "REFUNDED"}
            \/ chain[r] = "RELEASED" /\ c = "REFUNDED"
         /\ chain' = [chain EXCEPT ![r] = c]
    /\ UNCHANGED <<memVars, disk, requestVars, now, crashes>>

Tick ==
    /\ now < MaxTime
    /\ now' = now + 1
    /\ UNCHANGED <<memVars, disk, requestVars, chain, crashes>>

(* A crash and _load_state: requests in flight are gone, memory is what the
   last snapshot holds.                                                    *)
Restart ==
    /\ crashes < MaxCrashes
    /\ crashes' = crashes + 1
    /\ listing' = disk.listing
    /\ booking' = disk.booking
    /\ entry' = disk.entry
    /\ lastSync' = disk.lastSync
    /\ settled' = disk.settled
    /\ shadowed' = disk.shadowed
    /\ spent' = disk.spent
    /\ confirming' = {}
    /\ cancelling' = {}
    /\ syncSnap' = [s \in Syncer |-> [b \in Booking |-> "none"]]
    /\ syncRead' = [s \in Syncer |-> NoRead]
    /\ UNCHANGED <<disk, chain, now>>

Next ==
    \/ \E l \in Listing : \/ CreateListing(l) \/ EditListing(l)
                          \/ ArchiveListing(l) \/ DeleteListing(l)
    \/ \E b \in Booking, l \in Listing, q \in 1..MaxQty, r \in Ref \cup {NoRef} :
           Book(b, l, q, r)
    \/ \E b \in Booking : \/ VerifyConfirm(b) \/ Confirm(b) \/ RefuseConfirm(b)
                          \/ VerifyCancel(b) \/ Cancel(b) \/ RefuseCancel(b)
    \/ \E s \in Syncer : \/ SyncStart(s)
                         \/ \E b \in Booking : \/ SyncReadChain(s, b)
                                              \/ SyncError(s, b)
                                              \/ SyncApply(s, b)
    \/ SettlePremium
    \/ \E r \in Ref : ChainMove(r)
    \/ Tick
    \/ Restart

Spec == Init /\ [][Next]_vars

(* The operator runs sync-escrow again and again, its reads succeed now and
   then, and a request that has its answer goes on to apply it.            *)
SyncFairness ==
    \A s \in Syncer :
        /\ WF_vars(SyncStart(s))
        /\ \A b \in Booking : /\ WF_vars(SyncApply(s, b))
                              /\ SF_vars(SyncReadChain(s, b))
                              /\ WF_vars(SyncError(s, b))

FairSpec == Spec /\ SyncFairness

-----------------------------------------------------------------------------
(* Properties.                                                             *)

(* Memory, disk and the requests in flight hold what the handlers put there. *)
TypeOK ==
    /\ Snapshot \in SnapshotType
    /\ disk \in SnapshotType
    /\ confirming \subseteq Booking
    /\ cancelling \subseteq Booking
    /\ syncSnap \in [Syncer -> [Booking -> {"none", "HELD", "RELEASED", "REFUNDED"}]]
    /\ syncRead \in [Syncer -> {NoRead} \cup [b : Booking, chain : ChainState \ {"NONE"}]]
    /\ chain \in [Ref -> ChainState]
    /\ now \in Nat
    /\ crashes \in Nat

(* The seats of listing l that the bookings B occupy: a refund by the cancel
   handler frees them; one mirrored from the chain (S) does not.           *)
Seats(B, S, l) ==
    {u \in Booking \X (1..MaxQty) :
        /\ B[u[1]].listing = l
        /\ u[2] <= B[u[1]].qty
        /\ B[u[1]].escrow = "REFUNDED" => S[u[1]] = "REFUNDED"}

(* The counter of a listing is exactly the seats its bookings occupy: none
   is lost or freed twice by cancels, edits, syncs, failed writes and
   restarts.  "I3: restore capacity exactly once" (POST /book/{id}/cancel). *)
InventoryExact ==
    \A l \in Listing : Live(l) /\ listing[l].tracks =>
        listing[l].registered = Cardinality(Seats(booking, lastSync, l))

(* However requests and edits interleave, no listing has more seats booked
   than the capacity it has now (reservation section of POST /book, capacity
   wall of manage: edit).                                                  *)
NoOversell ==
    \A l \in Listing : Live(l) /\ listing[l].tracks =>
        Cardinality(Seats(booking, lastSync, l)) <= listing[l].capacity

(* The public ledger tells the escrow state of every booking: its newest
   escrow_sync entry if there is one, else its own entry (GET /ledger).    *)
LedgerTells ==
    \A b \in Booking :
        booking[b].escrow = IF lastSync[b] # "none" THEN lastSync[b] ELSE entry[b]

(* A booking whose escrow is not final belongs to a listing that exists, so
   it can be confirmed by its owner and its seats can go back.             *)
ActiveHasListing ==
    \A b \in Booking :
        booking[b].escrow \in {"HELD", "WAIVED", "DIRECT"} => Live(booking[b].listing)

(* No two bookings ever claim one on-chain escrow ("S1 red-team 3: duplicate
   (contract, escrow_id)"), so one chain refund never pays two bookings.   *)
RefExclusive ==
    \A b, c \in Booking : booking[b].ref = booking[c].ref /\ booking[b].ref # NoRef => b = c

(* What a handler answered survives a crash: between two handlers, listings,
   bookings and ledger are on disk as they are in memory.                  *)
AcknowledgedIsDurable ==
    /\ disk.listing = listing
    /\ disk.booking = booking
    /\ disk.entry = entry
    /\ disk.lastSync = lastSync

(* While the refund window of a held booking is open, and until the hub
   restarts, its buyer's cancel token is unspent or is being used: no refused
   attempt burned it.                                                      *)
RefundCredentialKept ==
    crashes = 0 => \A b \in Booking : booking[b].escrow = "HELD" /\ WindowOpen(b)
                                      => b \notin spent \/ b \in cancelling

Promise == INSTANCE Escrow WITH escrow <- [b \in Booking |-> booking[b].escrow]

(* The escrow state of every booking follows the diagram of SPEC.md section 5
   through confirms, cancels, racing syncs and restarts.                   *)
EscrowPromise == Promise!Spec

(* A refund made on the chain reaches the booking that claims the escrow, if
   the operator keeps synchronising ("the chain truth is mirrored").       *)
RefundReachesHub ==
    \A b \in Booking, r \in Ref :
        booking[b].ref = r /\ chain[r] = "REFUNDED" ~> booking[b].escrow = "REFUNDED"
=============================================================================
