-------------------------- MODULE BookingCore_proof --------------------------
(***************************************************************************)
(* Proofs about BookingCore for any number of listings, bookings, escrows, *)
(* concurrent synchronisations, crashes and failed writes: the types, the  *)
(* seat counter and what follows from it, the buyer's cancel token; and,   *)
(* while no settlement entry sits in the ledger and no write fails, that   *)
(* the ledger tells every escrow state, that what is answered is on disk,  *)
(* and that bookings follow the escrow diagram.                            *)
(***************************************************************************)
EXTENDS BookingCore, FiniteSetTheorems, TLAPS

-----------------------------------------------------------------------------
(* Counting seats.                                                         *)

(* The seats one booking of quantity q takes.                              *)
Block(b, q) == {b} \X (1..q)

LEMMA BlockCount ==
    ASSUME NEW b, NEW q \in Nat
    PROVE  IsFiniteSet(Block(b, q)) /\ Cardinality(Block(b, q)) = q
<1>1. IsFiniteSet({b}) /\ Cardinality({b}) = 1
  BY FS_Singleton
<1>2. IsFiniteSet(1..q) /\ Cardinality(1..q) = q
  BY FS_Interval
<1>3. /\ IsFiniteSet({b} \X (1..q))
      /\ Cardinality({b} \X (1..q)) = Cardinality({b}) * Cardinality(1..q)
  BY <1>1, <1>2, FS_Product
<1>4. 1 * q = q
  OBVIOUS
<1>5. QED
  BY <1>1, <1>2, <1>3, <1>4 DEF Block

LEMMA SeatsFinite ==
    ASSUME NEW B, NEW S, NEW l
    PROVE  IsFiniteSet(Seats(B, S, l)) /\ Cardinality(Seats(B, S, l)) \in Nat
<1>1. IsFiniteSet(Booking) /\ IsFiniteSet(1..MaxQty)
  BY CoreAssumption, FS_Interval
<1>2. IsFiniteSet(Booking \X (1..MaxQty))
  BY <1>1, FS_Product
<1>3. Seats(B, S, l) \in SUBSET (Booking \X (1..MaxQty))
  BY DEF Seats
<1>4. QED
  BY <1>2, <1>3, FS_Subset, FS_CardinalityType

(* Two seat sets that differ by the block of one booking differ by its
   quantity.                                                               *)
LEMMA AddBlock ==
    ASSUME NEW X, NEW Y, NEW b, NEW q \in Nat, IsFiniteSet(X),
           X \cap Block(b, q) = {}, Y = X \cup Block(b, q)
    PROVE  Cardinality(Y) = Cardinality(X) + q
<1>1. IsFiniteSet(Block(b, q)) /\ Cardinality(Block(b, q)) = q
  BY BlockCount
<1>2. Cardinality(X) \in Nat
  BY FS_CardinalityType
<1>3. Cardinality(X \cap Block(b, q)) = 0
  BY FS_EmptySet
<1>4. Cardinality(X \cup Block(b, q))
        = Cardinality(X) + Cardinality(Block(b, q)) - Cardinality(X \cap Block(b, q))
  BY <1>1, FS_Union
<1>5. QED
  BY <1>1, <1>2, <1>3, <1>4

-----------------------------------------------------------------------------
(* The inductive invariant.  Restart replaces memory by the snapshot, so    *)
(* what must hold of one must hold of the other: its parts take listings L, *)
(* bookings B and synchronised states S as parameters.                     *)

(* A booking id that is not in use carries nothing.                        *)
Unused(B) == \A b \in Booking : B[b].escrow = "none" => B[b] = NewBooking

(* Listings and bookings that exist are bound to each other.               *)
Placed(L, B) ==
    \A b \in Booking : B[b].escrow # "none" =>
        /\ B[b].listing \in Listing
        /\ L[B[b].listing].st # "absent"

ActiveBound(L, B) ==
    \A b \in Booking : B[b].escrow \in {"HELD", "WAIVED", "DIRECT"}
                       => L[B[b].listing].st = "live"

(* A synchronised refund is never left.                                    *)
SyncedRefund(B, S) ==
    \A b \in Booking : S[b] = "REFUNDED" => B[b].escrow = "REFUNDED"

Counted(L, B, S) ==
    \A l \in Listing : L[l].st = "live" /\ L[l].tracks =>
        L[l].registered = Cardinality(Seats(B, S, l))

Fits(L) ==
    \A l \in Listing : L[l].st = "live" /\ L[l].tracks => L[l].registered <= L[l].capacity

RefsDistinct(B) ==
    \A b, c \in Booking : B[b].ref = B[c].ref /\ B[b].ref # NoRef => b = c

Sound(L, B, S) ==
    /\ Unused(B)
    /\ Placed(L, B)
    /\ ActiveBound(L, B)
    /\ SyncedRefund(B, S)
    /\ Counted(L, B, S)
    /\ Fits(L)
    /\ RefsDistinct(B)

(* What a synchronisation copied is a booking that claims an escrow, and the
   answer it holds is for a booking it copied.                             *)
SyncBound ==
    \A s \in Syncer :
        /\ \A b \in Booking : syncSnap[s][b] # "none" => booking[b].ref \in Ref
        /\ syncRead[s] # NoRead => syncSnap[s][syncRead[s].b] # "none"

IInv ==
    /\ TypeOK
    /\ SyncBound
    /\ Sound(listing, booking, lastSync)
    /\ Sound(disk.listing, disk.booking, disk.lastSync)

-----------------------------------------------------------------------------
(* Types.                                                                  *)

MemTypeOK ==
    /\ listing \in [Listing -> ListingRec]
    /\ booking \in [Booking -> BookingRec]
    /\ entry \in [Booking -> EscrowState \cup {"none"}]
    /\ lastSync \in [Booking -> EscrowState \cup {"none"}]
    /\ settled \in BOOLEAN
    /\ shadowed \subseteq Booking
    /\ spent \subseteq Booking

RequestTypeOK ==
    /\ confirming \subseteq Booking
    /\ cancelling \subseteq Booking
    /\ syncSnap \in [Syncer -> [Booking -> {"none", "HELD", "RELEASED", "REFUNDED"}]]
    /\ syncRead \in [Syncer -> {NoRead} \cup [b : Booking, chain : ChainState \ {"NONE"}]]
    /\ chain \in [Ref -> ChainState]
    /\ now \in Nat
    /\ crashes \in Nat

LEMMA TypeParts == TypeOK <=> MemTypeOK /\ disk \in SnapshotType /\ RequestTypeOK
  BY DEF TypeOK, MemTypeOK, RequestTypeOK, Snapshot, SnapshotType

LEMMA TypePartsNext == TypeOK' <=> MemTypeOK' /\ (disk \in SnapshotType)' /\ RequestTypeOK'
  BY DEF TypeOK, MemTypeOK, RequestTypeOK, Snapshot, SnapshotType

LEMMA SnapshotTyped == MemTypeOK' => Snapshot' \in SnapshotType
  BY DEF MemTypeOK, Snapshot, SnapshotType

(* A handler's write, or its failure, leaves a well-typed snapshot.        *)
LEMMA WriteTyped ==
    ASSUME TypeOK, MemTypeOK', RequestTypeOK', disk' = Snapshot' \/ disk' = disk
    PROVE  TypeOK'
<1>1. (disk \in SnapshotType)'
  BY SnapshotTyped DEF TypeOK
<1>2. QED
  BY <1>1, TypePartsNext

LEMMA TypeInit == Init => TypeOK
<1> SUFFICES ASSUME Init PROVE TypeOK
  OBVIOUS
<1>1. NewListing \in ListingRec
  BY DEF NewListing, ListingRec, Rail
<1>2. NewBooking \in BookingRec
  BY CoreAssumption DEF NewBooking, BookingRec
<1>3. MemTypeOK
  BY <1>1, <1>2 DEF Init, MemTypeOK
<1>4. disk \in SnapshotType
  BY <1>3 DEF Init, MemTypeOK, Snapshot, SnapshotType
<1>5. RequestTypeOK
  BY DEF Init, RequestTypeOK, ChainState
<1>6. QED
  BY <1>3, <1>4, <1>5, TypeParts

LEMMA OpenListingTyped ==
    ASSUME NEW tracks \in BOOLEAN, NEW paid \in BOOLEAN, NEW c \in Capacity,
           NEW r \in Rail, NEW w \in Window
    PROVE  OpenListing(tracks, paid, c, r, w) \in ListingRec
<1>1. (IF tracks THEN c ELSE 0) \in Nat /\ TermsWindow(r, w) \in Nat
  BY CoreAssumption DEF TermsWindow
<1>2. QED
  BY <1>1 DEF OpenListing, ListingRec

LEMMA TypeListingStep ==
    ASSUME TypeOK, NEW l \in Listing,
           \/ CreateListing(l) \/ EditListing(l) \/ ArchiveListing(l) \/ DeleteListing(l)
    PROVE  TypeOK'
<1>1. MemTypeOK /\ RequestTypeOK
  BY TypeParts
<1>2. RequestTypeOK'
  BY <1>1 DEF RequestTypeOK, CreateListing, EditListing, ArchiveListing, DeleteListing,
              requestVars
<1>3. listing[l] \in ListingRec
  BY <1>1 DEF MemTypeOK
<1>4. listing' \in [Listing -> ListingRec]
  <2>1. CASE CreateListing(l)
    <3>1. PICK tracks \in BOOLEAN, paid \in BOOLEAN, c \in Capacity, r \in Rail,
               w \in Window :
             listing' = [listing EXCEPT ![l] = OpenListing(tracks, paid, c, r, w)]
      BY <2>1 DEF CreateListing
    <3>2. OpenListing(tracks, paid, c, r, w) \in ListingRec
      BY OpenListingTyped
    <3>3. QED
      BY <1>1, <3>1, <3>2 DEF MemTypeOK
  <2>2. CASE EditListing(l)
    <3>1. PICK paid \in BOOLEAN, c \in Capacity, r \in Rail, w \in Window :
             listing' = [listing EXCEPT ![l] = EditedListing(listing[l], paid, c, r, w)]
      BY <2>2 DEF EditListing
    <3>2. c \in Nat /\ TermsWindow(r, w) \in Nat
      BY CoreAssumption DEF TermsWindow
    <3>3. EditedListing(listing[l], paid, c, r, w) \in ListingRec
      BY <1>3, <3>2 DEF EditedListing, ListingRec
    <3>4. QED
      BY <1>1, <3>1, <3>3 DEF MemTypeOK
  <2>3. CASE ArchiveListing(l)
    BY <1>1, <1>3, <2>3 DEF MemTypeOK, ArchiveListing, ListingRec
  <2>4. CASE DeleteListing(l)
    BY <1>1, <1>3, <2>4 DEF MemTypeOK, DeleteListing, ListingRec
  <2>5. QED
    BY <2>1, <2>2, <2>3, <2>4
<1>5. MemTypeOK'
  BY <1>1, <1>4 DEF MemTypeOK, CreateListing, EditListing, ArchiveListing, DeleteListing,
                    ledgerVars
<1>6. disk' = Snapshot' \/ disk' = disk
  BY DEF CreateListing, EditListing, ArchiveListing, DeleteListing, Persist
<1>7. QED
  BY <1>2, <1>5, <1>6, WriteTyped

LEMMA OpeningTyped ==
    ASSUME NEW rec
    PROVE  Opening(rec) \in {"HELD", "WAIVED", "DIRECT"}
  BY DEF Opening

LEMMA TypeBookStep ==
    ASSUME TypeOK, NEW b \in Booking, NEW l \in Listing, NEW q \in 1..MaxQty,
           NEW r \in Ref \cup {NoRef}, Book(b, l, q, r)
    PROVE  TypeOK'
<1>1. MemTypeOK /\ RequestTypeOK
  BY TypeParts
<1>2. RequestTypeOK'
  BY <1>1 DEF RequestTypeOK, Book, Reserve, requestVars
<1>3. listing[l] \in ListingRec
  BY <1>1 DEF MemTypeOK
<1>4. Opening(listing[l]) \in EscrowState
  BY OpeningTyped DEF EscrowState
<1>5. booking' \in [Booking -> BookingRec]
  <2>1. [escrow |-> Opening(listing[l]), listing |-> l, qty |-> q,
         window |-> listing[l].window, created |-> now, ref |-> r] \in BookingRec
    BY <1>1, <1>3, <1>4, CoreAssumption DEF BookingRec, ListingRec, RequestTypeOK
  <2>2. QED
    BY <1>1, <2>1 DEF MemTypeOK, Book, Reserve
<1>6. listing' \in [Listing -> ListingRec]
  BY <1>1, <1>3, CoreAssumption DEF MemTypeOK, Book, Reserve, ListingRec
<1>7. entry' \in [Booking -> EscrowState \cup {"none"}]
  BY <1>1, <1>4 DEF MemTypeOK, Book, Reserve
<1>8. MemTypeOK'
  BY <1>1, <1>5, <1>6, <1>7 DEF MemTypeOK, Book, Reserve
<1>9. disk' = Snapshot' \/ disk' = disk
  BY DEF Book, Persist
<1>10. QED
  BY <1>2, <1>8, <1>9, WriteTyped

(* The part of the ledger loop that the types and the seats depend on.     *)
LEMMA LedgerLoopTyped ==
    ASSUME MemTypeOK, NEW b \in Booking, NEW s \in EscrowState, LedgerLoop(b, s)
    PROVE  /\ entry' \in [Booking -> EscrowState \cup {"none"}]
           /\ UNCHANGED <<lastSync, settled, shadowed>>
           /\ disk' = Snapshot' \/ disk' = disk
  BY DEF MemTypeOK, LedgerLoop, Persist

LEMMA GiveBackTyped ==
    ASSUME MemTypeOK, NEW l, NEW q \in Nat
    PROVE  GiveBack(l, q) \in [Listing -> ListingRec]
<1>1. CASE l \in Listing /\ Live(l) /\ listing[l].tracks
  <2>1. listing[l] \in ListingRec
    BY <1>1 DEF MemTypeOK
  <2>2. Freed(listing[l].registered, q) \in Nat
    BY <2>1 DEF ListingRec, Freed
  <2>3. [listing[l] EXCEPT !.registered = Freed(listing[l].registered, q)] \in ListingRec
    BY <2>1, <2>2 DEF ListingRec
  <2>4. GiveBack(l, q) = [listing EXCEPT ![l] =
             [listing[l] EXCEPT !.registered = Freed(listing[l].registered, q)]]
    BY <1>1 DEF GiveBack, MemTypeOK
  <2>5. QED
    BY <2>3, <2>4 DEF MemTypeOK
<1>2. CASE l \notin Listing
  BY <1>2 DEF GiveBack, MemTypeOK
<1>3. CASE ~(Live(l) /\ listing[l].tracks)
  BY <1>3 DEF GiveBack, MemTypeOK
<1>4. QED
  BY <1>1, <1>2, <1>3

LEMMA TypeRequestStep ==
    ASSUME TypeOK, NEW b \in Booking,
           \/ VerifyConfirm(b) \/ Confirm(b) \/ RefuseConfirm(b)
           \/ VerifyCancel(b) \/ Cancel(b) \/ RefuseCancel(b)
    PROVE  TypeOK'
<1>1. MemTypeOK /\ RequestTypeOK
  BY TypeParts
<1>2. RequestTypeOK'
  BY <1>1 DEF RequestTypeOK, VerifyConfirm, Confirm, RefuseConfirm, VerifyCancel, Cancel,
              RefuseCancel
<1>3. booking[b] \in BookingRec
  BY <1>1 DEF MemTypeOK
<1>4. CASE VerifyConfirm(b) \/ RefuseConfirm(b) \/ RefuseCancel(b)
  <2>1. MemTypeOK' /\ disk' = disk
    BY <1>1, <1>4 DEF MemTypeOK, VerifyConfirm, RefuseConfirm, RefuseCancel, memVars,
                      ledgerVars
  <2>2. QED
    BY <1>2, <2>1, WriteTyped
<1>5. CASE VerifyCancel(b)
  <2>1. MemTypeOK' /\ disk' = disk
    BY <1>1, <1>5 DEF MemTypeOK, VerifyCancel, ledgerVars
  <2>2. QED
    BY <1>2, <2>1, WriteTyped
<1>6. CASE Confirm(b)
  <2>1. LedgerLoop(b, "RELEASED") /\ "RELEASED" \in EscrowState
    BY <1>6 DEF Confirm, EscrowState
  <2>2. booking' \in [Booking -> BookingRec]
    BY <1>1, <1>3, <1>6 DEF MemTypeOK, Confirm, BookingRec, EscrowState
  <2>3. MemTypeOK' /\ (disk' = Snapshot' \/ disk' = disk)
    BY <1>1, <1>6, <2>1, <2>2, LedgerLoopTyped DEF MemTypeOK, Confirm
  <2>4. QED
    BY <1>2, <2>3, WriteTyped
<1>7. CASE Cancel(b)
  <2>1. LedgerLoop(b, "REFUNDED") /\ "REFUNDED" \in EscrowState
    BY <1>7 DEF Cancel, EscrowState
  <2>2. booking' \in [Booking -> BookingRec]
    BY <1>1, <1>3, <1>7 DEF MemTypeOK, Cancel, BookingRec, EscrowState
  <2>3. GiveBack(booking[b].listing, booking[b].qty) \in [Listing -> ListingRec]
    BY <1>1, <1>3, GiveBackTyped, CoreAssumption DEF BookingRec, MemTypeOK
  <2>4. MemTypeOK' /\ (disk' = Snapshot' \/ disk' = disk)
    BY <1>1, <1>7, <2>1, <2>2, <2>3, LedgerLoopTyped DEF MemTypeOK, Cancel
  <2>5. QED
    BY <1>2, <2>4, WriteTyped
<1>8. QED
  BY <1>4, <1>5, <1>6, <1>7

LEMMA TypeSyncStep ==
    ASSUME TypeOK, SyncBound, NEW s \in Syncer,
           \/ SyncStart(s)
           \/ \E b \in Booking : SyncReadChain(s, b) \/ SyncError(s, b) \/ SyncApply(s, b)
    PROVE  TypeOK'
<1>1. MemTypeOK /\ RequestTypeOK
  BY TypeParts
<1>2. CASE SyncStart(s)
  <2>1. RequestTypeOK'
    BY <1>1, <1>2 DEF RequestTypeOK, SyncStart
  <2>2. MemTypeOK' /\ disk' = disk
    BY <1>1, <1>2 DEF MemTypeOK, SyncStart, memVars, ledgerVars
  <2>3. QED
    BY <2>1, <2>2, WriteTyped
<1>3. ASSUME NEW b \in Booking, SyncReadChain(s, b)
      PROVE  TypeOK'
  <2>1. MemTypeOK' /\ disk' = disk
    BY <1>1, <1>3 DEF MemTypeOK, SyncReadChain, memVars, ledgerVars
  <2>2. booking[b].ref \in Ref
    BY <1>3 DEF SyncBound, SyncReadChain
  <2>3. RequestTypeOK'
    BY <1>1, <1>3, <2>2 DEF RequestTypeOK, SyncReadChain
  <2>4. QED
    BY <2>1, <2>3, WriteTyped
<1>4. ASSUME NEW b \in Booking, SyncError(s, b)
      PROVE  TypeOK'
  <2>1. MemTypeOK' /\ disk' = disk
    BY <1>1, <1>4 DEF MemTypeOK, SyncError, memVars, ledgerVars
  <2>2. RequestTypeOK'
    BY <1>1, <1>4 DEF RequestTypeOK, SyncError
  <2>3. QED
    BY <2>1, <2>2, WriteTyped
<1>5. ASSUME NEW b \in Booking, SyncApply(s, b)
      PROVE  TypeOK'
  <2>1. RequestTypeOK'
    BY <1>1, <1>5 DEF RequestTypeOK, SyncApply
  <2>2. syncRead[s].chain \in EscrowState
    BY <1>1, <1>5 DEF RequestTypeOK, SyncApply, ChainState, EscrowState
  <2>3. CASE Mirrors(s, b)
    <3>1. booking' \in [Booking -> BookingRec]
      <4>1. booking' = [booking EXCEPT ![b].escrow = syncRead[s].chain]
        BY <1>5, <2>3 DEF SyncApply
      <4>2. booking \in [Booking -> BookingRec]
        BY <1>1 DEF MemTypeOK
      <4>3. QED
        BY <2>2, <4>1, <4>2 DEF BookingRec
    <3>2. MemTypeOK' /\ (disk' = Snapshot' \/ disk' = disk)
      BY <1>1, <1>5, <2>2, <2>3, <3>1 DEF MemTypeOK, SyncApply, Persist
    <3>3. QED
      BY <2>1, <3>2, WriteTyped
  <2>4. CASE ~Mirrors(s, b)
    <3>1. MemTypeOK' /\ disk' = disk
      BY <1>1, <1>5, <2>4 DEF MemTypeOK, SyncApply, memVars, ledgerVars
    <3>2. QED
      BY <2>1, <3>1, WriteTyped
  <2>5. QED
    BY <2>3, <2>4
<1>6. QED
  BY <1>2, <1>3, <1>4, <1>5

LEMMA TypeOtherStep ==
    ASSUME TypeOK, SettlePremium \/ (\E r \in Ref : ChainMove(r)) \/ Tick \/ Restart
    PROVE  TypeOK'
<1>1. MemTypeOK /\ RequestTypeOK /\ disk \in SnapshotType
  BY TypeParts
<1>2. CASE SettlePremium
  <2>1. MemTypeOK' /\ RequestTypeOK' /\ (disk' = Snapshot' \/ disk' = disk)
    BY <1>1, <1>2 DEF MemTypeOK, RequestTypeOK, SettlePremium, requestVars, Persist
  <2>2. QED
    BY <2>1, WriteTyped
<1>3. CASE \E r \in Ref : ChainMove(r)
  <2>1. MemTypeOK' /\ RequestTypeOK' /\ disk' = disk
    BY <1>1, <1>3 DEF MemTypeOK, RequestTypeOK, ChainMove, requestVars, memVars, ledgerVars
  <2>2. QED
    BY <2>1, WriteTyped
<1>4. CASE Tick
  <2>1. MemTypeOK' /\ RequestTypeOK' /\ disk' = disk
    BY <1>1, <1>4 DEF MemTypeOK, RequestTypeOK, Tick, requestVars, memVars, ledgerVars
  <2>2. QED
    BY <2>1, WriteTyped
<1>5. CASE Restart
  <2>1. MemTypeOK' /\ disk' = disk
    BY <1>1, <1>5 DEF MemTypeOK, Restart, SnapshotType
  <2>2. RequestTypeOK'
    BY <1>1, <1>5 DEF RequestTypeOK, Restart
  <2>3. QED
    BY <2>1, <2>2, WriteTyped
<1>6. QED
  BY <1>2, <1>3, <1>4, <1>5

(* Every step keeps the types.                                             *)
LEMMA TypeStep ==
    ASSUME TypeOK, SyncBound, [Next]_vars
    PROVE  TypeOK'
<1>1. CASE Next
  BY <1>1, TypeListingStep, TypeBookStep, TypeRequestStep, TypeSyncStep, TypeOtherStep DEF Next
<1>2. CASE UNCHANGED vars
  BY <1>2 DEF vars, memVars, ledgerVars, requestVars, TypeOK, Snapshot
<1>3. QED
  BY <1>1, <1>2

-----------------------------------------------------------------------------
(* Seats under the steps.                                                  *)

(* Bookings that keep listing, quantity and whether they occupy seats leave
   every seat set as it is.                                                *)
LEMMA SeatsSame ==
    ASSUME NEW B, NEW B2, NEW S, NEW S2,
           \A b \in Booking :
              /\ B2[b].listing = B[b].listing
              /\ B2[b].qty = B[b].qty
              /\ (B2[b].escrow = "REFUNDED" => S2[b] = "REFUNDED")
                 <=> (B[b].escrow = "REFUNDED" => S[b] = "REFUNDED")
    PROVE  \A l \in Listing : Seats(B2, S2, l) = Seats(B, S, l)
  BY DEF Seats

(* A new booking of l adds its block there and nothing elsewhere.          *)
LEMMA SeatsBook ==
    ASSUME NEW B, NEW B2, NEW S, NEW b \in Booking, NEW l \in Listing, NEW q \in 1..MaxQty,
           B[b].listing = NoListing,
           B2[b].listing = l, B2[b].qty = q, B2[b].escrow # "REFUNDED",
           \A c \in Booking : c # b => B2[c] = B[c]
    PROVE  /\ Cardinality(Seats(B2, S, l)) = Cardinality(Seats(B, S, l)) + q
           /\ \A m \in Listing : m # l => Seats(B2, S, m) = Seats(B, S, m)
<1>1. q \in Nat /\ 1..q \subseteq 1..MaxQty
  BY CoreAssumption
<1>3. l # NoListing
  BY CoreAssumption
<1>4. Seats(B, S, l) \cap Block(b, q) = {}
  BY <1>3 DEF Seats, Block
<1>5. Seats(B2, S, l) = Seats(B, S, l) \cup Block(b, q)
  <2>1. ASSUME NEW u \in Booking \X (1..MaxQty)
        PROVE  u \in Seats(B2, S, l) <=> u \in Seats(B, S, l) \/ u \in Block(b, q)
    <3>1. u = <<u[1], u[2]>> /\ u[1] \in Booking /\ u[2] \in 1..MaxQty
      OBVIOUS
    <3>2. CASE u[1] = b
      <4>1. u \in Seats(B2, S, l) <=> u[2] <= q
        BY <3>1, <3>2 DEF Seats
      <4>2. u \in Block(b, q) <=> u[2] <= q
        BY <1>1, <3>1, <3>2 DEF Block
      <4>3. u \notin Seats(B, S, l)
        BY <1>3, <3>2 DEF Seats
      <4>4. QED
        BY <4>1, <4>2, <4>3
    <3>3. CASE u[1] # b
      <4>1. u \notin Block(b, q)
        BY <3>3 DEF Block
      <4>2. u \in Seats(B2, S, l) <=> u \in Seats(B, S, l)
        BY <3>1, <3>3 DEF Seats
      <4>3. QED
        BY <4>1, <4>2
    <3>4. QED
      BY <3>2, <3>3
  <2>2. Seats(B2, S, l) \subseteq Booking \X (1..MaxQty)
        /\ Seats(B, S, l) \subseteq Booking \X (1..MaxQty)
    BY DEF Seats
  <2>3. Block(b, q) \subseteq Booking \X (1..MaxQty)
    BY <1>1 DEF Block
  <2>4. QED
    BY <2>1, <2>2, <2>3
<1>6. Cardinality(Seats(B2, S, l)) = Cardinality(Seats(B, S, l)) + q
  <2>1. IsFiniteSet(Seats(B, S, l))
    BY SeatsFinite
  <2>2. QED
    BY ONLY <1>1, <1>4, <1>5, <2>1, AddBlock
<1>7. ASSUME NEW m \in Listing, m # l
      PROVE  Seats(B2, S, m) = Seats(B, S, m)
  <2>1. m # NoListing
    BY CoreAssumption
  <2>2. \A u \in Booking \X (1..MaxQty) : u \in Seats(B2, S, m) <=> u \in Seats(B, S, m)
    BY <1>7, <2>1 DEF Seats
  <2>3. QED
    BY <2>2 DEF Seats
<1>8. QED
  BY <1>6, <1>7

(* A refund by the hub takes the block of its booking away.                *)
LEMMA SeatsRefund ==
    ASSUME NEW B, NEW B2, NEW S, NEW b \in Booking, NEW l \in Listing, NEW q \in 0..MaxQty,
           B[b].listing = l, B[b].qty = q, B[b].escrow # "REFUNDED", S[b] # "REFUNDED",
           B2[b].escrow = "REFUNDED",
           \A c \in Booking : c # b => B2[c] = B[c]
    PROVE  /\ Cardinality(Seats(B, S, l)) = Cardinality(Seats(B2, S, l)) + q
           /\ \A m \in Listing : m # l => Seats(B2, S, m) = Seats(B, S, m)
<1>2. q \in Nat /\ 1..q \subseteq 1..MaxQty
  BY CoreAssumption
<1>4. Seats(B2, S, l) \cap Block(b, q) = {}
  BY DEF Seats, Block
<1>5. Seats(B, S, l) = Seats(B2, S, l) \cup Block(b, q)
  <2>1. ASSUME NEW u \in Booking \X (1..MaxQty)
        PROVE  u \in Seats(B, S, l) <=> u \in Seats(B2, S, l) \/ u \in Block(b, q)
    <3>1. u = <<u[1], u[2]>> /\ u[1] \in Booking /\ u[2] \in 1..MaxQty
      OBVIOUS
    <3>2. CASE u[1] = b
      <4>1. u \in Seats(B, S, l) <=> u[2] <= q
        BY <3>1, <3>2 DEF Seats
      <4>2. u \in Block(b, q) <=> u[2] <= q
        BY <1>2, <3>1, <3>2 DEF Block
      <4>3. u \notin Seats(B2, S, l)
        BY <3>2 DEF Seats
      <4>4. QED
        BY <4>1, <4>2, <4>3
    <3>3. CASE u[1] # b
      <4>1. u \notin Block(b, q)
        BY <3>3 DEF Block
      <4>2. u \in Seats(B2, S, l) <=> u \in Seats(B, S, l)
        BY <3>1, <3>3 DEF Seats
      <4>3. QED
        BY <4>1, <4>2
    <3>4. QED
      BY <3>2, <3>3
  <2>2. Seats(B2, S, l) \subseteq Booking \X (1..MaxQty)
        /\ Seats(B, S, l) \subseteq Booking \X (1..MaxQty)
    BY DEF Seats
  <2>3. Block(b, q) \subseteq Booking \X (1..MaxQty)
    BY <1>2 DEF Block
  <2>4. QED
    BY <2>1, <2>2, <2>3
<1>6. Cardinality(Seats(B, S, l)) = Cardinality(Seats(B2, S, l)) + q
  <2>1. IsFiniteSet(Seats(B2, S, l))
    BY SeatsFinite
  <2>2. QED
    BY ONLY <1>2, <1>4, <1>5, <2>1, AddBlock
<1>7. ASSUME NEW m \in Listing, m # l
      PROVE  Seats(B2, S, m) = Seats(B, S, m)
  <2>1. \A u \in Booking \X (1..MaxQty) : u \in Seats(B2, S, m) <=> u \in Seats(B, S, m)
    BY <1>7 DEF Seats
  <2>2. QED
    BY <2>1 DEF Seats
<1>8. QED
  BY <1>6, <1>7

-----------------------------------------------------------------------------
(* Every step keeps memory sound.                                          *)

LEMMA SoundListingStep ==
    ASSUME IInv, NEW l \in Listing,
           \/ CreateListing(l) \/ EditListing(l) \/ ArchiveListing(l) \/ DeleteListing(l)
    PROVE  Sound(listing', booking', lastSync')
<1>1. /\ listing \in [Listing -> ListingRec]
      /\ booking \in [Booking -> BookingRec]
      /\ Sound(listing, booking, lastSync)
  BY TypeParts DEF IInv, MemTypeOK
<1>2. UNCHANGED <<booking, lastSync>>
  BY DEF CreateListing, EditListing, ArchiveListing, DeleteListing, ledgerVars
<1>3. \A m \in Listing : m # l => listing'[m] = listing[m]
  BY <1>1 DEF CreateListing, EditListing, ArchiveListing, DeleteListing
<1>4. Unused(booking') /\ SyncedRefund(booking', lastSync') /\ RefsDistinct(booking')
  BY <1>1, <1>2 DEF Sound
<1>5. CASE CreateListing(l)
  <2>1. /\ listing[l].st = "absent" /\ listing'[l].st = "live"
        /\ listing'[l].registered = 0 /\ listing'[l].capacity \in Nat
    <3>1. PICK tracks \in BOOLEAN, paid \in BOOLEAN, c \in Capacity, r \in Rail,
               w \in Window :
             listing' = [listing EXCEPT ![l] = OpenListing(tracks, paid, c, r, w)]
      BY <1>5 DEF CreateListing
    <3>2. listing'[l] = OpenListing(tracks, paid, c, r, w)
      BY <1>1, <3>1
    <3>3. (IF tracks THEN c ELSE 0) \in Nat
      BY CoreAssumption
    <3>4. QED
      BY <1>5, <3>2, <3>3 DEF CreateListing, OpenListing
  <2>2. \A b \in Booking : booking[b].listing # l
    <3>1. ASSUME NEW b \in Booking, booking[b].listing = l
          PROVE  FALSE
      <4>1. booking[b].escrow = "none"
        BY <1>1, <2>1, <3>1 DEF Sound, Placed
      <4>2. booking[b].listing = NoListing
        BY <1>1, <4>1 DEF Sound, Unused, NewBooking
      <4>3. QED
        BY <3>1, <4>2, CoreAssumption
    <3>2. QED
      BY <3>1
  <2>3. Cardinality(Seats(booking, lastSync, l)) = 0
    <3>1. Seats(booking, lastSync, l) = {}
      BY <2>2 DEF Seats
    <3>2. QED
      BY <3>1, FS_EmptySet
  <2>4. Placed(listing', booking') /\ ActiveBound(listing', booking')
    BY <1>1, <1>2, <1>3, <2>2 DEF Sound, Placed, ActiveBound, EscrowState
  <2>5. Counted(listing', booking', lastSync')
    BY <1>1, <1>2, <1>3, <2>1, <2>3 DEF Sound, Counted
  <2>6. Fits(listing')
    BY <1>1, <1>3, <2>1 DEF Sound, Fits
  <2>7. QED
    BY <1>4, <2>4, <2>5, <2>6 DEF Sound
<1>6. CASE EditListing(l)
  <2>1. PICK paid \in BOOLEAN, c \in Capacity, r \in Rail, w \in Window :
           /\ listing[l].tracks => c >= listing[l].registered
           /\ listing' = [listing EXCEPT ![l] = EditedListing(listing[l], paid, c, r, w)]
    BY <1>6 DEF EditListing
  <2>2. listing'[l] = EditedListing(listing[l], paid, c, r, w) /\ listing[l] \in ListingRec
    BY <1>1, <2>1
  <2>3. /\ listing'[l].st = listing[l].st
        /\ listing'[l].tracks = listing[l].tracks
        /\ listing'[l].registered = listing[l].registered
        /\ listing'[l].capacity = IF listing[l].tracks THEN c ELSE listing[l].capacity
    BY <2>2 DEF EditedListing, ListingRec
  <2>4. \A m \in Listing : /\ listing'[m].st = listing[m].st
                           /\ listing'[m].tracks = listing[m].tracks
                           /\ listing'[m].registered = listing[m].registered
    BY <1>3, <2>3
  <2>5. Placed(listing', booking') /\ ActiveBound(listing', booking')
        /\ Counted(listing', booking', lastSync')
    <3>1. Placed(listing', booking')
      BY <1>1, <1>2, <2>4 DEF Sound, Placed
    <3>2. ActiveBound(listing', booking')
      BY <1>1, <1>2, <2>4 DEF Sound, Placed, ActiveBound
    <3>3. Counted(listing', booking', lastSync')
      BY <1>1, <1>2, <2>4 DEF Sound, Counted
    <3>4. QED
      BY <3>1, <3>2, <3>3
  <2>6. Fits(listing')
    <3>1. listing[l].tracks => listing[l].registered <= c
      BY <2>1, <2>2, CoreAssumption DEF ListingRec
    <3>2. QED
      BY <1>1, <1>3, <2>3, <3>1 DEF Sound, Fits
  <2>7. QED
    BY <1>4, <2>5, <2>6 DEF Sound
<1>7. CASE ArchiveListing(l)
  <2>1. \A m \in Listing : /\ listing'[m].st = listing[m].st
                           /\ listing'[m].tracks = listing[m].tracks
                           /\ listing'[m].registered = listing[m].registered
                           /\ listing'[m].capacity = listing[m].capacity
    BY <1>1, <1>7 DEF ArchiveListing, ListingRec
  <2>2. Placed(listing', booking') /\ Fits(listing')
    BY <1>1, <1>2, <2>1 DEF Sound, Placed, Fits
  <2>3. ActiveBound(listing', booking')
    BY <1>1, <1>2, <2>1 DEF Sound, Placed, ActiveBound
  <2>4. Counted(listing', booking', lastSync')
    BY <1>1, <1>2, <2>1 DEF Sound, Counted
  <2>5. QED
    BY <1>4, <2>2, <2>3, <2>4 DEF Sound
<1>8. CASE DeleteListing(l)
  <2>1. listing'[l].st = "gone" /\ Active(l) = {}
    BY <1>1, <1>8 DEF DeleteListing, ListingRec
  <2>2. Placed(listing', booking') /\ Fits(listing') /\ Counted(listing', booking', lastSync')
    BY <1>1, <1>2, <1>3, <2>1 DEF Sound, Placed, Fits, Counted
  <2>3. ActiveBound(listing', booking')
    BY <1>1, <1>2, <1>3, <2>1 DEF Sound, Placed, ActiveBound, Active
  <2>4. QED
    BY <1>4, <2>2, <2>3 DEF Sound
<1>9. QED
  BY <1>5, <1>6, <1>7, <1>8

LEMMA SoundBookStep ==
    ASSUME IInv, NEW b \in Booking, NEW l \in Listing, NEW q \in 1..MaxQty,
           NEW r \in Ref \cup {NoRef}, Reserve(b, l, q, r)
    PROVE  Sound(listing', booking', lastSync')
<1> DEFINE rec == [escrow |-> Opening(listing[l]), listing |-> l, qty |-> q,
                   window |-> listing[l].window, created |-> now, ref |-> r]
<1>1. /\ listing \in [Listing -> ListingRec]
      /\ booking \in [Booking -> BookingRec]
      /\ Sound(listing, booking, lastSync)
  BY TypeParts DEF IInv, MemTypeOK
<1>2. booking' = [booking EXCEPT ![b] = rec] /\ lastSync' = lastSync
  BY DEF Reserve
<1>3. booking[b] = NewBooking
  BY <1>1 DEF Reserve, Sound, Unused
<1>4. rec.escrow \in {"HELD", "WAIVED", "DIRECT"} /\ rec.listing = l /\ rec.qty = q
      /\ rec.ref = r
  BY OpeningTyped
<1> HIDE DEF rec
<1>5. booking'[b] = rec /\ \A c \in Booking : c # b => booking'[c] = booking[c]
  BY <1>1, <1>2
<1>6. /\ listing[l] \in ListingRec /\ listing[l].st = "live"
      /\ \A m \in Listing : m # l => listing'[m] = listing[m]
      /\ listing'[l] = [listing[l] EXCEPT !.registered =
             IF listing[l].tracks THEN listing[l].registered + q ELSE listing[l].registered]
  BY <1>1 DEF Reserve, Live
<1>7. /\ listing'[l].st = "live"
      /\ listing'[l].tracks = listing[l].tracks
      /\ listing'[l].capacity = listing[l].capacity
      /\ listing[l].tracks => listing'[l].registered = listing[l].registered + q
  BY <1>6 DEF ListingRec
<1>8. Unused(booking')
  BY <1>1, <1>4, <1>5 DEF Sound, Unused
<1>9. Placed(listing', booking') /\ ActiveBound(listing', booking')
  <2>1. Placed(listing, booking) /\ ActiveBound(listing, booking)
    BY <1>1 DEF Sound
  <2>2. \A m \in Listing : listing[m].st # "absent" => listing'[m].st = listing[m].st
    BY <1>6, <1>7
  <2>3. Placed(listing', booking')
    BY <1>4, <1>5, <1>7, <2>1, <2>2 DEF Placed
  <2>4. ActiveBound(listing', booking')
    BY <1>4, <1>5, <1>7, <2>1, <2>2 DEF Placed, ActiveBound
  <2>5. QED
    BY <2>3, <2>4
<1>10. SyncedRefund(booking', lastSync')
  BY <1>1, <1>2, <1>3, <1>5 DEF Sound, SyncedRefund, NewBooking
<1>11. Counted(listing', booking', lastSync')
  <2>1. /\ Cardinality(Seats(booking', lastSync', l))
             = Cardinality(Seats(booking, lastSync, l)) + q
        /\ \A m \in Listing : m # l => Seats(booking', lastSync', m) = Seats(booking, lastSync, m)
    <3>1. booking[b].listing = NoListing /\ rec.escrow # "REFUNDED"
      BY <1>3, <1>4 DEF NewBooking
    <3>2. booking'[b].listing = l /\ booking'[b].qty = q /\ booking'[b].escrow # "REFUNDED"
      BY <1>4, <1>5
    <3>3. \A c \in Booking : c # b => booking'[c] = booking[c]
      BY <1>5
    <3>4. Cardinality(Seats(booking', lastSync, l))
              = Cardinality(Seats(booking, lastSync, l)) + q
      BY <3>1, <3>2, <3>3, SeatsBook
    <3>5. \A m \in Listing :
              m # l => Seats(booking', lastSync, m) = Seats(booking, lastSync, m)
      BY <3>1, <3>2, <3>3, SeatsBook
    <3>6. QED
      BY <1>2, <3>4, <3>5
  <2>2. QED
    BY <1>1, <1>6, <1>7, <2>1 DEF Sound, Counted
<1>12. Fits(listing')
  <2>1. listing[l].tracks => listing[l].registered + q <= listing[l].capacity
    BY DEF Reserve, HasRoom
  <2>2. QED
    BY <1>1, <1>6, <1>7, <2>1 DEF Sound, Fits
<1>13. RefsDistinct(booking')
  <2>1. r # NoRef => \A c \in Booking : booking[c].ref # r
    BY DEF Reserve, RefTaken
  <2>2. QED
    BY <1>1, <1>4, <1>5, <2>1 DEF Sound, RefsDistinct
<1>14. QED
  BY <1>8, <1>9, <1>10, <1>11, <1>12, <1>13 DEF Sound

(* A booking that only changes its escrow state, among states that occupy
   seats alike, keeps everything else.                                     *)
LEMMA SoundMove ==
    ASSUME NEW L, NEW B, NEW S, NEW S2, NEW b \in Booking, NEW s \in {"RELEASED", "REFUNDED"},
           B \in [Booking -> BookingRec], S \in [Booking -> EscrowState \cup {"none"}],
           Sound(L, B, S), B[b].escrow \in {"HELD", "WAIVED", "RELEASED"},
           (S2 = S /\ s = "RELEASED") \/ S2 = [S EXCEPT ![b] = s]
    PROVE  Sound(L, [B EXCEPT ![b].escrow = s], S2)
<1> DEFINE B2 == [B EXCEPT ![b].escrow = s]
<1>1. /\ B2[b].escrow = s /\ B2[b].listing = B[b].listing /\ B2[b].qty = B[b].qty
      /\ B2[b].ref = B[b].ref
      /\ \A c \in Booking : c # b => B2[c] = B[c]
  BY DEF BookingRec
<1>2. \A c \in Booking : c # b => S2[c] = S[c]
  OBVIOUS
<1>3. S[b] # "REFUNDED"
  BY DEF Sound, SyncedRefund
<1>4. s = "REFUNDED" => S2[b] = "REFUNDED"
  OBVIOUS
<1>5. S2[b] = "REFUNDED" => s = "REFUNDED"
  BY <1>3
<1> HIDE DEF B2
<1>6. Unused(B2)
  BY <1>1 DEF Sound, Unused
<1>7. Placed(L, B2)
  BY <1>1 DEF Sound, Placed
<1>8. ActiveBound(L, B2)
  BY <1>1 DEF Sound, ActiveBound
<1>9. SyncedRefund(B2, S2)
  BY <1>1, <1>2, <1>5 DEF Sound, SyncedRefund
<1>10. \A l \in Listing : Seats(B2, S2, l) = Seats(B, S, l)
  <2>1. \A c \in Booking :
           /\ B2[c].listing = B[c].listing
           /\ B2[c].qty = B[c].qty
           /\ (B2[c].escrow = "REFUNDED" => S2[c] = "REFUNDED")
              <=> (B[c].escrow = "REFUNDED" => S[c] = "REFUNDED")
    BY <1>1, <1>2, <1>4
  <2>2. QED
    BY <2>1 DEF Seats
<1>11. Counted(L, B2, S2)
  BY <1>10 DEF Sound, Counted
<1>12. RefsDistinct(B2)
  BY <1>1 DEF Sound, RefsDistinct
<1>13. QED
  BY <1>6, <1>7, <1>8, <1>9, <1>11, <1>12 DEF Sound, B2

LEMMA SoundConfirmStep ==
    ASSUME IInv, NEW b \in Booking, Confirm(b)
    PROVE  Sound(listing', booking', lastSync')
<1>1. /\ booking \in [Booking -> BookingRec]
      /\ lastSync \in [Booking -> EscrowState \cup {"none"}]
      /\ Sound(listing, booking, lastSync)
  BY TypeParts DEF IInv, MemTypeOK
<1>2. /\ booking[b].escrow \in {"HELD", "WAIVED", "RELEASED"}
      /\ booking' = [booking EXCEPT ![b].escrow = "RELEASED"]
      /\ listing' = listing /\ lastSync' = lastSync
  BY DEF Confirm, LedgerLoop
<1>3. Sound(listing, [booking EXCEPT ![b].escrow = "RELEASED"], lastSync)
  BY <1>1, <1>2, SoundMove
<1>4. QED
  BY <1>2, <1>3

LEMMA SoundCancelStep ==
    ASSUME IInv, NEW b \in Booking, Cancel(b)
    PROVE  Sound(listing', booking', lastSync')
<1> DEFINE l == booking[b].listing
           q == booking[b].qty
<1>1. /\ listing \in [Listing -> ListingRec]
      /\ booking \in [Booking -> BookingRec]
      /\ Sound(listing, booking, lastSync)
  BY TypeParts DEF IInv, MemTypeOK
<1>2. /\ booking[b].escrow \in {"HELD", "WAIVED"}
      /\ booking' = [booking EXCEPT ![b].escrow = "REFUNDED"]
      /\ listing' = GiveBack(l, q) /\ lastSync' = lastSync
  BY DEF Cancel, Cancellable, LedgerLoop
<1>3. l \in Listing /\ listing[l] \in ListingRec /\ listing[l].st = "live"
  BY <1>1, <1>2 DEF Sound, Placed, ActiveBound
<1>4. q \in Nat
  BY <1>1, CoreAssumption DEF BookingRec
<1>5. /\ booking'[b].escrow = "REFUNDED" /\ booking'[b].listing = l
      /\ booking'[b].qty = q /\ booking'[b].ref = booking[b].ref
      /\ \A c \in Booking : c # b => booking'[c] = booking[c]
  BY <1>1, <1>2 DEF BookingRec
<1> HIDE DEF l, q
<1>6. lastSync[b] # "REFUNDED"
  BY <1>1, <1>2 DEF Sound, SyncedRefund
<1>7. \A m \in Listing : m # l => listing'[m] = listing[m]
  BY <1>1, <1>2 DEF GiveBack
<1>8. /\ listing'[l].st = listing[l].st
      /\ listing'[l].tracks = listing[l].tracks
      /\ listing'[l].capacity = listing[l].capacity
      /\ listing[l].tracks => listing'[l].registered = Freed(listing[l].registered, q)
  BY <1>1, <1>2, <1>3 DEF GiveBack, Live, ListingRec
<1>9. /\ Cardinality(Seats(booking, lastSync, l))
           = Cardinality(Seats(booking', lastSync, l)) + q
      /\ \A m \in Listing : m # l => Seats(booking', lastSync, m) = Seats(booking, lastSync, m)
  <2>1. l = booking[b].listing /\ q = booking[b].qty /\ q \in 0..MaxQty
    BY <1>1 DEF l, q, BookingRec
  <2>2. booking[b].escrow # "REFUNDED"
    BY <1>2
  <2>3. Cardinality(Seats(booking, lastSync, l))
            = Cardinality(Seats(booking', lastSync, l)) + q
    BY <1>3, <1>5, <1>6, <2>1, <2>2, SeatsRefund
  <2>4. \A m \in Listing : m # l => Seats(booking', lastSync, m) = Seats(booking, lastSync, m)
    BY <1>3, <1>5, <1>6, <2>1, <2>2, SeatsRefund
  <2>5. QED
    BY <2>3, <2>4
<1>10. listing[l].tracks => listing'[l].registered = Cardinality(Seats(booking', lastSync, l))
  <2>1. Cardinality(Seats(booking', lastSync, l)) \in Nat
    BY SeatsFinite
  <2>2. listing[l].tracks => listing[l].registered = Cardinality(Seats(booking', lastSync, l)) + q
    BY <1>1, <1>3, <1>9 DEF Sound, Counted
  <2>3. QED
    BY <1>4, <1>8, <2>1, <2>2 DEF Freed
<1>11. Counted(listing', booking', lastSync')
  BY <1>1, <1>2, <1>7, <1>8, <1>9, <1>10 DEF Sound, Counted
<1>12. Fits(listing')
  <2>1. listing[l].tracks => listing'[l].registered <= listing'[l].capacity
    BY <1>1, <1>3, <1>4, <1>8 DEF Sound, Fits, Freed, ListingRec
  <2>2. QED
    BY <1>1, <1>7, <1>8, <2>1 DEF Sound, Fits
<1>13. Unused(booking') /\ RefsDistinct(booking') /\ SyncedRefund(booking', lastSync')
  BY <1>1, <1>2, <1>5 DEF Sound, Unused, RefsDistinct, SyncedRefund
<1>14. \A m \in Listing : listing'[m].st = listing[m].st
  BY <1>7, <1>8
<1>15. Placed(listing', booking') /\ ActiveBound(listing', booking')
  <2>1. Placed(listing, booking) /\ ActiveBound(listing, booking)
    BY <1>1 DEF Sound
  <2>2. Placed(listing', booking')
    BY <1>3, <1>5, <1>14, <2>1 DEF Placed
  <2>3. ActiveBound(listing', booking')
    BY <1>5, <1>14, <2>1 DEF Placed, ActiveBound
  <2>4. QED
    BY <2>2, <2>3
<1>16. QED
  BY <1>11, <1>12, <1>13, <1>15 DEF Sound

(* What a synchronisation mirrors is a settlement of an unsettled escrow, or
   the refund of a released one.                                           *)
LEMMA MirrorsForward ==
    ASSUME IInv, NEW s \in Syncer, NEW b \in Booking, SyncApply(s, b), Mirrors(s, b)
    PROVE  /\ syncRead[s].chain \in {"RELEASED", "REFUNDED"}
           /\ booking[b].escrow \in {"HELD", "RELEASED"}
           /\ syncRead[s].chain # booking[b].escrow
<1> DEFINE c == syncRead[s].chain
           hub == syncSnap[s][b]
<1>1. hub \in {"HELD", "RELEASED", "REFUNDED"}
  BY TypeParts DEF IInv, SyncBound, SyncApply, RequestTypeOK
<1>2. c \in {"HELD", "RELEASED", "REFUNDED"}
  <2>1. syncRead[s] \in {NoRead} \cup [b : Booking, chain : ChainState \ {"NONE"}]
    BY TypeParts DEF IInv, RequestTypeOK
  <2>2. syncRead[s] # NoRead
    BY DEF SyncApply
  <2>3. QED
    BY <2>1, <2>2 DEF ChainState
<1>3. c # hub /\ ~Downward(hub, c) /\ booking[b].escrow = hub
  BY DEF Mirrors
<1>4. QED
  BY <1>1, <1>2, <1>3 DEF Downward

LEMMA SoundSyncStep ==
    ASSUME IInv, NEW s \in Syncer, NEW b \in Booking, SyncApply(s, b)
    PROVE  Sound(listing', booking', lastSync')
<1>1. /\ booking \in [Booking -> BookingRec]
      /\ lastSync \in [Booking -> EscrowState \cup {"none"}]
      /\ Sound(listing, booking, lastSync)
  BY TypeParts DEF IInv, MemTypeOK
<1>2. CASE Mirrors(s, b)
  <2> DEFINE c == syncRead[s].chain
  <2>1. c \in {"RELEASED", "REFUNDED"} /\ booking[b].escrow \in {"HELD", "RELEASED"}
    BY <1>2, MirrorsForward
  <2>2. /\ booking' = [booking EXCEPT ![b].escrow = c]
        /\ lastSync' = [lastSync EXCEPT ![b] = c]
        /\ listing' = listing
    BY <1>2 DEF SyncApply
  <2> HIDE DEF c
  <2>3. Sound(listing, [booking EXCEPT ![b].escrow = c], [lastSync EXCEPT ![b] = c])
    BY <1>1, <2>1, SoundMove
  <2>4. QED
    BY <2>2, <2>3
<1>3. CASE ~Mirrors(s, b)
  BY <1>1, <1>3 DEF SyncApply, memVars, ledgerVars
<1>4. QED
  BY <1>2, <1>3

(* Restart included: it loads the snapshot, which is sound.                *)
LEMMA SoundStep ==
    ASSUME IInv, [Next]_vars
    PROVE  Sound(listing', booking', lastSync')
<1>1. Sound(listing, booking, lastSync) /\ Sound(disk.listing, disk.booking, disk.lastSync)
  BY DEF IInv
<1>2. ASSUME NEW l \in Listing,
             \/ CreateListing(l) \/ EditListing(l) \/ ArchiveListing(l) \/ DeleteListing(l)
      PROVE  Sound(listing', booking', lastSync')
  BY <1>2, SoundListingStep
<1>3. ASSUME NEW b \in Booking, NEW l \in Listing, NEW q \in 1..MaxQty,
             NEW r \in Ref \cup {NoRef}, Book(b, l, q, r)
      PROVE  Sound(listing', booking', lastSync')
  BY <1>3, SoundBookStep DEF Book
<1>4. ASSUME NEW b \in Booking,
             \/ VerifyConfirm(b) \/ Confirm(b) \/ RefuseConfirm(b)
             \/ VerifyCancel(b) \/ Cancel(b) \/ RefuseCancel(b)
      PROVE  Sound(listing', booking', lastSync')
  <2>1. CASE Confirm(b)
    BY <2>1, SoundConfirmStep
  <2>2. CASE Cancel(b)
    BY <2>2, SoundCancelStep
  <2>3. CASE VerifyConfirm(b) \/ RefuseConfirm(b) \/ VerifyCancel(b) \/ RefuseCancel(b)
    BY <1>1, <2>3 DEF VerifyConfirm, RefuseConfirm, VerifyCancel, RefuseCancel, memVars,
                      ledgerVars
  <2>4. QED
    BY <1>4, <2>1, <2>2, <2>3
<1>5. ASSUME NEW s \in Syncer,
             \/ SyncStart(s)
             \/ \E b \in Booking : SyncReadChain(s, b) \/ SyncError(s, b) \/ SyncApply(s, b)
      PROVE  Sound(listing', booking', lastSync')
  <2>1. ASSUME NEW b \in Booking, SyncApply(s, b)
        PROVE  Sound(listing', booking', lastSync')
    BY <2>1, SoundSyncStep
  <2>2. CASE SyncStart(s) \/ \E b \in Booking : SyncReadChain(s, b) \/ SyncError(s, b)
    BY <1>1, <2>2 DEF SyncStart, SyncReadChain, SyncError, memVars, ledgerVars
  <2>3. QED
    BY <1>5, <2>1, <2>2
<1>6. CASE SettlePremium \/ (\E r \in Ref : ChainMove(r)) \/ Tick \/ UNCHANGED vars
  BY <1>1, <1>6 DEF SettlePremium, ChainMove, Tick, vars, memVars, ledgerVars
<1>7. CASE Restart
  BY <1>1, <1>7 DEF Restart
<1>8. QED
  BY <1>2, <1>3, <1>4, <1>5, <1>6, <1>7 DEF Next

(* The disk is left alone or becomes what memory is after the step.        *)
LEMMA DiskStep ==
    ASSUME [Next]_vars
    PROVE  disk' = Snapshot' \/ disk' = disk
<1>1. ASSUME NEW b \in Booking, NEW s, LedgerLoop(b, s)
      PROVE  disk' = Snapshot' \/ disk' = disk
  BY <1>1 DEF LedgerLoop, Persist
<1>2. ASSUME NEW b \in Booking,
             \/ VerifyConfirm(b) \/ Confirm(b) \/ RefuseConfirm(b)
             \/ VerifyCancel(b) \/ Cancel(b) \/ RefuseCancel(b)
      PROVE  disk' = Snapshot' \/ disk' = disk
  BY <1>1, <1>2 DEF VerifyConfirm, Confirm, RefuseConfirm, VerifyCancel, Cancel, RefuseCancel
<1>3. ASSUME NEW s \in Syncer, NEW b \in Booking,
             SyncStart(s) \/ SyncReadChain(s, b) \/ SyncError(s, b) \/ SyncApply(s, b)
      PROVE  disk' = Snapshot' \/ disk' = disk
  BY <1>3 DEF SyncStart, SyncReadChain, SyncError, SyncApply, Persist
<1>4. ASSUME NEW s \in Syncer, SyncStart(s)
      PROVE  disk' = Snapshot' \/ disk' = disk
  BY <1>4 DEF SyncStart
<1>5. ASSUME NEW l \in Listing,
             \/ CreateListing(l) \/ EditListing(l) \/ ArchiveListing(l) \/ DeleteListing(l)
      PROVE  disk' = Snapshot' \/ disk' = disk
  BY <1>5 DEF CreateListing, EditListing, ArchiveListing, DeleteListing, Persist
<1>6. CASE SettlePremium \/ (\E r \in Ref : ChainMove(r)) \/ Tick \/ Restart \/ UNCHANGED vars
  BY <1>6 DEF SettlePremium, ChainMove, Tick, Restart, vars, Persist
<1>7. ASSUME NEW b \in Booking, NEW l \in Listing, NEW q \in 1..MaxQty,
             NEW r \in Ref \cup {NoRef}, Book(b, l, q, r)
      PROVE  disk' = Snapshot' \/ disk' = disk
  BY <1>7 DEF Book, Persist
<1>8. QED
  BY <1>2, <1>3, <1>4, <1>5, <1>6, <1>7 DEF Next

LEMMA RefsStay ==
    ASSUME IInv, Next, ~Restart, NEW b \in Booking, booking[b].ref \in Ref
    PROVE  booking'[b].ref \in Ref
<1>1. booking \in [Booking -> BookingRec]
  BY TypeParts DEF IInv, MemTypeOK
<1>2. booking[b].escrow # "none"
  BY CoreAssumption DEF IInv, Sound, Unused, NewBooking
<1>3. ASSUME NEW c \in Booking, NEW l \in Listing, NEW q \in 1..MaxQty,
             NEW r \in Ref \cup {NoRef}, Book(c, l, q, r)
      PROVE  booking'[b].ref \in Ref
  BY <1>1, <1>2, <1>3 DEF Book, Reserve
<1>4. ASSUME NEW c \in Booking,
             \/ VerifyConfirm(c) \/ Confirm(c) \/ RefuseConfirm(c)
             \/ VerifyCancel(c) \/ Cancel(c) \/ RefuseCancel(c)
      PROVE  booking'[b].ref \in Ref
  BY <1>1, <1>4 DEF VerifyConfirm, Confirm, RefuseConfirm, VerifyCancel, Cancel, RefuseCancel,
                    memVars, BookingRec
<1>5. ASSUME NEW s \in Syncer, NEW c \in Booking, SyncApply(s, c)
      PROVE  booking'[b].ref \in Ref
  <2>1. CASE Mirrors(s, c)
    BY <1>1, <1>5, <2>1 DEF SyncApply, BookingRec
  <2>2. CASE ~Mirrors(s, c)
    BY <1>5, <2>2 DEF SyncApply, memVars
  <2>3. QED
    BY <2>1, <2>2
<1>6. ASSUME UNCHANGED booking
      PROVE  booking'[b].ref \in Ref
  BY <1>6
<1>7. QED
  BY <1>3, <1>4, <1>5, <1>6
     DEF Next, CreateListing, EditListing, ArchiveListing, DeleteListing, SyncStart,
         SyncReadChain, SyncError, SettlePremium, ChainMove, Tick, memVars

LEMMA SyncBoundStep ==
    ASSUME IInv, [Next]_vars
    PROVE  SyncBound'
<1>1. /\ SyncBound
      /\ booking \in [Booking -> BookingRec]
      /\ syncSnap \in [Syncer -> [Booking -> {"none", "HELD", "RELEASED", "REFUNDED"}]]
      /\ syncRead \in [Syncer -> {NoRead} \cup [b : Booking, chain : ChainState \ {"NONE"}]]
  BY TypeParts DEF IInv, MemTypeOK, RequestTypeOK
<1>2. CASE Restart
  BY <1>2 DEF Restart, SyncBound
<1>3. CASE UNCHANGED vars
  BY <1>1, <1>3 DEF vars, memVars, requestVars, SyncBound
<1>4. CASE Next /\ ~Restart
  <2>1. \A b \in Booking : booking[b].ref \in Ref => booking'[b].ref \in Ref
    BY <1>4, RefsStay
  <2>2. CASE UNCHANGED <<syncSnap, syncRead>>
    BY <1>1, <2>1, <2>2 DEF SyncBound
  <2>3. ASSUME NEW s \in Syncer, SyncStart(s)
        PROVE  SyncBound'
    <3>1. /\ syncRead' = syncRead /\ syncRead[s] = NoRead
          /\ \A t \in Syncer : t # s => syncSnap'[t] = syncSnap[t]
          /\ \A b \in Booking : syncSnap'[s][b] # "none" => booking[b].ref \in Ref
      BY <1>1, <2>3 DEF SyncStart, Idle, BookingRec
    <3>2. QED
      BY <1>1, <2>1, <3>1 DEF SyncBound
  <2>4. ASSUME NEW s \in Syncer, NEW b \in Booking, SyncReadChain(s, b)
        PROVE  SyncBound'
    <3>1. /\ syncSnap' = syncSnap /\ syncSnap[s][b] # "none"
          /\ syncRead'[s].b = b
          /\ \A t \in Syncer : t # s => syncRead'[t] = syncRead[t]
      BY <1>1, <2>4 DEF SyncReadChain
    <3>2. QED
      BY <1>1, <2>1, <3>1 DEF SyncBound
  <2>5. ASSUME NEW s \in Syncer, NEW b \in Booking, SyncError(s, b) \/ SyncApply(s, b)
        PROVE  SyncBound'
    <3>1. /\ syncRead'[s] = NoRead
          /\ \A t \in Syncer : t # s => syncRead'[t] = syncRead[t] /\ syncSnap'[t] = syncSnap[t]
          /\ \A c \in Booking : syncSnap'[s][c] # "none" => syncSnap[s][c] # "none"
      BY <1>1, <2>5 DEF SyncError, SyncApply
    <3>2. QED
      BY <1>1, <2>1, <3>1 DEF SyncBound
  <2>6. QED
    BY <1>4, <2>2, <2>3, <2>4, <2>5
       DEF Next, CreateListing, EditListing, ArchiveListing, DeleteListing, Book, Reserve,
           VerifyConfirm, Confirm, RefuseConfirm, VerifyCancel, Cancel, RefuseCancel,
           SettlePremium, ChainMove, Tick, requestVars
<1>5. QED
  BY <1>2, <1>3, <1>4

LEMMA InvInit == Init => IInv
<1> SUFFICES ASSUME Init PROVE IInv
  OBVIOUS
<1>1. TypeOK
  BY TypeInit
<1>2. SyncBound
  BY DEF Init, SyncBound
<1>3. Sound(listing, booking, lastSync)
  BY CoreAssumption DEF Init, Sound, Unused, Placed, ActiveBound, SyncedRefund, Counted, Fits,
                        RefsDistinct, NewBooking, NewListing
<1>4. Sound(disk.listing, disk.booking, disk.lastSync)
  BY <1>3 DEF Init, Snapshot
<1>5. QED
  BY <1>1, <1>2, <1>3, <1>4 DEF IInv

LEMMA InvStep == IInv /\ [Next]_vars => IInv'
<1> SUFFICES ASSUME IInv, [Next]_vars PROVE IInv'
  OBVIOUS
<1>1. TypeOK'
  BY TypeStep DEF IInv
<1>2. SyncBound'
  BY SyncBoundStep
<1>3. Sound(listing', booking', lastSync')
  BY SoundStep
<1>4. Sound(disk'.listing, disk'.booking, disk'.lastSync)
  <2>1. CASE disk' = disk
    BY <2>1 DEF IInv
  <2>2. CASE disk' = Snapshot'
    BY <1>3, <2>2 DEF Snapshot
  <2>3. QED
    BY <2>1, <2>2, DiskStep
<1>5. QED
  BY <1>1, <1>2, <1>3, <1>4 DEF IInv

-----------------------------------------------------------------------------
(* Theorems.                                                               *)

(* The inductive invariant holds throughout, whatever the bounds.          *)
THEOREM Invariance == Spec => []IInv
  BY InvInit, InvStep, PTL DEF Spec

(* Memory, disk and requests always have the types of BookingCore.         *)
THEOREM TypeCorrect == Spec => []TypeOK
<1>1. IInv => TypeOK
  BY DEF IInv
<1>2. QED
  BY <1>1, Invariance, PTL

(* The registered counter of POST /book and cancel counts exactly the seats
   that are taken, across failed writes, synchronisations and restarts.    *)
THEOREM InventoryCorrect == Spec => []InventoryExact
<1>1. IInv => InventoryExact
  BY DEF IInv, Sound, Counted, InventoryExact, Live
<1>2. QED
  BY <1>1, Invariance, PTL

(* No interleaving of bookings, cancels and edits oversells a listing.     *)
THEOREM NeverOversold == Spec => []NoOversell
<1>1. IInv => NoOversell
  <2> SUFFICES ASSUME IInv, NEW l \in Listing, Live(l) /\ listing[l].tracks
               PROVE  Cardinality(Seats(booking, lastSync, l)) <= listing[l].capacity
    BY DEF NoOversell
  <2>1. listing[l].registered = Cardinality(Seats(booking, lastSync, l))
    BY DEF IInv, Sound, Counted, Live
  <2>2. listing[l].registered <= listing[l].capacity
    BY DEF IInv, Sound, Fits, Live
  <2>3. QED
    BY <2>1, <2>2
<1>2. QED
  BY <1>1, Invariance, PTL

(* An open booking never loses its listing to manage: delete.              *)
THEOREM ListingKept == Spec => []ActiveHasListing
<1>1. IInv => ActiveHasListing
  BY DEF IInv, Sound, ActiveBound, ActiveHasListing, Live
<1>2. QED
  BY <1>1, Invariance, PTL

(* One on-chain escrow is never claimed by two bookings.                   *)
THEOREM RefsExclusive == Spec => []RefExclusive
<1>1. IInv => RefExclusive
  BY DEF IInv, Sound, RefsDistinct, RefExclusive
<1>2. QED
  BY <1>1, Invariance, PTL

-----------------------------------------------------------------------------
(* The ledger, in memory and on disk.                                      *)

Told(B, E, S) ==
    \A b \in Booking :
        /\ B[b].escrow = IF S[b] # "none" THEN S[b] ELSE E[b]
        /\ S[b] \in {"none", "RELEASED", "REFUNDED"}

LedgerInv ==
    /\ ~settled
    /\ ~disk.settled
    /\ Told(booking, entry, lastSync)
    /\ Told(disk.booking, disk.entry, disk.lastSync)

LEMMA LedgerInit == Init => LedgerInv
  BY DEF Init, LedgerInv, Told, Snapshot, NewBooking

(* Confirm and cancel rewrite the entry of a booking no sync has touched.  *)
LEMMA ToldRewrite ==
    ASSUME IInv, LedgerInv, NEW b \in Booking, NEW s \in {"RELEASED", "REFUNDED"},
           booking[b].escrow \in {"HELD", "WAIVED"},
           booking' = [booking EXCEPT ![b].escrow = s], LedgerLoop(b, s)
    PROVE  Told(booking', entry', lastSync') /\ ~settled'
<1>1. /\ booking \in [Booking -> BookingRec]
      /\ entry \in [Booking -> EscrowState \cup {"none"}]
  BY TypeParts DEF IInv, MemTypeOK
<1>2. entry' = [entry EXCEPT ![b] = s] /\ lastSync' = lastSync /\ settled' = settled
  BY DEF LedgerLoop, LedgerInv
<1>3. lastSync[b] = "none"
  BY DEF LedgerInv, Told
<1>4. \A c \in Booking : booking'[c].escrow = IF c = b THEN s ELSE booking[c].escrow
  BY <1>1 DEF BookingRec
<1>5. \A c \in Booking : entry'[c] = IF c = b THEN s ELSE entry[c]
  BY <1>1, <1>2
<1>6. QED
  BY <1>2, <1>3, <1>4, <1>5 DEF LedgerInv, Told

LEMMA ToldBook ==
    ASSUME IInv, LedgerInv, NEW b \in Booking, NEW l \in Listing, NEW q \in 1..MaxQty,
           NEW r \in Ref \cup {NoRef}, Reserve(b, l, q, r)
    PROVE  Told(booking', entry', lastSync') /\ ~settled'
<1>1. /\ booking \in [Booking -> BookingRec]
      /\ entry \in [Booking -> EscrowState \cup {"none"}]
  BY TypeParts DEF IInv, MemTypeOK
<1>2. lastSync' = lastSync /\ settled' = settled /\ booking[b].escrow = "none"
  BY DEF Reserve
<1>3. lastSync[b] = "none"
  BY <1>2 DEF LedgerInv, Told
<1>4. \A c \in Booking :
          booking'[c].escrow = IF c = b THEN Opening(listing[l]) ELSE booking[c].escrow
  BY <1>1 DEF Reserve
<1>5. \A c \in Booking : entry'[c] = IF c = b THEN Opening(listing[l]) ELSE entry[c]
  BY <1>1 DEF Reserve
<1>6. QED
  BY <1>2, <1>3, <1>4, <1>5 DEF LedgerInv, Told

LEMMA ToldSync ==
    ASSUME IInv, LedgerInv, NEW s \in Syncer, NEW b \in Booking, SyncApply(s, b)
    PROVE  Told(booking', entry', lastSync') /\ ~settled'
<1>1. /\ booking \in [Booking -> BookingRec]
      /\ lastSync \in [Booking -> EscrowState \cup {"none"}]
  BY TypeParts DEF IInv, MemTypeOK
<1>2. CASE Mirrors(s, b)
  <2>1. /\ booking' = [booking EXCEPT ![b].escrow = syncRead[s].chain]
        /\ lastSync' = [lastSync EXCEPT ![b] = syncRead[s].chain]
        /\ entry' = entry /\ settled' = settled
    BY <1>2 DEF SyncApply
  <2>2. syncRead[s].chain \in {"RELEASED", "REFUNDED"}
    BY <1>2, MirrorsForward
  <2>3. \A c \in Booking : booking'[c].escrow = IF c = b THEN syncRead[s].chain
                                                ELSE booking[c].escrow
    BY <1>1, <2>1 DEF BookingRec
  <2>4. \A c \in Booking : lastSync'[c] = IF c = b THEN syncRead[s].chain ELSE lastSync[c]
    BY <1>1, <2>1
  <2>5. QED
    BY <2>1, <2>2, <2>3, <2>4 DEF LedgerInv, Told
<1>3. CASE ~Mirrors(s, b)
  BY <1>3 DEF SyncApply, memVars, ledgerVars, LedgerInv
<1>4. QED
  BY <1>2, <1>3

LEMMA LedgerStep ==
    ASSUME ~SettleAuto, IInv, LedgerInv, [Next]_vars
    PROVE  LedgerInv'
<1>1. Told(booking', entry', lastSync') /\ ~settled'
  <2>1. ASSUME NEW b \in Booking, Confirm(b)
        PROVE  Told(booking', entry', lastSync') /\ ~settled'
    BY <2>1, ToldRewrite DEF Confirm
  <2>2. ASSUME NEW b \in Booking, Cancel(b)
        PROVE  Told(booking', entry', lastSync') /\ ~settled'
    BY <2>2, ToldRewrite DEF Cancel, Cancellable
  <2>3. ASSUME NEW b \in Booking, NEW l \in Listing, NEW q \in 1..MaxQty,
               NEW r \in Ref \cup {NoRef}, Book(b, l, q, r)
        PROVE  Told(booking', entry', lastSync') /\ ~settled'
    BY <2>3, ToldBook DEF Book
  <2>4. ASSUME NEW s \in Syncer, NEW b \in Booking, SyncApply(s, b)
        PROVE  Told(booking', entry', lastSync') /\ ~settled'
    BY <2>4, ToldSync
  <2>5. CASE UNCHANGED <<booking, entry, lastSync, settled>>
    BY <2>5 DEF LedgerInv
  <2>6. CASE Restart
    BY <2>6 DEF Restart, LedgerInv
  <2>7. QED
    BY <2>1, <2>2, <2>3, <2>4, <2>5, <2>6
       DEF Next, CreateListing, EditListing, ArchiveListing, DeleteListing, VerifyConfirm,
           RefuseConfirm, VerifyCancel, RefuseCancel, SyncStart, SyncReadChain, SyncError,
           SettlePremium, ChainMove, Tick, memVars, ledgerVars, vars
<1>2. ~disk'.settled /\ Told(disk'.booking, disk'.entry, disk'.lastSync)
  <2>1. CASE disk' = disk
    BY <2>1 DEF LedgerInv
  <2>2. CASE disk' = Snapshot'
    BY <1>1, <2>2 DEF Snapshot
  <2>3. QED
    BY <2>1, <2>2, DiskStep
<1>3. QED
  BY <1>1, <1>2 DEF LedgerInv

(* While settlements are not written to the ledger, GET /ledger tells the
   escrow state of every booking.                                          *)
THEOREM LedgerFaithful ==
    ASSUME ~SettleAuto
    PROVE  Spec => []LedgerTells
<1>1. LedgerInv => LedgerTells
  BY DEF LedgerInv, Told, LedgerTells
<1>2. IInv /\ IInv' /\ LedgerInv /\ [Next]_vars => LedgerInv'
  BY LedgerStep
<1>3. QED
  BY <1>1, <1>2, LedgerInit, Invariance, PTL DEF Spec

-----------------------------------------------------------------------------
(* The disk, when no write fails.                                          *)

DurableInv ==
    /\ AcknowledgedIsDurable
    /\ disk.settled = settled
    /\ disk.shadowed = shadowed

LEMMA DurableStep ==
    ASSUME ~SettleAuto, ~DiskFaults, LedgerInv, DurableInv, [Next]_vars
    PROVE  DurableInv'
<1>1. CASE disk' = Snapshot'
  BY <1>1 DEF DurableInv, AcknowledgedIsDurable, Snapshot
<1>2. CASE disk' = disk /\ UNCHANGED <<listing, booking, entry, lastSync, settled, shadowed>>
  BY <1>2 DEF DurableInv, AcknowledgedIsDurable
<1>3. CASE Restart
  BY <1>3 DEF Restart, DurableInv, AcknowledgedIsDurable
<1>4. ASSUME NEW b \in Booking, NEW s, LedgerLoop(b, s)
      PROVE  disk' = Snapshot'
  BY <1>4 DEF LedgerLoop, LedgerInv, Persist
<1>5. ASSUME NEW b \in Booking, Confirm(b) \/ Cancel(b)
      PROVE  DurableInv'
  BY <1>1, <1>4, <1>5 DEF Confirm, Cancel
<1>6. ASSUME NEW b \in Booking,
             VerifyConfirm(b) \/ RefuseConfirm(b) \/ VerifyCancel(b) \/ RefuseCancel(b)
      PROVE  DurableInv'
  BY <1>2, <1>6 DEF VerifyConfirm, RefuseConfirm, VerifyCancel, RefuseCancel, memVars,
                    ledgerVars
<1>7. ASSUME NEW s \in Syncer, NEW b \in Booking, SyncApply(s, b)
      PROVE  DurableInv'
  <2>1. CASE Mirrors(s, b)
    BY <1>1, <1>7, <2>1 DEF SyncApply, Persist
  <2>2. CASE ~Mirrors(s, b)
    BY <1>2, <1>7, <2>2 DEF SyncApply, memVars, ledgerVars
  <2>3. QED
    BY <2>1, <2>2
<1>8. ASSUME NEW l \in Listing,
             \/ CreateListing(l) \/ EditListing(l) \/ ArchiveListing(l) \/ DeleteListing(l)
      PROVE  DurableInv'
  BY <1>1, <1>8 DEF CreateListing, EditListing, ArchiveListing, DeleteListing, Persist
<1>9. ASSUME NEW b \in Booking, NEW l \in Listing, NEW q \in 1..MaxQty,
             NEW r \in Ref \cup {NoRef}, Book(b, l, q, r)
      PROVE  DurableInv'
  BY <1>1, <1>9 DEF Book, Persist
<1>10. ASSUME NEW s \in Syncer,
              \/ SyncStart(s)
              \/ \E b \in Booking : SyncReadChain(s, b) \/ SyncError(s, b)
       PROVE  DurableInv'
  BY <1>2, <1>10 DEF SyncStart, SyncReadChain, SyncError, memVars, ledgerVars
<1>11. CASE SettlePremium \/ (\E r \in Ref : ChainMove(r)) \/ Tick \/ UNCHANGED vars
  BY <1>2, <1>11 DEF SettlePremium, ChainMove, Tick, memVars, ledgerVars, vars
<1>12. QED
  BY <1>3, <1>5, <1>6, <1>7, <1>8, <1>9, <1>10, <1>11 DEF Next

(* Whatever a handler answered is on disk: _persist_locked runs before every
   answer that follows a change.                                           *)
THEOREM Durable ==
    ASSUME ~SettleAuto, ~DiskFaults
    PROVE  Spec => []AcknowledgedIsDurable
<1>1. Init => DurableInv
  BY DEF Init, DurableInv, AcknowledgedIsDurable, Snapshot
<1>2. IInv /\ LedgerInv /\ [Next]_vars => LedgerInv'
  BY LedgerStep
<1>3. LedgerInv /\ DurableInv /\ [Next]_vars => DurableInv'
  BY DurableStep
<1>4. DurableInv => AcknowledgedIsDurable
  BY DEF DurableInv
<1>5. QED
  BY <1>1, <1>2, <1>3, <1>4, LedgerInit, Invariance, PTL DEF Spec

-----------------------------------------------------------------------------
(* Every step of the engine is a step of Escrow, or changes no escrow.     *)

EscrowOf == [b \in Booking |-> booking[b].escrow]

LEMMA PromiseMove ==
    ASSUME booking \in [Booking -> BookingRec], NEW b \in Booking,
           NEW s \in {"RELEASED", "REFUNDED"}, Promise!Final(booking[b].escrow, s),
           booking' = [booking EXCEPT ![b].escrow = s]
    PROVE  Promise!Next
<1>1. EscrowOf' = [EscrowOf EXCEPT ![b] = s]
  BY DEF EscrowOf, BookingRec
<1>2. Promise!Move(b)
  BY <1>1 DEF Promise!Move, EscrowOf
<1>3. QED
  BY <1>2 DEF Promise!Next

LEMMA PromiseStep ==
    ASSUME ~SettleAuto, ~DiskFaults, IInv, LedgerInv, DurableInv, [Next]_vars
    PROVE  Promise!Next \/ EscrowOf' = EscrowOf
<1>1. booking \in [Booking -> BookingRec]
  BY TypeParts DEF IInv, MemTypeOK
<1>2. CASE booking' = booking
  BY <1>2 DEF EscrowOf
<1>3. CASE Restart
  BY <1>2, <1>3 DEF Restart, DurableInv, AcknowledgedIsDurable
<1>4. ASSUME NEW b \in Booking, NEW l \in Listing, NEW q \in 1..MaxQty,
             NEW r \in Ref \cup {NoRef}, Book(b, l, q, r)
      PROVE  Promise!Next
  <2>1. EscrowOf' = [EscrowOf EXCEPT ![b] = Opening(listing[l])]
    BY <1>1, <1>4 DEF EscrowOf, Book, Reserve
  <2>2. Opening(listing[l]) \in {"HELD", "WAIVED", "DIRECT"} /\ booking[b].escrow = "none"
    BY <1>4, OpeningTyped DEF Book, Reserve
  <2>3. Promise!Open(b)
    BY <2>1, <2>2 DEF Promise!Open, EscrowOf
  <2>4. QED
    BY <2>3 DEF Promise!Next
<1>5. ASSUME NEW b \in Booking, Confirm(b)
      PROVE  Promise!Next
  BY <1>1, <1>5, PromiseMove DEF Confirm, Promise!Final
<1>6. ASSUME NEW b \in Booking, Cancel(b)
      PROVE  Promise!Next
  BY <1>1, <1>6, PromiseMove DEF Cancel, Cancellable, Promise!Final
<1>7. ASSUME NEW s \in Syncer, NEW b \in Booking, SyncApply(s, b)
      PROVE  Promise!Next \/ EscrowOf' = EscrowOf
  <2>1. CASE Mirrors(s, b)
    <3>1. booking' = [booking EXCEPT ![b].escrow = syncRead[s].chain]
      BY <1>7, <2>1 DEF SyncApply
    <3>2. /\ syncRead[s].chain \in {"RELEASED", "REFUNDED"}
          /\ Promise!Final(booking[b].escrow, syncRead[s].chain)
      BY <1>7, <2>1, MirrorsForward DEF Promise!Final
    <3>3. QED
      BY <1>1, <3>1, <3>2, PromiseMove
  <2>2. CASE ~Mirrors(s, b)
    BY <1>2, <1>7, <2>2 DEF SyncApply, memVars
  <2>3. QED
    BY <2>1, <2>2
<1>8. QED
  BY <1>2, <1>3, <1>4, <1>5, <1>6, <1>7
     DEF Next, CreateListing, EditListing, ArchiveListing, DeleteListing, VerifyConfirm,
         RefuseConfirm, VerifyCancel, RefuseCancel, SyncStart, SyncReadChain, SyncError,
         SettlePremium, ChainMove, Tick, memVars, vars

(* The engine implements Escrow: the refinement mapping reads the escrow
   field of every booking.                                                 *)
THEOREM PromiseKept ==
    ASSUME ~SettleAuto, ~DiskFaults
    PROVE  Spec => EscrowPromise
<1>1. Init => Promise!Init
  BY DEF Init, Promise!Init, NewBooking
<1>2. IInv /\ LedgerInv /\ DurableInv /\ [Next]_vars
        => [Promise!Next]_([b \in Booking |-> booking[b].escrow])
  BY PromiseStep DEF EscrowOf
<1>3. Init => DurableInv
  BY DEF Init, DurableInv, AcknowledgedIsDurable, Snapshot
<1>4. IInv /\ LedgerInv /\ [Next]_vars => LedgerInv'
  BY LedgerStep
<1>5. LedgerInv /\ DurableInv /\ [Next]_vars => DurableInv'
  BY DurableStep
<1>6. QED
  BY <1>1, <1>2, <1>3, <1>4, <1>5, LedgerInit, Invariance, PTL
     DEF Spec, EscrowPromise, Promise!Spec

-----------------------------------------------------------------------------
(* The buyer's cancel token.                                               *)

(* Until the first restart: a token is spent only after its booking is     *)
(* made, and one spent while the refund could be had is in use.            *)
CredInv ==
    crashes = 0 => \A b \in Booking :
        /\ booking[b].escrow = "none" => b \notin spent
        /\ booking[b].escrow = "HELD" /\ WindowOpen(b) => b \notin spent \/ b \in cancelling

(* A step keeps it that moves no booking back to HELD, reopens no window,  *)
(* spends no token and ends no cancellation but those it may.              *)
CredCalm ==
    /\ \A b \in Booking :
          /\ booking'[b].escrow = "none" => booking[b].escrow = "none"
          /\ booking'[b].escrow = "HELD" /\ WindowOpen(b)'
             => \/ booking[b].escrow = "none"
                \/ booking[b].escrow = "HELD" /\ WindowOpen(b) /\ (b \in cancelling => b \in cancelling')
    /\ spent' = spent
    /\ crashes' = crashes

LEMMA CredCalmStep == CredInv /\ CredCalm => CredInv'
BY DEF CredInv, CredCalm

LEMMA CredSame ==
    ASSUME UNCHANGED <<booking, spent, now, crashes>>,
           \A b \in Booking : Cancellable(b) /\ b \in cancelling => b \in cancelling'
    PROVE  CredCalm
BY DEF CredCalm, WindowOpen, Cancellable

(* One booking is settled.                                                 *)
LEMMA CredSettle ==
    ASSUME booking \in [Booking -> BookingRec], NEW b \in Booking, NEW s \in {"RELEASED", "REFUNDED"},
           booking' = [booking EXCEPT ![b].escrow = s], UNCHANGED <<spent, now, crashes>>,
           \A c \in Booking \ {b} : c \in cancelling => c \in cancelling'
    PROVE  CredCalm
<1>1. /\ booking'[b].escrow = s
      /\ \A c \in Booking \ {b} : booking'[c] = booking[c]
  BY DEF BookingRec
<1>. QED  BY <1>1 DEF CredCalm, WindowOpen

LEMMA CredStep ==
    ASSUME IInv, CredInv, [Next]_vars
    PROVE  CredInv'
<1>0. /\ booking \in [Booking -> BookingRec] /\ now \in Nat /\ crashes \in Nat
  BY TypeParts DEF IInv, MemTypeOK, TypeOK
<1>1. CASE Restart
  BY <1>0, <1>1 DEF Restart, CredInv
<1>2. ASSUME NEW b \in Booking, VerifyCancel(b)
      PROVE  CredInv'
  BY <1>2 DEF VerifyCancel, CredInv, memVars, WindowOpen
<1>3. ASSUME NEW b \in Booking, Confirm(b) \/ Cancel(b)
      PROVE  CredCalm
  BY <1>0, <1>3, CredSettle DEF Confirm, Cancel
<1>4. ASSUME NEW b \in Booking, VerifyConfirm(b) \/ RefuseConfirm(b) \/ RefuseCancel(b)
      PROVE  CredCalm
  BY <1>4, CredSame DEF VerifyConfirm, RefuseConfirm, RefuseCancel, memVars
<1>5. ASSUME NEW b \in Booking, NEW l \in Listing, NEW q \in 1..MaxQty,
             NEW r \in Ref \cup {NoRef}, Book(b, l, q, r)
      PROVE  CredCalm
  <2>1. /\ booking[b].escrow = "none" /\ Opening(listing[l]) # "none"
        /\ \A c \in Booking \ {b} : booking'[c] = booking[c]
        /\ booking'[b].escrow = Opening(listing[l])
    BY <1>0, <1>5, OpeningTyped DEF Book, Reserve
  <2>2. UNCHANGED <<spent, cancelling, now, crashes>>
    BY <1>5 DEF Book, Reserve, requestVars
  <2>. QED  BY <2>1, <2>2 DEF CredCalm, WindowOpen
<1>6. ASSUME NEW s \in Syncer, NEW b \in Booking, SyncApply(s, b)
      PROVE  CredCalm
  <2>1. CASE Mirrors(s, b)
    <3>1. syncRead[s].chain \in {"RELEASED", "REFUNDED"}
      BY <1>6, <2>1, MirrorsForward
    <3>. QED  BY <1>0, <1>6, <2>1, <3>1, CredSettle DEF SyncApply
  <2>2. CASE ~Mirrors(s, b)
    BY <1>6, <2>2, CredSame DEF SyncApply, memVars
  <2>. QED  BY <2>1, <2>2
<1>7. ASSUME NEW s \in Syncer,
             SyncStart(s) \/ \E b \in Booking : SyncReadChain(s, b) \/ SyncError(s, b)
      PROVE  CredCalm
  BY <1>7, CredSame DEF SyncStart, SyncReadChain, SyncError, memVars
<1>8. ASSUME NEW l \in Listing,
             CreateListing(l) \/ EditListing(l) \/ ArchiveListing(l) \/ DeleteListing(l)
      PROVE  CredCalm
  BY <1>8, CredSame DEF CreateListing, EditListing, ArchiveListing, DeleteListing, requestVars
<1>9. CASE SettlePremium \/ (\E r \in Ref : ChainMove(r)) \/ UNCHANGED vars
  <2>1. UNCHANGED <<booking, spent, now, crashes, cancelling>>
    BY <1>9 DEF SettlePremium, ChainMove, vars, memVars, requestVars
  <2>2. CredCalm
    BY <2>1, CredSame
  <2>. QED  BY <2>2, CredCalmStep
<1>10. CASE Tick
  <2>1. UNCHANGED <<booking, spent, cancelling, crashes>> /\ now' = now + 1
    BY <1>10 DEF Tick, memVars, requestVars
  <2>2. \A b \in Booking : booking[b].created \in Nat /\ booking[b].window \in Nat
    BY <1>0 DEF BookingRec
  <2>3. \A b \in Booking : WindowOpen(b)' => WindowOpen(b)
    BY <2>1, <2>2, <1>0 DEF WindowOpen
  <2>. QED  BY <2>1, <2>3, CredCalmStep DEF CredCalm
<1>. QED
  BY <1>1, <1>2, <1>3, <1>4, <1>5, <1>6, <1>7, <1>8, <1>9, <1>10, CredCalmStep DEF Next

(* No interleaving of the requests around a booking burns the cancel token *)
(* that verify_token takes: while the refund window of a held booking is   *)
(* open the buyer still has it, or the cancellation it pays for is running.*)
THEOREM TokenKept == Spec => []RefundCredentialKept
<1>1. Init => CredInv
  BY DEF Init, CredInv
<1>2. IInv /\ CredInv /\ [Next]_vars => CredInv'
  BY CredStep
<1>3. CredInv => RefundCredentialKept
  BY DEF CredInv, RefundCredentialKept
<1>. QED  BY <1>1, <1>2, <1>3, Invariance, PTL DEF Spec
=============================================================================
