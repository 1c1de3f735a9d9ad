--------------------------- MODULE Reputation_proof ---------------------------
(***************************************************************************)
(* Proofs about ratings, for any sets of listings, bookings, principals    *)
(* and wallets, any amounts and scores and any number of restarts: the     *)
(* aggregates of a live listing are the sums over its rated bookings, the  *)
(* listings that the heuristics look for are flagged, and a rating stays.  *)
(***************************************************************************)
EXTENDS Reputation, Data_proof

(***************************************************************************)
(* The inductive invariant.                                                *)
(***************************************************************************)
Reason == {"repeated payer", "interlock", "burst"}
Aggregates == [freeSum : Int, freeCount : Int, sum : Int, count : Int, wsum : Int, wtot : Int]
LiveRec == [st : {"live"}, owner : Principal, receive : Wallet \cup {NoWallet},
            agg : Aggregates, flags : SUBSET (SUBSET Reason)]
ListingRec == [st : {"none", "gone"}] \cup LiveRec
MadeRec ==
    [st : {"made"}, l : Listing, buyer : Principal, payer : Wallet \cup {NoWallet},
     amount : Amounts, escrow : Escrow, rating : {Unrated} \cup Scores, ratedAt : 0..MaxTime]
MadeOf(bs) == {b \in Booking : bs[b].st = "made"}

RepType ==
    /\ listing \in [Listing -> ListingRec]
    /\ booking \in [Booking -> BookingRec]
    /\ now \in 0..MaxTime
    /\ IsFiniteSet(MadeOf(booking))

(* A start finds the bookings as they are, and of every listing all but    *)
(* the aggregates, which it rebuilds.                                      *)
RepDisk ==
    /\ disk.booking = booking
    /\ disk.listing \in [Listing -> ListingRec]
    /\ \A l \in Listing :
          /\ disk.listing[l].st = listing[l].st
          /\ Live(l) => /\ disk.listing[l].owner = listing[l].owner
                        /\ disk.listing[l].flags = listing[l].flags

(* Paid bookings are never of the free channel, wallets are those of       *)
(* direct payments, nothing was rated in the future.                       *)
RepBooked ==
    \A b \in Booking : Made(b) =>
        /\ listing[booking[b].l].st # "none"
        /\ booking[b].amount > 0 => booking[b].escrow # "WAIVED"
        /\ booking[b].payer # NoWallet => booking[b].escrow = "DIRECT"
        /\ booking[b].ratedAt <= now

RepInv == RepType /\ RepDisk /\ RepBooked

(***************************************************************************)
(* What the actions do.                                                    *)
(***************************************************************************)
LEMMA RepMade ==
    ASSUME RepType, NEW b \in Booking, Made(b)
    PROVE  booking[b] \in MadeRec
BY DEF RepType, Made, BookingRec, MadeRec

LEMMA RepLive ==
    ASSUME RepType, NEW l \in Listing, Live(l)
    PROVE  listing[l] \in LiveRec
BY DEF RepType, Live, ListingRec, LiveRec

(* One booking is made or changed.                                         *)
LEMMA RepPut ==
    ASSUME RepType, NEW b \in Booking, NEW q \in MadeRec, booking' = [booking EXCEPT ![b] = q]
    PROVE  /\ booking' \in [Booking -> BookingRec] /\ IsFiniteSet(MadeOf(booking'))
           /\ booking'[b] = q /\ q.st = "made"
           /\ \A c \in Booking \ {b} : booking'[c] = booking[c]
<1>1. q \in BookingRec /\ q.st = "made"
  BY DEF MadeRec, BookingRec
<1>2. booking \in [Booking -> BookingRec] /\ IsFiniteSet(MadeOf(booking))
  BY DEF RepType
<1>3. MadeOf(booking') \subseteq MadeOf(booking) \cup {b}
  BY <1>1, <1>2 DEF MadeOf
<1>4. IsFiniteSet(MadeOf(booking) \cup {b})
  BY <1>2, FS_AddElement
<1>5. IsFiniteSet(MadeOf(booking'))
  BY <1>3, <1>4, FS_Subset
<1>. QED  BY <1>1, <1>2, <1>5

LEMMA RepMoveIs ==
    ASSUME RepType, NEW b \in Booking, Made(b), NEW e \in {"RELEASED", "REFUNDED"}, MoveEscrow(b, e)
    PROVE  /\ \E q \in MadeRec :
                 /\ booking' = [booking EXCEPT ![b] = q]
                 /\ q.escrow = e /\ q.l = booking[b].l /\ q.payer = booking[b].payer
                 /\ q.amount = booking[b].amount /\ q.rating = booking[b].rating
                 /\ q.ratedAt = booking[b].ratedAt
           /\ UNCHANGED <<listing, now>> /\ disk' = Snapshot'
<1> DEFINE q == [booking[b] EXCEPT !.escrow = e]
<1>1. booking[b] \in MadeRec
  BY RepMade
<1>1a. e \in Escrow
  BY DEF Escrow, Settled
<1>2. /\ q \in MadeRec /\ q.escrow = e /\ q.l = booking[b].l /\ q.payer = booking[b].payer
      /\ q.amount = booking[b].amount /\ q.rating = booking[b].rating
      /\ q.ratedAt = booking[b].ratedAt
  BY <1>1, <1>1a DEF MadeRec
<1>3. booking' = [booking EXCEPT ![b] = q]
  BY DEF MoveEscrow
<1> HIDE DEF q
<1>. QED  BY <1>2, <1>3 DEF MoveEscrow, Persist

(* The three ways an escrow moves: what is DIRECT stays so.                *)
LEMMA RepMoves ==
    ASSUME RepType, NEW b \in Booking, Confirm(b) \/ Cancel(b) \/ Mirror(b)
    PROVE  /\ Made(b) /\ booking[b].escrow # "DIRECT"
           /\ \E e \in {"RELEASED", "REFUNDED"} : MoveEscrow(b, e)
BY DEF Confirm, Cancel, Mirror

LEMMA RepBookIs ==
    ASSUME RepType, NEW b \in Booking, NEW l \in Listing, Book(b, l)
    PROVE  /\ \E q \in MadeRec :
                 /\ booking' = [booking EXCEPT ![b] = q]
                 /\ q.l = l /\ q.rating = Unrated /\ q.ratedAt = 0
                 /\ q.amount > 0 => q.escrow # "WAIVED"
                 /\ q.payer # NoWallet => q.escrow = "DIRECT"
           /\ ~Made(b) /\ Live(l) /\ UNCHANGED <<listing, now>> /\ disk' = Snapshot'
<1>1. PICK p \in Principal, a \in Amounts, w \in Wallet \cup {NoWallet},
           e \in {"WAIVED", "DIRECT", "HELD"} :
         /\ a = 0 <=> e = "WAIVED"
         /\ w # NoWallet => e = "DIRECT"
         /\ booking' = [booking EXCEPT ![b] =
              [st |-> "made", l |-> l, buyer |-> p, payer |-> w, amount |-> a,
               escrow |-> e, rating |-> Unrated, ratedAt |-> 0]]
  BY DEF Book
<1> DEFINE q == [st |-> "made", l |-> l, buyer |-> p, payer |-> w, amount |-> a,
                 escrow |-> e, rating |-> Unrated, ratedAt |-> 0]
<1>2. 0 \in 0..MaxTime /\ e \in Escrow
  BY ReputationAssumption DEF Escrow, Settled
<1>3. /\ q \in MadeRec /\ q.l = l /\ q.rating = Unrated /\ q.ratedAt = 0
      /\ q.amount = a /\ q.escrow = e /\ q.payer = w
  BY <1>2 DEF MadeRec
<1>4. booking' = [booking EXCEPT ![b] = q]
  BY <1>1
<1> HIDE DEF q
<1>5. q.amount > 0 => q.escrow # "WAIVED"
  BY <1>1, <1>3
<1>. QED  BY <1>1, <1>3, <1>4, <1>5 DEF Book, Persist, Made

LEMMA RepRateIs ==
    ASSUME RepType, NEW b \in Booking, Rate(b)
    PROVE  /\ Made(b) /\ booking[b].rating = Unrated
           /\ \E q \in MadeRec :
                 /\ booking' = [booking EXCEPT ![b] = q]
                 /\ q.l = booking[b].l /\ q.payer = booking[b].payer
                 /\ q.amount = booking[b].amount /\ q.escrow = booking[b].escrow
                 /\ q.rating \in Scores /\ q.rating # Unrated /\ q.ratedAt = now
                 /\ listing' = IF Live(booking[b].l)
                               THEN [listing EXCEPT ![booking[b].l] =
                                       RatedListing(listing[booking[b].l], b, q.rating, booking')]
                               ELSE listing
           /\ UNCHANGED now /\ disk' = Snapshot'
<1>1. PICK r \in Scores :
         /\ booking' = [booking EXCEPT ![b].rating = r, ![b].ratedAt = now]
         /\ listing' = IF Live(booking[b].l)
                       THEN [listing EXCEPT ![booking[b].l] =
                                RatedListing(listing[booking[b].l], b, r, booking')]
                       ELSE listing
  BY DEF Rate
<1>2. Made(b) /\ booking[b] \in MadeRec /\ now \in 0..MaxTime
  BY RepMade DEF Rate, RepType
<1> DEFINE q == [booking[b] EXCEPT !.rating = r, !.ratedAt = now]
<1>3. /\ q \in MadeRec /\ q.l = booking[b].l /\ q.payer = booking[b].payer
      /\ q.amount = booking[b].amount /\ q.escrow = booking[b].escrow
      /\ q.rating = r /\ q.ratedAt = now
  BY <1>2 DEF MadeRec
<1>4. booking' = [booking EXCEPT ![b] = q]
  BY <1>1, <1>2 DEF RepType
<1>5. r # Unrated
  BY ReputationAssumption DEF Unrated
<1> HIDE DEF q
<1>. QED  BY <1>1, <1>2, <1>3, <1>4, <1>5 DEF Rate, Persist

(* Aggregates, field by field.                                             *)
LEMMA RepEqual ==
    ASSUME NEW x \in Aggregates, NEW y \in Aggregates,
           x.freeSum = y.freeSum, x.freeCount = y.freeCount, x.sum = y.sum,
           x.count = y.count, x.wsum = y.wsum, x.wtot = y.wtot
    PROVE  x = y
BY DEF Aggregates

LEMMA RepAdd ==
    ASSUME NEW g \in Aggregates, NEW r \in Int, NEW w \in Int
    PROVE  /\ AddFree(g, r) \in Aggregates
           /\ AddFree(g, r).freeSum = g.freeSum + r /\ AddFree(g, r).freeCount = g.freeCount + 1
           /\ AddFree(g, r).sum = g.sum /\ AddFree(g, r).count = g.count
           /\ AddFree(g, r).wsum = g.wsum /\ AddFree(g, r).wtot = g.wtot
           /\ AddPaid(g, r, w) \in Aggregates
           /\ AddPaid(g, r, w).freeSum = g.freeSum /\ AddPaid(g, r, w).freeCount = g.freeCount
           /\ AddPaid(g, r, w).sum = g.sum + r /\ AddPaid(g, r, w).count = g.count + 1
           /\ AddPaid(g, r, w).wsum = g.wsum + r * w /\ AddPaid(g, r, w).wtot = g.wtot + w
<1> DEFINE p == AddFree(g, r)
           q == AddPaid(g, r, w)
           v == r * w
           u == g.freeSum + r
           m == g.freeCount + 1
           su == g.sum + r
           n == g.count + 1
           ws == g.wsum + v
           wt == g.wtot + w
<1>1. v \in Int
  OBVIOUS
<1>2. /\ p = [g EXCEPT !.freeSum = u, !.freeCount = m]
      /\ q = [g EXCEPT !.sum = su, !.count = n, !.wsum = ws, !.wtot = wt]
  BY DEF AddFree, AddPaid
<1> HIDE DEF v, p, q
<1>3. u \in Int /\ m \in Int /\ su \in Int /\ n \in Int /\ ws \in Int /\ wt \in Int
  BY <1>1 DEF Aggregates
<1> HIDE DEF u, m, su, n, ws, wt
<1>4. /\ p \in Aggregates /\ p.freeSum = u /\ p.freeCount = m /\ p.sum = g.sum
      /\ p.count = g.count /\ p.wsum = g.wsum /\ p.wtot = g.wtot
  BY <1>2, <1>3 DEF Aggregates
<1>5. /\ q \in Aggregates /\ q.freeSum = g.freeSum /\ q.freeCount = g.freeCount /\ q.sum = su
      /\ q.count = n /\ q.wsum = ws /\ q.wtot = wt
  BY <1>2, <1>3 DEF Aggregates
<1>. QED  BY <1>4, <1>5 DEF p, q, u, m, su, n, ws, wt, v

(* What a rating does to its listing.                                      *)
LEMMA RepListed ==
    ASSUME RepType, NEW b \in Booking, Made(b), Live(booking[b].l), NEW r \in Scores, NEW bs
    PROVE  LET l == booking[b].l
               z == RatedListing(listing[l], b, r, bs)
           IN  /\ z \in LiveRec /\ z.owner = listing[l].owner /\ l \in Listing
               /\ z.agg = IF booking[b].escrow = "WAIVED" THEN AddFree(listing[l].agg, r)
                          ELSE AddPaid(listing[l].agg, r, Weight(booking[b]))
               /\ z.flags = IF booking[b].escrow = "WAIVED" THEN listing[l].flags
                            ELSE Flagged(listing[l].flags, Reasons(bs, l))
<1> DEFINE l == booking[b].l
           w == Weight(booking[b])
           R == Reasons(bs, l)
           x == listing[l]
<1>1. booking[b] \in MadeRec /\ l \in Listing /\ x \in LiveRec
  <2>1. booking[b] \in MadeRec
    BY RepMade
  <2>2. l \in Listing
    BY <2>1 DEF MadeRec
  <2>. QED  BY <2>1, <2>2, RepLive
<1>2. r \in Int /\ w \in Int
  <2>1. booking[b].amount \in Nat
    BY <1>1, ReputationAssumption DEF MadeRec
  <2>2. w \in Int
    BY <2>1 DEF Weight
  <2>. QED  BY <2>2, ReputationAssumption
<1>3. R \subseteq Reason
  <2> DEFINE A == \E c, d \in RatedOf(bs, l) : c # d /\ Paying(bs, c, d)
             B == \E c \in RatedOf(bs, l), d \in Booking :
                      bs[d].st = "made" /\ bs[d].l \in Siblings(l) /\ Paying(bs, c, d)
             C == \E c \in {c \in PaidOf(bs, l) : \A d \in PaidOf(bs, l) : bs[d].ratedAt <= bs[c].ratedAt} :
                      Cardinality({d \in PaidOf(bs, l) : bs[d].ratedAt >= bs[c].ratedAt - Burst}) >= 3
  <2>1. R = (IF A THEN {"repeated payer"} ELSE {}) \cup (IF B THEN {"interlock"} ELSE {})
            \cup (IF C THEN {"burst"} ELSE {})
    BY DEF Reasons
  <2> HIDE DEF A, B, C
  <2>. QED  BY <2>1 DEF Reason
<1> HIDE DEF w, R
<1> DEFINE g == x.agg
           p == AddFree(g, r)
           q == AddPaid(g, r, w)
<1>4. g \in Aggregates
  BY <1>1 DEF LiveRec
<1>5. p \in Aggregates
  BY <1>2, <1>4, RepAdd
<1>6. q \in Aggregates
  BY <1>2, <1>4, RepAdd
<1>7. x.flags \in SUBSET (SUBSET Reason) /\ Flagged(x.flags, R) \in SUBSET (SUBSET Reason)
  BY <1>1, <1>3 DEF LiveRec, Flagged
<1> DEFINE z == RatedListing(x, b, r, bs)
           f == Flagged(x.flags, R)
<1>8. CASE booking[b].escrow = "WAIVED"
  <2>1. z = [x EXCEPT !.agg = p]
    BY <1>8 DEF RatedListing
  <2> HIDE DEF p, x, z
  <2>2. z \in LiveRec /\ z.owner = x.owner /\ z.agg = p /\ z.flags = x.flags
    BY <2>1, <1>1, <1>5 DEF LiveRec
  <2> USE DEF p, x, z
  <2>. QED  BY <2>2, <1>1, <1>8
<1>9. CASE booking[b].escrow # "WAIVED"
  <2>1. z = [x EXCEPT !.agg = q, !.flags = f]
    BY <1>9 DEF RatedListing, w, R
  <2> HIDE DEF p, q, f, x, z
  <2>2. f \in SUBSET (SUBSET Reason)
    BY <1>7 DEF f
  <2>3. z \in LiveRec /\ z.owner = x.owner /\ z.agg = q /\ z.flags = f
    BY <2>1, <2>2, <1>1, <1>6 DEF LiveRec
  <2> USE DEF p, q, f, x, z
  <2>. QED  BY <2>3, <1>1, <1>9 DEF w, R
<1>. QED  BY <1>8, <1>9

(* The sums over made bookings are integers.                               *)
LEMMA RepSums ==
    ASSUME RepType, NEW S \in SUBSET MadeOf(booking)
    PROVE  /\ IsFiniteSet(S) /\ Cardinality(S) \in Nat
           /\ \A b \in S : booking[b].rating \in Int /\ Weight(booking[b]) \in Int
           /\ Ratings(booking, S) \in Int /\ Weights(booking, S) \in Int
           /\ Weighted(booking, S) \in Int
<1>1. IsFiniteSet(S) /\ Cardinality(S) \in Nat
  BY FS_Subset, FS_CardinalityType DEF RepType
<1>2. ASSUME NEW b \in S PROVE booking[b].rating \in Int /\ Weight(booking[b]) \in Int
  <2>1. b \in Booking /\ Made(b)
    BY DEF MadeOf, Made
  <2>2. booking[b] \in MadeRec
    BY <2>1, RepMade
  <2>3. booking[b].amount \in Nat /\ booking[b].rating \in Int
    <3>1. booking[b].amount \in Amounts /\ booking[b].rating \in {0} \cup Scores
      BY <2>2 DEF MadeRec, Unrated
    <3>2. Amounts \subseteq Nat /\ {0} \cup Scores \subseteq Int
      BY ReputationAssumption
    <3>. QED  BY <3>1, <3>2
  <2>. QED  BY <2>3 DEF Weight
<1>3. \A b \in S : booking[b].rating * Weight(booking[b]) \in Int
  BY <1>2
<1> DEFINE f == [b \in S |-> booking[b].rating]
           g == [b \in S |-> Weight(booking[b])]
           h == [b \in S |-> booking[b].rating * Weight(booking[b])]
<1>4. \A b \in S : f[b] \in Int /\ g[b] \in Int /\ h[b] \in Int
  BY <1>2, <1>3
<1>5. /\ Ratings(booking, S) = SumFunctionOnSet(f, S)
      /\ Weights(booking, S) = SumFunctionOnSet(g, S)
      /\ Weighted(booking, S) = SumFunctionOnSet(h, S)
  BY DEF Ratings, Weights, Weighted
<1> HIDE DEF f, g, h
<1>. QED  BY <1>1, <1>2, <1>4, <1>5, SumType

LEMMA RepRecomputed ==
    ASSUME RepType, NEW l \in Listing
    PROVE  /\ FreeOf(booking, l) \subseteq MadeOf(booking)
           /\ PaidOf(booking, l) \subseteq MadeOf(booking)
           /\ Recomputed(booking, l) \in Aggregates
<1>1. FreeOf(booking, l) \subseteq MadeOf(booking) /\ PaidOf(booking, l) \subseteq MadeOf(booking)
  BY DEF FreeOf, PaidOf, RatedOf, MadeOf
<1>2. /\ Ratings(booking, FreeOf(booking, l)) \in Int /\ Cardinality(FreeOf(booking, l)) \in Int
      /\ Ratings(booking, PaidOf(booking, l)) \in Int /\ Cardinality(PaidOf(booking, l)) \in Int
      /\ Weighted(booking, PaidOf(booking, l)) \in Int /\ Weights(booking, PaidOf(booking, l)) \in Int
  BY <1>1, RepSums
<1>. QED  BY <1>1, <1>2 DEF Recomputed, Aggregates

LEMMA RepRestartIs ==
    ASSUME RepType, RepDisk, Restart
    PROVE  /\ UNCHANGED <<booking, disk, now>>
           /\ listing' \in [Listing -> ListingRec]
           /\ \A l \in Listing :
                 /\ listing'[l].st = listing[l].st
                 /\ Live(l) => /\ listing'[l].owner = listing[l].owner
                               /\ listing'[l].flags = listing[l].flags
                               /\ listing'[l].agg = Recomputed(booking, l)
<1>1. UNCHANGED <<booking, disk, now>>
  BY DEF Restart, RepDisk
<1> DEFINE old(l) == disk.listing[l]
           new(l) == [old(l) EXCEPT !.agg = Recomputed(booking, l)]
           z(l) == IF old(l).st = "live" THEN new(l) ELSE old(l)
<1>2. listing' = [l \in Listing |-> z(l)]
  BY DEF Restart, RepDisk
<1>3. ASSUME NEW l \in Listing
      PROVE  /\ z(l) \in ListingRec /\ z(l).st = listing[l].st
             /\ Live(l) => /\ z(l).owner = listing[l].owner
                           /\ z(l).flags = listing[l].flags
                           /\ z(l).agg = Recomputed(booking, l)
  <2> DEFINE o == old(l)
             n == new(l)
             R == Recomputed(booking, l)
  <2>1. o \in ListingRec /\ o.st = listing[l].st
        /\ (Live(l) => o.owner = listing[l].owner /\ o.flags = listing[l].flags)
    BY DEF RepDisk
  <2>2. R \in Aggregates
    BY RepRecomputed
  <2>3. n = [o EXCEPT !.agg = R] /\ z(l) = IF o.st = "live" THEN n ELSE o
    OBVIOUS
  <2> HIDE DEF o, n, R, old, new, z
  <2>4. CASE o.st = "live"
    <3>1. o \in LiveRec
      BY <2>1, <2>4 DEF ListingRec
    <3>2. n \in LiveRec /\ n.st = "live" /\ n.owner = o.owner /\ n.flags = o.flags /\ n.agg = R
      BY <2>2, <2>3, <3>1 DEF LiveRec
    <3>. QED  BY <2>1, <2>3, <2>4, <3>2 DEF ListingRec, R
  <2>5. CASE o.st # "live"
    BY <2>1, <2>3, <2>5 DEF Live
  <2>. QED  BY <2>4, <2>5
<1> HIDE DEF z
<1>. QED  BY <1>1, <1>2, <1>3

LEMMA RepCreateIs ==
    ASSUME RepType, NEW l \in Listing, CreateListing(l)
    PROVE  /\ listing[l].st = "none"
           /\ \E z \in LiveRec : /\ listing' = [listing EXCEPT ![l] = z]
                                 /\ z.st = "live" /\ z.agg = NoRatings /\ z.flags = {}
           /\ UNCHANGED <<booking, now>> /\ disk' = Snapshot'
<1>1. PICK o \in Principal, w \in Wallet \cup {NoWallet} :
         listing' = [listing EXCEPT ![l] = [st |-> "live", owner |-> o, receive |-> w,
                                            agg |-> NoRatings, flags |-> {}]]
  BY DEF CreateListing
<1> DEFINE z == [st |-> "live", owner |-> o, receive |-> w, agg |-> NoRatings, flags |-> {}]
<1>2. NoRatings \in Aggregates
  BY DEF NoRatings, Aggregates
<1>3. z \in LiveRec /\ z.st = "live" /\ z.agg = NoRatings /\ z.flags = {}
  BY <1>2 DEF LiveRec
<1>4. listing' = [listing EXCEPT ![l] = z]
  BY <1>1
<1> HIDE DEF z
<1>. QED  BY <1>3, <1>4 DEF CreateListing, Persist

LEMMA RepDeleteIs ==
    ASSUME RepType, NEW l \in Listing, DeleteListing(l)
    PROVE  /\ \E z \in ListingRec : listing' = [listing EXCEPT ![l] = z] /\ z.st = "gone"
           /\ UNCHANGED <<booking, now>> /\ disk' = Snapshot'
<1> DEFINE z == [st |-> "gone"]
<1>1. z \in ListingRec /\ z.st = "gone"
  BY DEF ListingRec
<1>2. listing' = [listing EXCEPT ![l] = z]
  BY DEF DeleteListing
<1> HIDE DEF z
<1>. QED  BY <1>1, <1>2 DEF DeleteListing, Persist

(***************************************************************************)
(* The invariant.                                                          *)
(***************************************************************************)
LEMMA RepTypeNext == RepType /\ RepDisk /\ Next => RepType'
<1> SUFFICES ASSUME RepType, RepDisk, Next PROVE RepType'
  OBVIOUS
<1>0. listing \in [Listing -> ListingRec] /\ booking \in [Booking -> BookingRec]
      /\ now \in 0..MaxTime /\ IsFiniteSet(MadeOf(booking))
  BY DEF RepType
<1>1. ASSUME NEW l \in Listing, CreateListing(l) \/ DeleteListing(l) PROVE RepType'
  <2>1. PICK z \in ListingRec : listing' = [listing EXCEPT ![l] = z]
    BY <1>1, RepCreateIs, RepDeleteIs DEF ListingRec
  <2>2. UNCHANGED <<booking, now>>
    BY <1>1 DEF CreateListing, DeleteListing
  <2>. QED  BY <1>0, <2>1, <2>2 DEF RepType, MadeOf
<1>2. ASSUME NEW b \in Booking, NEW q \in MadeRec, booking' = [booking EXCEPT ![b] = q],
             listing' \in [Listing -> ListingRec], now' = now
      PROVE  RepType'
  BY <1>0, <1>2, RepPut DEF RepType, MadeOf
<1>3. ASSUME NEW b \in Booking, Confirm(b) \/ Cancel(b) \/ Mirror(b) PROVE RepType'
  <2>1. PICK e \in {"RELEASED", "REFUNDED"} : MoveEscrow(b, e) /\ Made(b)
    BY <1>3, RepMoves
  <2>2. PICK q \in MadeRec : booking' = [booking EXCEPT ![b] = q]
    BY <2>1, RepMoveIs
  <2>. QED  BY <2>1, <2>2, <1>0, <1>2, RepMoveIs
<1>4. ASSUME NEW b \in Booking, NEW l \in Listing, Book(b, l) PROVE RepType'
  <2>1. PICK q \in MadeRec : booking' = [booking EXCEPT ![b] = q]
    BY <1>4, RepBookIs
  <2>. QED  BY <2>1, <1>0, <1>2, <1>4, RepBookIs
<1>5. ASSUME NEW b \in Booking, Rate(b) PROVE RepType'
  <2>1. PICK q \in MadeRec :
           /\ booking' = [booking EXCEPT ![b] = q] /\ q.rating \in Scores
           /\ listing' = IF Live(booking[b].l)
                         THEN [listing EXCEPT ![booking[b].l] =
                                 RatedListing(listing[booking[b].l], b, q.rating, booking')]
                         ELSE listing
    BY <1>5, RepRateIs
  <2>2. Made(b) /\ now' = now
    BY <1>5 DEF Rate
  <2>3. listing' \in [Listing -> ListingRec]
    <3>1. CASE Live(booking[b].l)
      <4> DEFINE z == RatedListing(listing[booking[b].l], b, q.rating, booking')
      <4>1. z \in LiveRec /\ booking[b].l \in Listing
        BY <2>1, <2>2, <3>1, RepListed
      <4>2. listing' = [listing EXCEPT ![booking[b].l] = z]
        BY <2>1, <3>1
      <4> HIDE DEF z
      <4>. QED  BY <4>1, <4>2, <1>0 DEF ListingRec
    <3>2. CASE ~Live(booking[b].l)
      BY <3>2, <2>1, <1>0
    <3>. QED  BY <3>1, <3>2
  <2>. QED  BY <2>1, <2>2, <2>3, <1>2
<1>6. CASE Restart
  BY <1>0, <1>6, RepRestartIs DEF RepType, MadeOf
<1>7. CASE Tick
  BY <1>0, <1>7, ReputationAssumption DEF RepType, Tick, MadeOf
<1>. QED  BY <1>1, <1>3, <1>4, <1>5, <1>6, <1>7 DEF Next

LEMMA RepDiskNext == RepType /\ RepType' /\ RepDisk /\ Next => RepDisk'
<1> SUFFICES ASSUME RepType, RepType', RepDisk, Next PROVE RepDisk'
  OBVIOUS
<1>1. CASE disk' = Snapshot'
  <2>1. disk'.booking = booking' /\ disk'.listing = listing'
    BY <1>1 DEF Snapshot
  <2>. QED  BY <2>1 DEF RepDisk, RepType
<1>2. CASE Restart
  BY <1>2, RepRestartIs DEF RepDisk, Live
<1>3. CASE Tick
  BY <1>3 DEF RepDisk, Tick, Live
<1>. QED
  BY <1>1, <1>2, <1>3
     DEF Next, CreateListing, DeleteListing, Confirm, Cancel, Mirror, MoveEscrow, Rate, Book, Persist

LEMMA RepBookedNext == RepType /\ RepDisk /\ RepBooked /\ Next => RepBooked'
<1> SUFFICES ASSUME RepType, RepDisk, RepBooked, Next PROVE RepBooked'
  OBVIOUS
<1>0. listing \in [Listing -> ListingRec] /\ now \in Nat /\ now' \in Nat
  <2>1. now \in Nat
    BY ReputationAssumption DEF RepType
  <2>2. now' = now \/ now' = now + 1
    BY RepRestartIs DEF Next, CreateListing, DeleteListing, Confirm, Cancel, Mirror, MoveEscrow, Rate,
                        Book, Tick
  <2>. QED  BY <2>1, <2>2 DEF RepType
<1> DEFINE Fits(x, ls, n) == /\ ls[x.l].st # "none"
                             /\ x.amount > 0 => x.escrow # "WAIVED"
                             /\ x.payer # NoWallet => x.escrow = "DIRECT"
                             /\ x.ratedAt <= n
<1>1. \A c \in Booking : Made(c) => Fits(booking[c], listing, now)
  BY DEF RepBooked
<1>2. SUFFICES \A c \in Booking : booking'[c].st = "made" => Fits(booking'[c], listing', now')
  BY DEF RepBooked, Made
<1>3. ASSUME \A l \in Listing : listing[l].st # "none" => listing'[l].st # "none",
             now' = now \/ now' = now + 1,
             NEW c \in Booking, Made(c)
      PROVE  Fits(booking[c], listing', now')
  <2>1. booking[c].l \in Listing /\ booking[c].ratedAt \in Nat
    BY <1>3, RepMade, ReputationAssumption DEF MadeRec
  <2>. QED  BY <2>1, <1>0, <1>1, <1>3
<1>4. ASSUME UNCHANGED booking,
             \A l \in Listing : listing[l].st # "none" => listing'[l].st # "none",
             now' = now \/ now' = now + 1,
             NEW c \in Booking, booking'[c].st = "made"
      PROVE  Fits(booking'[c], listing', now')
  BY <1>3, <1>4 DEF Made
<1>5. ASSUME NEW b \in Booking, NEW q \in MadeRec, booking' = [booking EXCEPT ![b] = q],
             \A l \in Listing : listing[l].st # "none" => listing'[l].st # "none", now' = now,
             Fits(q, listing', now'),
             NEW c \in Booking, booking'[c].st = "made"
      PROVE  Fits(booking'[c], listing', now')
  <2>1. CASE c = b
    BY <2>1, <1>5, RepPut
  <2>2. CASE c # b
    <3>1. booking'[c] = booking[c]
      BY <2>2, <1>5, RepPut
    <3>. QED  BY <3>1, <1>3, <1>5 DEF Made
  <2>. QED  BY <2>1, <2>2
<1>6. ASSUME NEW l \in Listing, CreateListing(l) \/ DeleteListing(l),
             NEW c \in Booking, booking'[c].st = "made"
      PROVE  Fits(booking'[c], listing', now')
  <2>1. PICK z \in ListingRec : listing' = [listing EXCEPT ![l] = z] /\ z.st # "none"
    BY <1>6, RepCreateIs, RepDeleteIs DEF ListingRec
  <2>2. UNCHANGED <<booking, now>>
    BY <1>6 DEF CreateListing, DeleteListing
  <2> HIDE DEF Fits
  <2>. QED  BY <2>1, <2>2, <1>0, <1>4, <1>6
<1>7. ASSUME NEW b \in Booking, Confirm(b) \/ Cancel(b) \/ Mirror(b),
             NEW c \in Booking, booking'[c].st = "made"
      PROVE  Fits(booking'[c], listing', now')
  <2>1. PICK e \in {"RELEASED", "REFUNDED"} : MoveEscrow(b, e) /\ Made(b) /\ booking[b].escrow # "DIRECT"
    BY <1>7, RepMoves
  <2>2. /\ UNCHANGED <<listing, now>>
        /\ \E q \in MadeRec : /\ booking' = [booking EXCEPT ![b] = q]
                              /\ q.escrow = e /\ q.l = booking[b].l /\ q.payer = booking[b].payer
                              /\ q.amount = booking[b].amount /\ q.ratedAt = booking[b].ratedAt
    BY <2>1, RepMoveIs
  <2>3. PICK q \in MadeRec : /\ booking' = [booking EXCEPT ![b] = q]
                             /\ q.escrow = e /\ q.l = booking[b].l /\ q.payer = booking[b].payer
                             /\ q.amount = booking[b].amount /\ q.ratedAt = booking[b].ratedAt
    BY <2>2
  <2>4. Fits(q, listing', now')
    BY <2>1, <2>2, <2>3, <1>1
  <2> HIDE DEF Fits
  <2>. QED  BY <2>2, <2>3, <2>4, <1>5, <1>7
<1>8. ASSUME NEW b \in Booking, NEW l \in Listing, Book(b, l),
             NEW c \in Booking, booking'[c].st = "made"
      PROVE  Fits(booking'[c], listing', now')
  <2>1. PICK q \in MadeRec : /\ booking' = [booking EXCEPT ![b] = q] /\ q.l = l /\ q.ratedAt = 0
                             /\ q.amount > 0 => q.escrow # "WAIVED"
                             /\ q.payer # NoWallet => q.escrow = "DIRECT"
    BY <1>8, RepBookIs
  <2>2. Live(l) /\ UNCHANGED <<listing, now>>
    BY <1>8, RepBookIs
  <2>3. Fits(q, listing', now')
    BY <2>1, <2>2, <1>0 DEF Live
  <2> HIDE DEF Fits
  <2>. QED  BY <2>1, <2>2, <2>3, <1>5, <1>8
<1>9. ASSUME NEW b \in Booking, Rate(b), NEW c \in Booking, booking'[c].st = "made"
      PROVE  Fits(booking'[c], listing', now')
  <2>1. PICK q \in MadeRec :
           /\ booking' = [booking EXCEPT ![b] = q]
           /\ q.l = booking[b].l /\ q.payer = booking[b].payer
           /\ q.amount = booking[b].amount /\ q.escrow = booking[b].escrow
           /\ q.rating \in Scores /\ q.ratedAt = now
           /\ listing' = IF Live(booking[b].l)
                         THEN [listing EXCEPT ![booking[b].l] =
                                 RatedListing(listing[booking[b].l], b, q.rating, booking')]
                         ELSE listing
    BY <1>9, RepRateIs
  <2>2. Made(b) /\ now' = now
    BY <1>9 DEF Rate
  <2>3. \A l \in Listing : listing[l].st # "none" => listing'[l].st # "none"
    <3>1. CASE Live(booking[b].l)
      <4> DEFINE z == RatedListing(listing[booking[b].l], b, q.rating, booking')
      <4>1. z \in LiveRec
        BY <2>1, <2>2, <3>1, RepListed
      <4>2. listing' = [listing EXCEPT ![booking[b].l] = z] /\ z.st = "live"
        BY <2>1, <3>1, <4>1 DEF LiveRec
      <4> HIDE DEF z
      <4>. QED  BY <4>2, <1>0
    <3>2. CASE ~Live(booking[b].l)
      BY <3>2, <2>1
    <3>. QED  BY <3>1, <3>2
  <2>4. Fits(q, listing', now')
    <3>1. q.l \in Listing
      BY DEF MadeRec
    <3>2. /\ listing[q.l].st # "none"
          /\ q.amount > 0 => q.escrow # "WAIVED"
          /\ q.payer # NoWallet => q.escrow = "DIRECT"
      BY <2>1, <2>2, <1>1
    <3>3. q.ratedAt <= now'
      BY <2>1, <2>2, <1>0
    <3>. QED  BY <3>1, <3>2, <3>3, <2>3
  <2> HIDE DEF Fits
  <2>. QED  BY <2>1, <2>2, <2>3, <2>4, <1>5, <1>9
<1>10. ASSUME Restart \/ Tick, NEW c \in Booking, booking'[c].st = "made"
       PROVE  Fits(booking'[c], listing', now')
  <2>1. UNCHANGED booking /\ (now' = now \/ now' = now + 1)
        /\ \A l \in Listing : listing'[l].st = listing[l].st
    BY <1>10, RepRestartIs DEF Tick
  <2> HIDE DEF Fits
  <2>. QED  BY <2>1, <1>4, <1>10
<1> HIDE DEF Fits
<1>. QED  BY <1>6, <1>7, <1>8, <1>9, <1>10 DEF Next

(***************************************************************************)
(* Aggregates.                                                             *)
(***************************************************************************)
(* All steps but a rating leave the ratings where they are, and no free    *)
(* booking becomes one on the way.                                         *)
RatingsKept ==
    \A c \in Booking :
       /\ Made(c) => /\ booking'[c].st = "made" /\ booking'[c].l = booking[c].l
                     /\ booking'[c].payer = booking[c].payer
                     /\ booking'[c].amount = booking[c].amount
                     /\ booking'[c].rating = booking[c].rating
                     /\ booking'[c].ratedAt = booking[c].ratedAt
                     /\ booking'[c].escrow = "WAIVED" => booking[c].escrow = "WAIVED"
       /\ ~Made(c) /\ booking'[c].st = "made" => booking'[c].rating = Unrated
ListingsKept ==
    \A l \in Listing : listing'[l].st = "live" =>
       \/ /\ Live(l) /\ listing'[l].owner = listing[l].owner
          /\ listing'[l].flags = listing[l].flags
       \/ listing[l].st = "none"
AggregatesKept ==
    \A l \in Listing : listing'[l].st = "live" =>
       listing'[l].agg = IF Live(l) THEN listing[l].agg ELSE NoRatings

LEMMA RepQuiet ==
    ASSUME RepInv, Next
    PROVE  \/ RatingsKept /\ ListingsKept /\ (AggregatesKept \/ Restart)
           \/ \E b \in Booking : Rate(b)
<1>0. /\ listing \in [Listing -> ListingRec] /\ booking \in [Booking -> BookingRec]
      /\ RepType /\ RepDisk /\ RepBooked
  BY DEF RepInv, RepType
<1>1. ASSUME UNCHANGED booking PROVE RatingsKept
  BY <1>1 DEF RatingsKept, Made
<1>2. ASSUME UNCHANGED listing PROVE ListingsKept /\ AggregatesKept
  BY <1>2 DEF ListingsKept, AggregatesKept, Live
<1>3. ASSUME NEW l \in Listing, CreateListing(l)
      PROVE  RatingsKept /\ ListingsKept /\ AggregatesKept
  <2>1. PICK z \in LiveRec : /\ listing' = [listing EXCEPT ![l] = z]
                             /\ z.st = "live" /\ z.agg = NoRatings /\ z.flags = {}
    BY <1>0, <1>3, RepCreateIs
  <2>2. listing[l].st = "none"
    BY <1>0, <1>3, RepCreateIs
  <2>3. UNCHANGED booking
    BY <1>3 DEF CreateListing
  <2>. QED  BY <2>1, <2>2, <2>3, <1>0, <1>1 DEF ListingsKept, AggregatesKept, Live
<1>4. ASSUME NEW l \in Listing, DeleteListing(l)
      PROVE  RatingsKept /\ ListingsKept /\ AggregatesKept
  <2>1. PICK z \in ListingRec : listing' = [listing EXCEPT ![l] = z] /\ z.st = "gone"
    BY <1>0, <1>4, RepDeleteIs
  <2>2. UNCHANGED booking
    BY <1>4 DEF DeleteListing
  <2>. QED  BY <2>1, <2>2, <1>0, <1>1 DEF ListingsKept, AggregatesKept, Live
<1>5. ASSUME NEW b \in Booking, Confirm(b) \/ Cancel(b) \/ Mirror(b)
      PROVE  RatingsKept /\ ListingsKept /\ AggregatesKept
  <2>1. PICK e \in {"RELEASED", "REFUNDED"} : MoveEscrow(b, e) /\ Made(b)
    BY <1>0, <1>5, RepMoves
  <2>2. PICK q \in MadeRec :
                 /\ booking' = [booking EXCEPT ![b] = q]
                 /\ q.escrow = e /\ q.l = booking[b].l /\ q.payer = booking[b].payer
                 /\ q.amount = booking[b].amount /\ q.rating = booking[b].rating
                 /\ q.ratedAt = booking[b].ratedAt
    BY <2>1, <1>0, RepMoveIs
  <2>3. booking'[b] = q /\ q.st = "made" /\ \A c \in Booking \ {b} : booking'[c] = booking[c]
    BY <2>2, <1>0, RepPut
  <2>4. RatingsKept
    BY <2>1, <2>2, <2>3 DEF RatingsKept, Made
  <2>. QED  BY <2>1, <2>4, <1>0, <1>2, RepMoveIs
<1>6. ASSUME NEW b \in Booking, NEW l \in Listing, Book(b, l)
      PROVE  RatingsKept /\ ListingsKept /\ AggregatesKept
  <2>1. PICK q \in MadeRec : booking' = [booking EXCEPT ![b] = q] /\ q.rating = Unrated
    BY <1>0, <1>6, RepBookIs
  <2>2. booking'[b] = q /\ \A c \in Booking \ {b} : booking'[c] = booking[c]
    BY <2>1, <1>0, RepPut
  <2>3. ~Made(b) /\ UNCHANGED listing
    BY <1>0, <1>6, RepBookIs
  <2>4. RatingsKept
    BY <2>1, <2>2, <2>3 DEF RatingsKept, Made
  <2>. QED  BY <2>3, <2>4, <1>2
<1>7. ASSUME Restart PROVE RatingsKept /\ ListingsKept
  BY <1>0, <1>1, <1>7, RepRestartIs DEF ListingsKept, Live
<1>8. ASSUME Tick PROVE RatingsKept /\ ListingsKept /\ AggregatesKept
  BY <1>1, <1>2, <1>8 DEF Tick
<1>. QED  BY <1>3, <1>4, <1>5, <1>6, <1>7, <1>8 DEF Next

LEMMA RepSameRated ==
    ASSUME RatingsKept, NEW l
    PROVE  RatedOf(booking', l) = RatedOf(booking, l)
BY DEF RatingsKept, RatedOf, Made

LEMMA RepSameSums ==
    ASSUME NEW bs, NEW cs, NEW l, RatedOf(bs, l) = RatedOf(cs, l),
           \A b \in RatedOf(cs, l) : /\ bs[b].rating = cs[b].rating /\ bs[b].amount = cs[b].amount
                                     /\ bs[b].escrow = "WAIVED" <=> cs[b].escrow = "WAIVED"
    PROVE  Recomputed(bs, l) = Recomputed(cs, l)
<1>1. FreeOf(bs, l) = FreeOf(cs, l) /\ PaidOf(bs, l) = PaidOf(cs, l)
  BY DEF FreeOf, PaidOf
<1>2. /\ FreeOf(cs, l) \subseteq RatedOf(cs, l) /\ PaidOf(cs, l) \subseteq RatedOf(cs, l)
      /\ \A b \in RatedOf(cs, l) : bs[b].rating = cs[b].rating /\ Weight(bs[b]) = Weight(cs[b])
  BY DEF FreeOf, PaidOf, Weight
<1>3. ASSUME NEW S \in SUBSET RatedOf(cs, l)
      PROVE  /\ Ratings(bs, S) = Ratings(cs, S) /\ Weights(bs, S) = Weights(cs, S)
             /\ Weighted(bs, S) = Weighted(cs, S)
  <2>1. [b \in S |-> bs[b].rating] = [b \in S |-> cs[b].rating]
    BY <1>2
  <2>2. [b \in S |-> Weight(bs[b])] = [b \in S |-> Weight(cs[b])]
    BY <1>2
  <2>3. [b \in S |-> bs[b].rating * Weight(bs[b])] = [b \in S |-> cs[b].rating * Weight(cs[b])]
    BY <1>2
  <2>. QED  BY <2>1, <2>2, <2>3 DEF Ratings, Weights, Weighted
<1>. QED  BY <1>1, <1>2, <1>3 DEF Recomputed

LEMMA RepNoSums == ASSUME NEW bs, NEW l, RatedOf(bs, l) = {} PROVE Recomputed(bs, l) = NoRatings
<1>1. FreeOf(bs, l) = {} /\ PaidOf(bs, l) = {}
  BY DEF FreeOf, PaidOf
<1>2. Ratings(bs, {}) = 0 /\ Weights(bs, {}) = 0 /\ Weighted(bs, {}) = 0
  BY SumEmpty DEF Ratings, Weights, Weighted
<1>3. Cardinality({}) = 0
  BY FS_EmptySet
<1>. QED  BY <1>1, <1>2, <1>3 DEF Recomputed, NoRatings

(* One rating more in a channel.                                           *)
OneMore(bs, S, b) ==
    /\ Ratings(bs, S \cup {b}) = Ratings(booking, S) + bs[b].rating
    /\ Weights(bs, S \cup {b}) = Weights(booking, S) + Weight(bs[b])
    /\ Weighted(bs, S \cup {b}) = Weighted(booking, S) + bs[b].rating * Weight(bs[b])
    /\ Cardinality(S \cup {b}) = Cardinality(S) + 1
    /\ Ratings(bs, S) = Ratings(booking, S) /\ Weights(bs, S) = Weights(booking, S)
    /\ Weighted(bs, S) = Weighted(booking, S)
LEMMA RepSumsPut ==
    ASSUME RepType, NEW S \in SUBSET MadeOf(booking), NEW b \in Booking, b \notin S,
           NEW bs, \A x \in S : bs[x] = booking[x], bs[b].rating \in Int, Weight(bs[b]) \in Int
    PROVE  OneMore(bs, S, b)
<1>1. /\ IsFiniteSet(S) /\ Cardinality(S) \in Nat
      /\ \A x \in S : booking[x].rating \in Int /\ Weight(booking[x]) \in Int
      /\ Ratings(booking, S) \in Int /\ Weights(booking, S) \in Int
      /\ Weighted(booking, S) \in Int
  BY RepSums
<1> DEFINE T == S \cup {b}
           f(cs) == [x \in T |-> cs[x].rating]
           g(cs) == [x \in T |-> Weight(cs[x])]
           h(cs) == [x \in T |-> cs[x].rating * Weight(cs[x])]
           f0 == [x \in S |-> booking[x].rating]
           g0 == [x \in S |-> Weight(booking[x])]
           h0 == [x \in S |-> booking[x].rating * Weight(booking[x])]
<1>2. bs[b].rating * Weight(bs[b]) \in Int /\ \A x \in S : booking[x].rating * Weight(booking[x]) \in Int
  BY <1>1
<1>3. /\ \A x \in S : f0[x] \in Int /\ f(bs)[x] = f0[x]
      /\ \A x \in S : g0[x] \in Int /\ g(bs)[x] = g0[x]
      /\ \A x \in S : h0[x] \in Int /\ h(bs)[x] = h0[x]
      /\ f(bs)[b] = bs[b].rating /\ g(bs)[b] = Weight(bs[b])
      /\ h(bs)[b] = bs[b].rating * Weight(bs[b])
  BY <1>1, <1>2
<1>4. /\ Ratings(bs, T) = SumFunctionOnSet(f(bs), T) /\ Ratings(booking, S) = SumFunctionOnSet(f0, S)
      /\ Weights(bs, T) = SumFunctionOnSet(g(bs), T) /\ Weights(booking, S) = SumFunctionOnSet(g0, S)
      /\ Weighted(bs, T) = SumFunctionOnSet(h(bs), T) /\ Weighted(booking, S) = SumFunctionOnSet(h0, S)
  BY DEF Ratings, Weights, Weighted
<1>5. /\ [x \in S |-> bs[x].rating] = f0 /\ [x \in S |-> Weight(bs[x])] = g0
      /\ [x \in S |-> bs[x].rating * Weight(bs[x])] = h0
  OBVIOUS
<1>6. /\ Ratings(bs, S) = Ratings(booking, S) /\ Weights(bs, S) = Weights(booking, S)
      /\ Weighted(bs, S) = Weighted(booking, S)
  BY <1>5 DEF Ratings, Weights, Weighted
<1> HIDE DEF f, g, h, f0, g0, h0
<1>7. SumFunctionOnSet(f(bs), T) = bs[b].rating + SumFunctionOnSet(f0, S)
  <2>1. f(bs)[b] \in Int /\ \A x \in S : f0[x] \in Int /\ f(bs)[x] = f0[x]
    BY <1>3
  <2>2. SumFunctionOnSet(f(bs), T) = f(bs)[b] + SumFunctionOnSet(f0, S)
    BY <2>1, <1>1, SumInsert
  <2>. QED  BY <2>2, <1>3
<1>8. SumFunctionOnSet(g(bs), T) = Weight(bs[b]) + SumFunctionOnSet(g0, S)
  <2>1. g(bs)[b] \in Int /\ \A x \in S : g0[x] \in Int /\ g(bs)[x] = g0[x]
    BY <1>3
  <2>2. SumFunctionOnSet(g(bs), T) = g(bs)[b] + SumFunctionOnSet(g0, S)
    BY <2>1, <1>1, SumInsert
  <2>. QED  BY <2>2, <1>3
<1>9. SumFunctionOnSet(h(bs), T) = bs[b].rating * Weight(bs[b]) + SumFunctionOnSet(h0, S)
  BY <1>1, <1>2, <1>3, SumInsert
<1>10. Cardinality(S \cup {b}) = Cardinality(S) + 1
  BY <1>1, FS_AddElement
<1>11. /\ Ratings(bs, T) = Ratings(booking, S) + bs[b].rating
       /\ Weights(bs, T) = Weights(booking, S) + Weight(bs[b])
  BY <1>1, <1>4, <1>7, <1>8
<1>12. Weighted(bs, T) = Weighted(booking, S) + bs[b].rating * Weight(bs[b])
  <2> DEFINE v == bs[b].rating * Weight(bs[b])
  <2>1. v \in Int /\ Weighted(bs, T) = v + Weighted(booking, S)
    BY <1>2, <1>4, <1>9
  <2> HIDE DEF v
  <2>2. Weighted(bs, T) = Weighted(booking, S) + v
    BY <2>1, <1>1
  <2>. QED  BY <2>2 DEF v
<1>. QED  BY <1>6, <1>10, <1>11, <1>12 DEF T, OneMore

(* What a rating does to the ratings.                                      *)
LEMMA RepRated ==
    ASSUME RepInv, NEW b \in Booking, Rate(b)
    PROVE  /\ \A c \in Booking \ {b} : booking'[c] = booking[c]
           /\ booking'[b].st = "made" /\ booking'[b].l = booking[b].l
           /\ booking'[b].payer = booking[b].payer /\ booking'[b].amount = booking[b].amount
           /\ booking'[b].escrow = booking[b].escrow /\ booking'[b].ratedAt = now
           /\ booking'[b].rating \in Scores /\ booking'[b].rating # Unrated
           /\ \A l \in Listing : RatedOf(booking', l) =
                 IF l = booking[b].l THEN RatedOf(booking, l) \cup {b} ELSE RatedOf(booking, l)
           /\ \A l \in Listing : b \notin RatedOf(booking, l)
           /\ booking[b] \in MadeRec /\ booking[b].l \in Listing /\ Made(b)
           /\ listing' = IF Live(booking[b].l)
                         THEN [listing EXCEPT ![booking[b].l] =
                                 RatedListing(listing[booking[b].l], b, booking'[b].rating, booking')]
                         ELSE listing
<1>1. RepType
  BY DEF RepInv
<1>2. PICK q \in MadeRec :
                 /\ booking' = [booking EXCEPT ![b] = q]
                 /\ q.l = booking[b].l /\ q.payer = booking[b].payer
                 /\ q.amount = booking[b].amount /\ q.escrow = booking[b].escrow
                 /\ q.rating \in Scores /\ q.rating # Unrated /\ q.ratedAt = now
                 /\ listing' = IF Live(booking[b].l)
                               THEN [listing EXCEPT ![booking[b].l] =
                                       RatedListing(listing[booking[b].l], b, q.rating, booking')]
                               ELSE listing
  BY <1>1, RepRateIs
<1>3. Made(b) /\ booking[b].rating = Unrated
  BY DEF Rate
<1>4. booking'[b] = q /\ q.st = "made" /\ \A c \in Booking \ {b} : booking'[c] = booking[c]
  BY <1>1, <1>2, RepPut
<1>5. booking[b] \in MadeRec /\ booking[b].l \in Listing
  BY <1>1, <1>3, RepMade DEF MadeRec
<1>6. \A l \in Listing : RatedOf(booking', l) =
                 IF l = booking[b].l THEN RatedOf(booking, l) \cup {b} ELSE RatedOf(booking, l)
  BY <1>2, <1>3, <1>4 DEF RatedOf, Made
<1>7. \A l \in Listing : b \notin RatedOf(booking, l)
  BY <1>3 DEF RatedOf
<1>. QED  BY <1>2, <1>3, <1>4, <1>5, <1>6, <1>7

LEMMA AggregatesQuiet ==
    ASSUME RepInv, RepInv', RatingsKept, ListingsKept, AggregatesKept \/ Restart,
           AggregatesFromHistory
    PROVE  AggregatesFromHistory'
<1> SUFFICES ASSUME NEW l \in Listing, listing'[l].st = "live",
                    \A b \in RatedOf(booking', l) :
                        booking'[b].amount = 0 => booking'[b].escrow = "WAIVED"
             PROVE  listing'[l].agg = Recomputed(booking', l)
  BY DEF AggregatesFromHistory, Live, FreeUntouched
<1>1. RatedOf(booking', l) = RatedOf(booking, l)
  BY RepSameRated
<1>2. \A b \in RatedOf(booking, l) : b \in Booking /\ Made(b)
  BY DEF RatedOf, Made
<1>3. CASE Live(l)
  <2>1. \A b \in RatedOf(booking, l) :
           /\ booking'[b].rating = booking[b].rating /\ booking'[b].amount = booking[b].amount
           /\ booking'[b].escrow = "WAIVED" => booking[b].escrow = "WAIVED"
    BY <1>2 DEF RatingsKept
  <2>2. \A b \in RatedOf(booking, l) : booking[b].escrow = "WAIVED" => booking'[b].escrow = "WAIVED"
    <3> SUFFICES ASSUME NEW b \in RatedOf(booking, l), booking[b].escrow = "WAIVED"
                 PROVE  booking'[b].escrow = "WAIVED"
      OBVIOUS
    <3>1. booking[b].amount \in Nat
      BY <1>2, RepMade, ReputationAssumption DEF RepInv, MadeRec
    <3>2. ~(booking[b].amount > 0)
      BY <1>2 DEF RepInv, RepBooked
    <3>3. booking'[b].amount = 0
      BY <3>1, <3>2, <2>1
    <3>. QED  BY <3>3, <1>1
  <2>3. FreeUntouched(l)
    BY <2>1, <1>1 DEF FreeUntouched
  <2>4. listing[l].agg = Recomputed(booking, l)
    BY <2>3, <1>3 DEF AggregatesFromHistory
  <2>5. Recomputed(booking', l) = Recomputed(booking, l)
    BY <2>1, <2>2, <1>1, RepSameSums
  <2>6. listing'[l].agg = Recomputed(booking, l)
    BY <2>4, <1>3, RepRestartIs DEF AggregatesKept, RepInv
  <2>. QED  BY <2>5, <2>6
<1>4. CASE ~Live(l)
  <2>1. listing[l].st = "none"
    BY <1>4 DEF ListingsKept
  <2>2. RatedOf(booking, l) = {}
    BY <2>1, <1>2 DEF RepInv, RepBooked, RatedOf
  <2>3. AggregatesKept
    BY <2>1, RepRestartIs DEF RepInv
  <2>. QED  BY <2>2, <2>3, <1>1, <1>4, RepNoSums DEF AggregatesKept
<1>. QED  BY <1>3, <1>4

LEMMA AggregatesRated ==
    ASSUME RepInv, RepInv', NEW b \in Booking, Rate(b), AggregatesFromHistory
    PROVE  AggregatesFromHistory'
<1> SUFFICES ASSUME NEW l \in Listing, listing'[l].st = "live",
                    \A c \in RatedOf(booking', l) :
                        booking'[c].amount = 0 => booking'[c].escrow = "WAIVED"
             PROVE  listing'[l].agg = Recomputed(booking', l)
  BY DEF AggregatesFromHistory, Live, FreeUntouched
<1>0. /\ \A c \in Booking \ {b} : booking'[c] = booking[c]
      /\ booking'[b].amount = booking[b].amount /\ booking'[b].escrow = booking[b].escrow
      /\ booking'[b].rating \in Scores
      /\ RatedOf(booking', l) =
            IF l = booking[b].l THEN RatedOf(booking, l) \cup {b} ELSE RatedOf(booking, l)
      /\ b \notin RatedOf(booking, l)
      /\ booking[b] \in MadeRec /\ booking[b].l \in Listing /\ Made(b)
      /\ listing' = IF Live(booking[b].l)
                    THEN [listing EXCEPT ![booking[b].l] =
                            RatedListing(listing[booking[b].l], b, booking'[b].rating, booking')]
                    ELSE listing
  BY RepRated
<1>1. RepType /\ listing \in [Listing -> ListingRec]
  BY DEF RepInv, RepType
<1>1a. RepType'
  BY DEF RepInv
<1>2. \A c \in RatedOf(booking, l) : c \in Booking /\ c # b /\ booking'[c] = booking[c]
  BY <1>0 DEF RatedOf
<1>3. FreeUntouched(l)
  BY <1>0, <1>2 DEF FreeUntouched
<1>4. CASE l # booking[b].l
  <2>1. Recomputed(booking', l) = Recomputed(booking, l)
    BY <1>0, <1>2, <1>4, RepSameSums
  <2>2. listing'[l] = listing[l]
    BY <1>0, <1>1, <1>4
  <2>3. listing[l].agg = Recomputed(booking, l)
    BY <2>2, <1>3 DEF AggregatesFromHistory, Live
  <2>. QED  BY <2>1, <2>2, <2>3
<1>5. CASE l = booking[b].l
  <2>1. Live(l)
    <3>1. CASE Live(l)
      BY <3>1
    <3>2. CASE ~Live(l)
      BY <3>2, <1>0, <1>5 DEF Live
    <3>. QED  BY <3>1, <3>2
  <2> DEFINE r == booking'[b].rating
             w == Weight(booking[b])
             free == FreeOf(booking, l)
             paid == PaidOf(booking, l)
             old == listing[l].agg
  <2>2. listing'[l].agg = IF booking[b].escrow = "WAIVED" THEN AddFree(old, r)
                          ELSE AddPaid(old, r, w)
    <3> DEFINE z == RatedListing(listing[l], b, r, booking')
    <3>1. z.agg = IF booking[b].escrow = "WAIVED" THEN AddFree(old, r) ELSE AddPaid(old, r, w)
      BY <2>1, <1>0, <1>1, <1>5, RepListed
    <3>2. listing' = [listing EXCEPT ![l] = z]
      BY <2>1, <1>0, <1>5
    <3> HIDE DEF z
    <3>. QED  BY <3>1, <3>2, <1>1
  <2>3. old = Recomputed(booking, l)
    BY <2>1, <1>3 DEF AggregatesFromHistory
  <2>4. free \subseteq MadeOf(booking) /\ paid \subseteq MadeOf(booking)
    BY <1>1, RepRecomputed
  <2>5. b \notin free /\ b \notin paid
        /\ \A c \in free \cup paid : booking'[c] = booking[c]
    BY <1>0, <1>2 DEF FreeOf, PaidOf
  <2>6. /\ FreeOf(booking', l) = IF booking[b].escrow = "WAIVED" THEN free \cup {b} ELSE free
        /\ PaidOf(booking', l) = IF booking[b].escrow = "WAIVED" THEN paid ELSE paid \cup {b}
    BY <1>0, <1>2, <1>5 DEF FreeOf, PaidOf
  <2>7. r \in Int /\ w \in Int /\ Weight(booking'[b]) = w
    <3>1. booking[b].amount \in Nat
      BY <1>0, ReputationAssumption DEF MadeRec
    <3>2. w \in Int /\ Weight(booking'[b]) = w
      BY <3>1, <1>0 DEF Weight
    <3>3. Scores \subseteq Int
      BY ReputationAssumption
    <3>. QED  BY <3>2, <3>3, <1>0
  <2>8. /\ old \in Aggregates
        /\ old.freeSum = Ratings(booking, free) /\ old.freeCount = Cardinality(free)
        /\ old.sum = Ratings(booking, paid) /\ old.count = Cardinality(paid)
        /\ old.wsum = Weighted(booking, paid) /\ old.wtot = Weights(booking, paid)
    BY <2>3, <1>1, <1>5, RepRecomputed DEF Recomputed
  <2> DEFINE F == FreeOf(booking', l)
             P == PaidOf(booking', l)
             new == Recomputed(booking', l)
  <2>9. /\ new.freeSum = Ratings(booking', F) /\ new.freeCount = Cardinality(F)
        /\ new.sum = Ratings(booking', P) /\ new.count = Cardinality(P)
        /\ new.wsum = Weighted(booking', P) /\ new.wtot = Weights(booking', P)
    BY DEF Recomputed
  <2> HIDE DEF r, w, free, paid, old, F, P, new
  <2>10. /\ Ratings(booking', free \cup {b}) = Ratings(booking, free) + r
         /\ Cardinality(free \cup {b}) = Cardinality(free) + 1
         /\ Ratings(booking', free) = Ratings(booking, free)
    <3>1. booking'[b].rating = r /\ \A c \in free : booking'[c] = booking[c]
      BY <2>5 DEF r
    <3>2. booking'[b].rating \in Int /\ Weight(booking'[b]) \in Int
      BY <3>1, <2>7
    <3>3. /\ free \in SUBSET MadeOf(booking) /\ b \notin free /\ RepType
      BY <2>4, <2>5, <1>1
    <3>4. OneMore(booking', free, b)
      BY <3>1, <3>2, <3>3, RepSumsPut
    <3>. QED  BY <3>1, <3>4, <2>7 DEF OneMore
  <2>11. /\ Ratings(booking', paid \cup {b}) = Ratings(booking, paid) + r
         /\ Weights(booking', paid \cup {b}) = Weights(booking, paid) + w
         /\ Weighted(booking', paid \cup {b}) = Weighted(booking, paid) + r * w
         /\ Cardinality(paid \cup {b}) = Cardinality(paid) + 1
         /\ Ratings(booking', paid) = Ratings(booking, paid)
         /\ Weights(booking', paid) = Weights(booking, paid)
         /\ Weighted(booking', paid) = Weighted(booking, paid)
    <3>1. booking'[b].rating = r /\ \A c \in paid : booking'[c] = booking[c]
      BY <2>5 DEF r
    <3>2. booking'[b].rating \in Int /\ Weight(booking'[b]) \in Int
      BY <3>1, <2>7
    <3>3. /\ paid \in SUBSET MadeOf(booking) /\ b \notin paid /\ RepType
      BY <2>4, <2>5, <1>1
    <3>4. OneMore(booking', paid, b)
      BY <3>1, <3>2, <3>3, RepSumsPut
    <3>. QED  BY <3>1, <3>4, <2>7 DEF OneMore
  <2>12. CASE booking[b].escrow = "WAIVED"
    <3>1. F = free \cup {b} /\ P = paid
      BY <2>6, <2>12 DEF F, P, free, paid
    <3>1a. new \in Aggregates
      BY <3>1, <2>7, <2>8, <2>10, <2>11 DEF new, F, P, Recomputed, Aggregates
    <3>2. new = AddFree(old, r)
      BY <3>1, <3>1a, <2>7, <2>8, <2>9, <2>10, <2>11, RepAdd, RepEqual
    <3>. QED  BY <3>2, <2>2, <2>12 DEF new
  <2>13. CASE booking[b].escrow # "WAIVED"
    <3>1. F = free /\ P = paid \cup {b}
      BY <2>6, <2>13 DEF F, P, free, paid
    <3>1a. new \in Aggregates
      BY <3>1, <2>7, <2>8, <2>10, <2>11 DEF new, F, P, Recomputed, Aggregates
    <3>2. new = AddPaid(old, r, w)
      BY <3>1, <3>1a, <2>7, <2>8, <2>9, <2>10, <2>11, RepAdd, RepEqual
    <3>. QED  BY <3>2, <2>2, <2>13 DEF new
  <2>. QED  BY <2>12, <2>13
<1>. QED  BY <1>4, <1>5

(***************************************************************************)
(* The review queue.                                                       *)
(***************************************************************************)
(* Whatever is rated after a quiet step was rated before it, and a live    *)
(* listing with ratings has the flags it had.                              *)
LEMMA SuspectsQuiet ==
    ASSUME RepInv, RatingsKept, ListingsKept, SuspectsFlagged
    PROVE  SuspectsFlagged'
<1>1. ASSUME NEW c \in Booking, booking'[c].st = "made", booking'[c].rating # Unrated
      PROVE  /\ Made(c) /\ booking[c].l \in Listing /\ booking'[c].l = booking[c].l
             /\ booking'[c].payer = booking[c].payer /\ booking'[c].amount = booking[c].amount
             /\ booking'[c].rating = booking[c].rating /\ booking'[c].ratedAt = booking[c].ratedAt
  <2>1. Made(c)
    BY <1>1 DEF RatingsKept
  <2>2. booking[c].l \in Listing
    BY <2>1, RepMade DEF RepInv, MadeRec
  <2>. QED  BY <2>1, <2>2 DEF RatingsKept
<1>2. ASSUME NEW c \in Booking, booking'[c].st = "made", booking'[c].rating # Unrated,
             listing'[booking'[c].l].st = "live"
      PROVE  LET l == booking[c].l
             IN  Live(l) /\ listing'[l].owner = listing[l].owner /\ listing'[l].flags = listing[l].flags
  <2>1. Made(c) /\ booking[c].l \in Listing /\ booking'[c].l = booking[c].l
    BY <1>1, <1>2
  <2>2. listing[booking[c].l].st # "none"
    BY <2>1 DEF RepInv, RepBooked
  <2>. QED  BY <2>1, <2>2, <1>2 DEF ListingsKept
<1>3. CollusionFlagged'
  <2> SUFFICES ASSUME NEW b \in Booking, NEW c \in Booking, b # c,
                      booking'[b].st = "made", booking'[c].st = "made",
                      booking'[b].payer # NoWallet, booking'[b].payer = booking'[c].payer,
                      booking'[b].rating # Unrated, booking'[c].rating # Unrated,
                      listing'[booking'[b].l].st = "live", listing'[booking'[c].l].st = "live"
               PROVE  LET lb == booking'[b].l
                          lc == booking'[c].l
                      IN  /\ lb = lc => \E f \in listing'[lb].flags : "repeated payer" \in f
                          /\ lb # lc /\ listing'[lb].owner = listing'[lc].owner
                               => \/ \E f \in listing'[lb].flags : "interlock" \in f
                                  \/ \E f \in listing'[lc].flags : "interlock" \in f
    BY DEF CollusionFlagged, Made, Live, Paying, Has
  <2>1. /\ Made(b) /\ booking'[b].l = booking[b].l /\ booking'[b].payer = booking[b].payer
        /\ booking'[b].rating = booking[b].rating
        /\ Live(booking[b].l) /\ listing'[booking[b].l].owner = listing[booking[b].l].owner
        /\ listing'[booking[b].l].flags = listing[booking[b].l].flags
    BY <1>1, <1>2
  <2>2. /\ Made(c) /\ booking'[c].l = booking[c].l /\ booking'[c].payer = booking[c].payer
        /\ booking'[c].rating = booking[c].rating
        /\ Live(booking[c].l) /\ listing'[booking[c].l].owner = listing[booking[c].l].owner
        /\ listing'[booking[c].l].flags = listing[booking[c].l].flags
    BY <1>1, <1>2
  <2>3. CollusionFlagged
    BY DEF SuspectsFlagged
  <2>. QED  BY <2>1, <2>2, <2>3 DEF CollusionFlagged, Paying, Has
<1>4. BurstFlagged'
  <2> DEFINE paid(l) == {b \in RatedOf(booking, l) : booking[b].amount > 0}
             paidN(l) == {b \in RatedOf(booking', l) : booking'[b].amount > 0}
             win(l, b) == {c \in paid(l) :
                             booking[c].ratedAt \in booking[b].ratedAt .. booking[b].ratedAt + Burst}
             winN(l, b) == {c \in paidN(l) :
                             booking'[c].ratedAt \in booking'[b].ratedAt .. booking'[b].ratedAt + Burst}
  <2> SUFFICES ASSUME NEW l \in Listing, listing'[l].st = "live",
                      NEW b \in paidN(l), Cardinality(winN(l, b)) >= 3
               PROVE  \E f \in listing'[l].flags : "burst" \in f
    BY DEF BurstFlagged, Live, Has
  <2>1. ASSUME NEW c \in RatedOf(booking', l)
        PROVE  /\ c \in Booking /\ Live(l) /\ listing'[l].flags = listing[l].flags
               /\ booking'[c].amount = booking[c].amount /\ booking'[c].ratedAt = booking[c].ratedAt
    <3>1. c \in Booking /\ booking'[c].st = "made" /\ booking'[c].rating # Unrated /\ booking'[c].l = l
      BY DEF RatedOf
    <3>. QED  BY <3>1, <1>1, <1>2
  <2>2. RatedOf(booking', l) = RatedOf(booking, l)
    BY RepSameRated
  <2>3. paidN(l) = paid(l)
    BY <2>1, <2>2
  <2>4. winN(l, b) = win(l, b)
    BY <2>1, <2>3, <2>2
  <2>5. Live(l) /\ listing'[l].flags = listing[l].flags
    BY <2>1
  <2>6. Cardinality(win(l, b)) >= 3 /\ b \in paid(l)
    BY <2>3, <2>4
  <2>7. Has(l, "burst")
    BY <2>5, <2>6 DEF SuspectsFlagged, BurstFlagged
  <2>. QED  BY <2>5, <2>7 DEF Has
<1>. QED  BY <1>3, <1>4 DEF SuspectsFlagged

(* What a rating does to the listings: the flags only grow, and a paid one *)
(* adds the reasons there are now.                                         *)
LEMMA RepFlagged ==
    ASSUME RepInv, NEW b \in Booking, Rate(b)
    PROVE  /\ \A k \in Listing : /\ listing'[k].st = listing[k].st
                                 /\ Live(k) => /\ listing'[k].owner = listing[k].owner
                                               /\ listing[k].flags \subseteq listing'[k].flags
           /\ Live(booking[b].l) /\ booking[b].escrow # "WAIVED"
              => \A s \in Reasons(booking', booking[b].l) :
                    \E f \in listing'[booking[b].l].flags : s \in f
<1>0. RepType /\ listing \in [Listing -> ListingRec]
  BY DEF RepInv, RepType
<1> DEFINE l == booking[b].l
           r == booking'[b].rating
           R == Reasons(booking', l)
           z == RatedListing(listing[l], b, r, booking')
<1>1. /\ r \in Scores /\ l \in Listing /\ Made(b)
      /\ listing' = IF Live(l) THEN [listing EXCEPT ![l] = z] ELSE listing
  BY RepRated
<1>2. CASE ~Live(l)
  BY <1>1, <1>2
<1>3. CASE Live(l)
  <2>1. /\ z \in LiveRec /\ z.owner = listing[l].owner
        /\ z.flags = IF booking[b].escrow = "WAIVED" THEN listing[l].flags
                     ELSE Flagged(listing[l].flags, R)
    BY <1>0, <1>1, <1>3, RepListed
  <2> HIDE DEF z, R
  <2>2. z.st = "live" /\ listing[l].st = "live"
    BY <2>1, <1>3 DEF LiveRec, Live
  <2>3. listing' = [listing EXCEPT ![l] = z]
    BY <1>1, <1>3
  <2>4. listing'[l] = z /\ \A k \in Listing \ {l} : listing'[k] = listing[k]
    BY <2>3, <1>0, <1>1
  <2>5. listing[l].flags \subseteq z.flags
    BY <2>1 DEF Flagged
  <2>6. booking[b].escrow # "WAIVED" => \A s \in R : \E f \in z.flags : s \in f
    BY <2>1 DEF Flagged
  <2>7. \A k \in Listing : /\ listing'[k].st = listing[k].st
                           /\ Live(k) => /\ listing'[k].owner = listing[k].owner
                                         /\ listing[k].flags \subseteq listing'[k].flags
    BY <2>1, <2>2, <2>4, <2>5
  <2>. QED  BY <2>4, <2>6, <2>7 DEF R
<1>. QED  BY <1>2, <1>3

LEMMA CollusionRated ==
    ASSUME RepInv, RepInv', NEW b \in Booking, Rate(b), CollusionFlagged
    PROVE  CollusionFlagged'
<1> DEFINE l == booking[b].l
           lof(c) == booking'[c].l
           flagged(k, s) == \E f \in listing'[k].flags : s \in f
<1>0. RepType /\ RepType'
  BY DEF RepInv
<1> SUFFICES ASSUME NEW x \in Booking, NEW y \in Booking, x # y,
                    booking'[x].st = "made", booking'[y].st = "made",
                    booking'[x].payer # NoWallet, booking'[x].payer = booking'[y].payer,
                    booking'[x].rating # Unrated, booking'[y].rating # Unrated,
                    listing'[lof(x)].st = "live", listing'[lof(y)].st = "live"
             PROVE  /\ lof(x) = lof(y) => flagged(lof(x), "repeated payer")
                    /\ lof(x) # lof(y) /\ listing'[lof(x)].owner = listing'[lof(y)].owner
                         => flagged(lof(x), "interlock") \/ flagged(lof(y), "interlock")
  BY DEF CollusionFlagged, Made, Live, Paying, Has
<1>1. /\ \A c \in Booking \ {b} : booking'[c] = booking[c]
      /\ booking'[b].st = "made" /\ lof(b) = l /\ booking'[b].payer = booking[b].payer
      /\ booking'[b].escrow = booking[b].escrow /\ Made(b) /\ l \in Listing
      /\ booking'[b].rating # Unrated
  BY RepRated
<1>2. \A k \in Listing : /\ listing'[k].st = listing[k].st
                         /\ Live(k) => /\ listing'[k].owner = listing[k].owner
                                       /\ listing[k].flags \subseteq listing'[k].flags
  BY RepFlagged
<1>3. lof(x) \in Listing /\ lof(y) \in Listing
  BY <1>0 DEF RepType, BookingRec
<1>4. Live(lof(x)) /\ Live(lof(y))
  BY <1>2, <1>3 DEF Live
<1>5. ASSUME x # b, y # b
      PROVE  /\ lof(x) = lof(y) => flagged(lof(x), "repeated payer")
             /\ lof(x) # lof(y) /\ listing'[lof(x)].owner = listing'[lof(y)].owner
                  => flagged(lof(x), "interlock") \/ flagged(lof(y), "interlock")
  <2>1. booking'[x] = booking[x] /\ booking'[y] = booking[y]
    BY <1>1, <1>5
  <2>2. /\ listing'[lof(x)].owner = listing[lof(x)].owner
        /\ listing'[lof(y)].owner = listing[lof(y)].owner
        /\ listing[lof(x)].flags \subseteq listing'[lof(x)].flags
        /\ listing[lof(y)].flags \subseteq listing'[lof(y)].flags
    BY <1>2, <1>3, <1>4
  <2>3. /\ lof(x) = lof(y) => Has(lof(x), "repeated payer")
        /\ lof(x) # lof(y) /\ listing[lof(x)].owner = listing[lof(y)].owner
             => Has(lof(x), "interlock") \/ Has(lof(y), "interlock")
    BY <2>1, <1>4 DEF CollusionFlagged, Made, Paying
  <2>. QED  BY <2>2, <2>3 DEF Has
<1>6. ASSUME NEW c \in Booking, c # b, booking'[c].st = "made", booking'[c].rating # Unrated,
             booking'[b].payer # NoWallet, booking'[b].payer = booking'[c].payer,
             Live(l), Live(lof(c)), lof(c) \in Listing
      PROVE  /\ lof(c) = l => flagged(l, "repeated payer")
             /\ lof(c) # l /\ listing'[lof(c)].owner = listing'[l].owner => flagged(l, "interlock")
  <2>1. booking[b].escrow # "WAIVED"
    BY <1>1, <1>6 DEF RepInv, RepBooked
  <2>2. \A s \in Reasons(booking', l) : flagged(l, s)
    BY <2>1, <1>6, RepFlagged
  <2>3. b \in RatedOf(booking', l) /\ Paying(booking', b, c)
    BY <1>1, <1>6 DEF RatedOf, Paying
  <2>4. ASSUME lof(c) = l PROVE "repeated payer" \in Reasons(booking', l)
    <3>1. c \in RatedOf(booking', l)
      BY <2>4, <1>6 DEF RatedOf
    <3>. QED  BY <2>3, <3>1, <1>6 DEF Reasons
  <2>5. ASSUME lof(c) # l, listing'[lof(c)].owner = listing'[l].owner
        PROVE  "interlock" \in Reasons(booking', l)
    <3>1. lof(c) \in Siblings(l)
      BY <2>5, <1>1, <1>2, <1>6 DEF Siblings
    <3>. QED  BY <2>3, <3>1, <1>6 DEF Reasons
  <2>. QED  BY <2>2, <2>4, <2>5
<1>7. CASE x = b
  BY <1>1, <1>3, <1>4, <1>6, <1>7
<1>8. CASE y = b
  BY <1>1, <1>3, <1>4, <1>6, <1>8
<1>. QED  BY <1>5, <1>7, <1>8

LEMMA BurstRated ==
    ASSUME RepInv, RepInv', NEW b \in Booking, Rate(b), BurstFlagged
    PROVE  BurstFlagged'
<1> DEFINE at(c) == booking'[c].ratedAt
           paid(l) == {c \in RatedOf(booking, l) : booking[c].amount > 0}
           paidN(l) == {c \in RatedOf(booking', l) : booking'[c].amount > 0}
           win(l, x) == {c \in paid(l) :
                           booking[c].ratedAt \in booking[x].ratedAt .. booking[x].ratedAt + Burst}
           winN(l, x) == {c \in paidN(l) : at(c) \in at(x) .. at(x) + Burst}
<1> SUFFICES ASSUME NEW l \in Listing, listing'[l].st = "live",
                    NEW x \in paidN(l), Cardinality(winN(l, x)) >= 3
             PROVE  \E f \in listing'[l].flags : "burst" \in f
  BY DEF BurstFlagged, Live, Has
<1>0. RepType' /\ Burst \in Nat /\ MaxTime \in Nat /\ now \in 0..MaxTime
  BY ReputationAssumption DEF RepInv, RepType
<1>1. /\ \A c \in Booking \ {b} : booking'[c] = booking[c]
      /\ booking'[b].amount = booking[b].amount /\ at(b) = now
      /\ booking'[b].escrow = booking[b].escrow /\ Made(b) /\ booking[b].l \in Listing
      /\ RatedOf(booking', l) =
            IF l = booking[b].l THEN RatedOf(booking, l) \cup {b} ELSE RatedOf(booking, l)
      /\ b \notin RatedOf(booking, l)
  BY RepRated
<1>2. Live(l) /\ listing[l].flags \subseteq listing'[l].flags
  BY RepFlagged DEF Live
<1>3. \A c \in RatedOf(booking', l) : c \in Booking /\ at(c) \in 0..MaxTime /\ at(c) <= now
  <2> SUFFICES ASSUME NEW c \in RatedOf(booking', l)
               PROVE  c \in Booking /\ at(c) \in 0..MaxTime /\ at(c) <= now
    OBVIOUS
  <2>1. c \in Booking /\ booking'[c].st = "made"
    BY DEF RatedOf
  <2>2. now' = now
    BY DEF Rate
  <2>. QED  BY <2>1, <2>2, <1>0 DEF RepInv, RepType, RepBooked, BookingRec, Made
<1>4. CASE b \notin winN(l, x)
  <2>1. x # b
    BY <1>0, <1>3, <1>4
  <2>2. \A c \in RatedOf(booking, l) : c # b /\ c \in Booking /\ booking'[c] = booking[c]
    BY <1>1 DEF RatedOf
  <2>3. x \in paid(l)
    BY <2>1, <2>2, <1>1
  <2>4. winN(l, x) = win(l, x)
    <3>1. ASSUME NEW c \in winN(l, x) PROVE c \in win(l, x)
      <4>1. c # b /\ c \in RatedOf(booking, l)
        BY <1>1, <1>4, <3>1
      <4>. QED  BY <4>1, <2>2, <2>3, <3>1
    <3>2. ASSUME NEW c \in win(l, x) PROVE c \in winN(l, x)
      BY <2>2, <2>3, <1>1, <3>2
    <3> HIDE DEF win, winN
    <3>. QED  BY <3>1, <3>2
  <2>5. Has(l, "burst")
    BY <2>3, <2>4, <1>2 DEF BurstFlagged
  <2>. QED  BY <2>5, <1>2 DEF Has
<1>5. CASE b \in winN(l, x)
  <2>1. b \in paidN(l) /\ now \in at(x) .. at(x) + Burst
    BY <1>1, <1>5
  <2>2. l = booking[b].l
    BY <1>1, <2>1
  <2>3. \A c \in paidN(l) : c \in PaidOf(booking', l)
    <3> SUFFICES ASSUME NEW c \in paidN(l) PROVE c \in PaidOf(booking', l)
      OBVIOUS
    <3>1. c \in Booking /\ booking'[c].st = "made" /\ booking'[c].amount > 0
      BY DEF RatedOf
    <3>2. booking'[c].escrow # "WAIVED"
      BY <3>1 DEF RepInv, RepBooked, Made
    <3>. QED  BY <3>2 DEF PaidOf
  <2> DEFINE P == PaidOf(booking', l)
             Z == {c \in P : at(c) >= at(b) - Burst}
  <2>4. P \subseteq RatedOf(booking', l) /\ P \subseteq MadeOf(booking')
    BY DEF PaidOf, RatedOf, MadeOf
  <2>5. winN(l, x) \subseteq Z
    <3> SUFFICES ASSUME NEW c \in winN(l, x) PROVE c \in Z
      OBVIOUS
    <3>1. c \in P /\ at(c) >= at(x)
      BY <2>3, <1>0, <1>3
    <3>2. at(x) \in Int /\ at(c) \in Int /\ at(x) + Burst >= now
      BY <1>0, <1>3, <2>1
    <3>. QED  BY <3>1, <3>2, <1>0, <1>1
  <2>6. IsFiniteSet(Z)
    BY <2>4, <1>0, FS_Subset DEF RepType
  <2>7. Cardinality(Z) >= 3
    <3>1. /\ IsFiniteSet(winN(l, x)) /\ Cardinality(winN(l, x)) <= Cardinality(Z)
      BY <2>5, <2>6, FS_Subset
    <3>2. Cardinality(winN(l, x)) \in Nat /\ Cardinality(Z) \in Nat
      BY <3>1, <2>6, FS_CardinalityType
    <3> HIDE DEF winN, Z
    <3>. QED  BY <3>1, <3>2
  <2>8. b \in P /\ \A c \in P : at(c) <= at(b)
    BY <2>1, <2>3, <2>4, <1>1, <1>3
  <2>9. "burst" \in Reasons(booking', l)
    BY <2>7, <2>8 DEF Reasons
  <2>10. booking[b].escrow # "WAIVED"
    BY <2>8, <1>1 DEF PaidOf
  <2>. QED  BY <2>2, <2>9, <2>10, <1>2, RepFlagged
<1>. QED  BY <1>4, <1>5

(***************************************************************************)
(* The invariant, and what follows from it.                                *)
(***************************************************************************)
RepAll == RepInv /\ AggregatesFromHistory /\ SuspectsFlagged

LEMMA RepInit == Init => RepAll
<1> SUFFICES ASSUME Init PROVE RepAll
  OBVIOUS
<1>1. /\ listing = [l \in Listing |-> [st |-> "none"]]
      /\ booking = [b \in Booking |-> [st |-> "none"]]
      /\ disk = [listing |-> listing, booking |-> booking] /\ now = 0
  BY DEF Init, Snapshot
<1>2. MadeOf(booking) = {} /\ \A b \in Booking : ~Made(b)
  BY <1>1 DEF MadeOf, Made
<1>3. \A l \in Listing : ~Live(l)
  BY <1>1 DEF Live
<1>4. RepType
  <2>1. listing \in [Listing -> ListingRec] /\ booking \in [Booking -> BookingRec]
    BY <1>1 DEF ListingRec, BookingRec
  <2>2. IsFiniteSet(MadeOf(booking))
    BY <1>2, FS_EmptySet
  <2>. QED  BY <1>1, <2>1, <2>2, ReputationAssumption DEF RepType
<1>5. RepDisk
  BY <1>1, <1>4 DEF RepDisk, RepType
<1>6. RepBooked
  BY <1>2 DEF RepBooked
<1>7. AggregatesFromHistory
  BY <1>3 DEF AggregatesFromHistory
<1>8. SuspectsFlagged
  BY <1>2, <1>3 DEF SuspectsFlagged, CollusionFlagged, BurstFlagged
<1>. QED  BY <1>4, <1>5, <1>6, <1>7, <1>8 DEF RepAll, RepInv

LEMMA RepStutter == RepAll /\ UNCHANGED vars => RepAll'
<1> SUFFICES ASSUME RepAll, UNCHANGED vars PROVE RepAll'
  OBVIOUS
<1>1. UNCHANGED <<listing, booking, disk, now>>
  BY DEF vars
<1>2. RepInv'
  BY <1>1 DEF RepAll, RepInv, RepType, RepDisk, RepBooked, MadeOf, Made, Live
<1>3. AggregatesFromHistory'
  BY <1>1 DEF RepAll, AggregatesFromHistory, FreeUntouched, Live
<1>4. SuspectsFlagged'
  BY <1>1 DEF RepAll, SuspectsFlagged, CollusionFlagged, BurstFlagged, Made, Live, Paying, Has
<1>. QED  BY <1>2, <1>3, <1>4 DEF RepAll

LEMMA RepNext == RepAll /\ Next => RepAll'
<1> SUFFICES ASSUME RepAll, Next PROVE RepAll'
  OBVIOUS
<1>1. RepInv /\ AggregatesFromHistory /\ SuspectsFlagged
  BY DEF RepAll
<1>2. RepInv'
  BY <1>1, RepTypeNext, RepDiskNext, RepBookedNext DEF RepInv
<1>3. CASE RatingsKept /\ ListingsKept /\ (AggregatesKept \/ Restart)
  BY <1>1, <1>2, <1>3, AggregatesQuiet, SuspectsQuiet DEF RepAll
<1>4. ASSUME NEW b \in Booking, Rate(b) PROVE RepAll'
  BY <1>1, <1>2, <1>4, AggregatesRated, CollusionRated, BurstRated DEF RepAll, SuspectsFlagged
<1>. QED  BY <1>1, <1>3, <1>4, RepQuiet

(* Every step keeps the ratings given.                                     *)
RatedStep ==
    \A b \in Booking : Made(b) /\ booking[b].rating # Unrated
                       => booking'[b].st = "made" /\ booking'[b].rating = booking[b].rating
LEMMA RepRatedStep == RepAll /\ [Next]_vars => [RatedStep]_vars
<1> SUFFICES ASSUME RepAll, Next PROVE RatedStep
  OBVIOUS
<1>1. RepInv
  BY DEF RepAll
<1>2. CASE RatingsKept
  BY <1>2 DEF RatingsKept, RatedStep
<1>3. ASSUME NEW b \in Booking, Rate(b) PROVE RatedStep
  <2>1. booking[b].rating = Unrated
    BY <1>3 DEF Rate
  <2>2. \A c \in Booking \ {b} : booking'[c] = booking[c]
    BY <1>1, <1>3, RepRated
  <2>. QED  BY <2>1, <2>2 DEF RatedStep, Made
<1>. QED  BY <1>1, <1>2, <1>3, RepQuiet

(* In every reachable state the records have their types, the snapshot on  *)
(* disk holds every booking and, of every listing, all but aggregates, and *)
(* the two properties below hold.                                          *)
THEOREM RepInvariance == Spec => []RepAll
<1>1. RepAll /\ [Next]_vars => RepAll'
  BY RepNext, RepStutter
<1>. QED  BY <1>1, RepInit, PTL DEF Spec

(* However many listings, bookings and restarts: the aggregates that       *)
(* POST /book/{id}/rate keeps one rating at a time are the sums that       *)
(* _s6_recompute_aggregates takes over the whole history, with the weights *)
(* of the amounts, so that a restart changes no reputation.                *)
THEOREM AggregatesAreHistory == Spec => []AggregatesFromHistory
<1>1. RepAll => AggregatesFromHistory
  BY DEF RepAll
<1>. QED  BY <1>1, RepInvariance, PTL

(* Repeated payers, payers that interlock with a sibling listing and       *)
(* bursts of paid ratings are in the review queue (_s6_flag_review), in    *)
(* whatever order the ratings came and across restarts.                    *)
THEOREM SuspectsAreFlagged == Spec => []SuspectsFlagged
<1>1. RepAll => SuspectsFlagged
  BY DEF RepAll
<1>. QED  BY <1>1, RepInvariance, PTL

(* A rating is given once per booking: no later handler, settlement,       *)
(* deletion or start changes or loses it.                                  *)
THEOREM RatingsStay == Spec => RatedForGood
<1>1. Spec => []RepAll /\ [][Next]_vars
  BY RepInvariance DEF Spec
<1>2. RepAll /\ [Next]_vars => [RatedStep]_vars
  BY RepRatedStep
<1>3. Spec => [][RatedStep]_vars
  BY <1>1, <1>2, PTL
<1>. QED  BY <1>3 DEF RatedForGood, RatedStep
===============================================================================
