------------------------------ MODULE Reputation ------------------------------
(***************************************************************************)
(* Ratings (everlist/app.py, SPEC.md section 21): POST /book/{id}/rate with *)
(* its two channels and its weights, the heuristics that feed the review   *)
(* queue, and the aggregates that a start rebuilds from the bookings.  Each *)
(* handler is one section of LOCK that ends in a snapshot.                 *)
(***************************************************************************)
EXTENDS Integers, FiniteSets, FiniteSetsExt

CONSTANTS
    Listing,     \* listing ids
    Booking,     \* booking ids
    Principal,   \* buyers and owners
    Wallet,      \* addresses that pay and receive
    NoWallet,    \* no payment evidence, or no receive_addr
    Amounts,     \* settled amounts; 0 is a free booking
    Scores,      \* the ratings given, of 1..5
    Burst,       \* the length of the burst window in ticks
    MaxTime,     \* bound on the clock
    MaxRestarts  \* bound on restarts

ASSUME ReputationAssumption ==
    /\ NoWallet \notin Wallet
    /\ Amounts \subseteq Nat
    /\ Scores \subseteq 1..5
    /\ {Burst, MaxTime, MaxRestarts} \subseteq Nat

VARIABLES
    listing,   \* LISTINGS: owner, receive_addr, aggregates, review_flags
    booking,   \* BOOKINGS
    disk,      \* the last snapshot
    now,       \* time.time(), in ticks (external)
    restarts

vars == <<listing, booking, disk, now, restarts>>

Settled == {"RELEASED", "WAIVED", "DIRECT"}
Escrow == Settled \cup {"HELD", "REFUNDED"}
Unrated == 0

NoRatings == [freeSum |-> 0, freeCount |-> 0, sum |-> 0, count |-> 0, wsum |-> 0, wtot |-> 0]

Snapshot == [listing |-> listing, booking |-> booking]
Persist == disk' = Snapshot'

Init ==
    /\ listing = [l \in Listing |-> [st |-> "none"]]
    /\ booking = [b \in Booking |-> [st |-> "none"]]
    /\ disk = Snapshot
    /\ now = 0
    /\ restarts = 0

Live(l) == listing[l].st = "live"
Made(b) == booking[b].st = "made"
RatedOf(bs, l) == {b \in Booking : bs[b].st = "made" /\ bs[b].l = l /\ bs[b].rating # Unrated}

-----------------------------------------------------------------------------
(* Listings and bookings, as far as a rating sees them.                    *)

CreateListing(l) ==
    /\ listing[l].st = "none"
    /\ \E o \in Principal, w \in Wallet \cup {NoWallet} :
         listing' = [listing EXCEPT ![l] = [st |-> "live", owner |-> o, receive |-> w,
                                            agg |-> NoRatings, flags |-> {}]]
    /\ UNCHANGED <<booking, now, restarts>>
    /\ Persist

(* manage delete: refused while a booking is HELD, WAIVED or DIRECT.       *)
DeleteListing(l) ==
    /\ Live(l)
    /\ \A b \in Booking : Made(b) /\ booking[b].l = l
                          => booking[b].escrow \notin {"HELD", "WAIVED", "DIRECT"}
    /\ listing' = [listing EXCEPT ![l] = [st |-> "gone"]]
    /\ UNCHANGED <<booking, now, restarts>>
    /\ Persist

(* POST /book: the price and the rail are the owner's, who may edit them;
   only an instant payment leaves evidence of the wallet that paid.        *)
Book(b, l) ==
    /\ booking[b].st = "none"
    /\ Live(l)
    /\ \E p \in Principal, a \in Amounts, w \in Wallet \cup {NoWallet},
          e \in {"WAIVED", "DIRECT", "HELD"} :
         /\ a = 0 <=> e = "WAIVED"
         /\ w # NoWallet => e = "DIRECT"
         /\ booking' = [booking EXCEPT ![b] =
              [st |-> "made", l |-> l, buyer |-> p, payer |-> w, amount |-> a,
               escrow |-> e, rating |-> Unrated, ratedAt |-> 0]]
    /\ UNCHANGED <<listing, now, restarts>>
    /\ Persist

MoveEscrow(b, e) ==
    /\ booking' = [booking EXCEPT ![b].escrow = e]
    /\ UNCHANGED <<listing, now, restarts>>
    /\ Persist

Confirm(b) ==
    /\ Made(b)
    /\ booking[b].escrow \in {"HELD", "WAIVED"}
    /\ MoveEscrow(b, "RELEASED")

Cancel(b) ==
    /\ Made(b)
    /\ booking[b].escrow \in {"HELD", "WAIVED"}
    /\ MoveEscrow(b, "REFUNDED")

(* sync-escrow: only a paid escrow booking has a reference to mirror.      *)
Mirror(b) ==
    /\ Made(b)
    /\ booking[b].amount > 0
    /\ \/ booking[b].escrow = "HELD" /\ MoveEscrow(b, "RELEASED")
       \/ booking[b].escrow \in {"HELD", "RELEASED"} /\ MoveEscrow(b, "REFUNDED")

-----------------------------------------------------------------------------
(* Aggregates.                                                             *)

(* _review_weight: the settled amount, at least 1 and at most 50.          *)
Weight(bk) ==
    IF bk.amount < 1 THEN 1
    ELSE IF bk.amount > 50 THEN 50 ELSE bk.amount

AddFree(agg, r) == [agg EXCEPT !.freeSum = @ + r, !.freeCount = @ + 1]

AddPaid(agg, r, w) == [agg EXCEPT !.sum = @ + r, !.count = @ + 1,
                                  !.wsum = @ + r * w, !.wtot = @ + w]

(* The two channels, told apart by the escrow of a booking as it is now.   *)
FreeOf(bs, l) == {b \in RatedOf(bs, l) : bs[b].escrow = "WAIVED"}
PaidOf(bs, l) == {b \in RatedOf(bs, l) : bs[b].escrow # "WAIVED"}

Ratings(bs, S) == SumFunctionOnSet([b \in S |-> bs[b].rating], S)
Weights(bs, S) == SumFunctionOnSet([b \in S |-> Weight(bs[b])], S)
Weighted(bs, S) == SumFunctionOnSet([b \in S |-> bs[b].rating * Weight(bs[b])], S)

(* Mutant: the rebuild forgets the weight of the rating itself.            *)
RecomputedPlain(bs, l) ==
    LET free == FreeOf(bs, l)
        paid == PaidOf(bs, l)
    IN  [freeSum |-> Ratings(bs, free), freeCount |-> Cardinality(free),
         sum |-> Ratings(bs, paid), count |-> Cardinality(paid),
         wsum |-> Ratings(bs, paid), wtot |-> Weights(bs, paid)]

(* _s6_recompute_aggregates *)
Recomputed(bs, l) ==
    LET free == FreeOf(bs, l)
        paid == PaidOf(bs, l)
    IN  [freeSum |-> Ratings(bs, free), freeCount |-> Cardinality(free),
         sum |-> Ratings(bs, paid), count |-> Cardinality(paid),
         wsum |-> Weighted(bs, paid), wtot |-> Weights(bs, paid)]

-----------------------------------------------------------------------------
(* The review queue: _s6_flag_review.                                      *)

Paying(bs, b, c) == bs[b].payer # NoWallet /\ bs[b].payer = bs[c].payer

Siblings(l) == {k \in Listing \ {l} : Live(k) /\ listing[k].owner = listing[l].owner}

(* Mutant: only rated bookings of the siblings are searched, and before the
   new rating counts.                                                      *)
ReasonsBefore(bs, l) ==
    LET rated == RatedOf(booking, l)
        paid == {b \in rated : bs[b].escrow # "WAIVED"}
    IN  (IF \E b, c \in rated : b # c /\ Paying(bs, b, c) THEN {"repeated payer"} ELSE {})
        \cup (IF \E b \in rated, k \in Siblings(l) : \E c \in RatedOf(bs, k) : Paying(bs, b, c)
              THEN {"interlock"} ELSE {})
        \cup (IF \E b \in paid : Cardinality({c \in paid :
                    bs[c].ratedAt \in (bs[b].ratedAt - Burst)..bs[b].ratedAt}) >= 3
              THEN {"burst"} ELSE {})

(* Repeated payers; a payer that also booked a sibling listing; three paid
   ratings in the window that ends with the newest.                        *)
Reasons(bs, l) ==
    LET rated == RatedOf(bs, l)
        paid == PaidOf(bs, l)
        newest == {b \in paid : \A c \in paid : bs[c].ratedAt <= bs[b].ratedAt}
    IN  (IF \E b, c \in rated : b # c /\ Paying(bs, b, c) THEN {"repeated payer"} ELSE {})
        \cup (IF \E b \in rated, c \in Booking :
                    bs[c].st = "made" /\ bs[c].l \in Siblings(l) /\ Paying(bs, b, c)
              THEN {"interlock"} ELSE {})
        \cup (IF \E b \in newest : Cardinality({c \in paid :
                    bs[c].ratedAt >= bs[b].ratedAt - Burst}) >= 3
              THEN {"burst"} ELSE {})

(* Equal lists of reasons are kept once; an empty one is not kept.         *)
Flagged(flags, reasons) == IF reasons = {} THEN flags ELSE flags \cup {reasons}

-----------------------------------------------------------------------------
(* L1: neither the owner nor the wallet that receives the money may rate.  *)
SelfReview(b) ==
    LET l == booking[b].l IN
    /\ Live(l)
    /\ \/ booking[b].buyer = listing[l].owner
       \/ booking[b].payer # NoWallet /\ booking[b].payer = listing[l].receive

RatedListing(rec, b, r, bs) ==
    IF booking[b].escrow = "WAIVED"
    THEN [rec EXCEPT !.agg = AddFree(@, r)]
    ELSE [rec EXCEPT !.agg = AddPaid(@, r, Weight(booking[b])),
                     !.flags = Flagged(@, Reasons(bs, booking[b].l))]

(* Mutant: the snapshot is not written.                                    *)
RateUnwritten(b) ==
    /\ Made(b)
    /\ booking[b].escrow \in Settled
    /\ booking[b].rating = Unrated
    /\ ~SelfReview(b)
    /\ \E r \in Scores :
         LET bs == [booking EXCEPT ![b].rating = r, ![b].ratedAt = now]
             l == booking[b].l IN
         /\ booking' = bs
         /\ listing' = IF Live(l)
                       THEN [listing EXCEPT ![l] = RatedListing(@, b, r, bs)] ELSE listing
    /\ UNCHANGED <<disk, now, restarts>>

(* POST /book/{id}/rate by the buyer.                                      *)
Rate(b) ==
    /\ Made(b)
    /\ booking[b].escrow \in Settled
    /\ booking[b].rating = Unrated
    /\ ~SelfReview(b)
    /\ \E r \in Scores :
         LET bs == [booking EXCEPT ![b].rating = r, ![b].ratedAt = now]
             l == booking[b].l IN
         /\ booking' = bs
         /\ listing' = IF Live(l)
                       THEN [listing EXCEPT ![l] = RatedListing(@, b, r, bs)] ELSE listing
    /\ UNCHANGED <<now, restarts>>
    /\ Persist

(* A start: load the snapshot, rebuild the aggregates; nothing is written. *)
Restart ==
    /\ restarts < MaxRestarts
    /\ restarts' = restarts + 1
    /\ booking' = disk.booking
    /\ listing' = [l \in Listing |->
                     IF disk.listing[l].st = "live"
                     THEN [disk.listing[l] EXCEPT !.agg = Recomputed(disk.booking, l)]
                     ELSE disk.listing[l]]
    /\ UNCHANGED <<disk, now>>

Tick == now < MaxTime /\ now' = now + 1 /\ UNCHANGED <<listing, booking, disk, restarts>>

Next ==
    \/ \E l \in Listing : CreateListing(l) \/ DeleteListing(l)
    \/ \E b \in Booking : \/ Confirm(b) \/ Cancel(b) \/ Mirror(b) \/ Rate(b)
                          \/ \E l \in Listing : Book(b, l)
    \/ Restart
    \/ Tick

Spec == Init /\ [][Next]_vars

-----------------------------------------------------------------------------
(* Properties.                                                             *)

BookingRec == [st : {"none"}] \cup
    [st : {"made"}, l : Listing, buyer : Principal, payer : Wallet \cup {NoWallet},
     amount : Amounts, escrow : Escrow, rating : {Unrated} \cup Scores, ratedAt : 0..MaxTime]

(* Records keep their types, and the weighted sums stay within what that many
   ratings of weight 1 to 50 can give.                                     *)
TypeOK ==
    /\ \A l \in Listing : Live(l) =>
         LET agg == listing[l].agg IN
         /\ agg.wtot \in agg.count .. 50 * agg.count
         /\ agg.wsum \in agg.wtot .. 5 * agg.wtot
         /\ listing[l].flags \subseteq SUBSET {"repeated payer", "interlock", "burst"}
    /\ \A b \in Booking : booking[b] \in BookingRec

(* The free bookings of a listing are as they were when they were rated.    *)
FreeUntouched(l) ==
    \A b \in RatedOf(booking, l) : booking[b].amount = 0 => booking[b].escrow = "WAIVED"

(* The aggregates kept with each rating are those a start would rebuild, so a
   restart changes no reputation, whatever was settled, refunded on the chain
   or deleted meanwhile.  Free bookings that were confirmed or cancelled are
   excepted: they change channel.                                          *)
AggregatesFromHistory ==
    \A l \in Listing : Live(l) /\ FreeUntouched(l)
                       => listing[l].agg = Recomputed(booking, l)

(* "once per booking, forever": a rating is neither changed nor lost.      *)
RatedForGood ==
    [][\A b \in Booking : Made(b) /\ booking[b].rating # Unrated
                          => booking'[b].st = "made" /\ booking'[b].rating = booking[b].rating]_vars

Has(l, reason) == \E f \in listing[l].flags : reason \in f

(* "repeated payer wallet on one listing" and "payer interlock with a sibling
   listing of the same owner" (SPEC.md section 21d): once both bookings are
   rated, a listing concerned is in the queue, whatever the order.         *)
CollusionFlagged ==
    \A b, c \in Booking :
        LET lb == booking[b].l
            lc == booking[c].l
        IN  /\ b # c /\ Made(b) /\ Made(c) /\ Paying(booking, b, c)
            /\ Unrated \notin {booking[b].rating, booking[c].rating}
            /\ Live(lb) /\ Live(lc)
            => /\ lb = lc => Has(lb, "repeated payer")
               /\ lb # lc /\ listing[lb].owner = listing[lc].owner
                    => Has(lb, "interlock") \/ Has(lc, "interlock")

(* "burst ratings (3+ paid within 10 minutes)" (SPEC.md section 21d).      *)
BurstFlagged ==
    \A l \in Listing : Live(l) =>
        LET paid == {b \in RatedOf(booking, l) : booking[b].amount > 0}
        IN  (\E b \in paid : Cardinality({c \in paid :
               booking[c].ratedAt \in booking[b].ratedAt .. booking[b].ratedAt + Burst}) >= 3)
            => Has(l, "burst")

(* Both patterns the hub promises to look for reach the operator's queue.  *)
SuspectsFlagged == CollusionFlagged /\ BurstFlagged
=============================================================================
