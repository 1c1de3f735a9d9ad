----------------------------- MODULE BookRequests -----------------------------
(***************************************************************************)
(* POST /book as a request thread runs it (everlist/app.py): gates on the   *)
(* account and on the listing, the idempotency check, the reservation, the  *)
(* store of the response.  Each takes LOCK by itself, so owners, operators, *)
(* other requests and crashes come in between.  Seats are BookingCore's     *)
(* matter; here a reservation may be refused for any such reason.           *)
(***************************************************************************)
EXTENDS Integers, FiniteSets, Sequences

CONSTANTS
    Request,      \* threads serving POST /book
    Principal,    \* token principals
    Owner,        \* the principal that owns the listing
    Key,          \* Idempotency-Key values
    NoKey,        \* a request without the header
    Terms,        \* custom payment terms
    DefaultTerms, \* the vertical's default terms
    NoTerms,      \* a request that echoes no terms, or the default ones
    Setting,      \* [terms, paid]: what the owner edits to
    IdemCap,      \* IDEMPOTENCY_CAP
    IdemEvict,    \* a tenth of it
    MaxClaims,    \* bound on the claim codes minted
    MaxBookings   \* bound on the bookings made

ASSUME BookRequestsAssumption ==
    /\ Owner \in Principal
    /\ NoKey \notin Key
    /\ DefaultTerms \notin Terms
    /\ NoTerms \notin Terms \cup {DefaultTerms}
    /\ Setting \subseteq [terms : Terms \cup {DefaultTerms}, paid : BOOLEAN]
    /\ {IdemCap, IdemEvict} \subseteq Nat \ {0}
    /\ {MaxClaims, MaxBookings} \subseteq Nat

VARIABLES
    listing,    \* the listing all requests want
    idem,       \* IDEMPOTENCY in insertion order
    bookings,   \* BOOKINGS: what was booked and, for the record, under which key
    disk,       \* the last snapshot
    req,        \* the request threads
    answer      \* the last 201 answer: to whom, for what, and the booking shown

vars == <<listing, idem, bookings, disk, req, answer>>

ListingRec == [st : {"live", "gone"}, private : BOOLEAN, claim : 0..MaxClaims,
               archived : BOOLEAN, paid : BOOLEAN, terms : Terms \cup {DefaultTerms}]

(* The hashed payload: principal and fields, not the claim code, which the
   handler pops first.                                                     *)
Canon(q) == [principal |-> q.principal, echo |-> q.echo]

Idle == [pc |-> "idle"]

Snapshot == [listing |-> listing, idem |-> idem, bookings |-> bookings]
Persist == disk' = Snapshot'

Init ==
    /\ listing = [st |-> "live", private |-> FALSE, claim |-> 0, archived |-> FALSE,
                  paid |-> TRUE, terms |-> DefaultTerms]
    /\ idem = <<>>
    /\ bookings = {}
    /\ disk = Snapshot
    /\ req = [r \in Request |-> Idle]
    /\ answer = {}

Goto(r, q) == req' = [req EXCEPT ![r] = q]
Done(r) == Goto(r, Idle)

-----------------------------------------------------------------------------
(* The request.                                                            *)

(* Token, account and rate limit; the fields of the request.               *)
Send(r) ==
    /\ req[r] = Idle
    /\ \E p \in Principal, k \in Key \cup {NoKey}, c \in 0..MaxClaims, t \in Terms \cup {NoTerms} :
         /\ c <= listing.claim
         /\ Goto(r, [pc |-> "gates", principal |-> p, key |-> k, claim |-> c, echo |-> t,
                     id |-> 0])
    /\ UNCHANGED <<listing, idem, bookings, disk, answer>>

(* A private deal needs its claim code or its owner's token.               *)
ClaimOpens(q) == listing.private => q.claim = listing.claim \/ q.principal = Owner

(* Listing lookup, visibility, archived.  The claim has no use afterwards.  *)
PassGates(r) ==
    /\ req[r].pc = "gates"
    /\ listing.st = "live"
    /\ ClaimOpens(req[r])
    /\ ~listing.archived
    /\ Goto(r, [req[r] EXCEPT !.pc = IF req[r].key = NoKey THEN "reserve" ELSE "check",
                              !.claim = 0])
    /\ UNCHANGED <<listing, idem, bookings, disk, answer>>

(* A gate refuses: these, a buyer who is not verified where the listing asks
   for it, or a field.                                                     *)
RefuseGates(r) ==
    /\ req[r].pc = "gates"
    /\ Done(r)
    /\ UNCHANGED <<listing, idem, bookings, disk, answer>>

StoredFor(k) == {i \in 1..Len(idem) : idem[i].key = k}

(* FIFO eviction when the table is full and the key is new.                *)
Evict(k) ==
    IF Len(idem) >= IdemCap /\ StoredFor(k) = {}
    THEN SubSeq(idem, IdemEvict + 1, Len(idem))
    ELSE idem

(* Mutant: the stored hash is compared without the principal.              *)
SameRequestAnyone(stored, q) == stored.canon.echo = q.echo

SameRequest(stored, q) == stored.canon = Canon(q)

(* The idempotency section: replay, conflict, or go on.                    *)
CheckKey(r) ==
    /\ req[r].pc = "check"
    /\ idem' = Evict(req[r].key)
    /\ IF StoredFor(req[r].key) = {}
       THEN Goto(r, [req[r] EXCEPT !.pc = "reserve"]) /\ UNCHANGED answer
       ELSE /\ Done(r)
            /\ \E i \in StoredFor(req[r].key) :
                 answer' = IF SameRequest(idem[i], req[r])
                            THEN {[to |-> Canon(req[r]), id |-> idem[i].id]}
                            ELSE answer
    /\ UNCHANGED <<listing, bookings, disk>>

(* Mutant: a buyer that echoes nothing is let through.                     *)
TermsEchoedIfAny(q) ==
    listing.paid /\ listing.terms # DefaultTerms /\ q.echo # NoTerms => q.echo = listing.terms

(* Custom terms on a paid booking need the buyer's exact echo.             *)
TermsAccepted(q) ==
    listing.paid /\ listing.terms # DefaultTerms => q.echo = listing.terms

(* The reservation section.                                                *)
Reserve(r) ==
    LET q == req[r]
        id == Cardinality(bookings) + 1 IN
    /\ q.pc = "reserve"
    /\ id <= MaxBookings
    /\ listing.st = "live"
    /\ ~listing.archived
    /\ TermsAccepted(q)
    /\ bookings' = bookings \cup
         {[id |-> id, canon |-> Canon(q), key |-> q.key,
           terms |-> listing.terms, paid |-> listing.paid]}
    /\ Goto(r, [q EXCEPT !.pc = "respond", !.id = id])
    /\ UNCHANGED <<listing, idem, answer>>
    /\ Persist

(* Full, gone, archived, terms not echoed, or a duplicate escrow reference. *)
RefuseReserve(r) ==
    /\ req[r].pc = "reserve"
    /\ Done(r)
    /\ UNCHANGED <<listing, idem, bookings, disk, answer>>

(* Store the response under its key (a key that is there keeps its place),
   then answer 201.                                                        *)
Respond(r) ==
    LET stored == [key |-> req[r].key, canon |-> Canon(req[r]), id |-> req[r].id] IN
    /\ req[r].pc = "respond"
    /\ idem' = IF req[r].key = NoKey THEN idem
               ELSE IF StoredFor(req[r].key) = {} THEN Append(idem, stored)
               ELSE [i \in 1..Len(idem) |->
                       IF i \in StoredFor(req[r].key) THEN stored ELSE idem[i]]
    /\ answer' = {[to |-> Canon(req[r]), id |-> req[r].id]}
    /\ Done(r)
    /\ UNCHANGED <<listing, bookings>>
    /\ IF req[r].key = NoKey THEN UNCHANGED disk ELSE Persist

-----------------------------------------------------------------------------
(* What others do meanwhile: each is one section that ends in a snapshot.  *)

Manage(l) ==
    /\ listing.st = "live"
    /\ listing' = l
    /\ UNCHANGED <<idem, bookings, req, answer>>
    /\ Persist

(* make_private mints a fresh claim code, make_public deletes it.          *)
MakePrivate ==
    /\ listing.claim < MaxClaims
    /\ Manage([listing EXCEPT !.private = TRUE, !.claim = @ + 1])

MakePublic == listing.private /\ Manage([listing EXCEPT !.private = FALSE])

Archive == Manage([listing EXCEPT !.archived = ~@])

(* edit: of what it changes, terms and price count here.                   *)
Edit == \E s \in Setting :
           Manage([listing EXCEPT !.terms = s.terms, !.paid = s.paid])

(* delete is refused while a booking is active; none is settled here.      *)
Remove == bookings = {} /\ Manage([listing EXCEPT !.st = "gone"])

Restart ==
    /\ listing' = disk.listing
    /\ idem' = disk.idem
    /\ bookings' = disk.bookings
    /\ req' = [r \in Request |-> Idle]
    /\ UNCHANGED <<disk, answer>>

Next ==
    \/ \E r \in Request : \/ Send(r) \/ PassGates(r) \/ RefuseGates(r) \/ CheckKey(r)
                          \/ Reserve(r) \/ RefuseReserve(r) \/ Respond(r)
    \/ MakePrivate \/ MakePublic \/ Archive \/ Edit \/ Remove
    \/ Restart

Spec == Init /\ [][Next]_vars

-----------------------------------------------------------------------------
(* Properties.                                                             *)

Hash == [principal : Principal, echo : Terms \cup {NoTerms}]

(* The listing, the stored responses and the requests keep their types.    *)
TypeOK ==
    /\ listing \in ListingRec
    /\ idem \in Seq([key : Key, canon : Hash, id : 1..MaxBookings])
    /\ \A i, j \in 1..Len(idem) : idem[i].key = idem[j].key => i = j
    /\ \A r \in Request : req[r].pc \in {"idle", "gates", "check", "reserve", "respond"}

(* "Bound to the token principal: agent B can never replay agent A's stored
   response (it contains secrets)" (POST /book, I4).                       *)
ReplayIsPrivate ==
    \A x \in answer, b \in bookings : x.id = b.id => x.to = b.canon

(* A paid booking under custom terms records the terms its buyer echoed,
   however the owner edits meanwhile ("API-enforced consent", C12).        *)
TermsConsented ==
    \A b \in bookings : b.paid /\ b.terms # DefaultTerms => b.canon.echo = b.terms

-----------------------------------------------------------------------------
(* A claim of the repository that the code does not keep.                  *)

(* "Same key + same payload -> stored response" (SPEC.md section 10): one key
   and payload book once.                                                  *)
OneKeyOneBooking ==
    \A b, c \in bookings : b.key = c.key /\ b.key # NoKey /\ b.canon = c.canon => b = c
=============================================================================
