-------------------------- MODULE BookRequests_proof --------------------------
(***************************************************************************)
(* Proofs about BookRequests, for any sets of requests, principals, keys   *)
(* and terms, any size of the idempotency table and any number of restarts: *)
(* types, privacy of stored responses, consent to custom terms.            *)
(***************************************************************************)
EXTENDS BookRequests, FiniteSetTheorems, SequenceTheorems, TLAPS

-----------------------------------------------------------------------------
(* The inductive invariant.                                                *)

Stored == [key : Key, canon : Hash, id : 1..MaxBookings]
Stage == {"gates", "check", "reserve", "respond"}
RequestRec == [pc : Stage, principal : Principal, key : Key \cup {NoKey}, claim : 0..MaxClaims,
               echo : Terms \cup {NoTerms}, id : 0..MaxBookings]

(* Booking id was made for the payload c.                                  *)
MadeFor(B, id, c) == \E b \in B : b.id = id /\ b.canon = c

(* Bookings have ids of their own, none of them in the future.             *)
Numbered(B) ==
    /\ IsFiniteSet(B)
    /\ \A b \in B : b.id \in 1..Cardinality(B) /\ b.id \in 1..MaxBookings
    /\ \A b, c \in B : b.id = c.id => b = c

(* One response per key, each for a booking of its payload.                *)
Table(I, B) ==
    /\ I \in Seq(Stored)
    /\ \A i, j \in 1..Len(I) : I[i].key = I[j].key => i = j
    /\ \A i \in 1..Len(I) : MadeFor(B, I[i].id, I[i].canon)

(* A request that books knows what it booked.                              *)
RequestInv ==
    /\ req \in [Request -> {Idle} \cup RequestRec]
    /\ \A r \in Request : /\ req[r].pc = "check" => req[r].key # NoKey
                          /\ req[r].pc = "respond" => MadeFor(bookings, req[r].id, Canon(req[r]))

AnswerInv == \A x \in answer : MadeFor(bookings, x.id, x.to)

IInv ==
    /\ listing \in ListingRec
    /\ Numbered(bookings)
    /\ Table(idem, bookings)
    /\ Table(disk.idem, bookings)
    /\ disk.bookings = bookings
    /\ disk.listing = listing
    /\ RequestInv
    /\ AnswerInv
    /\ TermsConsented

-----------------------------------------------------------------------------
(* The table.                                                              *)

LEMMA EmptyTable == ASSUME NEW B PROVE Table(<<>>, B)
<1>1. <<>> \in Seq(Stored) /\ Len(<<>>) = 0
  BY EmptySeq
<1>2. 1..0 = {}
  OBVIOUS
<1>3. QED
  BY <1>1, <1>2 DEF Table

(* The oldest entries go, the others stay as they were.                    *)
LEMMA TableEvict ==
  ASSUME NEW B, Table(idem, B), NEW k PROVE Table(Evict(k), B)
<1>1. idem \in Seq(Stored) /\ Len(idem) \in Nat /\ IdemEvict \in Nat \ {0}
  BY BookRequestsAssumption, LenProperties DEF Table
<1>2. CASE Evict(k) = idem
  BY <1>2
<1>3. CASE Evict(k) = SubSeq(idem, IdemEvict + 1, Len(idem))
  <2>1. PICK m \in Nat, n \in Nat : m = IdemEvict + 1 /\ n = Len(idem)
    BY <1>1
  <2>2. \A i \in m..n : idem[i] \in Stored
    BY <1>1, <2>1, ElementOfSeq
  <2>3. PICK I : I = SubSeq(idem, m, n)
    OBVIOUS
  <2>4. /\ I \in Seq(Stored) /\ Len(I) = IF m <= n THEN n - m + 1 ELSE 0
        /\ \A i \in 1..(n - m + 1) : I[i] = idem[m + i - 1]
    BY <2>2, <2>3, SubSeqProperties
  <2>5. \A i \in 1..Len(I) : m + i - 1 \in 1..Len(idem) /\ I[i] = idem[m + i - 1]
    BY <1>1, <2>1, <2>4
  <2>6. \A i, j \in 1..Len(I) : I[i].key = I[j].key => i = j
    BY <1>1, <2>1, <2>4, <2>5 DEF Table
  <2>7. \A i \in 1..Len(I) : MadeFor(B, I[i].id, I[i].canon)
    BY <2>5 DEF Table
  <2>8. Table(I, B)
    BY <2>4, <2>6, <2>7 DEF Table
  <2>9. QED
    BY <1>3, <2>1, <2>3, <2>8
<1>4. QED
  BY <1>2, <1>3 DEF Evict

(* A new key goes to the end.                                              *)
LEMMA TableAppend ==
  ASSUME NEW B, Table(idem, B), NEW e \in Stored, StoredFor(e.key) = {}, MadeFor(B, e.id, e.canon)
  PROVE  Table(Append(idem, e), B)
<1>1. idem \in Seq(Stored) /\ Len(idem) \in Nat
  BY LenProperties DEF Table
<1>2. PICK I : I = Append(idem, e)
  OBVIOUS
<1>3. /\ I \in Seq(Stored) /\ Len(I) = Len(idem) + 1
      /\ \A i \in 1..Len(idem) : I[i] = idem[i]
      /\ I[Len(idem) + 1] = e
  BY <1>1, <1>2, AppendProperties
<1>4. \A i \in 1..Len(I) : i \in 1..Len(idem) \/ i = Len(idem) + 1
  BY <1>1, <1>3
<1>5. \A i \in 1..Len(idem) : idem[i].key # e.key
  BY DEF StoredFor
<1>6. \A i, j \in 1..Len(I) : I[i].key = I[j].key => i = j
  BY <1>3, <1>4, <1>5 DEF Table
<1>7. \A i \in 1..Len(I) : MadeFor(B, I[i].id, I[i].canon)
  BY <1>3, <1>4 DEF Table
<1>8. QED
  BY <1>2, <1>3, <1>6, <1>7 DEF Table

(* A key that is there keeps its place.                                    *)
LEMMA TableReplace ==
  ASSUME NEW B, Table(idem, B), NEW e \in Stored, MadeFor(B, e.id, e.canon),
         NEW I, I = [i \in 1..Len(idem) |-> IF i \in StoredFor(e.key) THEN e ELSE idem[i]]
  PROVE  Table(I, B)
<1>1. idem \in Seq(Stored) /\ Len(idem) \in Nat /\ \A i \in 1..Len(idem) : idem[i] \in Stored
  BY LenProperties, ElementOfSeq DEF Table
<1>2. I \in [1..Len(idem) -> Stored]
  BY <1>1
<1>3. I \in Seq(Stored) /\ Len(I) = Len(idem)
  BY <1>1, <1>2
<1>4. \A i \in 1..Len(idem) : I[i] = IF i \in StoredFor(e.key) THEN e ELSE idem[i]
  OBVIOUS
<1>5. \A i \in 1..Len(idem) : I[i].key = idem[i].key
  BY <1>4 DEF StoredFor
<1>6. \A i \in 1..Len(idem) : MadeFor(B, I[i].id, I[i].canon)
  BY <1>4 DEF Table
<1>7. QED
  BY <1>3, <1>5, <1>6 DEF Table

LEMMA TableGrows == ASSUME NEW I, NEW B, NEW C, B \subseteq C, Table(I, B) PROVE Table(I, C)
BY DEF Table, MadeFor

-----------------------------------------------------------------------------
(* Initial states, and every step.                                         *)

LEMMA InvInit == Init => IInv
<1> SUFFICES ASSUME Init PROVE IInv
  OBVIOUS
<1>1. listing \in ListingRec
  BY BookRequestsAssumption DEF Init, ListingRec
<1>2. Numbered({})
  BY FS_EmptySet DEF Numbered
<1>3. bookings = {} /\ idem = <<>> /\ disk = [listing |-> listing, idem |-> idem, bookings |-> bookings]
  BY DEF Init, Snapshot
<1>4. RequestInv
  BY DEF Init, RequestInv, Idle
<1>5. AnswerInv /\ TermsConsented
  BY DEF Init, AnswerInv, TermsConsented
<1>6. QED
  BY <1>1, <1>2, <1>3, <1>4, <1>5, EmptyTable DEF IInv

(* A request that is in flight has its fields.                             *)
LEMMA AtStage ==
  ASSUME RequestInv, NEW r \in Request, req[r].pc \in Stage PROVE req[r] \in RequestRec
BY DEF RequestInv, Idle, Stage

(* A request moves on, or is done.                                         *)
LEMMA RequestMoves ==
  ASSUME RequestInv, NEW r \in Request, NEW q \in {Idle} \cup RequestRec, Goto(r, q),
         q.pc = "check" => q.key # NoKey,
         q.pc = "respond" => MadeFor(bookings', q.id, Canon(q)),
         bookings \subseteq bookings'
  PROVE  RequestInv'
<1>1. /\ req' \in [Request -> {Idle} \cup RequestRec] /\ req'[r] = q
      /\ \A u \in Request \ {r} : req'[u] = req[u]
  BY DEF Goto, RequestInv
<1>2. \A u \in Request : /\ req'[u].pc = "check" => req'[u].key # NoKey
                         /\ req'[u].pc = "respond" => MadeFor(bookings', req'[u].id, Canon(req'[u]))
  BY <1>1 DEF RequestInv, MadeFor
<1>3. QED
  BY <1>1, <1>2 DEF RequestInv

LEMMA RequestDone ==
  ASSUME RequestInv, NEW r \in Request, Done(r), bookings \subseteq bookings' PROVE RequestInv'
BY RequestMoves DEF Done, Idle

(* What the gates, the refusals and the owner leave alone.                 *)
LEMMA Quiet ==
  ASSUME IInv, listing' \in ListingRec, UNCHANGED <<bookings, idem, answer>>, RequestInv',
         (disk' = disk /\ listing' = listing)
           \/ disk' = [listing |-> listing', idem |-> idem', bookings |-> bookings']
  PROVE  IInv'
<1>1. disk'.bookings = bookings' /\ disk'.listing = listing' /\ Table(disk'.idem, bookings')
  BY DEF IInv
<1>2. AnswerInv' /\ TermsConsented'
  BY DEF IInv, AnswerInv, TermsConsented
<1>3. QED
  BY <1>1, <1>2 DEF IInv

LEMMA SendKeeps == ASSUME IInv, NEW r \in Request, Send(r) PROVE IInv'
<1>1. PICK p \in Principal, k \in Key \cup {NoKey}, c \in 0..MaxClaims, t \in Terms \cup {NoTerms} :
        Goto(r, [pc |-> "gates", principal |-> p, key |-> k, claim |-> c, echo |-> t, id |-> 0])
  BY DEF Send
<1>2. PICK q : q = [pc |-> "gates", principal |-> p, key |-> k, claim |-> c, echo |-> t, id |-> 0]
  OBVIOUS
<1>3. q \in RequestRec /\ q.pc = "gates"
  BY <1>2, BookRequestsAssumption DEF RequestRec, Stage
<1>4. UNCHANGED <<listing, idem, bookings, disk, answer>>
  BY DEF Send
<1>5. RequestInv'
  BY <1>1, <1>2, <1>3, <1>4, RequestMoves DEF IInv
<1>6. QED
  BY <1>4, <1>5, Quiet DEF IInv

LEMMA PassKeeps == ASSUME IInv, NEW r \in Request, PassGates(r) PROVE IInv'
<1>1. req[r] \in RequestRec
  BY AtStage DEF IInv, PassGates, Stage
<1>2. PICK q : q = [req[r] EXCEPT !.pc = IF req[r].key = NoKey THEN "reserve" ELSE "check", !.claim = 0]
  OBVIOUS
<1>3. q \in RequestRec /\ (q.pc = "check" => q.key # NoKey) /\ q.pc # "respond"
  <2>1. PICK pc \in {"reserve", "check"} : pc = IF req[r].key = NoKey THEN "reserve" ELSE "check"
    OBVIOUS
  <2>2. q = [pc |-> pc, principal |-> req[r].principal, key |-> req[r].key, claim |-> 0,
             echo |-> req[r].echo, id |-> req[r].id]
    BY <1>1, <1>2, <2>1 DEF RequestRec
  <2>3. 0 \in 0..MaxClaims /\ pc \in Stage
    BY BookRequestsAssumption DEF Stage
  <2>4. q \in RequestRec
    BY <1>1, <2>2, <2>3 DEF RequestRec
  <2>5. QED
    BY <2>1, <2>2, <2>4
<1>4. UNCHANGED <<listing, idem, bookings, disk, answer>> /\ Goto(r, q)
  BY <1>2 DEF PassGates
<1>5. RequestInv'
  BY <1>3, <1>4, RequestMoves DEF IInv
<1>6. QED
  BY <1>4, <1>5, Quiet DEF IInv

LEMMA RefuseKeeps == ASSUME IInv, NEW r \in Request, RefuseGates(r) \/ RefuseReserve(r) PROVE IInv'
<1>1. UNCHANGED <<listing, idem, bookings, disk, answer>> /\ Done(r)
  BY DEF RefuseGates, RefuseReserve
<1>2. RequestInv'
  BY <1>1, RequestDone DEF IInv
<1>3. QED
  BY <1>1, <1>2, Quiet DEF IInv

(* The replay: what is stored under the key is for the same payload.       *)
LEMMA CheckKeeps == ASSUME IInv, NEW r \in Request, CheckKey(r) PROVE IInv'
<1>1. req[r] \in RequestRec /\ req[r].pc = "check" /\ req[r].key # NoKey
  BY AtStage DEF IInv, CheckKey, Stage, RequestInv
<1>2. UNCHANGED <<listing, bookings, disk>> /\ idem' = Evict(req[r].key)
  BY DEF CheckKey
<1>3. Table(idem', bookings)
  BY <1>2, TableEvict DEF IInv
<1>4. RequestInv'
  <2>1. CASE Done(r)
    BY <1>2, <2>1, RequestDone DEF IInv
  <2>2. CASE Goto(r, [req[r] EXCEPT !.pc = "reserve"])
    <3>1. PICK q : q = [req[r] EXCEPT !.pc = "reserve"]
      OBVIOUS
    <3>2. q \in RequestRec /\ q.pc = "reserve"
      BY <1>1, <3>1 DEF RequestRec, Stage
    <3>3. QED
      BY <1>2, <2>2, <3>1, <3>2, RequestMoves DEF IInv
  <2>3. QED
    BY <2>1, <2>2 DEF CheckKey
<1>5. AnswerInv'
  <2>1. CASE answer' = answer
    BY <1>2, <2>1 DEF IInv, AnswerInv
  <2>2. ASSUME NEW i \in StoredFor(req[r].key), SameRequest(idem[i], req[r]),
               answer' = {[to |-> Canon(req[r]), id |-> idem[i].id]}
        PROVE  AnswerInv'
    <3>1. MadeFor(bookings, idem[i].id, idem[i].canon)
      BY <2>2 DEF IInv, Table, StoredFor
    <3>2. QED
      BY <1>2, <2>2, <3>1 DEF AnswerInv, SameRequest
  <2>3. QED
    BY <2>1, <2>2 DEF CheckKey
<1>6. TermsConsented'
  BY <1>2 DEF IInv, TermsConsented
<1>7. QED
  BY <1>2, <1>3, <1>4, <1>5, <1>6 DEF IInv

(* The reservation: a booking with an id of its own, and its terms agreed. *)
LEMMA ReserveKeeps == ASSUME IInv, NEW r \in Request, Reserve(r) PROVE IInv'
<1>1. req[r] \in RequestRec
  BY AtStage DEF IInv, Reserve, Stage
<1>2. PICK q \in RequestRec : q = req[r]
  BY <1>1
<1>3. PICK id : id = Cardinality(bookings) + 1
  OBVIOUS
<1>4. Cardinality(bookings) \in Nat /\ id \in 1..MaxBookings /\ IsFiniteSet(bookings)
  BY <1>3, FS_CardinalityType, BookRequestsAssumption DEF IInv, Numbered, Reserve
<1>5. PICK b : b = [id |-> id, canon |-> Canon(q), key |-> q.key,
                    terms |-> listing.terms, paid |-> listing.paid]
  OBVIOUS
<1>6. /\ bookings' = bookings \cup {b} /\ TermsAccepted(q)
      /\ Goto(r, [q EXCEPT !.pc = "respond", !.id = id])
      /\ UNCHANGED <<listing, idem, answer>>
      /\ disk' = [listing |-> listing', idem |-> idem', bookings |-> bookings']
  BY <1>2, <1>3, <1>5 DEF Reserve, Persist, Snapshot
<1>7. b.id = id /\ b.canon = Canon(q) /\ b.terms = listing.terms /\ b.paid = listing.paid
  BY <1>5
<1>8. b \notin bookings
  BY <1>3, <1>4, <1>7 DEF IInv, Numbered
<1>9. Cardinality(bookings') = Cardinality(bookings) + 1 /\ IsFiniteSet(bookings')
  BY <1>4, <1>6, <1>8, FS_AddElement
<1>10. Numbered(bookings')
  <2>1. \A c \in bookings' : c.id \in 1..Cardinality(bookings') /\ c.id \in 1..MaxBookings
    BY <1>3, <1>4, <1>6, <1>7, <1>9 DEF IInv, Numbered
  <2>2. \A c \in bookings : c.id # b.id
    BY <1>3, <1>4, <1>7 DEF IInv, Numbered
  <2>3. \A c, d \in bookings' : c.id = d.id => c = d
    BY <1>6, <2>2 DEF IInv, Numbered
  <2>4. QED
    BY <1>9, <2>1, <2>3 DEF Numbered
<1>11. RequestInv'
  <2>1. PICK n : n = [q EXCEPT !.pc = "respond", !.id = id]
    OBVIOUS
  <2>2. n = [pc |-> "respond", principal |-> q.principal, key |-> q.key, claim |-> q.claim,
             echo |-> q.echo, id |-> id]
    BY <2>1 DEF RequestRec
  <2>3. id \in 0..MaxBookings /\ "respond" \in Stage
    BY <1>4, BookRequestsAssumption DEF Stage
  <2>4. n \in RequestRec
    BY <2>2, <2>3 DEF RequestRec
  <2>5. n.pc = "respond" /\ n.id = id /\ Canon(n) = Canon(q)
    BY <2>2 DEF Canon
  <2>6. MadeFor(bookings', n.id, Canon(n))
    BY <1>6, <1>7, <2>5 DEF MadeFor
  <2>7. QED
    BY <1>6, <2>1, <2>4, <2>5, <2>6, RequestMoves DEF IInv
<1>12. AnswerInv'
  BY <1>6 DEF IInv, AnswerInv, MadeFor
<1>13. b.paid /\ b.terms # DefaultTerms => b.canon.echo = b.terms
  BY <1>6, <1>7 DEF TermsAccepted, Canon
<1>14. TermsConsented'
  BY <1>6, <1>13 DEF IInv, TermsConsented
<1>15. Table(idem', bookings')
  BY <1>6, TableGrows DEF IInv
<1>16. QED
  BY <1>6, <1>10, <1>11, <1>12, <1>14, <1>15 DEF IInv

(* The response goes to the one who booked, and into the table.            *)
LEMMA RespondKeeps == ASSUME IInv, NEW r \in Request, Respond(r) PROVE IInv'
<1>1. req[r] \in RequestRec /\ MadeFor(bookings, req[r].id, Canon(req[r]))
  BY AtStage DEF IInv, Respond, Stage, RequestInv
<1>2. PICK e : e = [key |-> req[r].key, canon |-> Canon(req[r]), id |-> req[r].id]
  OBVIOUS
<1>3. /\ e.key = req[r].key /\ e.id = req[r].id /\ e.canon = Canon(req[r])
      /\ MadeFor(bookings, e.id, e.canon)
      /\ req[r].key # NoKey => e \in Stored
  <2>1. req[r].id \in 1..MaxBookings
    BY <1>1 DEF IInv, Numbered, MadeFor
  <2>2. Canon(req[r]) \in Hash
    BY <1>1 DEF Canon, Hash, RequestRec
  <2>3. QED
    BY <1>1, <1>2, <2>1, <2>2 DEF Stored, RequestRec
<1>4. UNCHANGED <<listing, bookings>> /\ Done(r) /\ answer' = {[to |-> Canon(req[r]), id |-> req[r].id]}
  BY DEF Respond
<1>5. Table(idem', bookings)
  <2>1. CASE req[r].key = NoKey
    BY <2>1 DEF Respond, IInv
  <2>2. CASE req[r].key # NoKey /\ StoredFor(req[r].key) = {}
    <3>1. idem' = Append(idem, e)
      BY <1>2, <2>2 DEF Respond
    <3>2. QED
      BY <1>3, <2>2, <3>1, TableAppend DEF IInv
  <2>3. CASE req[r].key # NoKey /\ StoredFor(req[r].key) # {}
    <3>1. idem' = [i \in 1..Len(idem) |-> IF i \in StoredFor(e.key) THEN e ELSE idem[i]]
      BY <1>2, <1>3, <2>3 DEF Respond
    <3>2. QED
      BY <1>3, <2>3, <3>1, TableReplace DEF IInv
  <2>4. QED
    BY <2>1, <2>2, <2>3
<1>6. disk' = disk \/ disk' = [listing |-> listing', idem |-> idem', bookings |-> bookings']
  BY DEF Respond, Persist, Snapshot
<1>7. Table(disk'.idem, bookings') /\ disk'.bookings = bookings' /\ disk'.listing = listing'
  BY <1>4, <1>5, <1>6 DEF IInv
<1>8. RequestInv'
  BY <1>4, RequestDone DEF IInv
<1>9. AnswerInv' /\ TermsConsented'
  BY <1>1, <1>4 DEF IInv, AnswerInv, TermsConsented
<1>10. QED
  BY <1>4, <1>5, <1>7, <1>8, <1>9 DEF IInv

(* The owner's changes.                                                    *)
LEMMA ManageKeeps ==
  ASSUME IInv, MakePrivate \/ MakePublic \/ Archive \/ Edit \/ Remove PROVE IInv'
<1>1. PICK l : Manage(l)
  BY DEF MakePrivate, MakePublic, Archive, Edit, Remove
<1>2. listing' \in ListingRec
  <2>1. listing \in ListingRec
    BY DEF IInv
  <2>2. CASE MakePrivate
    <3>1. listing.claim + 1 \in 0..MaxClaims
      BY <2>1, <2>2, BookRequestsAssumption DEF MakePrivate, ListingRec
    <3>2. QED
      BY <2>1, <2>2, <3>1 DEF MakePrivate, Manage, ListingRec
  <2>3. CASE MakePublic \/ Archive \/ Remove
    BY <2>1, <2>3 DEF MakePublic, Archive, Remove, Manage, ListingRec
  <2>4. CASE Edit
    BY <2>1, <2>4, BookRequestsAssumption DEF Edit, Manage, ListingRec
  <2>5. QED
    BY <2>2, <2>3, <2>4
<1>3. /\ UNCHANGED <<idem, bookings, req, answer>>
      /\ disk' = [listing |-> listing', idem |-> idem', bookings |-> bookings']
  BY <1>1 DEF Manage, Persist, Snapshot
<1>4. RequestInv'
  BY <1>3 DEF IInv, RequestInv
<1>5. QED
  BY <1>2, <1>3, <1>4, Quiet

LEMMA RestartKeeps == ASSUME IInv, Restart PROVE IInv'
<1>1. /\ listing' = listing /\ bookings' = bookings /\ idem' = disk.idem
      /\ UNCHANGED <<disk, answer>> /\ req' = [r \in Request |-> Idle]
  BY DEF IInv, Restart
<1>2. RequestInv'
  BY <1>1 DEF RequestInv, Idle
<1>3. AnswerInv' /\ TermsConsented'
  BY <1>1 DEF IInv, AnswerInv, TermsConsented
<1>4. QED
  BY <1>1, <1>2, <1>3 DEF IInv

LEMMA InvStep == IInv /\ [Next]_vars => IInv'
<1> SUFFICES ASSUME IInv, [Next]_vars PROVE IInv'
  OBVIOUS
<1>1. CASE UNCHANGED vars
  BY <1>1 DEF vars, IInv, RequestInv, AnswerInv, TermsConsented
<1>2. QED
  BY <1>1, SendKeeps, PassKeeps, RefuseKeeps, CheckKeeps, ReserveKeeps, RespondKeeps, ManageKeeps,
     RestartKeeps DEF Next

(* The inductive invariant of booking requests.                            *)
THEOREM Invariance == Spec => []IInv
  BY InvInit, InvStep, PTL DEF Spec

(* Listing, stored responses and requests keep their types, and a key has one
   entry in the table.                                                     *)
THEOREM TypeCorrect == Spec => []TypeOK
<1>1. IInv => TypeOK
  BY DEF IInv, Table, RequestInv, TypeOK, Stored, RequestRec, Stage, Idle
<1>2. QED
  BY <1>1, Invariance, PTL

(* An answer shows a booking only to whom and for what it was made, fresh or
   replayed, whatever races and evictions there were (POST /book).         *)
THEOREM RepliesPrivate == Spec => []ReplayIsPrivate
<1>1. IInv => ReplayIsPrivate
  BY DEF IInv, AnswerInv, MadeFor, Numbered, ReplayIsPrivate
<1>2. QED
  BY <1>1, Invariance, PTL

(* Custom terms bind only a buyer that echoed them (POST /book).           *)
THEOREM ConsentGiven == Spec => []TermsConsented
<1>1. IInv => TermsConsented
  BY DEF IInv
<1>2. QED
  BY <1>1, Invariance, PTL
===============================================================================
