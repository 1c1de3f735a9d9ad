------------------------------- MODULE Reads -------------------------------
(***************************************************************************)
(* The public reads of app.py (do_GET /listings, /listings/<id>, /search,  *)
(* /suggest) and the gate of POST /book, against what the owner does to    *)
(* the listings meanwhile (/listings, /listings/<id>/manage).  A read      *)
(* selects listings under LOCK; /search writes them out, and the single    *)
(* reads check them, after it let go, from the dicts the owner is          *)
(* changing.  A walk is a client that reads page after page.               *)
(***************************************************************************)
EXTENDS Integers, Sequences, FiniteSets, SequencesExt

CONSTANTS
    Reader,         \* requests of strangers
    Text,           \* what title, tags and description say: one word
    Plain,          \* the words that JSON writes as they are: ASCII
    PageSize,       \* READ_PAGE_MAX, or the limit the client asks for
    MaxListings, MaxWrites, MaxClaims   \* bounds

VARIABLES
    listings,       \* LISTINGS: ids in the order they were posted
    posted,         \* ID_COUNTERS
    object,         \* id -> the dict; it outlives its place in LISTINGS
    index,          \* whether HUB_STORAGE_MODE has a full-text index, whether a first
                    \* write made it, and its rows
    acked,          \* ids whose last change was answered 200
    claims,         \* claim codes minted so far
    request,        \* Reader -> the read in progress, or what it answered
    walk,           \* the client that reads page after page
    writes

readsVars == <<listings, posted, object, index, acked, claims, request, walk, writes>>

Id == 1..MaxListings
AnyText == CHOOSE t \in Text : TRUE
Resting == [pc |-> "idle", kind |-> "get", claim |-> 0, term |-> AnyText,
            barred |-> {}, chosen |-> {}]
NoWalk == [on |-> FALSE, newest |-> FALSE, offset |-> 0, seen |-> <<>>,
           steady |-> {}, moved |-> FALSE, done |-> FALSE]

TypeOK ==
    /\ Range(listings) \subseteq 1..posted /\ IsInjective(listings) /\ posted \in 0..MaxListings
    /\ \A i \in Id : object[i].text \in Text /\ object[i].claim \in 0..claims
    /\ index.rows \subseteq Id \X Text /\ (index.made => index.on) /\ acked \subseteq Id /\ claims \in 0..MaxClaims
    /\ \A r \in Reader :
          /\ request[r].pc \in {"idle", "asked", "chosen", "passed", "told"}
          /\ request[r].chosen \cup request[r].barred \subseteq Id
    /\ walk.steady \subseteq Id /\ walk.offset \in 0..(MaxListings + PageSize)

Init ==
    /\ listings = <<>> /\ posted = 0
    /\ object = [i \in Id |-> [text |-> AnyText, private |-> FALSE, claim |-> 0,
                               archived |-> FALSE, demanding |-> FALSE]]
    /\ \E sqlite \in BOOLEAN : index = [on |-> sqlite, made |-> FALSE, rows |-> {}]
    /\ acked = {} /\ claims = 0 /\ writes = 0
    /\ request = [r \in Reader |-> Resting] /\ walk = NoWalk

(***************************************************************************)
(* What a read selects.                                                    *)
(***************************************************************************)
Open(dict) == ~dict.archived /\ ~dict.private
Browsed == {i \in Range(listings) : Open(object[i])}

(* search_ids: None before the first snapshot made the tables.  Then, and  *)
(* in file mode always, a word is sought in the listing's JSON, where what *)
(* is not ASCII is an escape sequence: such a word is not found there.     *)
Found(term) ==
    {i \in Browsed : IF index.made THEN <<i, term>> \in index.rows
                     ELSE object[i].text = term /\ term \in Plain}

(* The listings in the order a sort gives them, and one page: _paginate.   *)
Visible(list, dicts) ==
    LET upTo[n \in 0..Len(list)] ==
            IF n = 0 THEN <<>>
            ELSE IF Open(dicts[list[n]]) THEN Append(upTo[n - 1], list[n]) ELSE upTo[n - 1]
    IN  upTo[Len(list)]
Sorted(list, dicts, newest) ==
    IF newest THEN Reverse(Visible(list, dicts)) ELSE Visible(list, dicts)
(* Mutant: the page starts one after where the last one ended.             *)
PaginateAfter(list, offset) ==
    SubSeq(list, IF offset = 0 THEN 1 ELSE offset + 2,
           IF offset + PageSize > Len(list) THEN Len(list) ELSE offset + PageSize)
Paginate(list, offset) ==
    SubSeq(list, offset + 1,
           IF offset + PageSize > Len(list) THEN Len(list) ELSE offset + PageSize)

(***************************************************************************)
(* The owner's operations, each under one LOCK to its end.                 *)
(***************************************************************************)
(* _persist_locked writes everything and rebuilds the index with it, or    *)
(* raises: a 500, and memory stays changed.                                *)
(* Mutant: rows are added for new listings and left alone for edited ones. *)
IndexNewOnly(list, dicts) ==
    [on |-> TRUE, made |-> TRUE, rows |-> index.rows \cup
        {<<i, dicts[i].text>> : i \in {j \in Range(list) :
                                          \A t \in Text : <<j, t>> \notin index.rows}}]
IndexOf(list, dicts) ==
    [on |-> TRUE, made |-> TRUE, rows |-> {<<i, dicts[i].text>> : i \in Range(list)}]

(* What a request that presents a claim code, or none, may not have.       *)
Closed(dict, kind, claim) ==
    \/ dict.archived
    \/ dict.private /\ dict.claim # claim
    \/ kind = "book" /\ dict.demanding

(* barred: what was closed to a request when it came in, and ever since.   *)
Changed(i, dict, list) ==
    /\ writes < MaxWrites /\ writes' = writes + 1
    /\ object' = [object EXCEPT ![i] = dict] /\ listings' = list
    /\ \/ /\ index' = IF index.on THEN IndexOf(list, [object EXCEPT ![i] = dict]) ELSE index
          /\ acked' = acked \cup {i}
       \/ index' = index /\ acked' = acked \ {i}
    /\ request' = [r \in Reader |-> [request[r] EXCEPT !.barred =
           IF Closed(dict, request[r].kind, request[r].claim) THEN request[r].barred
           ELSE request[r].barred \ {i}]]
    /\ LET before == Sorted(listings, object, walk.newest)
           after == Sorted(list, [object EXCEPT ![i] = dict], walk.newest)
           read == IF walk.offset > Len(before) THEN Len(before) ELSE walk.offset
       IN  walk' = [walk EXCEPT
               !.steady = walk.steady \cap Range(after),
               !.moved = walk.moved \/ Len(after) < read
                                    \/ SubSeq(before, 1, read) # SubSeq(after, 1, read)]

Post ==
    /\ posted < MaxListings /\ posted' = posted + 1
    /\ \E t \in Text, private \in BOOLEAN, demanding \in BOOLEAN :
          /\ claims' = claims + (IF private THEN 1 ELSE 0) /\ claims' <= MaxClaims
          /\ Changed(posted', [text |-> t, private |-> private, demanding |-> demanding,
                               claim |-> IF private THEN claims' ELSE 0, archived |-> FALSE],
                     Append(listings, posted'))

Edit(i) ==
    /\ \E t \in Text, demanding \in BOOLEAN :
          Changed(i, [object[i] EXCEPT !.text = t, !.demanding = demanding], listings)
    /\ UNCHANGED <<posted, claims>>

Archive(i) ==
    /\ \E hide \in BOOLEAN : Changed(i, [object[i] EXCEPT !.archived = hide], listings)
    /\ UNCHANGED <<posted, claims>>

(* A fresh claim code each time; the old one dies.                         *)
MakePrivate(i) ==
    /\ claims < MaxClaims /\ claims' = claims + 1
    /\ Changed(i, [object[i] EXCEPT !.private = TRUE, !.claim = claims'], listings)
    /\ UNCHANGED posted

MakePublic(i) ==
    /\ Changed(i, [object[i] EXCEPT !.private = FALSE, !.claim = 0], listings)
    /\ UNCHANGED <<posted, claims>>

(* Refused while a booking is active; the model's bookings are.            *)
Delete(i) ==
    /\ \A r \in Reader : ~(request[r].kind = "book" /\ request[r].pc = "told"
                           /\ i \in request[r].chosen)
    /\ \E n \in DOMAIN listings :
          listings[n] = i /\ Changed(i, object[i], RemoveAt(listings, n))
    /\ UNCHANGED <<posted, claims>>

Manage == \E i \in Range(listings) : Edit(i) \/ Archive(i) \/ MakePrivate(i) \/ MakePublic(i) \/ Delete(i)

(***************************************************************************)
(* Requests of strangers, who may hold a claim code.                       *)
(***************************************************************************)
Ask(r) ==
    /\ request[r].pc = "idle"
    /\ \E kind \in {"list", "suggest", "search", "get", "book"}, claim \in 0..claims, term \in Text :
          /\ kind \notin {"get", "book"} => claim = 0
          /\ kind # "search" => term = AnyText
          /\ request' = [request EXCEPT ![r] =
                 [pc |-> "asked", kind |-> kind, claim |-> claim, term |-> term, chosen |-> {},
                  barred |-> {i \in Range(listings) : Closed(object[i], kind, claim)}]]
    /\ UNCHANGED <<listings, posted, object, index, acked, claims, walk, writes>>

(* Under LOCK: the whole answer of /listings and /suggest, the dicts of a   *)
(* search, the one dict of a single read.                                  *)
Select(r) ==
    /\ request[r].pc = "asked"
    /\ \/ /\ request[r].kind \in {"list", "suggest"}
          /\ request' = [request EXCEPT ![r].pc = "told", ![r].chosen = Browsed]
       \/ /\ request[r].kind = "search"
          /\ request' = [request EXCEPT ![r].pc = "passed",
                                        ![r].chosen = Found(request[r].term)]
       \/ /\ request[r].kind \in {"get", "book"}
          /\ \E i \in Range(listings) :
                request' = [request EXCEPT ![r].pc = "chosen", ![r].chosen = {i}]
    /\ UNCHANGED <<listings, posted, object, index, acked, claims, walk, writes>>

(* Outside it: visibility and claim, archived, the demand for a verified   *)
(* buyer, each of the dict as it is by then.                               *)
(* Mutant: the claim is not looked at.                                     *)
AdmitsAny(kind, claim, i) ==
    /\ ~object[i].archived /\ ~(kind = "book" /\ object[i].demanding)
    /\ ~object[i].private \/ claim # 0
Admits(kind, claim, i) ==
    /\ ~object[i].archived /\ ~(kind = "book" /\ object[i].demanding)
    /\ ~object[i].private \/ object[i].claim = claim
Pass(r) ==
    /\ request[r].pc = "chosen"
    /\ request' = [request EXCEPT ![r] =
           IF \A i \in request[r].chosen : Admits(request[r].kind, request[r].claim, i)
           THEN [request[r] EXCEPT !.pc = "passed"] ELSE Resting]
    /\ UNCHANGED <<listings, posted, object, index, acked, claims, walk, writes>>

(* The answer.  The reservation of a booking looks the listing up again:   *)
(* whether it is there and archived, not whether it is private or demands. *)
Tell(r) ==
    /\ request[r].pc = "passed"
    /\ request' = [request EXCEPT ![r] =
           IF request[r].kind = "book" /\ \E i \in request[r].chosen :
                  i \notin Range(listings) \/ object[i].archived
           THEN Resting ELSE [request[r] EXCEPT !.pc = "told"]]
    /\ UNCHANGED <<listings, posted, object, index, acked, claims, walk, writes>>

(***************************************************************************)
(* A client that pages through /listings or a sorted /search.              *)
(***************************************************************************)
SetOut ==
    /\ ~walk.on
    /\ \E newest \in BOOLEAN :
          walk' = [NoWalk EXCEPT !.on = TRUE, !.newest = newest, !.steady = Browsed]
    /\ UNCHANGED <<listings, posted, object, index, acked, claims, request, writes>>

NextPage ==
    /\ walk.on /\ ~walk.done
    /\ LET list == Sorted(listings, object, walk.newest)
       IN  walk' = [walk EXCEPT !.seen = walk.seen \o Paginate(list, walk.offset),
                                !.offset = walk.offset + PageSize,
                                !.done = walk.offset + PageSize >= Len(list)]
    /\ UNCHANGED <<listings, posted, object, index, acked, claims, request, writes>>

Next ==
    \/ Post \/ Manage \/ SetOut \/ NextPage
    \/ \E r \in Reader : Ask(r) \/ Select(r) \/ Pass(r) \/ Tell(r)

Spec == Init /\ [][Next]_readsVars

(***************************************************************************)
(* Properties.                                                             *)
(***************************************************************************)
(* What was closed when a request came in, and was not opened since, is    *)
(* not in its answer and not booked by it, wherever the owner's changes    *)
(* fall between its look-up, its check and its end.                        *)
ClosedStaysClosed ==
    \A r \in Reader : request[r].pc = "told" => request[r].chosen \cap request[r].barred = {}

(* A client that followed the pages to the end has read every listing that *)
(* was there all along, and none twice, unless something it had already    *)
(* read moved.                                                             *)
WalkComplete ==
    walk.done /\ ~walk.moved => walk.steady \subseteq Range(walk.seen) /\ IsInjective(walk.seen)

(* A search finds every open listing whose last change was acknowledged,   *)
(* by the words it has now, writes that failed in between or not.  File    *)
(* mode has no index, and finds by ASCII words only.                       *)
SearchFinds ==
    \A i \in Browsed \cap acked :
        index.on \/ object[i].text \in Plain => i \in Found(object[i].text)
=============================================================================
