------------------------------ MODULE Registry ------------------------------
(***************************************************************************)
(* The registry of hubs, registry.py: a threaded HTTP service with one     *)
(* list of self-registered hubs in memory, its snapshot file, and the key  *)
(* its bootstrap document is signed with.  A registration takes the lock   *)
(* twice, for the limiter and for the record, after fetches from the hub.  *)
(* The document and the checker that verifies it are operators: what a     *)
(* reader gets is a function of the lists and the key.                     *)
(***************************************************************************)
EXTENDS Naturals, Sequences, FiniteSets

CONSTANTS
    Thread,         \* requests served at a time
    URL,            \* hubs, by url without a trailing slash
    Source,         \* client addresses
    OpenCap,        \* REG_OPEN_CAP
    PerSource,      \* REG_REGISTER_PER_SOURCE
    MaxIds,         \* bound: records made
    MaxClock,       \* bound: the clock, in limiter windows
    MaxStops        \* bound: restarts, failed writes and power cuts

VARIABLES
    up,             \* whether the service is serving
    open, verified, \* REGISTRY
    file,           \* STATE_FILE: the two lists, or Torn
    key, keyFile,   \* _SIGN_SK and KEY_FILE
    req,            \* what each thread is doing
    hits,           \* _REG_HITS
    clock, ids, stops,
    told,           \* ids answered with 201
    displaced,      \* ids evicted at OPEN_CAP
    published,      \* keys a reader could have pinned
    cut             \* whether the power was ever cut

regVars == <<up, open, verified, file, key, keyFile, req, hits, clock, ids, stops,
             told, displaced, published, cut>>

Torn == [open |-> <<>>, verified |-> {}, ok |-> FALSE]
NoHit == [start |-> 0, n |-> 0]
Idle == [pc |-> "idle", id |-> 0, url |-> "", at |-> 0, src |-> ""]
Record == [id : 1..MaxIds, url : URL, at : 0..MaxClock]

TypeOK ==
    /\ up \in BOOLEAN /\ cut \in BOOLEAN
    /\ \A n \in DOMAIN open : open[n] \in Record
    /\ Len(open) <= OpenCap
    /\ verified \subseteq Record
    /\ {key, keyFile} \subseteq 0..MaxStops + 1 /\ published \subseteq 1..MaxStops + 1
    /\ hits \in [Source -> [start : 0..MaxClock, n : 0..PerSource + 1]]

Init ==
    /\ up = FALSE /\ open = <<>> /\ verified = {}
    /\ file = [open |-> <<>>, verified |-> {}, ok |-> TRUE]
    /\ key = 0 /\ keyFile = 0
    /\ req = [t \in Thread |-> Idle]
    /\ hits = [s \in Source |-> NoHit]
    /\ clock = 0 /\ ids = 0 /\ stops = 0
    /\ told = {} /\ displaced = {} /\ published = {} /\ cut = FALSE

(***************************************************************************)
(* Start: the signing key before the lists, both before the first request. *)
(***************************************************************************)
(* A missing key is made and written, then used; a file that cannot be     *)
(* read as lists is ignored, and the next write replaces it.               *)
Start ==
    /\ ~up /\ up' = TRUE
    /\ keyFile' = IF keyFile = 0 THEN stops + 1 ELSE keyFile
    /\ key' = keyFile' /\ published' = published \cup {keyFile'}
    /\ open' = file.open /\ verified' = file.verified
    /\ hits' = [s \in Source |-> NoHit]
    /\ UNCHANGED <<file, req, clock, ids, stops, told, displaced, cut>>

(***************************************************************************)
(* POST /register.                                                         *)
(***************************************************************************)
(* The url is well formed, the hub echoes the nonce and its manifest is    *)
(* valid; any other answer of the hub is a 400 that leaves nothing behind. *)
Fetch(t) ==
    /\ up /\ req[t].pc = "idle"
    /\ \E u \in URL, s \in Source :
          req' = [req EXCEPT ![t] = [Idle EXCEPT !.pc = "fetched", !.url = u, !.src = s]]
    /\ UNCHANGED <<up, open, verified, file, key, keyFile, hits, clock, ids, stops,
                   told, displaced, published, cut>>

(* The limiter's section; a request it lets pass is stamped on the way to  *)
(* the next one.  Beyond the limit the count need not go on.               *)
Limit(t) ==
    LET s == req[t].src
        fresh == hits[s].n = 0 \/ hits[s].start < clock IN
    /\ up /\ req[t].pc = "fetched"
    /\ hits' = [hits EXCEPT ![s] = IF fresh THEN [start |-> clock, n |-> 1]
                                   ELSE [@ EXCEPT !.n = IF @ > PerSource THEN @ ELSE @ + 1]]
    /\ IF hits'[s].n > PerSource
       THEN req' = [req EXCEPT ![t] = Idle] /\ ids' = ids
       ELSE /\ ids < MaxIds /\ ids' = ids + 1
            /\ req' = [req EXCEPT ![t].pc = "stamped", ![t].id = ids', ![t].at = clock]
    /\ UNCHANGED <<up, open, verified, file, key, keyFile, clock, stops,
                   told, displaced, published, cut>>

(* Mutant: the section that files a record does not look again.            *)
ListedUnchecked(u) == FALSE
Listed(u) == \E n \in DOMAIN open : open[n].url = u

(* min by the stamp, the first of equals. *)
Oldest == CHOOSE n \in DOMAIN open :
             \A m \in DOMAIN open : \/ open[n].at < open[m].at
                                    \/ open[n].at = open[m].at /\ n <= m
Without(n) == SubSeq(open, 1, n - 1) \o SubSeq(open, n + 1, Len(open))
Kept == IF Len(open) >= OpenCap THEN Without(Oldest) ELSE open

(* Mutant: the answer goes out whether or not the file was written.        *)
FileAnyway(t) ==
    LET rec == [id |-> req[t].id, url |-> req[t].url, at |-> req[t].at] IN
    /\ up /\ req[t].pc = "stamped" /\ ~Listed(rec.url)
    /\ open' = Append(Kept, rec)
    /\ displaced' = displaced \cup {open[n].id : n \in {m \in DOMAIN open :
                                      \A k \in DOMAIN open' : open'[k] # open[m]}}
    /\ file' = file /\ stops < MaxStops /\ stops' = stops + 1
    /\ told' = told \cup {rec.id}
    /\ req' = [req EXCEPT ![t] = Idle]
    /\ UNCHANGED <<up, verified, key, keyFile, hits, clock, ids, published, cut>>

(* The record's section: a listed url is refused, the oldest makes room,   *)
(* the lists are written.  A write that raises leaves the record in memory *)
(* and the request without its 201.                                        *)
File(t) ==
    LET rec == [id |-> req[t].id, url |-> req[t].url, at |-> req[t].at] IN
    /\ up /\ req[t].pc = "stamped"
    /\ req' = [req EXCEPT ![t] = Idle]
    /\ IF Listed(rec.url) THEN UNCHANGED <<open, file, told, displaced, stops>>
       ELSE /\ open' = Append(Kept, rec)
            /\ displaced' = displaced \cup {open[n].id : n \in {m \in DOMAIN open :
                                              \A k \in DOMAIN open' : open'[k] # open[m]}}
            /\ \/ /\ file' = [open |-> open', verified |-> verified, ok |-> TRUE]
                  /\ told' = told \cup {rec.id} /\ stops' = stops
               \/ /\ stops < MaxStops /\ stops' = stops + 1
                  /\ UNCHANGED <<file, told>>
    /\ UNCHANGED <<up, verified, key, keyFile, hits, clock, ids, published, cut>>

(***************************************************************************)
(* The clock, the operator and the failures.                               *)
(***************************************************************************)
Tick ==
    /\ clock < MaxClock /\ clock' = clock + 1
    /\ UNCHANGED <<up, open, verified, file, key, keyFile, req, hits, ids, stops,
                   told, displaced, published, cut>>

(* The process ends, at any point: before os.replace the old file stands.  *)
Stop ==
    /\ up /\ stops < MaxStops /\ stops' = stops + 1
    /\ up' = FALSE /\ open' = <<>> /\ verified' = {} /\ key' = 0
    /\ req' = [t \in Thread |-> Idle]
    /\ UNCHANGED <<file, keyFile, hits, clock, ids, told, displaced, published, cut>>

(* Nothing is synced to the disk: a power cut may leave the state file     *)
(* without its contents.                                                   *)
PowerCut ==
    /\ up /\ stops < MaxStops /\ stops' = stops + 1
    /\ up' = FALSE /\ open' = <<>> /\ verified' = {} /\ key' = 0
    /\ req' = [t \in Thread |-> Idle]
    /\ file' = Torn /\ cut' = TRUE
    /\ UNCHANGED <<keyFile, hits, clock, ids, told, displaced, published>>

(* Operator review is an edit of the file of a stopped service: no route   *)
(* of it writes the verified tier.                                         *)
Review ==
    /\ ~up /\ file.ok
    /\ \E n \in DOMAIN file.open :
          file' = [file EXCEPT !.open = SubSeq(@, 1, n - 1) \o SubSeq(@, n + 1, Len(@)),
                               !.verified = @ \cup {file.open[n]}]
    /\ UNCHANGED <<up, open, verified, key, keyFile, req, hits, clock, ids, stops,
                   told, displaced, published, cut>>

Next ==
    \/ Start \/ Tick \/ Stop \/ PowerCut \/ Review
    \/ \E t \in Thread : Fetch(t) \/ Limit(t) \/ File(t)

Spec == Init /\ [][Next]_regVars

(***************************************************************************)
(* GET /registry.json and check_hub.py --registry.                         *)
(***************************************************************************)
Ids(list, set) == {list[n].id : n \in DOMAIN list} \cup {r.id : r \in set}
Document == [hubs |-> {open[n].url : n \in DOMAIN open} \cup {r.url : r \in verified},
             signedBy |-> key]
CheckRegistry(doc, hub, pinned) ==
    IF ~up THEN "UNREACHABLE"
    ELSE IF doc.signedBy = pinned /\ hub \in doc.hubs THEN "CONFORMANT"
    ELSE "NON-CONFORMANT"

(***************************************************************************)
(* Properties.                                                             *)
(***************************************************************************)
(* "one record per URL": however the two sections of registrations of one  *)
(* hub interleave, writes fail and the service restarts, the open tier     *)
(* lists a hub once, in memory and in the file.                            *)
OneURL ==
    \A list \in {open, file.open} :
        \A m, n \in DOMAIN list : list[m].url = list[n].url => m = n

(* A registration that was answered 201 is in the document readers verify  *)
(* under the key they pinned, and in the file for the next start, until it *)
(* made room as the oldest of a full list: failed writes, crashes,         *)
(* restarts and the operator's review do not lose it.  A power cut may.    *)
VouchedTillDisplaced ==
    ~cut => \A id \in told \ displaced :
        /\ id \in Ids(file.open, file.verified)
        /\ up => /\ id \in Ids(open, verified)
                 /\ \A r \in verified \cup {open[n] : n \in DOMAIN open} :
                       r.id = id => \A pin \in published :
                           CheckRegistry(Document, r.url, pin) = "CONFORMANT"
=============================================================================
