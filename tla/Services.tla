------------------------------ MODULE Services ------------------------------
(***************************************************************************)
(* The services around the booking engine: challenges, the listing side of *)
(* the chat, the registry, the registry checker, storage, the public reads *)
(* and personhood.  They share no state, so one of them is chosen at the   *)
(* start and the others stand still: the state space is the union of       *)
(* theirs, not the product, and what holds of each holds of the whole.     *)
(***************************************************************************)
EXTENDS Integers, Sequences, FiniteSets

CONSTANTS
    (* ProofOfWork *) Kind, PowCap, MaxIssued, MaxAccepted, MaxRestarts,
    (* Intake *)      Steps, AnonCap, AccountCap, MaxMade,
    (* Registry *)    Thread, URL, Source, OpenCap, PerSource, MaxIds, MaxClock,
    (* HubCheck *)    Price, Pct, MaxEntries, MaxReprices,
    (* Storage *)     Fsync, BackupKeep, MaxSnapshots,
    (* Reads *)       Reader, Text, Plain, PageSize, MaxListings, MaxWrites, MaxClaims,
    (* Credential *)  Account, Credentials, Asker, Page, MaxChain, MaxMarks,
    (* Registry and Storage *) MaxStops

(* Limits are numbers; there is room for one hub; money is cents; pages    *)
(* and ids are counted.                                                    *)
ASSUME ProofOfWorkAssumption == {PowCap, MaxIssued, MaxAccepted, MaxRestarts} \subseteq Nat
ASSUME RegistryAssumption == OpenCap \in Nat \ {0}
ASSUME CheckerAssumption == Price \subseteq Nat /\ Pct \subseteq Nat
ASSUME ReadsAssumption == {PageSize, MaxListings} \subseteq Nat

VARIABLES
    part,
    (* ProofOfWork *)
    table, expired, solved, issued, accepted, restarts,
    (* Intake *)
    draft, sender, count, mine, foreign,
    (* Registry *)
    serving, open, verified, file, key, keyFile, req, hits, clock, ids, stops,
    told, displaced, published, cut,
    (* HubCheck *)
    dark, pct, cheat, ledger, totals, served, step, declared, verdict, raced, repriced,
    (* Storage *)
    mode, hub, loaded, begun, returned, pc, by, tmp, state, synced, backups,
    restoring, origin, put, beside, failures,
    (* Reads *)
    listings, posted, object, index, acked, claims, request, walk, writes,
    (* Credential *)
    admitted, revoked, shown, account, asking, session, answered, late, chain, marks

Pow == INSTANCE ProofOfWork
Talk == INSTANCE Intake WITH account <- sender, listings <- mine, MaxListings <- MaxMade
Reg == INSTANCE Registry WITH up <- serving
Chk == INSTANCE HubCheck WITH pc <- step, restarts <- repriced, MaxRestarts <- MaxReprices
Sto == INSTANCE Storage WITH stops <- failures, MaxWrites <- MaxSnapshots
Rd == INSTANCE Reads
Cred == INSTANCE Credential WITH request <- asking, told <- answered, Request <- Asker

(* The mark of "no credential" is not a credential.                        *)
ASSUME CredentialAssumption == Cred!None \notin Credentials

Parts  == {"challenges", "intake", "registry", "checker", "storage", "walk", "ask", "index",
           "personhood"}
AnyPct == CHOOSE p \in Pct : TRUE
reads  == {"walk", "ask", "index"}

Init ==
    /\ part \in Parts
    /\ Pow!Init /\ Talk!Init /\ Reg!Init /\ Chk!Init /\ Sto!Init /\ Rd!Init /\ Cred!Init
    /\ part # "checker" => pct = AnyPct /\ cheat = "none"
    /\ part # "storage" => mode = "file"
    /\ part \notin {"ask", "index"} => index.on

(* The reads in three parts: a client that pages while the owner changes   *)
(* what says nothing else about a listing; one request; the index alone.   *)
Scope ==
    CASE part = "walk"  -> /\ request' = request /\ claims' = claims
                           /\ \A i \in Rd!Id : object'[i].text = Rd!AnyText /\ ~object'[i].demanding
      [] part = "ask"   -> walk' = walk /\ posted' <= 1
      [] part = "index" -> walk' = walk /\ request' = request /\ posted' <= 2

powVars  == <<table, expired, solved, issued, accepted, restarts>>
talkVars == <<draft, sender, count, mine, foreign>>
regVars  == <<serving, open, verified, file, key, keyFile, req, hits, clock, ids, stops,
              told, displaced, published, cut>>
chkVars  == <<dark, pct, cheat, ledger, totals, served, step, declared, verdict, raced, repriced>>
stoVars  == <<mode, hub, loaded, begun, returned, pc, by, tmp, state, synced, backups,
              restoring, origin, put, beside, failures>>
rdVars   == <<listings, posted, object, index, acked, claims, request, walk, writes>>
credVars == <<admitted, revoked, shown, account, asking, session, answered, late, chain, marks>>
vars     == <<part, powVars, talkVars, regVars, chkVars, stoVars, rdVars, credVars>>

Next ==
    /\ part' = part
    /\ \/ part = "challenges" /\ Pow!Next
       \/ part # "challenges" /\ UNCHANGED powVars
    /\ \/ part = "intake" /\ Talk!Next
       \/ part # "intake" /\ UNCHANGED talkVars
    /\ \/ part = "registry" /\ Reg!Next
       \/ part # "registry" /\ UNCHANGED regVars
    /\ \/ part = "checker" /\ Chk!Next
       \/ part # "checker" /\ UNCHANGED chkVars
    /\ \/ part = "storage" /\ Sto!Next
       \/ part # "storage" /\ UNCHANGED stoVars
    /\ \/ part \in reads /\ Rd!Next /\ Scope
       \/ part \notin reads /\ UNCHANGED rdVars
    /\ \/ part = "personhood" /\ Cred!Next
       \/ part # "personhood" /\ UNCHANGED credVars

Spec == Init /\ [][Next]_vars

(* Work is not lost to a full table or a wrong solution (ProofOfWork).    *)
WorkNotLost == Pow!WorkNotLost
(* The slots the chat counts are the live listings it made (Intake).       *)
SlotsExact == Talk!SlotsExact
(* The registry lists a hub once, in memory and in its file (Registry).    *)
OneURL == Reg!OneURL
(* A registration answered 201 stays verifiable until displaced (Registry). *)
VouchedTillDisplaced == Reg!VouchedTillDisplaced
(* The checker's verdict fits the hub it looked at (HubCheck).             *)
VerdictFits == Chk!VerdictFits
(* Both storage modes implement the durable store (Storage).               *)
StoreKept == Sto!StoreKept
(* A finished restore is what the next hub runs on (Storage).              *)
RestoreSticks == Sto!RestoreSticks
(* What stays closed to a request is not in its answer (Reads).            *)
ClosedStaysClosed == Rd!ClosedStaysClosed
(* A client that pages to the end misses nothing that stood still (Reads). *)
WalkComplete == Rd!WalkComplete
(* A search finds what was acknowledged, by its words of now (Reads).      *)
SearchFinds == Rd!SearchFinds
(* No personhood credential is held by two accounts (Credential).          *)
OneHolder == Cred!OneHolder
(* A credential answered to be revoked no longer marks (Credential).       *)
RevokedLoses == Cred!RevokedLoses
=============================================================================
