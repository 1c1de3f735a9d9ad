--------------------------- MODULE Services_proof ---------------------------
(***************************************************************************)
(* Proofs about the services, for any values of their constants: the       *)
(* challenge table, the chat's listing slots, storage, the public reads    *)
(* and personhood.  A step of the whole is a step of one service and       *)
(* leaves the others alone, so that each has an invariant of its own.      *)
(***************************************************************************)
EXTENDS Services, Data_proof

(***************************************************************************)
(* ProofOfWork                                                             *)
(***************************************************************************)

PowEntry == [kind : Kind, used : BOOLEAN]

PowType ==
    /\ table \in [Pow!Stored -> PowEntry]
    /\ issued \in 0..MaxIssued
    /\ Pow!Stored \subseteq Pow!Issued
    /\ expired \subseteq Pow!Issued
    /\ solved \subseteq Pow!Issued
    /\ accepted \in [Pow!Challenge -> Nat]
    /\ restarts \in Nat

(* A mark means that the challenge was accepted.                           *)
PowMark == \A c \in Pow!Stored : table[c].used => accepted[c] > 0

PowInv == PowType /\ PowMark /\ Pow!WorkNotLost

(* Pruning takes expired challenges only.                                  *)
LEMMA PowPruneKeeps == ASSUME NEW T PROVE Pow!Prune(T) \subseteq T /\ T \ expired \subseteq Pow!Prune(T)
BY DEF Pow!Prune

LEMMA PowInit == Pow!Init => PowInv
<1> SUFFICES ASSUME Pow!Init PROVE PowInv
  OBVIOUS
<1>1. Pow!Stored = {} /\ table \in [Pow!Stored -> PowEntry]
  BY DEF Pow!Init, Pow!Stored
<1>2. QED
  BY <1>1, ProofOfWorkAssumption
     DEF Pow!Init, PowInv, PowType, PowMark, Pow!WorkNotLost, Pow!Issued, Pow!Challenge

(* A challenge that is issued enters the table, which may lose expired ones. *)
LEMMA PowIssueKeeps == ASSUME PowInv, NEW k \in Kind, Pow!Issue(k) PROVE PowInv'
<1> DEFINE c == issued + 1
           T == Pow!Stored \cup {c}
           grown == [d \in T |-> IF d = c THEN [kind |-> k, used |-> FALSE] ELSE table[d]]
<1>1. c \in Pow!Challenge /\ issued' = c /\ table' = [d \in Pow!Prune(T) |-> grown[d]]
  BY DEF Pow!Issue
<1>2. UNCHANGED <<expired, solved, accepted, restarts>>
  BY DEF Pow!Issue
<1>3. Pow!Prune(T) \subseteq T /\ T \ expired \subseteq Pow!Prune(T)
  BY PowPruneKeeps
<1>4. Pow!Stored' = Pow!Prune(T)
  BY <1>1 DEF Pow!Stored
<1>5. issued \in Nat /\ Pow!Issued' = Pow!Issued \cup {c} /\ c \notin Pow!Issued
  BY <1>1, ProofOfWorkAssumption DEF PowInv, PowType, Pow!Issued
<1>6. \A d \in Pow!Prune(T) : table'[d] = IF d = c THEN [kind |-> k, used |-> FALSE] ELSE table[d]
  BY <1>1, <1>3
<1>7. \A d \in Pow!Prune(T) : table'[d] \in PowEntry
  <2> SUFFICES ASSUME NEW d \in Pow!Prune(T) PROVE table'[d] \in PowEntry
    OBVIOUS
  <2>1. CASE d = c
    <3>1. [kind |-> k, used |-> FALSE] \in PowEntry
      BY DEF PowEntry
    <3>2. QED
      BY <1>6, <2>1, <3>1
  <2>2. CASE d # c
    <3>1. table[d] \in PowEntry
      BY <1>3, <2>2 DEF PowInv, PowType
    <3>2. QED
      BY <1>6, <2>2, <3>1
  <2>3. QED
    BY <2>1, <2>2
<1>8. PowType'
  <2>1. table' \in [Pow!Prune(T) -> PowEntry]
    BY <1>1, <1>7
  <2>2. issued' \in 0..MaxIssued
    BY <1>1, <1>5, ProofOfWorkAssumption DEF Pow!Challenge
  <2>3. QED
    BY <1>2, <1>3, <1>4, <1>5, <2>1, <2>2 DEF PowInv, PowType
<1>9. PowMark'
  <2> SUFFICES ASSUME NEW d \in Pow!Prune(T), table'[d].used PROVE accepted[d] > 0
    BY <1>2, <1>4 DEF PowMark
  <2>1. d # c
    BY <1>6
  <2>2. d \in Pow!Stored /\ table[d].used
    BY <1>3, <1>6, <2>1
  <2>3. QED
    BY <2>2 DEF PowInv, PowMark
<1>10. Pow!WorkNotLost'
  <2> SUFFICES ASSUME restarts' = 0, NEW d \in Pow!Issued', accepted'[d] = 0, d \notin expired'
               PROVE  d \in Pow!Stored' /\ ~table'[d].used
    BY DEF Pow!WorkNotLost
  <2>1. d \in T \ expired
    BY <1>2, <1>5 DEF PowInv, Pow!WorkNotLost
  <2>2. d \in Pow!Prune(T)
    BY <1>3, <2>1
  <2>3. d # c => d \in Pow!Stored /\ ~table[d].used
    BY <1>2, <1>5 DEF PowInv, Pow!WorkNotLost
  <2>4. QED
    BY <1>4, <1>6, <2>2, <2>3
<1>11. QED
  BY <1>8, <1>9, <1>10 DEF PowInv

(* The spend sets a mark with an acceptance, and drops only what expired.  *)
LEMMA PowSpendKeeps == ASSUME PowInv, NEW k \in Kind, NEW c \in Pow!Challenge, Pow!Spend(k, c) PROVE PowInv'
<1>1. c \in Pow!Stored /\ UNCHANGED <<expired, solved, issued, restarts>>
  BY DEF Pow!Spend
<1>2. CASE table[c].used /\ table' = [table EXCEPT ![c].used = FALSE] /\ UNCHANGED accepted
  <2>1. accepted[c] > 0
    BY <1>1, <1>2 DEF PowInv, PowMark
  <2>2. Pow!Stored' = Pow!Stored /\ table' \in [Pow!Stored -> PowEntry]
    BY <1>1, <1>2 DEF Pow!Stored, PowInv, PowType, PowEntry
  <2>3. ~table'[c].used /\ \A d \in Pow!Stored \ {c} : table'[d] = table[d]
    BY <1>1, <1>2 DEF Pow!Stored, PowInv, PowType, PowEntry
  <2>4. QED
    BY <1>1, <1>2, <2>1, <2>2, <2>3 DEF PowInv, PowType, PowMark, Pow!WorkNotLost, Pow!Issued
<1>3. CASE c \in expired /\ table' = Pow!Keep(Pow!Stored \ {c}) /\ UNCHANGED accepted
  <2>1. Pow!Stored' = Pow!Stored \ {c} /\ \A d \in Pow!Stored \ {c} : table'[d] = table[d]
    BY <1>3 DEF Pow!Stored, Pow!Keep
  <2>2. table' \in [Pow!Stored \ {c} -> PowEntry]
    BY <1>3 DEF Pow!Keep, PowInv, PowType
  <2>3. QED
    BY <1>1, <1>3, <2>1, <2>2 DEF PowInv, PowType, PowMark, Pow!WorkNotLost, Pow!Issued
<1>4. CASE table' = [table EXCEPT ![c].used = TRUE] /\ accepted' = [accepted EXCEPT ![c] = @ + 1]
  <2>1. Pow!Stored' = Pow!Stored /\ table' \in [Pow!Stored -> PowEntry]
    BY <1>1, <1>4 DEF Pow!Stored, PowInv, PowType, PowEntry
  <2>2. \A d \in Pow!Stored \ {c} : table'[d] = table[d]
    BY <1>1, <1>4 DEF Pow!Stored, PowInv, PowType
  <2>3. accepted' \in [Pow!Challenge -> Nat] /\ accepted'[c] > 0
    BY <1>4 DEF PowInv, PowType
  <2>4. \A d \in Pow!Challenge \ {c} : accepted'[d] = accepted[d]
    BY <1>4 DEF PowInv, PowType
  <2>5. Pow!Issued \subseteq Pow!Challenge
    BY ProofOfWorkAssumption DEF PowInv, PowType, Pow!Issued, Pow!Challenge
  <2>6. QED
    BY <1>1, <2>1, <2>2, <2>3, <2>4, <2>5 DEF PowInv, PowType, PowMark, Pow!WorkNotLost, Pow!Issued
<1>5. QED
  BY <1>2, <1>3, <1>4 DEF Pow!Spend

LEMMA PowNext == PowInv /\ [Pow!Next]_powVars => PowInv'
<1> SUFFICES ASSUME PowInv, [Pow!Next]_powVars PROVE PowInv'
  OBVIOUS
<1>1. ASSUME NEW c \in Pow!Challenge, Pow!Solve(c) \/ Pow!Expire(c) PROVE PowInv'
  <2>1. UNCHANGED <<table, issued, accepted, restarts>> /\ expired \subseteq expired'
    BY <1>1 DEF Pow!Solve, Pow!Expire
  <2>2. expired' \subseteq Pow!Issued /\ solved' \subseteq Pow!Issued
    BY <1>1 DEF Pow!Solve, Pow!Expire, PowInv, PowType
  <2>3. QED
    BY <2>1, <2>2 DEF PowInv, PowType, PowMark, Pow!WorkNotLost, Pow!Stored, Pow!Issued
<1>2. CASE Pow!Restart
  <2>1. Pow!Stored' = {} /\ table' \in [Pow!Stored' -> PowEntry]
    BY <1>2 DEF Pow!Restart, Pow!Stored
  <2>2. QED
    BY <1>2, <2>1 DEF Pow!Restart, PowInv, PowType, PowMark, Pow!WorkNotLost, Pow!Issued
<1>3. CASE UNCHANGED powVars
  BY <1>3 DEF powVars, PowInv, PowType, PowMark, Pow!WorkNotLost, Pow!Stored, Pow!Issued
<1>4. QED
  BY <1>1, <1>2, <1>3, PowIssueKeeps, PowSpendKeeps DEF Pow!Next

LEMMA PowStep == [Next]_vars => [Pow!Next]_powVars
  BY DEF Next, vars

LEMMA PowInvariance == Spec => []PowInv
<1>1. Init => PowInv
  BY PowInit DEF Init
<1>2. PowInv /\ [Next]_vars => PowInv'
  BY PowNext, PowStep
<1>. QED  BY <1>1, <1>2, PTL DEF Spec

(* The table holds issued challenges, and a mark means an acceptance.      *)
THEOREM ChallengeTypeCorrect == Spec => []Pow!TypeOK
<1>1. PowInv => Pow!TypeOK
  BY DEF PowInv, PowType, PowMark, Pow!TypeOK, PowEntry
<1>. QED  BY <1>1, PowInvariance, PTL

(* Until the hub restarts, a solved challenge that was not accepted and has
   not expired is never lost, whatever the cap of the table (_pow_issue).  *)
THEOREM WorkKept == Spec => []WorkNotLost
<1>1. PowInv => WorkNotLost
  BY DEF PowInv, WorkNotLost
<1>. QED  BY <1>1, PowInvariance, PTL

(***************************************************************************)
(* Storage                                                                 *)
(***************************************************************************)

StoType ==
    /\ mode \in {"file", "sqlite"} /\ hub \in {"down", "up"} /\ by \in {"hub", "tool"}
    /\ pc \in {"idle", "backup", "dump", "sync", "replace", "syncdir", "done"}
    /\ begun \in Nat /\ returned \in Nat /\ loaded \in Nat
    /\ state \in Nat /\ synced \in Nat
    /\ tmp \in [seen : Int, disk : Int]

(* What is seen under the state's name, and what a power cut leaves of it, *)
(* is one whole snapshot that is not older than the last acknowledged.     *)
StoWithin == /\ returned <= state /\ state <= begun
          /\ returned <= synced /\ synced <= begun

(* How far the write in progress has come.                                 *)
StoProgress ==
    /\ pc # "idle" => begun # 0
    /\ pc = "sync" => tmp.seen = begun
    /\ pc = "replace" => tmp.seen = begun /\ tmp.disk = begun
    /\ pc = "syncdir" => state = begun /\ tmp.disk = begun
    /\ pc = "done" => state = begun /\ synced = begun

(* What the last restore promised is the content of the newest snapshot,   *)
(* and no write has begun since; a hub that runs while the tool writes was *)
(* started beside it.                                                      *)
StoPromised ==
    /\ put # 0 => pc = "idle" /\ returned = begun /\ begun # 0 /\ origin[begun] = put
    /\ pc # "idle" /\ by = "tool" /\ hub = "up" => beside

StoInv == StoType /\ StoWithin /\ StoProgress /\ StoPromised /\ Sto!RestoreSticks

LEMMA StoInit == Sto!Init => StoInv
BY DEF Sto!Init, StoInv, StoType, StoWithin, StoProgress, StoPromised, Sto!RestoreSticks

(* A write begins: nothing that is seen changes.                           *)
LEMMA StoBeginKeeps == ASSUME StoInv, Sto!Persist \/ Sto!Restore PROVE StoInv'
<1>1. /\ pc' = "backup" /\ begun' = begun + 1 /\ put' = 0 /\ by' \in {"hub", "tool"}
      /\ by' = "hub" \/ hub' = "down"
      /\ hub' \in {hub, "down"}
      /\ UNCHANGED <<mode, loaded, returned, tmp, state, synced>>
  BY DEF Sto!Persist, Sto!Restore, Sto!Begin
<1>2. QED
  BY <1>1 DEF StoInv, StoType, StoWithin, StoProgress, StoPromised, Sto!RestoreSticks

(* The steps of a write.                                                   *)
LEMMA StoWriteKeeps ==
  ASSUME Fsync, StoInv, Sto!Backup \/ Sto!Commit \/ Sto!Dump \/ Sto!SyncTmp \/ Sto!Replace \/ Sto!SyncDir
  PROVE StoInv'
<1>1. /\ pc # "idle" /\ pc' # "idle"
      /\ UNCHANGED <<mode, hub, loaded, begun, returned, by, origin, put, beside>>
  BY DEF Sto!Backup, Sto!Commit, Sto!Dump, Sto!SyncTmp, Sto!Replace, Sto!SyncDir
<1>2. StoPromised' /\ Sto!RestoreSticks'
  BY <1>1 DEF StoInv, StoPromised, Sto!RestoreSticks
<1>3. CASE Sto!Backup
  BY <1>1, <1>2, <1>3 DEF Sto!Backup, StoInv, StoType, StoWithin, StoProgress
<1>4. CASE Sto!Commit
  BY <1>1, <1>2, <1>4 DEF Sto!Commit, StoInv, StoType, StoWithin, StoProgress
<1>5. CASE Sto!Dump
  <2>1. PICK t : t = [seen |-> begun, disk |-> Sto!Part]
    OBVIOUS
  <2>2. t \in [seen : Int, disk : Int] /\ t.seen = begun
    BY <2>1 DEF StoInv, StoType, Sto!Part
  <2>3. tmp' = t /\ pc' = "sync" /\ UNCHANGED <<state, synced>>
    BY <1>5, <2>1 DEF Sto!Dump
  <2>4. QED
    BY <1>1, <1>2, <2>2, <2>3 DEF StoInv, StoType, StoWithin, StoProgress
<1>6. CASE Sto!SyncTmp
  <2>1. PICK t : t = [tmp EXCEPT !.disk = tmp.seen]
    OBVIOUS
  <2>2. t \in [seen : Int, disk : Int] /\ t.seen = tmp.seen /\ t.disk = tmp.seen
    BY <2>1 DEF StoInv, StoType
  <2>3. tmp' = t /\ pc = "sync" /\ pc' = "replace" /\ UNCHANGED <<state, synced>>
    BY <1>6, <2>1 DEF Sto!SyncTmp
  <2>4. QED
    BY <1>1, <1>2, <2>2, <2>3 DEF StoInv, StoType, StoWithin, StoProgress
<1>7. CASE Sto!Replace
  BY <1>1, <1>2, <1>7 DEF Sto!Replace, StoInv, StoType, StoWithin, StoProgress
<1>8. CASE Sto!SyncDir
  BY <1>1, <1>2, <1>8 DEF Sto!SyncDir, StoInv, StoType, StoWithin, StoProgress
<1>9. QED
  BY <1>3, <1>4, <1>5, <1>6, <1>7, <1>8

LEMMA StoReturnKeeps == ASSUME StoInv, Sto!Return PROVE StoInv'
<1>1. /\ pc' = "idle" /\ returned' = begun /\ begun # 0 /\ state = begun /\ synced = begun
      /\ put' # 0 => by = "tool" /\ put' = origin[begun]
      /\ UNCHANGED <<mode, hub, loaded, begun, by, tmp, state, synced, origin, beside>>
      /\ pc # "idle"
  BY DEF Sto!Return, StoInv, StoProgress
<1>2. QED
  BY <1>1 DEF StoInv, StoType, StoWithin, StoProgress, StoPromised, Sto!RestoreSticks

(* A write raises, a process is killed, the power goes: what is seen then  *)
(* was durable or is still there.                                          *)
LEMMA StoFailureKeeps == ASSUME StoInv, Sto!Raise \/ Sto!Kill \/ Sto!PowerCut PROVE StoInv'
<1>1. /\ pc' = "idle" /\ hub' \in {hub, "down"} /\ state' \in {state, synced}
      /\ UNCHANGED <<mode, loaded, begun, returned, by, synced, origin, put, beside>>
  BY DEF Sto!Raise, Sto!Kill, Sto!PowerCut
<1>2. tmp' \in [seen : Int, disk : Int]
  BY DEF Sto!Raise, Sto!Kill, Sto!PowerCut, StoInv, StoType, Sto!Part
<1>3. QED
  BY <1>1, <1>2 DEF StoInv, StoType, StoWithin, StoProgress, StoPromised, Sto!RestoreSticks

(* A start loads the state that is there.                                  *)
LEMMA StoStartKeeps == ASSUME StoInv, Sto!Start \/ Sto!StartBeside PROVE StoInv'
<1>1. /\ hub' = "up" /\ loaded' = state
      /\ (beside' = FALSE /\ pc = "idle") \/ beside' = TRUE
      /\ UNCHANGED <<mode, begun, returned, pc, by, tmp, state, synced, origin, put>>
  BY DEF Sto!Start, Sto!StartBeside, StoInv, StoType, Sto!Part
<1>2. QED
  BY <1>1 DEF StoInv, StoType, StoWithin, StoProgress, StoPromised, Sto!RestoreSticks

LEMMA StoNext == ASSUME Fsync, StoInv, [Sto!Next]_stoVars PROVE StoInv'
<1>1. CASE Sto!Next
  BY <1>1, StoBeginKeeps, StoWriteKeeps, StoReturnKeeps, StoFailureKeeps, StoStartKeeps DEF Sto!Next
<1>2. CASE UNCHANGED stoVars
  BY <1>2 DEF stoVars, StoInv, StoType, StoWithin, StoProgress, StoPromised, Sto!RestoreSticks
<1>3. QED
  BY <1>1, <1>2

LEMMA StoStep == [Next]_vars => [Sto!Next]_stoVars
  BY DEF Next, vars

LEMMA StoInvariance == ASSUME Fsync PROVE Spec => []StoInv
<1>1. Init => StoInv
  BY StoInit DEF Init
<1>2. StoInv /\ [Next]_vars => StoInv'
  BY StoNext, StoStep
<1>. QED  BY <1>1, <1>2, PTL DEF Spec

(* A hub that starts once a restore has ended runs on what was restored,   *)
(* unless it started under the tool.                                       *)
THEOREM RestoreFinal == ASSUME Fsync PROVE Spec => []RestoreSticks
<1>1. StoInv => RestoreSticks
  BY DEF StoInv, RestoreSticks
<1>. QED  BY <1>1, StoInvariance, PTL

LEMMA StoStoreInit == Sto!Init => Sto!Store!Init
BY DEF Sto!Init, Sto!Store!Init

(* Every step is a step of the durable store, or none of it.               *)
LEMMA StoStoreStep ==
  ASSUME StoInv, StoInv', [Sto!Next]_stoVars
  PROVE [Sto!Store!Next]_(Sto!Store!storeVars)
<1>1. hub # "dead" /\ hub' # "dead"
  BY DEF StoInv, StoType
<1>2. CASE Sto!Persist \/ Sto!Restore
  <2>1. begun' = begun + 1 /\ UNCHANGED <<returned, loaded>>
    BY <1>2 DEF Sto!Persist, Sto!Restore, Sto!Begin
  <2>2. QED
    BY <1>1, <2>1 DEF Sto!Store!Next, Sto!Store!Begin
<1>3. CASE Sto!Return
  BY <1>1, <1>3 DEF Sto!Return, Sto!Store!Next, Sto!Store!Return
<1>4. CASE Sto!Start \/ Sto!StartBeside
  <2>1. loaded' = state /\ UNCHANGED <<begun, returned>>
    BY <1>4 DEF Sto!Start, Sto!StartBeside, StoInv, StoType, Sto!Part
  <2>2. state \in returned..begun
    BY DEF StoInv, StoType, StoWithin
  <2>3. QED
    BY <1>1, <2>1, <2>2 DEF Sto!Store!Next, Sto!Store!Load
<1>5. CASE Sto!Backup \/ Sto!Commit \/ Sto!Dump \/ Sto!SyncTmp \/ Sto!Replace \/ Sto!SyncDir \/ Sto!Raise \/ Sto!Kill \/ Sto!PowerCut
  <2>1. UNCHANGED <<begun, returned, loaded>>
    BY <1>5 DEF Sto!Backup, Sto!Commit, Sto!Dump, Sto!SyncTmp, Sto!Replace, Sto!SyncDir, Sto!Raise, Sto!Kill, Sto!PowerCut
  <2>2. QED
    BY <1>1, <2>1 DEF Sto!Store!storeVars
<1>6. CASE UNCHANGED stoVars
  BY <1>6 DEF stoVars, Sto!Store!storeVars
<1>7. QED
  BY <1>2, <1>3, <1>4, <1>5, <1>6 DEF Sto!Next

(* Both modes of storage.py, with HUB_FSYNC on, implement DurableStore:    *)
(* through raised writes, kills, power cuts and restores the next start    *)
(* finds a whole snapshot, never older than the last acknowledged one.     *)
THEOREM StoreImplemented == ASSUME Fsync PROVE Spec => StoreKept
<1>1. Init => Sto!Store!Init
  BY StoStoreInit DEF Init
<1>2. StoInv /\ StoInv' /\ [Next]_vars => [Sto!Store!Next]_(Sto!Store!storeVars)
  BY StoStoreStep, StoStep
<1>. QED  BY <1>1, <1>2, StoInvariance, PTL DEF Spec, StoreKept, Sto!StoreKept, Sto!Store!Spec

(***************************************************************************)
(* Credential                                                              *)
(***************************************************************************)

CredFields == [exists : BOOLEAN, human : BOOLEAN,
           by : {Cred!None, "midnight-zk", "midnight-zk-revoked", "admin-vouch"},
           cred : Credentials \cup {Cred!None}]
CredReading  == [pc : {"read"}, of : Account, cred : Credentials]
CredDeciding == [pc : {"decide"}, of : Account, cred : Credentials, verdict : Cred!Verdicts]
CredAnswered == [pc : {"answer"}, of : Account, cred : Credentials,
             code : {"verified", "conflict", "revoked", "unknown"}]

CredType ==
    /\ account \in [Account -> CredFields]
    /\ asking \in [Asker -> {Cred!Idle} \cup CredReading \cup CredDeciding \cup CredAnswered]
    /\ answered \subseteq Account

(* A verdict "revoked" is never too early: the contract does not take a    *)
(* revocation back, and a page that has it keeps it.                       *)
CredVerdict ==
    \A r \in Asker : asking[r].pc = "decide" /\ asking[r].verdict = "revoked"
                          => asking[r].cred \in shown.revoked

(* Whoever was told still holds the revoked credential, and no other.      *)
CredTold == \A a \in answered : account[a].exists => account[a].cred \in shown.revoked

CredInv == CredType /\ CredVerdict /\ CredTold /\ Cred!OneHolder /\ Cred!RevokedLoses

(* What the first page shows, the contract says; both speak of credentials. *)
CredRevocations == revoked \subseteq Credentials /\ shown.revoked \subseteq revoked

LEMMA CredInit == Cred!Init => CredInv /\ CredRevocations
<1> SUFFICES ASSUME Cred!Init PROVE CredInv /\ CredRevocations
  OBVIOUS
<1>1. [exists |-> TRUE, human |-> FALSE, by |-> Cred!None, cred |-> Cred!None] \in CredFields
  BY DEF CredFields
<1>2. CredType
  BY <1>1 DEF Cred!Init, CredType
<1>3. CredVerdict
  BY DEF Cred!Init, CredVerdict, Cred!Idle
<1>4. CredTold /\ Cred!RevokedLoses /\ Cred!OneHolder /\ CredRevocations
  BY DEF Cred!Init, CredTold, Cred!RevokedLoses, Cred!OneHolder, CredRevocations, Cred!None
<1>5. QED
  BY <1>2, <1>3, <1>4 DEF CredInv

(* A step of the contract, or of a request that touches no account.        *)
LEMMA CredContractKeeps ==
  ASSUME CredInv, CredRevocations, NEW c \in Credentials, Cred!Admit(c) \/ Cred!Revoke(c)
  PROVE CredInv'
<1>1. shown.revoked \subseteq shown'.revoked /\ UNCHANGED <<account, asking, answered, late>>
  BY DEF Cred!Admit, Cred!Revoke, Cred!Paged, CredRevocations
<1>2. QED
  BY <1>1 DEF CredInv, CredType, CredVerdict, CredTold, Cred!OneHolder, Cred!RevokedLoses

LEMMA CredAskKeeps ==
  ASSUME CredInv, NEW r \in Asker, NEW a \in Account, NEW c \in Credentials, Cred!Ask(r, a, c)
  PROVE CredInv'
<1>1. UNCHANGED <<account, shown, answered, late>>
  BY DEF Cred!Ask
<1>2. PICK q : q = [pc |-> "read", of |-> a, cred |-> c]
  OBVIOUS
<1>3. q \in CredReading /\ q.pc = "read"
  BY <1>2 DEF CredReading
<1>4. asking' = [asking EXCEPT ![r] = q]
  BY <1>2 DEF Cred!Ask
<1>5. CredType'
  BY <1>1, <1>3, <1>4 DEF CredInv, CredType
<1>6. CredVerdict'
  BY <1>1, <1>3, <1>4 DEF CredInv, CredType, CredVerdict
<1>7. QED
  BY <1>1, <1>5, <1>6 DEF CredInv, CredTold, Cred!OneHolder, Cred!RevokedLoses

LEMMA CredReadKeeps == ASSUME CredInv, NEW r \in Asker, Cred!Read(r) PROVE CredInv'
<1>1. UNCHANGED <<account, shown, answered, late>>
  BY DEF Cred!Read
<1>2. asking[r] \in CredReading
  BY DEF CredInv, CredType, Cred!Read, Cred!Idle, CredReading, CredDeciding, CredAnswered
<1>3. PICK v : /\ v \in {"error"} \cup (IF shown.admitted = {} THEN {} ELSE {Cred!Verdict(asking[r].cred)})
               /\ asking' = [asking EXCEPT ![r] =
                     IF v = "error" THEN Cred!Idle
                     ELSE [pc |-> "decide", of |-> asking[r].of, cred |-> asking[r].cred,
                           verdict |-> v]]
  BY DEF Cred!Read
<1>4. PICK q : q = IF v = "error" THEN Cred!Idle
                   ELSE [pc |-> "decide", of |-> asking[r].of, cred |-> asking[r].cred,
                         verdict |-> v]
  OBVIOUS
<1>5. asking' = [asking EXCEPT ![r] = q]
  BY <1>3, <1>4
<1>6. v \in Cred!Verdicts /\ (v = "revoked" => asking[r].cred \in shown.revoked)
  BY <1>3 DEF Cred!Verdict, Cred!Verdicts
<1>7. q \in {Cred!Idle} \cup CredDeciding
  BY <1>2, <1>4, <1>6 DEF CredReading, CredDeciding
<1>8. q.pc = "decide" /\ q.verdict = "revoked" => q.cred \in shown.revoked
  BY <1>4, <1>6 DEF Cred!Idle
<1>9. CredType'
  BY <1>1, <1>5, <1>7 DEF CredInv, CredType
<1>10. CredVerdict'
  BY <1>1, <1>5, <1>8 DEF CredInv, CredType, CredVerdict
<1>11. QED
  BY <1>1, <1>9, <1>10 DEF CredInv, CredTold, Cred!OneHolder, Cred!RevokedLoses

LEMMA CredAnswerKeeps == ASSUME CredInv, NEW r \in Asker, Cred!Answer(r) PROVE CredInv'
<1>1. UNCHANGED <<account, shown, answered, late>> /\ asking' = [asking EXCEPT ![r] = Cred!Idle]
  BY DEF Cred!Answer
<1>2. CredType'
  BY <1>1 DEF CredInv, CredType
<1>3. CredVerdict'
  BY <1>1 DEF CredInv, CredType, CredVerdict, Cred!Idle
<1>4. QED
  BY <1>1, <1>2, <1>3 DEF CredInv, CredTold, Cred!OneHolder, Cred!RevokedLoses

(* The section under LOCK that decides, case by case of the verdict.       *)
LEMMA CredDecideKeeps ==
  ASSUME CredInv, CredRevocations, Cred!None \notin Credentials, NEW r \in Asker, Cred!Decide(r)
  PROVE CredInv'
<1>1. UNCHANGED shown
  BY DEF Cred!Decide
<1>2. asking[r] \in CredDeciding
  BY DEF CredInv, CredType, Cred!Decide, Cred!Idle, CredReading, CredDeciding, CredAnswered
<1>3. PICK a \in Account, c \in Credentials :
         a = asking[r].of /\ c = asking[r].cred
  BY <1>2 DEF CredDeciding
<1>4. \E q \in {Cred!Idle} \cup CredAnswered : asking' = [asking EXCEPT ![r] = q]
  <2>1. \A code \in {"verified", "conflict", "revoked", "unknown"} :
           [pc |-> "answer", of |-> a, cred |-> c, code |-> code] \in CredAnswered
    BY DEF CredAnswered
  <2>2. QED
    BY <1>3, <2>1 DEF Cred!Decide
<1>5. asking' \in [Asker -> {Cred!Idle} \cup CredReading \cup CredDeciding \cup CredAnswered]
  BY <1>4 DEF CredInv, CredType
<1>6. CredVerdict'
  BY <1>1, <1>4 DEF CredInv, CredType, CredVerdict, Cred!Idle, CredAnswered
<1>7. account[a] \in CredFields
  BY DEF CredInv, CredType
<1>8. \/ UNCHANGED <<account, answered, late>>
      \/ /\ account[a].exists /\ Cred!Bindable(a, c)
         /\ account' = [account EXCEPT ![a].cred = c, ![a].human = TRUE, ![a].by = "midnight-zk"]
         /\ late' = IF c \in shown.revoked THEN late \cup {a} ELSE late \ {a}
         /\ UNCHANGED answered
      \/ /\ account[a].cred = c /\ c \in shown.revoked
         /\ account' = [account EXCEPT ![a] = Cred!Downgraded(a)]
         /\ answered' = answered \cup {a}
         /\ UNCHANGED late
  <2>1. asking[r].verdict = "revoked" => c \in shown.revoked
    BY <1>2, <1>3 DEF CredInv, CredVerdict, CredDeciding
  <2>2. QED
    BY <1>3, <2>1 DEF Cred!Decide
<1>9. CASE UNCHANGED <<account, answered, late>>
  BY <1>1, <1>5, <1>6, <1>9 DEF CredInv, CredType, CredTold, Cred!OneHolder, Cred!RevokedLoses
<1>10. CASE /\ account[a].exists /\ Cred!Bindable(a, c)
            /\ account' = [account EXCEPT ![a].cred = c, ![a].human = TRUE,
                                          ![a].by = "midnight-zk"]
            /\ late' = IF c \in shown.revoked THEN late \cup {a} ELSE late \ {a}
            /\ UNCHANGED answered
  <2>1. account' = [account EXCEPT ![a] = [exists |-> account[a].exists, human |-> TRUE,
                                           by |-> "midnight-zk", cred |-> c]]
    <3>1. account \in [Account -> CredFields]
      BY DEF CredInv, CredType
    <3>2. account'[a] = [[[account[a] EXCEPT !.cred = c] EXCEPT !.human = TRUE]
                            EXCEPT !.by = "midnight-zk"]
      BY <1>10, <3>1
    <3>3. account'[a] = [exists |-> account[a].exists, human |-> TRUE,
                         by |-> "midnight-zk", cred |-> c]
      BY <1>7, <3>2 DEF CredFields
    <3>4. /\ DOMAIN account' = Account
          /\ \A b \in Account \ {a} : account'[b] = account[b]
          /\ account' = [b \in Account |-> account'[b]]
      BY <1>10, <3>1
    <3>5. QED
      BY <3>1, <3>3, <3>4
  <2>2. PICK x : x = [exists |-> account[a].exists, human |-> TRUE,
                      by |-> "midnight-zk", cred |-> c]
    OBVIOUS
  <2>3. x \in CredFields /\ x.cred = c
    BY <1>7, <2>2 DEF CredFields
  <2>4. account' = [account EXCEPT ![a] = x]
    BY <2>1, <2>2
  <2>5. CredType'
    <3>1. UNCHANGED answered
      BY <1>10
    <3>2. QED
      BY <1>5, <2>3, <2>4, <3>1 DEF CredInv, CredType
  <2>6. a \in answered => c \in shown.revoked
    BY <1>10 DEF CredInv, CredTold, CredRevocations, Cred!Bindable
  <2>7. CredTold'
    BY <1>1, <1>10, <2>3, <2>4, <2>6 DEF CredInv, CredType, CredTold
  <2>8. Cred!OneHolder'
    BY <1>10, <2>3, <2>4 DEF CredInv, CredType, Cred!OneHolder, Cred!Bindable, Cred!Taken
  <2>9. Cred!RevokedLoses'
    BY <1>10, <2>4, <2>6 DEF CredInv, CredType, Cred!RevokedLoses
  <2>10. QED
    BY <1>6, <2>5, <2>7, <2>8, <2>9 DEF CredInv
<1>11. CASE /\ account[a].cred = c /\ c \in shown.revoked
            /\ account' = [account EXCEPT ![a] = Cred!Downgraded(a)]
            /\ answered' = answered \cup {a}
            /\ UNCHANGED late
  <2>1. Cred!Downgraded(a) = [exists |-> account[a].exists, human |-> FALSE,
                         by |-> "midnight-zk-revoked", cred |-> account[a].cred]
    <3>1. PICK y : y = account[a]
      OBVIOUS
    <3>2. PICK z : z = [[y EXCEPT !.human = FALSE] EXCEPT !.by = "midnight-zk-revoked"]
      OBVIOUS
    <3>3. z = [exists |-> y.exists, human |-> FALSE,
               by |-> "midnight-zk-revoked", cred |-> y.cred]
      BY <1>7, <3>1, <3>2 DEF CredFields
    <3>4. Cred!Downgraded(a) = z
      BY <3>1, <3>2 DEF Cred!Downgraded
    <3>5. QED
      BY <3>1, <3>3, <3>4
  <2>2. PICK x : x = [exists |-> account[a].exists, human |-> FALSE,
                      by |-> "midnight-zk-revoked", cred |-> account[a].cred]
    OBVIOUS
  <2>3. x \in CredFields /\ x.cred = c /\ x.exists = account[a].exists /\ x.by # "midnight-zk"
    BY <1>7, <1>11, <2>2 DEF CredFields
  <2>4. account' = [account EXCEPT ![a] = x]
    BY <1>11, <2>1, <2>2
  <2>5. CredType'
    BY <1>5, <1>11, <2>3, <2>4 DEF CredInv, CredType
  <2>6. CredTold' /\ Cred!OneHolder' /\ Cred!RevokedLoses'
    BY <1>1, <1>11, <2>3, <2>4 DEF CredInv, CredType, CredTold, Cred!OneHolder, Cred!RevokedLoses
  <2>7. QED
    BY <1>6, <2>5, <2>6 DEF CredInv
<1>12. QED
  BY <1>8, <1>9, <1>10, <1>11

LEMMA CredMarkKeeps == ASSUME CredInv, NEW a \in Account, Cred!Vouch(a) \/ Cred!Delete(a) PROVE CredInv'
<1>1. UNCHANGED <<shown, asking, answered, late>>
  BY DEF Cred!Vouch, Cred!Delete
<1>2. account[a] \in CredFields
  BY DEF CredInv, CredType
<1>3. \E x \in CredFields :
         /\ account' = [account EXCEPT ![a] = x] /\ x.by # "midnight-zk"
         /\ x.exists => account[a].exists /\ x.cred = account[a].cred
  <2>1. CASE Cred!Vouch(a)
    <3>1. account' = [account EXCEPT ![a] = [exists |-> account[a].exists, human |-> TRUE,
                                             by |-> "admin-vouch", cred |-> account[a].cred]]
      <4>1. account \in [Account -> CredFields]
        BY DEF CredInv, CredType
      <4>2. account'[a] = [[account[a] EXCEPT !.human = TRUE] EXCEPT !.by = "admin-vouch"]
        BY <2>1, <4>1 DEF Cred!Vouch
      <4>3. account'[a] = [exists |-> account[a].exists, human |-> TRUE,
                           by |-> "admin-vouch", cred |-> account[a].cred]
        BY <1>2, <4>2 DEF CredFields
      <4>4. /\ \A b \in Account \ {a} : account'[b] = account[b]
            /\ account' = [b \in Account |-> account'[b]]
        BY <2>1, <4>1 DEF Cred!Vouch
      <4>5. QED
        BY <4>1, <4>3, <4>4
    <3>2. [exists |-> account[a].exists, human |-> TRUE,
           by |-> "admin-vouch", cred |-> account[a].cred] \in CredFields
      BY <1>2 DEF CredFields
    <3>3. QED
      BY <2>1, <3>1, <3>2 DEF Cred!Vouch
  <2>2. CASE Cred!Delete(a)
    <3>1. [exists |-> FALSE, human |-> FALSE, by |-> Cred!None, cred |-> Cred!None] \in CredFields
      BY DEF CredFields
    <3>2. QED
      BY <2>2, <3>1 DEF Cred!Delete, Cred!None
  <2>3. QED
    BY <2>1, <2>2
<1>4. CredType'
  BY <1>1, <1>3 DEF CredInv, CredType
<1>5. CredTold' /\ Cred!OneHolder' /\ Cred!RevokedLoses' /\ CredVerdict'
  BY <1>1, <1>3 DEF CredInv, CredType, CredTold, Cred!OneHolder, Cred!RevokedLoses, CredVerdict
<1>6. QED
  BY <1>4, <1>5 DEF CredInv

LEMMA CredNext ==
  ASSUME CredInv, CredRevocations, Cred!None \notin Credentials, [Cred!Next]_credVars
  PROVE CredInv' /\ CredRevocations'
<1>1. CredRevocations'
  <2>1. CASE UNCHANGED <<revoked, shown>>
    BY <2>1 DEF CredRevocations
  <2>2. ASSUME NEW c \in Credentials, Cred!Admit(c) \/ Cred!Revoke(c)
        PROVE  CredRevocations'
    <3>1. revoked' \in {revoked, revoked \cup {c}}
      BY <2>2 DEF Cred!Admit, Cred!Revoke
    <3>2. shown'.revoked \in {revoked', shown.revoked}
      BY <2>2 DEF Cred!Admit, Cred!Revoke, Cred!Paged
    <3>. QED  BY <3>1, <3>2 DEF CredRevocations
  <2>3. CASE UNCHANGED credVars
    BY <2>1, <2>3 DEF credVars
  <2>4. CASE Cred!Next
    <3>1. \/ \E c \in Credentials : Cred!Admit(c) \/ Cred!Revoke(c)
          \/ UNCHANGED <<revoked, shown>>
      BY <2>4 DEF Cred!Next, Cred!Ask, Cred!Read, Cred!Decide, Cred!Answer, Cred!Vouch, Cred!Delete
    <3>. QED  BY <3>1, <2>1, <2>2
  <2>. QED  BY <2>3, <2>4
<1>2. CASE UNCHANGED credVars
  BY <1>1, <1>2 DEF credVars, CredInv, CredType, CredVerdict, CredTold, Cred!OneHolder, Cred!RevokedLoses
<1>3. CASE Cred!Next
  BY <1>1, <1>3, CredContractKeeps, CredAskKeeps, CredReadKeeps, CredDecideKeeps, CredAnswerKeeps, CredMarkKeeps DEF Cred!Next
<1>4. QED
  BY <1>2, <1>3

LEMMA CredStep == [Next]_vars => [Cred!Next]_credVars
  BY DEF Next, vars

LEMMA CredInvariance == Spec => []CredInv
<1>1. Init => CredInv /\ CredRevocations
  BY CredInit DEF Init
<1>2. CredInv /\ CredRevocations /\ [Next]_vars => (CredInv /\ CredRevocations)'
  BY CredNext, CredStep, CredentialAssumption
<1>. QED  BY <1>1, <1>2, PTL DEF Spec

(* One personhood credential marks one account, for any number of requests *)
(* that read the contract outside LOCK and decide under it.                *)
THEOREM HolderUnique == Spec => []OneHolder
<1>1. CredInv => OneHolder
  BY DEF CredInv, OneHolder
<1>. QED  BY <1>1, CredInvariance, PTL

(* An account that was answered "revoked" is not marked by that credential *)
(* again, but by a request whose reading was older than the revocation the *)
(* indexer shows.                                                          *)
THEOREM RevocationHeard == Spec => []RevokedLoses
<1>1. CredInv => RevokedLoses
  BY DEF CredInv, RevokedLoses
<1>. QED  BY <1>1, CredInvariance, PTL

(***************************************************************************)
(* Intake                                                                  *)
(***************************************************************************)
TalkEntry == [here : BOOLEAN, live : BOOLEAN, heard : BOOLEAN,
              price : Talk!Value \cup {"default"}]

TalkInv ==
    /\ mine \in Seq(TalkEntry) /\ count \in Nat /\ foreign \in Nat
    /\ foreign = 0 => count = Cardinality(Talk!Mine)

(* The counted listings are finitely many.                                 *)
LEMMA TalkFinite ==
    ASSUME mine \in Seq(TalkEntry)
    PROVE  /\ DOMAIN mine = 1..Len(mine) /\ Len(mine) \in Nat
           /\ IsFiniteSet(Talk!Mine) /\ Talk!Mine \subseteq 1..Len(mine)
<1>1. DOMAIN mine = 1..Len(mine) /\ Len(mine) \in Nat
  BY LenProperties
<1>2. Talk!Mine \subseteq 1..Len(mine)
  BY <1>1 DEF Talk!Mine
<1>3. IsFiniteSet(1..Len(mine))
  BY <1>1, FS_Interval
<1>. QED  BY <1>1, <1>2, <1>3, FS_Subset

LEMMA TalkInit == Talk!Init => TalkInv
<1> SUFFICES ASSUME Talk!Init PROVE TalkInv
  OBVIOUS
<1> DEFINE e == [here |-> FALSE, live |-> TRUE, heard |-> TRUE, price |-> "ok"]
<1>1. e \in TalkEntry /\ ~e.here
  BY DEF TalkEntry, Talk!Value
<1> HIDE DEF e
<1>2. mine = <<e>> /\ count = 0 /\ foreign = 0
  BY DEF Talk!Init, e
<1>3. mine \in Seq(TalkEntry) /\ Len(mine) = 1 /\ mine[1] = e
  BY <1>1, <1>2
<1>4. Talk!Mine = {}
  <2>1. DOMAIN mine = 1..1
    BY <1>3, LenProperties
  <2>. QED  BY <1>1, <1>3, <2>1 DEF Talk!Mine
<1>5. Cardinality(Talk!Mine) = 0
  BY <1>4, FS_EmptySet
<1>. QED  BY <1>2, <1>3, <1>5 DEF TalkInv

(* A listing that is answered takes a slot; one whose answer is lost, or   *)
(* that is refused, takes none.                                            *)
LEMMA TalkPost ==
    ASSUME TalkInv, NEW price, Talk!Post(price), foreign' = foreign
    PROVE  TalkInv'
<1>1. CASE UNCHANGED <<mine, count>>
  BY <1>1 DEF TalkInv, Talk!Mine
<1>2. ASSUME NEW heard \in BOOLEAN, price \in {"ok", "default"},
             mine' = Append(mine, [here |-> TRUE, live |-> TRUE,
                                   heard |-> heard, price |-> price]),
             count' = IF heard THEN count + 1 ELSE count
      PROVE  TalkInv'
  <2> DEFINE e == [here |-> TRUE, live |-> TRUE, heard |-> heard, price |-> price]
             last == Len(mine) + 1
  <2>1. e \in TalkEntry /\ e.here /\ e.live /\ e.heard = heard
    BY <1>2 DEF TalkEntry, Talk!Value
  <2>2. mine' = Append(mine, e)
    BY <1>2
  <2> HIDE DEF e
  <2>3. /\ mine' \in Seq(TalkEntry) /\ Len(mine') = last /\ mine'[last] = e
        /\ \A k \in 1..Len(mine) : mine'[k] = mine[k]
    BY <2>1, <2>2, AppendProperties DEF TalkInv
  <2>4. /\ DOMAIN mine = 1..Len(mine) /\ Len(mine) \in Nat
        /\ IsFiniteSet(Talk!Mine) /\ Talk!Mine \subseteq 1..Len(mine)
    BY TalkFinite DEF TalkInv
  <2>5. DOMAIN mine' = 1..last
    BY <2>3, LenProperties
  <2>6. Talk!Mine' = IF heard THEN Talk!Mine \cup {last} ELSE Talk!Mine
    <3>1. \A k \in 1..last : k \in 1..Len(mine) \/ k = last
      BY <2>4
    <3>2. last \notin 1..Len(mine) /\ last \in 1..last /\ 1..Len(mine) \subseteq 1..last
      BY <2>4
    <3> HIDE DEF last
    <3>. QED  BY <2>1, <2>3, <2>4, <2>5, <3>1, <3>2 DEF Talk!Mine
  <2>7. last \notin Talk!Mine
    BY <2>4
  <2>8. Cardinality(Talk!Mine \cup {last}) = Cardinality(Talk!Mine) + 1
    BY <2>4, <2>7, FS_AddElement
  <2>9. count' \in Nat
    BY <1>2 DEF TalkInv
  <2>10. foreign' = 0 => count' = Cardinality(Talk!Mine')
    <3> SUFFICES ASSUME foreign' = 0 PROVE count' = Cardinality(Talk!Mine')
      OBVIOUS
    <3>1. count = Cardinality(Talk!Mine)
      BY DEF TalkInv
    <3>2. CASE heard
      BY <1>2, <2>6, <2>8, <3>1, <3>2
    <3>3. CASE ~heard
      BY <1>2, <2>6, <3>1, <3>3
    <3>. QED  BY <3>2, <3>3
  <2>. QED  BY <2>3, <2>9, <2>10 DEF TalkInv
<1>. QED  BY <1>1, <1>2 DEF Talk!Post

LEMMA TalkDelete == TalkInv /\ Talk!Delete => TalkInv'
<1> SUFFICES ASSUME TalkInv, Talk!Delete PROVE TalkInv'
  OBVIOUS
<1>1. CASE UNCHANGED <<mine, count, foreign>>
  BY <1>1 DEF TalkInv, Talk!Mine
<1>2. ASSUME NEW n \in DOMAIN mine, mine[n].live,
             mine' = [mine EXCEPT ![n].live = FALSE],
             count' = (IF count = 0 THEN 0 ELSE count - 1),
             foreign' = IF mine[n].here /\ mine[n].heard THEN foreign ELSE foreign + 1
      PROVE  TalkInv'
  <2> DEFINE e == [mine[n] EXCEPT !.live = FALSE]
  <2>1. /\ DOMAIN mine = 1..Len(mine) /\ Len(mine) \in Nat
        /\ IsFiniteSet(Talk!Mine) /\ Talk!Mine \subseteq 1..Len(mine)
    BY TalkFinite DEF TalkInv
  <2>2. mine[n] \in TalkEntry
    BY <2>1, ElementOfSeq DEF TalkInv
  <2>3. e \in TalkEntry /\ ~e.live
    BY <2>2 DEF TalkEntry
  <2>4. mine' = [mine EXCEPT ![n] = e]
    BY <1>2
  <2> HIDE DEF e
  <2>5. mine' \in Seq(TalkEntry) /\ DOMAIN mine' = DOMAIN mine
    BY <2>1, <2>3, <2>4, ExceptSeq DEF TalkInv
  <2>6. mine'[n] = e /\ \A m \in DOMAIN mine \ {n} : mine'[m] = mine[m]
    BY <2>4
  <2>7. Talk!Mine' = Talk!Mine \ {n}
    BY <2>3, <2>5, <2>6 DEF Talk!Mine
  <2>8. count' \in Nat /\ foreign' \in Nat
    BY <1>2 DEF TalkInv
  <2>9. ASSUME foreign' = 0 PROVE count' = Cardinality(Talk!Mine')
    <3>0. foreign + 1 # 0
      BY DEF TalkInv
    <3>1. mine[n].here /\ mine[n].heard /\ foreign = 0
      BY <1>2, <2>9, <3>0
    <3>2. n \in Talk!Mine /\ count = Cardinality(Talk!Mine)
      <4>1. n \in Talk!Mine
        BY <1>2, <3>1 DEF Talk!Mine
      <4>. QED  BY <3>1, <4>1 DEF TalkInv
    <3>3. Cardinality(Talk!Mine \ {n}) = Cardinality(Talk!Mine) - 1
      BY <2>1, <3>2, FS_RemoveElement
    <3>4. Cardinality(Talk!Mine) # 0
      BY <2>1, <3>2, FS_EmptySet
    <3>. QED  BY <1>2, <2>7, <3>2, <3>3, <3>4
  <2>. QED  BY <2>5, <2>8, <2>9 DEF TalkInv
<1>. QED  BY <1>1, <1>2 DEF Talk!Delete

LEMMA TalkNext == TalkInv /\ [Talk!Next]_talkVars => TalkInv'
<1> SUFFICES ASSUME TalkInv, [Talk!Next]_talkVars PROVE TalkInv'
  OBVIOUS
<1>1. CASE UNCHANGED <<mine, count, foreign>>
  BY <1>1 DEF TalkInv, Talk!Mine
<1>2. CASE Talk!OneShot \/ Talk!Deal
  BY <1>2, TalkPost DEF Talk!OneShot, Talk!Deal
<1>3. CASE Talk!Confirm \/ Talk!Yes
  BY <1>3, TalkPost DEF Talk!Confirm, Talk!Yes, Talk!Publish
<1>4. CASE Talk!Delete
  BY <1>4, TalkDelete
<1>. QED
  BY <1>1, <1>2, <1>3, <1>4
     DEF Talk!Next, talkVars, Talk!Start, Talk!FillStep, Talk!EditField, Talk!Cancel,
         Talk!Idle, Talk!Login, Talk!Logout

LEMMA TalkStep == [Next]_vars => [Talk!Next]_talkVars
  BY DEF Next, vars

(* However drafts, lost answers, logins and deletes interleave, the slots  *)
(* the chat counts are the live listings it made (_list_counts).           *)
THEOREM SlotsCounted == Spec => []SlotsExact
<1>1. Init => TalkInv
  BY TalkInit DEF Init
<1>2. TalkInv /\ [Next]_vars => TalkInv'
  BY TalkNext, TalkStep
<1>3. TalkInv => SlotsExact
  <2>1. Talk!Cardinality(Talk!Mine) = Cardinality(Talk!Mine)
    BY DEF Talk!Cardinality, Cardinality
  <2>. QED  BY <2>1 DEF TalkInv, SlotsExact, Talk!SlotsExact
<1>. QED  BY <1>1, <1>2, <1>3, PTL DEF Spec

(***************************************************************************)
(* Reads                                                                   *)
(***************************************************************************)
(* upTo in Visible, for the first m listings.                              *)
VisTable(f, m, list, dicts) ==
    /\ f \in [0..m -> Seq(Rd!Id)]
    /\ \A n \in 0..m : f[n] = IF n = 0 THEN <<>>
                              ELSE IF Rd!Open(dicts[list[n]]) THEN Append(f[n - 1], list[n])
                              ELSE f[n - 1]

LEMMA VisTableExists ==
    ASSUME NEW list \in Seq(Rd!Id), NEW dicts, NEW m \in 0..Len(list)
    PROVE  \E f : VisTable(f, m, list, dicts)
<1> DEFINE D == {n \in 0..Len(list) : ~ \E f : VisTable(f, n, list, dicts)}
<1>0. Len(list) \in Nat /\ list \in [1..Len(list) -> Rd!Id]
  BY LenProperties
<1>1. SUFFICES ASSUME D # {} PROVE FALSE
  OBVIOUS
<1>2. PICK n \in D : \A k \in D : n <= k
  <2>1. D \in SUBSET Nat
    BY <1>0
  <2>. HIDE DEF D
  <2>. QED  BY <1>1, <2>1, LeastNat
<1>3. CASE n = 0
  <2>1. <<>> \in Seq(Rd!Id)
    BY EmptySeq
  <2>2. VisTable([k \in 0..0 |-> <<>>], 0, list, dicts)
    BY <2>1 DEF VisTable
  <2>. QED  BY <2>2, <1>2, <1>3
<1>4. CASE n # 0
  <2>1. n \in Nat /\ n <= Len(list) /\ n - 1 \in 0..Len(list) /\ n - 1 \notin D /\ n \in 1..Len(list)
    BY <1>0, <1>2, <1>4
  <2>2. PICK f : VisTable(f, n - 1, list, dicts)
    BY <2>1
  <2>3. /\ f \in [0..n - 1 -> Seq(Rd!Id)]
        /\ \A k \in 0..n - 1 : f[k] = IF k = 0 THEN <<>>
                                      ELSE IF Rd!Open(dicts[list[k]]) THEN Append(f[k - 1], list[k])
                                      ELSE f[k - 1]
    BY <2>2 DEF VisTable
  <2> DEFINE next == IF Rd!Open(dicts[list[n]]) THEN Append(f[n - 1], list[n]) ELSE f[n - 1]
             g == [k \in 0..n |-> IF k = n THEN next ELSE f[k]]
  <2>4. f[n - 1] \in Seq(Rd!Id) /\ list[n] \in Rd!Id
    BY <2>1, <2>3, <1>0
  <2>5. next \in Seq(Rd!Id)
    BY <2>4, AppendProperties
  <2>6. \A k \in 0..n : k # n => k \in 0..n - 1
    BY <2>1
  <2>7. n \in 0..n /\ \A k \in 0..n - 1 : k \in 0..n /\ k # n
    BY <2>1
  <2>8. g \in [0..n -> Seq(Rd!Id)] /\ g[n] = next /\ \A k \in 0..n - 1 : g[k] = f[k]
    BY <2>3, <2>5, <2>6, <2>7
  <2>9. g[n] = IF Rd!Open(dicts[list[n]]) THEN Append(g[n - 1], list[n]) ELSE g[n - 1]
    <3>1. n - 1 \in 0..n - 1
      BY <2>1
    <3>. QED  BY <3>1, <2>8
  <2> HIDE DEF next, g
  <2>10. ASSUME NEW k \in 0..n
         PROVE  g[k] = IF k = 0 THEN <<>>
                       ELSE IF Rd!Open(dicts[list[k]]) THEN Append(g[k - 1], list[k])
                       ELSE g[k - 1]
    <3>1. CASE k = n
      BY <3>1, <2>9, <1>4
    <3>2. CASE k # n /\ k = 0
      BY <3>2, <2>3, <2>6, <2>8
    <3>3. CASE k # n /\ k # 0
      <4>1. k \in 0..n - 1 /\ k - 1 \in 0..n - 1
        BY <3>3, <2>1
      <4>. QED  BY <4>1, <3>3, <2>3, <2>8
    <3>. QED  BY <3>1, <3>2, <3>3
  <2>11. VisTable(g, n, list, dicts)
    BY <2>8, <2>10 DEF VisTable
  <2>. QED  BY <2>11, <1>2
<1>. QED  BY <1>3, <1>4

LEMMA VisIsTable ==
    ASSUME NEW list \in Seq(Rd!Id), NEW dicts
    PROVE  \E f : VisTable(f, Len(list), list, dicts) /\ Rd!Visible(list, dicts) = f[Len(list)]
<1> DEFINE Body(f) == [n \in 0..Len(list) |->
                          IF n = 0 THEN <<>>
                          ELSE IF Rd!Open(dicts[list[n]]) THEN Append(f[n - 1], list[n])
                          ELSE f[n - 1]]
           upTo == CHOOSE f : f = Body(f)
<1>1. Len(list) \in Nat /\ list \in [1..Len(list) -> Rd!Id]
  BY LenProperties
<1>2. Rd!Visible(list, dicts) = upTo[Len(list)]
  BY DEF Rd!Visible
<1>3. PICK f : VisTable(f, Len(list), list, dicts)
  <2>1. Len(list) \in 0..Len(list)
    BY <1>1
  <2>. QED  BY <2>1, VisTableExists
<1>4. f = Body(f)
  BY <1>3 DEF VisTable
<1>5. upTo = Body(upTo)
  BY <1>4
<1> HIDE DEF upTo
<1>6. ASSUME NEW n \in 0..Len(list) PROVE upTo[n] = f[n]
  <2> DEFINE D == {k \in 0..Len(list) : upTo[k] # f[k]}
  <2>1. SUFFICES ASSUME D # {} PROVE FALSE
    OBVIOUS
  <2>2. PICK k \in D : \A j \in D : k <= j
    <3>1. D \in SUBSET Nat
      BY <1>1
    <3>. HIDE DEF D
    <3>. QED  BY <2>1, <3>1, LeastNat
  <2>3. CASE k = 0
    <3>1. upTo[0] = <<>> /\ f[0] = <<>>
      BY <1>1, <1>4, <1>5
    <3>. QED  BY <3>1, <2>2, <2>3
  <2>4. CASE k # 0
    <3>1. k - 1 \in 0..Len(list) /\ k - 1 \notin D /\ k \in 0..Len(list)
      BY <2>2, <2>4, <1>1
    <3>2. upTo[k - 1] = f[k - 1]
      BY <3>1
    <3>3. upTo[k] = Body(upTo)[k] /\ f[k] = Body(f)[k]
      BY <1>4, <1>5
    <3>4. Body(upTo)[k] = Body(f)[k]
      BY <3>1, <3>2, <2>4
    <3>. QED  BY <3>3, <3>4, <2>2
  <2>. QED  BY <2>3, <2>4
<1>7. Rd!Visible(list, dicts) = f[Len(list)]
  BY <1>1, <1>2, <1>6
<1>. QED  BY <1>3, <1>7

(* What a reader pages through is the open listings, each once.            *)
LEMMA VisibleFacts ==
    ASSUME NEW list \in Seq(Rd!Id), NEW dicts, IsInjective(list)
    PROVE  /\ Rd!Visible(list, dicts) \in Seq(Rd!Id)
           /\ IsInjective(Rd!Visible(list, dicts))
           /\ Range(Rd!Visible(list, dicts)) = {i \in Range(list) : Rd!Open(dicts[i])}
<1>1. /\ Len(list) \in Nat /\ DOMAIN list = 1..Len(list) /\ list \in [1..Len(list) -> Rd!Id]
  BY LenProperties
<1>2. PICK f : VisTable(f, Len(list), list, dicts) /\ Rd!Visible(list, dicts) = f[Len(list)]
  BY VisIsTable
<1>3. /\ f \in [0..Len(list) -> Seq(Rd!Id)]
      /\ \A k \in 0..Len(list) : f[k] = IF k = 0 THEN <<>>
                                ELSE IF Rd!Open(dicts[list[k]]) THEN Append(f[k - 1], list[k])
                                ELSE f[k - 1]
  BY <1>2 DEF VisTable
<1> DEFINE Some(n) == {i \in Rd!Id : \E k \in 1..n : i = list[k] /\ Rd!Open(dicts[i])}
           Good(n) == IsInjective(f[n]) /\ Range(f[n]) = Some(n)
           D == {n \in 0..Len(list) : ~Good(n)}
<1>4. D = {}
  <2>1. SUFFICES ASSUME D # {} PROVE FALSE
    OBVIOUS
  <2>2. PICK n \in D : \A k \in D : n <= k
    <3>1. D \in SUBSET Nat
      BY <1>1
    <3>. HIDE DEF D
    <3>. QED  BY <2>1, <3>1, LeastNat
  <2>3. CASE n = 0
    <3>1. f[0] = <<>> /\ DOMAIN (<<>>) = {}
      BY <1>1, <1>3
    <3>2. Some(0) = {}
      OBVIOUS
    <3>3. IsInjective(f[0]) /\ Range(f[0]) = {}
      BY <3>1 DEF IsInjective, Range
    <3>. QED  BY <3>2, <3>3, <2>2, <2>3
  <2>4. CASE n # 0
    <3>1. n - 1 \in 0..Len(list) /\ n - 1 \notin D /\ n \in 1..Len(list) /\ n \in 0..Len(list)
      BY <2>2, <2>4, <1>1
    <3>2. Good(n - 1)
      BY <3>1
    <3>3. f[n - 1] \in Seq(Rd!Id) /\ list[n] \in Rd!Id
      BY <3>1, <1>1, <1>3
    <3>4. Some(n) = Some(n - 1) \cup (IF Rd!Open(dicts[list[n]]) THEN {list[n]} ELSE {})
      <4>1. \A k \in 1..n : k \in 1..n - 1 \/ k = n
        BY <3>1, <1>1
      <4>2. n \in 1..n /\ 1..n - 1 \subseteq 1..n
        BY <3>1, <1>1
      <4>. QED  BY <4>1, <4>2, <3>3
    <3>5. CASE ~Rd!Open(dicts[list[n]])
      <4>1. f[n] = f[n - 1] /\ Some(n) = Some(n - 1)
        BY <3>1, <3>4, <3>5, <2>4, <1>3
      <4>. QED  BY <4>1, <3>2, <2>2
    <3>6. CASE Rd!Open(dicts[list[n]])
      <4> DEFINE a == f[n - 1]
                 b == Append(a, list[n])
                 last == Len(a) + 1
      <4>1. f[n] = b /\ Some(n) = Some(n - 1) \cup {list[n]}
        BY <3>1, <3>4, <3>6, <2>4, <1>3
      <4>2. a \in Seq(Rd!Id) /\ IsInjective(a) /\ Range(a) = Some(n - 1)
        BY <3>2, <3>3
      <4>3. list[n] \notin Some(n - 1)
        <5>1. ASSUME NEW k \in 1..n - 1, list[n] = list[k] PROVE FALSE
          <6>1. k \in DOMAIN list /\ n \in DOMAIN list /\ k # n
            BY <3>1, <1>1
          <6>. QED  BY <6>1, <5>1 DEF IsInjective
        <5>. QED  BY <5>1
      <4> HIDE DEF a
      <4>4. /\ b \in Seq(Rd!Id) /\ Len(b) = last /\ b[last] = list[n]
            /\ \A k \in 1..Len(a) : b[k] = a[k]
        BY <4>2, <3>3, AppendProperties
      <4> HIDE DEF b, Some
      <4>5. DOMAIN a = 1..Len(a) /\ Len(a) \in Nat /\ DOMAIN b = 1..last
        BY <4>2, <4>4, LenProperties
      <4>6. 1..last = (1..Len(a)) \cup {last}
        BY <4>5
      <4>7. Range(b) = Range(a) \cup {list[n]}
        BY <4>4, <4>5, <4>6 DEF Range
      <4>8. IsInjective(b)
        <5>1. \A k \in DOMAIN a : b[k] = a[k] /\ a[k] # list[n]
          BY <4>2, <4>3, <4>4, <4>5 DEF Range
        <5>2. DOMAIN b = DOMAIN a \cup {last} /\ b[last] = list[n]
          BY <4>4, <4>5, <4>6
        <5>. QED  BY <5>1, <5>2, <4>2 DEF IsInjective
      <4>9. Good(n)
        BY <4>1, <4>2, <4>7, <4>8
      <4>. QED  BY <4>9, <2>2
    <3>. QED  BY <3>5, <3>6
  <2>. QED  BY <2>3, <2>4
<1>5. Good(Len(list)) /\ f[Len(list)] \in Seq(Rd!Id)
  <2>1. Len(list) \in 0..Len(list)
    BY <1>1
  <2>. QED  BY <2>1, <1>3, <1>4
<1>6. Some(Len(list)) = {i \in Range(list) : Rd!Open(dicts[i])}
  BY <1>1 DEF Range
<1>. QED  BY <1>2, <1>5, <1>6

LEMMA SortedFacts ==
    ASSUME NEW list \in Seq(Rd!Id), NEW dicts, NEW newest, IsInjective(list)
    PROVE  LET s == Rd!Sorted(list, dicts, newest) IN
           /\ s \in Seq(Rd!Id) /\ IsInjective(s)
           /\ Range(s) = {i \in Range(list) : Rd!Open(dicts[i])}
<1> DEFINE v == Rd!Visible(list, dicts)
           r == Rd!Reverse(v)
<1>1. v \in Seq(Rd!Id) /\ IsInjective(v) /\ Range(v) = {i \in Range(list) : Rd!Open(dicts[i])}
  BY VisibleFacts
<1>2. Rd!Sorted(list, dicts, newest) = IF newest THEN r ELSE v
  BY DEF Rd!Sorted
<1>3. r = [i \in 1..Len(v) |-> v[(Len(v) - i) + 1]]
  BY DEF Rd!Reverse
<1> HIDE DEF v, r
<1>4. Len(v) \in Nat /\ DOMAIN v = 1..Len(v) /\ v \in [1..Len(v) -> Rd!Id]
  BY <1>1, LenProperties
<1>5. \A i \in 1..Len(v) : (Len(v) - i) + 1 \in 1..Len(v)
  BY <1>4
<1>6. r \in [1..Len(v) -> Rd!Id] /\ DOMAIN r = 1..Len(v)
  BY <1>3, <1>4, <1>5
<1>7. r \in Seq(Rd!Id)
  BY <1>4, <1>6, SeqDef
<1>8. IsInjective(r)
  <2> SUFFICES ASSUME NEW i \in 1..Len(v), NEW j \in 1..Len(v), r[i] = r[j] PROVE i = j
    BY <1>6 DEF IsInjective
  <2>1. v[(Len(v) - i) + 1] = v[(Len(v) - j) + 1]
    BY <1>3
  <2>2. (Len(v) - i) + 1 = (Len(v) - j) + 1
    BY <2>1, <1>1, <1>4, <1>5 DEF IsInjective
  <2>. QED  BY <2>2, <1>4
<1>9. Range(r) = Range(v)
  <2>1. \A i \in 1..Len(v) : \E j \in 1..Len(v) : r[i] = v[j]
    BY <1>3, <1>5
  <2>2. ASSUME NEW j \in 1..Len(v) PROVE \E i \in 1..Len(v) : r[i] = v[j]
    <3>1. (Len(v) - j) + 1 \in 1..Len(v) /\ (Len(v) - ((Len(v) - j) + 1)) + 1 = j
      BY <1>4
    <3>. QED  BY <3>1, <1>3
  <2>3. Range(v) = {v[j] : j \in 1..Len(v)} /\ Range(r) = {r[j] : j \in 1..Len(v)}
    BY <1>4, <1>6 DEF Range
  <2>. QED  BY <2>1, <2>2, <2>3
<1>. QED  BY <1>1, <1>2, <1>7, <1>8, <1>9

LEMMA RdOperators ==
    /\ \A f : Rd!Range(f) = Range(f)
    /\ \A f : Rd!IsInjective(f) <=> IsInjective(f)
BY DEF Rd!Range, Range, Rd!IsInjective, IsInjective

RdText == Text \cup {Rd!AnyText}
Dict == [text : RdText, private : BOOLEAN, demanding : BOOLEAN, claim : Nat, archived : BOOLEAN]
Read == [pc : {"idle", "asked", "chosen", "passed", "told"},
         kind : {"list", "suggest", "search", "get", "book"}, claim : Nat, term : RdText,
         barred : SUBSET Rd!Id, chosen : SUBSET Rd!Id]
Walk == [on : BOOLEAN, newest : BOOLEAN, offset : Nat, seen : Seq(Rd!Id),
         steady : SUBSET Rd!Id, moved : BOOLEAN, done : BOOLEAN]

RdType ==
    /\ listings \in Seq(Rd!Id) /\ IsInjective(listings)
    /\ posted \in 0..MaxListings /\ \A i \in Range(listings) : i <= posted
    /\ object \in [Rd!Id -> Dict] /\ claims \in Nat
    /\ request \in [Reader -> Read]
    /\ walk \in Walk

(* What bars a request goes on barring it; what it has passed is clean.    *)
BarredClosed ==
    \A r \in Reader :
        /\ \A i \in request[r].barred : Rd!Closed(object[i], request[r].kind, request[r].claim)
        /\ request[r].pc \in {"passed", "told"} => request[r].chosen \cap request[r].barred = {}

(* The index has the words of every listing whose write was acknowledged.  *)
RowsOfNow ==
    /\ index.made => index.on
    /\ index.on => \A i \in Range(listings) \cap acked :
                      index.made /\ <<i, object[i].text>> \in index.rows

(* A client half way through has read exactly the pages before its offset. *)
Shelf == Rd!Sorted(listings, object, walk.newest)
HalfWay ==
    /\ ~walk.on => walk = Rd!NoWalk
    /\ walk.on => walk.steady \subseteq Range(Shelf)
    /\ walk.on /\ ~walk.done /\ ~walk.moved =>
          walk.offset <= Len(Shelf) /\ walk.seen = SubSeq(Shelf, 1, walk.offset)
    /\ walk.done /\ ~walk.moved =>
          walk.steady \subseteq Range(walk.seen) /\ IsInjective(walk.seen)

RdInv == RdType /\ BarredClosed /\ RowsOfNow /\ HalfWay

LEMMA RdInit == Rd!Init => RdInv
<1> SUFFICES ASSUME Rd!Init PROVE RdInv
  OBVIOUS
<1>0. MaxListings \in Nat
  BY ReadsAssumption
<1>1. listings = <<>> /\ posted = 0 /\ claims = 0 /\ acked = {} /\ walk = Rd!NoWalk
  BY DEF Rd!Init
<1>2. listings \in Seq(Rd!Id) /\ DOMAIN listings = {}
  BY <1>1, EmptySeq
<1>3. IsInjective(listings) /\ Range(listings) = {}
  BY <1>2 DEF IsInjective, Range
<1>4. object \in [Rd!Id -> Dict]
  BY DEF Rd!Init, Dict, RdText
<1>5. request \in [Reader -> Read] /\ \A r \in Reader : request[r] = Rd!Resting
  BY DEF Rd!Init, Read, Rd!Resting, RdText
<1>6. walk \in Walk
  <2>1. <<>> \in Seq(Rd!Id)
    BY EmptySeq
  <2>. QED  BY <1>1, <2>1 DEF Rd!NoWalk, Walk
<1>7. RdType
  BY <1>0, <1>1, <1>2, <1>3, <1>4, <1>5, <1>6 DEF RdType
<1>8. BarredClosed
  BY <1>5 DEF BarredClosed, Rd!Resting
<1>9. RowsOfNow
  BY <1>1 DEF RowsOfNow, Rd!Init
<1>10. HalfWay
  BY <1>1 DEF HalfWay, Rd!NoWalk
<1>. QED  BY <1>7, <1>8, <1>9, <1>10 DEF RdInv

(* Every change the owner makes keeps what the reads rely on.              *)
LEMMA RdChanged ==
    ASSUME RdInv, NEW i \in Rd!Id, NEW dict \in Dict, NEW list, Rd!Changed(i, dict, list),
           list \in Seq(Rd!Id), IsInjective(list), Range(list) \subseteq Range(listings) \cup {i},
           posted' \in 0..MaxListings, \A j \in Range(list) : j <= posted',
           claims' \in Nat
    PROVE  RdInv'
<1> DEFINE new == [object EXCEPT ![i] = dict]
           before == Rd!Sorted(listings, object, walk.newest)
           after == Rd!Sorted(list, new, walk.newest)
           read == IF walk.offset > Len(before) THEN Len(before) ELSE walk.offset
           steady == walk.steady \cap Range(after)
           moved == walk.moved \/ Len(after) < read
                               \/ SubSeq(before, 1, read) # SubSeq(after, 1, read)
<1>1. /\ object' = new /\ listings' = list
      /\ \/ /\ index' = IF index.on THEN Rd!IndexOf(list, new) ELSE index
            /\ acked' = acked \cup {i}
         \/ index' = index /\ acked' = acked \ {i}
  BY DEF Rd!Changed
<1>2. request' = [r \in Reader |-> [request[r] EXCEPT !.barred =
           IF Rd!Closed(dict, request[r].kind, request[r].claim) THEN request[r].barred
           ELSE request[r].barred \ {i}]]
  BY DEF Rd!Changed
<1>3. walk' = [walk EXCEPT !.steady = steady, !.moved = moved]
  BY RdOperators DEF Rd!Changed
<1>4. new \in [Rd!Id -> Dict] /\ new[i] = dict /\ \A j \in Rd!Id \ {i} : new[j] = object[j]
  BY DEF RdInv, RdType
<1>5. /\ before \in Seq(Rd!Id) /\ after \in Seq(Rd!Id)
  BY SortedFacts DEF RdInv, RdType
<1>5a. Len(before) \in Nat /\ Len(after) \in Nat
  <2>. HIDE DEF before, after
  <2>. QED  BY <1>5, LenProperties
<1>6. Shelf' = Rd!Sorted(list, new, walk'.newest)
  BY <1>1 DEF Shelf
<1> HIDE DEF new
<1>7. walk \in Walk /\ walk' \in Walk /\ walk'.newest = walk.newest /\ walk'.on = walk.on
      /\ walk'.done = walk.done /\ walk'.offset = walk.offset /\ walk'.seen = walk.seen
      /\ walk'.steady = steady /\ walk'.moved = moved
  <2>1. walk \in Walk /\ moved \in BOOLEAN /\ steady \in SUBSET Rd!Id
    BY DEF RdInv, RdType, Walk
  <2>. HIDE DEF moved, steady
  <2>. QED  BY <2>1, <1>3 DEF Walk
<1>8. Shelf' = after /\ Shelf = before
  BY <1>6, <1>7 DEF Shelf
<1>9. RdType'
  <2>1. request' \in [Reader -> Read]
    BY <1>2 DEF RdInv, RdType, Read
  <2>. QED  BY <1>1, <1>4, <1>7, <2>1 DEF RdInv, RdType
<1>10. BarredClosed'
  <2> SUFFICES ASSUME NEW r \in Reader
               PROVE  /\ \A j \in request'[r].barred :
                             Rd!Closed(object'[j], request'[r].kind, request'[r].claim)
                      /\ request'[r].pc \in {"passed", "told"} =>
                             request'[r].chosen \cap request'[r].barred = {}
    BY DEF BarredClosed, Rd!Closed
  <2>1. request[r] \in Read
    BY DEF RdInv, RdType
  <2>2. /\ request'[r].kind = request[r].kind /\ request'[r].claim = request[r].claim
        /\ request'[r].pc = request[r].pc /\ request'[r].chosen = request[r].chosen
        /\ request'[r].barred = IF Rd!Closed(dict, request[r].kind, request[r].claim)
                                THEN request[r].barred ELSE request[r].barred \ {i}
    BY <2>1, <1>2 DEF Read
  <2>3. ASSUME NEW j \in request'[r].barred
        PROVE  Rd!Closed(object'[j], request[r].kind, request[r].claim)
    <3>1. j \in request[r].barred /\ j \in Rd!Id
      BY <2>1, <2>2 DEF Read
    <3>2. CASE j = i
      BY <3>2, <2>2, <1>1, <1>4
    <3>3. CASE j # i
      BY <3>1, <3>3, <1>1, <1>4 DEF RdInv, BarredClosed
    <3>. QED  BY <3>2, <3>3
  <2>4. request[r].pc \in {"passed", "told"} => request[r].chosen \cap request[r].barred = {}
    BY DEF RdInv, BarredClosed
  <2>. QED  BY <2>2, <2>3, <2>4
<1>11. RowsOfNow'
  <2>1. CASE index' = Rd!IndexOf(list, new)
    <3>1. index'.on /\ index'.made
          /\ \A j \in Range(list) : <<j, new[j].text>> \in index'.rows
      BY <2>1, RdOperators DEF Rd!IndexOf
    <3>. QED  BY <3>1, <1>1 DEF RowsOfNow
  <2>2. CASE index' = index /\ acked' = acked \ {i}
    <3>1. Range(listings) \subseteq Rd!Id
      BY LenProperties DEF RdInv, RdType, Range
    <3>2. \A j \in Range(list) \cap acked' :
              j \in Range(listings) \cap acked /\ new[j] = object[j]
      BY <2>2, <3>1, <1>4
    <3>. QED  BY <3>2, <2>2, <1>1 DEF RdInv, RowsOfNow
  <2>3. CASE index' = index /\ ~index.on
    BY <2>3 DEF RdInv, RowsOfNow
  <2>. QED  BY <2>1, <2>2, <2>3, <1>1
<1>12. HalfWay'
  <2>1. ~walk'.on => walk' = Rd!NoWalk
    <3> SUFFICES ASSUME ~walk.on PROVE walk' = Rd!NoWalk
      BY <1>7
    <3>1. walk = Rd!NoWalk
      BY DEF RdInv, HalfWay
    <3>2. walk.steady = {} /\ walk.moved = FALSE /\ walk.offset = 0
      BY <3>1 DEF Rd!NoWalk
    <3>3. steady = {}
      BY <3>2
    <3>4. read = 0
      BY <3>2, <1>5a
    <3>5. SubSeq(before, 1, 0) = <<>> /\ SubSeq(after, 1, 0) = <<>>
      BY SubSeqEmpty
    <3>6. moved = FALSE
      BY <3>2, <3>4, <3>5, <1>5a
    <3>. HIDE DEF steady, moved
    <3>. QED  BY <1>3, <3>1, <3>3, <3>6 DEF Rd!NoWalk
  <2>2. walk'.steady \subseteq Range(Shelf')
    BY <1>7, <1>8
  <2>3. ASSUME walk'.on, ~walk'.done, ~walk'.moved
        PROVE  walk'.offset <= Len(Shelf') /\ walk'.seen = SubSeq(Shelf', 1, walk'.offset)
    <3> HIDE DEF before, after
    <3>1. ~walk.moved /\ ~(Len(after) < read) /\ SubSeq(before, 1, read) = SubSeq(after, 1, read)
      BY <2>3, <1>7
    <3>2. walk.offset <= Len(before) /\ walk.seen = SubSeq(before, 1, walk.offset)
      BY <2>3, <3>1, <1>7, <1>8 DEF RdInv, HalfWay
    <3>3. walk.offset \in Nat /\ read = walk.offset
      BY <3>2, <1>5a, <1>7 DEF Walk
    <3>. QED  BY <3>1, <3>2, <3>3, <1>5a, <1>7, <1>8
  <2>4. walk'.done /\ ~walk'.moved =>
           walk'.steady \subseteq Range(walk'.seen) /\ IsInjective(walk'.seen)
    <3>1. walk.done /\ ~walk.moved => walk.steady \subseteq Range(walk.seen) /\ IsInjective(walk.seen)
      BY DEF RdInv, HalfWay
    <3>. QED  BY <3>1, <1>7
  <2>. QED  BY <2>1, <2>2, <2>3, <2>4 DEF HalfWay
<1>. QED  BY <1>9, <1>10, <1>11, <1>12 DEF RdInv

LEMMA RdPost == RdInv /\ Rd!Post => RdInv'
<1> SUFFICES ASSUME RdInv, Rd!Post PROVE RdInv'
  OBVIOUS
<1>1. PICK t \in Text, private \in BOOLEAN, demanding \in BOOLEAN :
          /\ claims' = claims + (IF private THEN 1 ELSE 0)
          /\ Rd!Changed(posted', [text |-> t, private |-> private, demanding |-> demanding,
                                  claim |-> IF private THEN claims' ELSE 0, archived |-> FALSE],
                        Append(listings, posted'))
  BY DEF Rd!Post
<1>2. posted < MaxListings /\ posted' = posted + 1
  BY DEF Rd!Post
<1> DEFINE dict == [text |-> t, private |-> private, demanding |-> demanding,
                    claim |-> IF private THEN claims' ELSE 0, archived |-> FALSE]
           list == Append(listings, posted')
<1>3. claims' \in Nat
  BY <1>1 DEF RdInv, RdType
<1>4. dict \in Dict
  BY <1>3 DEF Dict, RdText
<1>5. posted \in Nat /\ MaxListings \in Nat
  BY ReadsAssumption DEF RdInv, RdType
<1>6. posted' \in Rd!Id /\ posted' \in 0..MaxListings
  BY <1>2, <1>5 DEF Rd!Id
<1>7. /\ list \in Seq(Rd!Id) /\ Len(list) = Len(listings) + 1 /\ list[Len(listings) + 1] = posted'
      /\ \A k \in 1..Len(listings) : list[k] = listings[k]
  BY <1>6, AppendProperties DEF RdInv, RdType
<1>8. Rd!Changed(posted', dict, list)
  BY <1>1
<1> HIDE DEF list, dict
<1>9. DOMAIN listings = 1..Len(listings) /\ Len(listings) \in Nat /\ DOMAIN list = 1..Len(listings) + 1
  BY <1>7, LenProperties DEF RdInv, RdType
<1>10. DOMAIN list = DOMAIN listings \cup {Len(listings) + 1}
  BY <1>9
<1>11. Range(list) = Range(listings) \cup {posted'}
  BY <1>7, <1>9, <1>10 DEF Range
<1>12. \A j \in Range(listings) : j <= posted
  BY DEF RdInv, RdType
<1>13. \A j \in Range(list) : j <= posted'
  <2>1. Range(listings) \subseteq Nat
    <3>1. Range(listings) \subseteq Rd!Id
      BY LenProperties DEF RdInv, RdType, Range
    <3>. QED  BY <3>1 DEF Rd!Id
  <2>. QED  BY <2>1, <1>2, <1>5, <1>11, <1>12
<1>14. posted' \notin Range(listings)
  BY <1>2, <1>5, <1>12
<1>15. IsInjective(list)
  <2>1. \A k \in DOMAIN listings : list[k] = listings[k] /\ listings[k] # posted'
    BY <1>7, <1>9, <1>14 DEF Range
  <2>. QED  BY <2>1, <1>7, <1>10 DEF RdInv, RdType, IsInjective
<1>. QED  BY <1>3, <1>4, <1>6, <1>7, <1>8, <1>11, <1>13, <1>15, RdChanged

LEMMA RdManage == RdInv /\ Rd!Manage => RdInv'
<1> SUFFICES ASSUME RdInv, Rd!Manage PROVE RdInv'
  OBVIOUS
<1>1. PICK i \in Range(listings) :
          Rd!Edit(i) \/ Rd!Archive(i) \/ Rd!MakePrivate(i) \/ Rd!MakePublic(i) \/ Rd!Delete(i)
  BY RdOperators DEF Rd!Manage
<1>2. i \in Rd!Id /\ object[i] \in Dict /\ posted \in 0..MaxListings
      /\ \A j \in Range(listings) : j <= posted
  BY LenProperties DEF RdInv, RdType, Range
<1>3. ASSUME NEW dict \in Dict, Rd!Changed(i, dict, listings), posted' = posted, claims' \in Nat
      PROVE  RdInv'
  BY <1>1, <1>2, <1>3, RdChanged DEF RdInv, RdType
<1>4. CASE Rd!Edit(i)
  <2>1. PICK t \in Text, demanding \in BOOLEAN :
            Rd!Changed(i, [object[i] EXCEPT !.text = t, !.demanding = demanding], listings)
    BY <1>4 DEF Rd!Edit
  <2>2. [object[i] EXCEPT !.text = t, !.demanding = demanding] \in Dict
    BY <1>2 DEF Dict, RdText
  <2>. QED  BY <2>1, <2>2, <1>3, <1>4 DEF Rd!Edit, RdInv, RdType
<1>5. CASE Rd!Archive(i)
  <2>1. PICK hide \in BOOLEAN :
            Rd!Changed(i, [object[i] EXCEPT !.archived = hide], listings)
    BY <1>5 DEF Rd!Archive
  <2>2. [object[i] EXCEPT !.archived = hide] \in Dict
    BY <1>2 DEF Dict
  <2>. QED  BY <2>1, <2>2, <1>3, <1>5 DEF Rd!Archive, RdInv, RdType
<1>6. CASE Rd!MakePrivate(i)
  <2>1. claims' \in Nat
    BY <1>6 DEF Rd!MakePrivate, RdInv, RdType
  <2>2. [object[i] EXCEPT !.private = TRUE, !.claim = claims'] \in Dict
    BY <1>2, <2>1 DEF Dict
  <2>. QED  BY <2>1, <2>2, <1>3, <1>6 DEF Rd!MakePrivate
<1>7. CASE Rd!MakePublic(i)
  <2>1. [object[i] EXCEPT !.private = FALSE, !.claim = 0] \in Dict
    BY <1>2 DEF Dict
  <2>. QED  BY <2>1, <1>3, <1>7 DEF Rd!MakePublic, RdInv, RdType
<1>8. CASE Rd!Delete(i)
  <2>1. PICK n \in DOMAIN listings :
            listings[n] = i /\ Rd!Changed(i, object[i], Rd!RemoveAt(listings, n))
    BY <1>8 DEF Rd!Delete
  <2> DEFINE list == SubSeq(listings, 1, n - 1) \o SubSeq(listings, n + 1, Len(listings))
  <2>2. Rd!RemoveAt(listings, n) = list
    BY DEF Rd!RemoveAt
  <2>3. list \in Seq(Rd!Id) /\ IsInjective(list) /\ Range(list) \subseteq Range(listings)
    BY WithoutKeepsOnce DEF RdInv, RdType
  <2>4. posted' = posted /\ claims' = claims
    BY <1>8 DEF Rd!Delete
  <2> HIDE DEF list
  <2>5. Rd!Changed(i, object[i], list)
    BY <2>1, <2>2
  <2>6. posted' \in 0..MaxListings /\ claims' \in Nat /\ \A j \in Range(list) : j <= posted'
    BY <2>3, <2>4, <1>2 DEF RdInv, RdType
  <2>7. Range(list) \subseteq Range(listings) \cup {i}
    BY <2>3
  <2>. QED  BY <1>2, <2>3, <2>5, <2>6, <2>7, RdChanged
<1>. QED  BY <1>1, <1>4, <1>5, <1>6, <1>7, <1>8

(* A request moves on; the listings, the index and the walk stand still.   *)
LEMMA RdRequest ==
    ASSUME RdInv, NEW r \in Reader,
           Rd!Ask(r) \/ Rd!Select(r) \/ Rd!Pass(r) \/ Rd!Tell(r)
    PROVE  RdInv'
<1> DEFINE Fine(q) ==
        /\ \A i \in q.barred : Rd!Closed(object[i], q.kind, q.claim)
        /\ q.pc \in {"passed", "told"} => q.chosen \cap q.barred = {}
<1>1. UNCHANGED <<listings, posted, object, index, acked, claims, walk, writes>>
  BY DEF Rd!Ask, Rd!Select, Rd!Pass, Rd!Tell
<1>2. request \in [Reader -> Read] /\ request[r] \in Read /\ Fine(request[r])
  BY DEF RdInv, RdType, BarredClosed
<1>3. ASSUME NEW q \in Read, Fine(q), request' = [request EXCEPT ![r] = q]
      PROVE  RdInv'
  <2>1. request' \in [Reader -> Read]
    BY <1>2, <1>3
  <2>2. RdType'
    BY <2>1, <1>1 DEF RdInv, RdType
  <2>3. BarredClosed'
    <3> SUFFICES ASSUME NEW s \in Reader
                 PROVE  /\ \A j \in request'[s].barred :
                               Rd!Closed(object'[j], request'[s].kind, request'[s].claim)
                        /\ request'[s].pc \in {"passed", "told"} =>
                               request'[s].chosen \cap request'[s].barred = {}
      BY DEF BarredClosed, Rd!Closed
    <3>1. CASE s = r
      BY <3>1, <1>1, <1>2, <1>3
    <3>2. CASE s # r
      <4>1. request'[s] = request[s] /\ object' = object
        BY <3>2, <1>1, <1>2, <1>3
      <4>. QED  BY <4>1 DEF RdInv, BarredClosed
    <3>. QED  BY <3>1, <3>2
  <2>4. RowsOfNow' /\ HalfWay'
    BY <1>1 DEF RdInv, RowsOfNow, HalfWay, Shelf
  <2>. QED  BY <2>2, <2>3, <2>4 DEF RdInv
<1>4. Rd!Resting \in Read /\ Fine(Rd!Resting)
  BY DEF Rd!Resting, Read, RdText
<1>5. Range(listings) \subseteq Rd!Id
  BY LenProperties DEF RdInv, RdType, Range
<1>6. Rd!Browsed \subseteq Rd!Id /\ \A i \in Rd!Browsed : ~object[i].private /\ ~object[i].archived
  BY <1>5, RdOperators DEF Rd!Browsed, Rd!Open
<1>7. CASE Rd!Ask(r)
  <2>1. PICK kind \in {"list", "suggest", "search", "get", "book"}, claim \in 0..claims, term \in Text :
          request' = [request EXCEPT ![r] =
                 [pc |-> "asked", kind |-> kind, claim |-> claim, term |-> term, chosen |-> {},
                  barred |-> {i \in Rd!Range(listings) : Rd!Closed(object[i], kind, claim)}]]
    BY <1>7 DEF Rd!Ask
  <2> DEFINE q == [pc |-> "asked", kind |-> kind, claim |-> claim, term |-> term, chosen |-> {},
                   barred |-> {i \in Rd!Range(listings) : Rd!Closed(object[i], kind, claim)}]
  <2>2. claim \in Nat
    BY DEF RdInv, RdType
  <2>3. q \in Read
    BY <2>2, <1>5, RdOperators DEF Read, RdText
  <2>4. Fine(q)
    OBVIOUS
  <2> HIDE DEF q
  <2>5. request' = [request EXCEPT ![r] = q]
    BY <2>1 DEF q
  <2>. QED  BY <2>3, <2>4, <2>5, <1>3
<1>8. CASE Rd!Select(r)
  <2>1. CASE request[r].kind \in {"list", "suggest"}
               /\ request' = [request EXCEPT ![r].pc = "told", ![r].chosen = Rd!Browsed]
    <3> DEFINE q == [request[r] EXCEPT !.pc = "told", !.chosen = Rd!Browsed]
    <3>1. q \in Read
      BY <1>2, <1>6 DEF Read
    <3>2. q.pc = "told" /\ q.chosen = Rd!Browsed /\ q.barred = request[r].barred
          /\ q.kind = request[r].kind /\ q.claim = request[r].claim
      BY <1>2 DEF Read
    <3>3. request' = [request EXCEPT ![r] = q]
      BY <2>1, <1>2
    <3> HIDE DEF q
    <3>4. Fine(q)
      BY <3>2, <2>1, <1>2, <1>6 DEF Rd!Closed
    <3>. QED  BY <3>1, <3>3, <3>4, <1>3
  <2>2. CASE request[r].kind = "search"
               /\ request' = [request EXCEPT ![r].pc = "passed",
                                             ![r].chosen = Rd!Found(request[r].term)]
    <3> DEFINE found == Rd!Found(request[r].term)
               q == [request[r] EXCEPT !.pc = "passed", !.chosen = found]
    <3>0. found \subseteq Rd!Browsed
      BY DEF Rd!Found
    <3>3. request' = [request EXCEPT ![r] = q]
      BY <2>2, <1>2
    <3> HIDE DEF found
    <3>1. q \in Read
      BY <3>0, <1>2, <1>6 DEF Read
    <3>2. q.pc = "passed" /\ q.chosen = found /\ q.barred = request[r].barred
          /\ q.kind = request[r].kind /\ q.claim = request[r].claim
      BY <1>2 DEF Read
    <3> HIDE DEF q
    <3>4. Fine(q)
      BY <3>0, <3>2, <2>2, <1>2, <1>6 DEF Rd!Closed
    <3>. QED  BY <3>1, <3>3, <3>4, <1>3
  <2>3. CASE \E i \in Range(listings) :
                request' = [request EXCEPT ![r].pc = "chosen", ![r].chosen = {i}]
    <3>1. PICK i \in Range(listings) :
              request' = [request EXCEPT ![r].pc = "chosen", ![r].chosen = {i}]
      BY <2>3
    <3> DEFINE q == [request[r] EXCEPT !.pc = "chosen", !.chosen = {i}]
    <3>2. q \in Read /\ q.pc = "chosen" /\ q.barred = request[r].barred
          /\ q.kind = request[r].kind /\ q.claim = request[r].claim
      BY <1>2, <1>5 DEF Read
    <3>3. request' = [request EXCEPT ![r] = q]
      BY <3>1, <1>2
    <3> HIDE DEF q
    <3>4. Fine(q)
      BY <3>2, <1>2
    <3>. QED  BY <3>2, <3>3, <3>4, <1>3
  <2>. QED  BY <1>8, <2>1, <2>2, <2>3, RdOperators DEF Rd!Select
<1>9. CASE Rd!Pass(r)
  <2>1. CASE \A i \in request[r].chosen : Rd!Admits(request[r].kind, request[r].claim, i)
    <3> DEFINE q == [request[r] EXCEPT !.pc = "passed"]
    <3>1. q \in Read /\ q.pc = "passed" /\ q.chosen = request[r].chosen
          /\ q.barred = request[r].barred /\ q.kind = request[r].kind /\ q.claim = request[r].claim
      BY <1>2 DEF Read
    <3>2. request' = [request EXCEPT ![r] = q]
      BY <2>1, <1>9 DEF Rd!Pass
    <3> HIDE DEF q
    <3>3. Fine(q)
      BY <3>1, <2>1, <1>2 DEF Rd!Admits, Rd!Closed
    <3>. QED  BY <3>1, <3>2, <3>3, <1>3
  <2>2. CASE ~ \A i \in request[r].chosen : Rd!Admits(request[r].kind, request[r].claim, i)
    <3>1. request' = [request EXCEPT ![r] = Rd!Resting]
      BY <2>2, <1>9 DEF Rd!Pass
    <3>. QED  BY <3>1, <1>3, <1>4
  <2>. QED  BY <2>1, <2>2
<1>10. CASE Rd!Tell(r)
  <2>1. CASE request' = [request EXCEPT ![r] = Rd!Resting]
    BY <2>1, <1>3, <1>4
  <2>2. CASE request' = [request EXCEPT ![r] = [request[r] EXCEPT !.pc = "told"]]
    <3> DEFINE q == [request[r] EXCEPT !.pc = "told"]
    <3>1. q \in Read /\ q.chosen = request[r].chosen
          /\ q.barred = request[r].barred /\ q.kind = request[r].kind /\ q.claim = request[r].claim
      BY <1>2 DEF Read
    <3>2. request' = [request EXCEPT ![r] = q] /\ request[r].pc = "passed"
      BY <2>2, <1>10 DEF Rd!Tell
    <3> HIDE DEF q
    <3>3. Fine(q)
      BY <3>1, <3>2, <1>2
    <3>. QED  BY <3>1, <3>2, <3>3, <1>3
  <2>. QED  BY <2>1, <2>2, <1>10 DEF Rd!Tell
<1>. QED  BY <1>7, <1>8, <1>9, <1>10

LEMMA RdSetOut == RdInv /\ Rd!SetOut => RdInv'
<1> SUFFICES ASSUME RdInv, Rd!SetOut PROVE RdInv'
  OBVIOUS
<1>1. UNCHANGED <<listings, posted, object, index, acked, claims, request, writes>>
  BY DEF Rd!SetOut
<1>2. PICK newest \in BOOLEAN :
          walk' = [Rd!NoWalk EXCEPT !.on = TRUE, !.newest = newest, !.steady = Rd!Browsed]
  BY DEF Rd!SetOut
<1>3. walk' = [on |-> TRUE, newest |-> newest, offset |-> 0, seen |-> <<>>,
               steady |-> Rd!Browsed, moved |-> FALSE, done |-> FALSE]
  BY <1>2 DEF Rd!NoWalk
<1>4. Rd!Browsed = {i \in Range(listings) : Rd!Open(object[i])}
  BY RdOperators DEF Rd!Browsed
<1>5. Rd!Browsed \subseteq Rd!Id
  BY <1>4, LenProperties DEF RdInv, RdType, Range
<1>6. walk' \in Walk
  <2>1. <<>> \in Seq(Rd!Id)
    BY EmptySeq
  <2>. QED  BY <2>1, <1>3, <1>5 DEF Walk
<1>7. Shelf' = Rd!Sorted(listings, object, newest)
  BY <1>1, <1>3 DEF Shelf
<1> DEFINE s == Rd!Sorted(listings, object, newest)
<1>8. s \in Seq(Rd!Id) /\ Range(s) = Rd!Browsed
  BY <1>4, SortedFacts DEF RdInv, RdType
<1> HIDE DEF s
<1>9. Len(s) \in Nat /\ SubSeq(s, 1, 0) = <<>>
  BY <1>8, LenProperties, SubSeqEmpty
<1>10. HalfWay'
  BY <1>3, <1>7, <1>8, <1>9 DEF HalfWay, s
<1>. QED  BY <1>1, <1>6, <1>10 DEF RdInv, RdType, BarredClosed, RowsOfNow, Rd!Closed

LEMMA RdNextPage == RdInv /\ Rd!NextPage => RdInv'
<1> SUFFICES ASSUME RdInv, Rd!NextPage PROVE RdInv'
  OBVIOUS
<1>1. UNCHANGED <<listings, posted, object, index, acked, claims, request, writes>>
  BY DEF Rd!NextPage
<1> DEFINE s == Rd!Sorted(listings, object, walk.newest)
           o == walk.offset
           end == IF o + PageSize > Len(s) THEN Len(s) ELSE o + PageSize
<1>2. walk.on /\ ~walk.done
      /\ walk' = [walk EXCEPT !.seen = walk.seen \o SubSeq(s, o + 1, end),
                              !.offset = o + PageSize,
                              !.done = o + PageSize >= Len(s)]
  BY DEF Rd!NextPage, Rd!Paginate
<1>3. s \in Seq(Rd!Id) /\ IsInjective(s)
  BY SortedFacts DEF RdInv, RdType
<1>4. Shelf = s /\ walk \in Walk
  BY DEF Shelf, RdInv, RdType
<1>5. Shelf' = Rd!Sorted(listings, object, walk'.newest)
  BY <1>1 DEF Shelf
<1> HIDE DEF s
<1>6. /\ Len(s) \in Nat /\ s \in [1..Len(s) -> Rd!Id] /\ DOMAIN s = 1..Len(s)
      /\ PageSize \in Nat /\ o \in Nat
  BY <1>3, <1>4, LenProperties, ReadsAssumption DEF Walk
<1>7. end \in Nat /\ end <= Len(s)
  BY <1>6
<1>8. SubSeq(s, o + 1, end) \in Seq(Rd!Id)
  <2>1. \A k \in o + 1..end : s[k] \in Rd!Id
    BY <1>6, <1>7
  <2>. HIDE DEF end
  <2>. QED  BY <2>1, <1>6, <1>7, SubSeqProperties
<1> DEFINE seen == walk.seen \o SubSeq(s, o + 1, end)
           done == o + PageSize >= Len(s)
<1>9. seen \in Seq(Rd!Id) /\ o + PageSize \in Nat /\ done \in BOOLEAN
  <2>1. walk.seen \in Seq(Rd!Id)
    BY <1>4 DEF Walk
  <2>. HIDE DEF end
  <2>. QED  BY <2>1, <1>6, <1>8, ConcatProperties
<1>10. ~walk.moved => o <= Len(s) /\ walk.seen = SubSeq(s, 1, o)
  BY <1>2, <1>4 DEF RdInv, HalfWay
<1>11. ~walk.moved => seen = SubSeq(s, 1, end)
  <2> SUFFICES ASSUME ~walk.moved PROVE seen = SubSeq(s, 1, end)
    OBVIOUS
  <2>1. o <= end
    BY <1>6, <1>10
  <2> HIDE DEF end
  <2> DEFINE a == SubSeq(s, 1, o)
             b == SubSeq(s, o + 1, end)
             c == SubSeq(s, 1, end)
  <2>2. \A k \in 1..end : s[k] \in Rd!Id
    BY <1>6, <1>7
  <2>3. a \in Seq(Rd!Id) /\ Len(a) = o /\ \A k \in 1..o : a[k] = s[k]
    <3>1. \A k \in 1..o : s[k] \in Rd!Id
      BY <2>1, <2>2, <1>6, <1>7
    <3>2. /\ a \in Seq(Rd!Id) /\ Len(a) = IF 1 <= o THEN o - 1 + 1 ELSE 0
          /\ \A k \in 1..o - 1 + 1 : a[k] = s[1 + k - 1]
      BY <3>1, <1>6, SubSeqProperties
    <3>. HIDE DEF a
    <3>. QED  BY <3>2, <1>6
  <2>4. b \in Seq(Rd!Id) /\ Len(b) = end - o /\ \A k \in 1..end - o : b[k] = s[o + k]
    <3>1. \A k \in o + 1..end : s[k] \in Rd!Id
      BY <2>2, <1>6, <1>7
    <3>2. /\ b \in Seq(Rd!Id) /\ Len(b) = IF o + 1 <= end THEN end - (o + 1) + 1 ELSE 0
          /\ \A k \in 1..end - (o + 1) + 1 : b[k] = s[o + 1 + k - 1]
      <4>1. o + 1 \in Int /\ end \in Int
        BY <1>6, <1>7
      <4>. QED  BY <3>1, <4>1, SubSeqProperties
    <3>3. /\ end - (o + 1) + 1 = end - o /\ (o + 1 <= end \/ end - o = 0)
          /\ \A k \in 1..end - o : o + 1 + k - 1 = o + k
      BY <2>1, <1>6, <1>7
    <3>. HIDE DEF b
    <3>4. Len(b) = end - o
      BY <3>2, <3>3, <2>1, <1>6, <1>7
    <3>5. \A k \in 1..end - o : b[k] = s[o + k]
      <4>1. \A k \in 1..end - o : b[k] = s[o + 1 + k - 1]
        BY <3>2, <3>3
      <4>. QED  BY <4>1, <3>3
    <3>. QED  BY <3>2, <3>4, <3>5
  <2>5. c \in Seq(Rd!Id) /\ Len(c) = end /\ \A k \in 1..end : c[k] = s[k]
    <3>2. /\ c \in Seq(Rd!Id) /\ Len(c) = IF 1 <= end THEN end - 1 + 1 ELSE 0
          /\ \A k \in 1..end - 1 + 1 : c[k] = s[1 + k - 1]
      BY <2>2, <1>7, SubSeqProperties
    <3>. HIDE DEF c
    <3>. QED  BY <3>2, <1>7
  <2>6. seen = a \o b
    BY <1>10
  <2> HIDE DEF a, b, c
  <2>7. /\ a \o b \in Seq(Rd!Id) /\ Len(a \o b) = end
        /\ \A k \in 1..end : (a \o b)[k] = IF k <= o THEN a[k] ELSE b[k - o]
    <3>1. Len(a) + Len(b) = end
      BY <2>3, <2>4, <1>6, <1>7
    <3>2. /\ a \o b \in Seq(Rd!Id) /\ Len(a \o b) = Len(a) + Len(b)
          /\ \A k \in 1..Len(a) + Len(b) :
                (a \o b)[k] = IF k <= Len(a) THEN a[k] ELSE b[k - Len(a)]
      BY <2>3, <2>4, ConcatProperties
    <3>3. Len(a) = o
      BY <2>3
    <3>. QED  BY <3>1, <3>2, <3>3
  <2>8. ASSUME NEW k \in 1..end PROVE (a \o b)[k] = c[k]
    <3>1. CASE k <= o
      <4>1. k \in 1..o
        BY <3>1, <1>6, <1>7
      <4>. QED  BY <4>1, <3>1, <2>3, <2>5, <2>7
    <3>2. CASE ~(k <= o)
      <4>1. k - o \in 1..end - o /\ o + (k - o) = k
        BY <3>2, <1>6, <1>7
      <4>. QED  BY <4>1, <3>2, <2>4, <2>5, <2>7
    <3>. QED  BY <3>1, <3>2
  <2>9. a \o b = c
    BY <2>5, <2>7, <2>8, SeqEqual
  <2>. QED  BY <2>6, <2>9 DEF c
<1> HIDE DEF seen, end, done
<1>12. /\ walk' \in Walk /\ walk'.on = walk.on /\ walk'.newest = walk.newest
       /\ walk'.offset = o + PageSize /\ walk'.seen = seen /\ walk'.steady = walk.steady
       /\ walk'.moved = walk.moved /\ walk'.done = done
  BY <1>2, <1>4, <1>9 DEF Walk, seen, done
<1>13. Shelf' = s
  BY <1>5, <1>12 DEF s
<1>14. walk.steady \subseteq Range(s)
  BY <1>2, <1>4 DEF RdInv, HalfWay
<1>15. CASE ~done
  <2>1. o + PageSize <= Len(s)
    BY <1>6, <1>15 DEF done
  <2>2. end = o + PageSize
    BY <2>1, <1>6 DEF end
  <2>3. HalfWay'
    BY <2>1, <2>2, <1>2, <1>11, <1>12, <1>13, <1>14, <1>15 DEF HalfWay
  <2>. QED  BY <2>3, <1>1, <1>12 DEF RdInv, RdType, BarredClosed, RowsOfNow, Rd!Closed
<1>16. CASE done
  <2>1. end = Len(s)
    BY <1>6, <1>16 DEF end, done
  <2>2. SubSeq(s, 1, Len(s)) = s
    BY <1>3, SubSeqFull
  <2>3. HalfWay'
    BY <2>1, <2>2, <1>2, <1>3, <1>11, <1>12, <1>13, <1>14, <1>16 DEF HalfWay
  <2>. QED  BY <2>3, <1>1, <1>12 DEF RdInv, RdType, BarredClosed, RowsOfNow, Rd!Closed
<1>. QED  BY <1>15, <1>16

LEMMA RdNext == RdInv /\ [Rd!Next]_rdVars => RdInv'
<1> SUFFICES ASSUME RdInv, [Rd!Next]_rdVars PROVE RdInv'
  OBVIOUS
<1>1. CASE UNCHANGED rdVars
  BY <1>1 DEF rdVars, RdInv, RdType, BarredClosed, RowsOfNow, HalfWay, Shelf, Rd!Closed
<1>2. CASE Rd!Next
  <2>1. CASE Rd!Post \/ Rd!Manage \/ Rd!SetOut \/ Rd!NextPage
    BY <2>1, RdPost, RdManage, RdSetOut, RdNextPage
  <2>2. CASE \E r \in Reader : Rd!Ask(r) \/ Rd!Select(r) \/ Rd!Pass(r) \/ Rd!Tell(r)
    BY <2>2, RdRequest
  <2>. QED  BY <1>2, <2>1, <2>2 DEF Rd!Next
<1>. QED  BY <1>1, <1>2

THEOREM RdKept == Spec => []RdInv
<1>1. Init => RdInv
  BY RdInit DEF Init
<1>2. RdInv /\ [Next]_vars => RdInv'
  <2>1. [Next]_vars => [Rd!Next]_rdVars
    BY DEF Next, vars
  <2>. QED  BY <2>1, RdNext
<1>. QED  BY <1>1, <1>2, PTL DEF Spec

(* A stranger is never told, and never books, what was closed to the       *)
(* request throughout, archived, private without the claim or demanding a  *)
(* verified buyer (do_GET /listings/<id>, do_POST /book, /search).         *)
THEOREM ClosedKept == Spec => []ClosedStaysClosed
<1>1. RdInv => ClosedStaysClosed
  BY DEF RdInv, BarredClosed, ClosedStaysClosed, Rd!ClosedStaysClosed
<1>. QED  BY <1>1, RdKept, PTL

(* Following the pages to the end reads every listing that was there all   *)
(* along, and none twice (_paginate).                                      *)
THEOREM WalkReadsAll == Spec => []WalkComplete
<1>1. RdInv => WalkComplete
  <2> DEFINE ReadAll == walk.done /\ ~walk.moved =>
                            walk.steady \subseteq Range(walk.seen) /\ IsInjective(walk.seen)
  <2>1. ReadAll => WalkComplete
    BY RdOperators DEF WalkComplete, Rd!WalkComplete
  <2>2. RdInv => ReadAll
    BY DEF RdInv, HalfWay
  <2> HIDE DEF ReadAll
  <2>. QED  BY <2>1, <2>2
<1>. QED  BY <1>1, RdKept, PTL

(* Failed snapshots and edits in between or not, a search finds what was   *)
(* acknowledged by its words of now: by any of them with the index, by the *)
(* ASCII ones without (search_ids, the scan of /search, _persist_locked).  *)
THEOREM SearchKept == Spec => []SearchFinds
<1>1. RdInv => SearchFinds
  <2> SUFFICES ASSUME RdInv, NEW i \in Rd!Browsed \cap acked,
                      index.on \/ object[i].text \in Plain
               PROVE  i \in Rd!Found(object[i].text)
    BY DEF SearchFinds, Rd!SearchFinds
  <2>1. i \in Range(listings)
    BY RdOperators DEF Rd!Browsed
  <2>2. /\ index.on => index.made /\ <<i, object[i].text>> \in index.rows
        /\ ~index.on => ~index.made
    BY <2>1 DEF RdInv, RowsOfNow
  <2>. QED  BY <2>2 DEF Rd!Found
<1>. QED  BY <1>1, RdKept, PTL
=============================================================================
