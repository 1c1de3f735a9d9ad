--------------------------- MODULE Registry_proof ---------------------------
(***************************************************************************)
(* Proofs about the registry and its checker, for any hubs, clients,       *)
(* prices, fees and caps: a hub is listed once, a registration answered    *)
(* 201 stays verifiable until displaced, and a verdict fits the hub.       *)
(***************************************************************************)
EXTENDS Services, Data_proof

(***************************************************************************)
(* The registry.                                                           *)
(***************************************************************************)
(* Sequences of records, and the lists of a file.                          *)
Entries == Seq([id : Nat, url : URL, at : Nat])
Fetched == [pc : {"fetched"}, id : {0}, url : URL, at : {0}, src : Source]
Stamped == [pc : {"stamped"}, id : Nat, url : URL, at : Nat, src : Source]

RegType ==
    /\ serving \in BOOLEAN /\ clock \in Nat /\ ids \in Nat /\ stops \in Nat
    /\ open \in Entries /\ file.open \in Entries
    /\ file = [open |-> file.open, verified |-> file.verified, ok |-> file.ok]
    /\ req \in [Thread -> {Reg!Idle} \cup Fetched \cup Stamped]

Once(list) == \A m, n \in DOMAIN list : list[m].url = list[n].url => m = n

(* What the lists and the keys of a serving service have to do with the    *)
(* files it started from.                                                  *)
RegKeys ==
    /\ keyFile \in Nat
    /\ published \subseteq {keyFile} /\ (keyFile = 0 => published = {})
    /\ serving => key = keyFile /\ verified = file.verified

RegTold ==
    ~cut => \A id \in told \ displaced :
        /\ id \in Reg!Ids(file.open, file.verified)
        /\ serving => id \in Reg!Ids(open, verified)

RegInv == RegType /\ Once(open) /\ Once(file.open) /\ RegKeys /\ RegTold

(* The lists of the registry: one element less keeps them once each.       *)
LEMMA OnceWithout ==
    ASSUME NEW list \in Entries, NEW n \in DOMAIN list, Once(list)
    PROVE  LET w == SubSeq(list, 1, n - 1) \o SubSeq(list, n + 1, Len(list)) IN
           /\ w \in Entries /\ Once(w)
           /\ \A k \in DOMAIN w : \E j \in DOMAIN list : w[k] = list[j]
           /\ \A j \in DOMAIN list \ {n} : \E k \in DOMAIN w : w[k] = list[j]
<1> DEFINE w == SubSeq(list, 1, n - 1) \o SubSeq(list, n + 1, Len(list))
           past(k) == IF k < n THEN k ELSE k + 1
<1>1. /\ w \in Entries /\ Len(w) = Len(list) - 1
      /\ \A k \in DOMAIN w : w[k] = IF k < n THEN list[k] ELSE list[k + 1]
  BY WithoutOne DEF Entries
<1> HIDE DEF w
<1>2. /\ DOMAIN w = 1..Len(list) - 1 /\ DOMAIN list = 1..Len(list)
      /\ Len(list) \in Nat /\ n \in 1..Len(list)
  BY <1>1, LenProperties DEF Entries
<1>3. \A k \in DOMAIN w : w[k] = list[past(k)] /\ past(k) \in DOMAIN list
  <2>1. \A k \in 1..Len(list) - 1 : past(k) \in 1..Len(list)
    BY <1>2
  <2>2. \A k \in DOMAIN w : w[k] = list[past(k)]
    BY <1>1
  <2>. QED  BY <2>1, <2>2, <1>2
<1>4. \A k, j \in DOMAIN w : past(k) = past(j) => k = j
  BY <1>2
<1>5. \A j \in DOMAIN list \ {n} : \E k \in DOMAIN w : past(k) = j
  <2>1. SUFFICES ASSUME NEW j \in 1..Len(list), j # n
                 PROVE  \E k \in 1..Len(list) - 1 : past(k) = j
    BY <1>2
  <2>2. CASE j < n
    <3>1. j \in 1..Len(list) - 1 /\ past(j) = j
      BY <2>2, <1>2
    <3>. QED  BY <3>1
  <2>3. CASE ~(j < n)
    <3>1. j - 1 \in 1..Len(list) - 1 /\ past(j - 1) = j
      BY <2>3, <2>1, <1>2
    <3>. QED  BY <3>1
  <2>. QED  BY <2>2, <2>3
<1> HIDE DEF past
<1>6. Once(w)
  BY <1>3, <1>4 DEF Once
<1>7. /\ \A k \in DOMAIN w : \E j \in DOMAIN list : w[k] = list[j]
      /\ \A j \in DOMAIN list \ {n} : \E k \in DOMAIN w : w[k] = list[j]
  BY <1>3, <1>5
<1>. QED  BY <1>1, <1>6, <1>7 DEF w

LEMMA OldestExists ==
    ASSUME open \in Entries, open # <<>>
    PROVE  Reg!Oldest \in DOMAIN open
<1> DEFINE At == {open[n].at : n \in DOMAIN open}
<1>1. DOMAIN open = 1..Len(open) /\ Len(open) \in Nat /\ Len(open) # 0
      /\ \A n \in DOMAIN open : open[n].at \in Nat
  <2>1. \A n \in 1..Len(open) : open[n] \in [id : Nat, url : URL, at : Nat]
    BY ElementOfSeq DEF Entries
  <2>. QED  BY <2>1, LenProperties, EmptySeq DEF Entries
<1>2. At \in SUBSET Nat /\ At # {}
  <2>1. 1 \in DOMAIN open
    BY <1>1
  <2>2. open[1].at \in At
    BY <2>1
  <2>. QED  BY <2>2, <1>1
<1>3. PICK a \in At : \A b \in At : a <= b
  BY <1>2, LeastNat
<1> DEFINE First == {n \in DOMAIN open : open[n].at = a}
<1>4. First \in SUBSET Nat /\ First # {}
  BY <1>1
<1>5. PICK n \in First : \A m \in First : n <= m
  BY <1>4, LeastNat
<1>6. n \in DOMAIN open /\ \A m \in DOMAIN open : \/ open[n].at < open[m].at
                                                  \/ open[n].at = open[m].at /\ n <= m
  <2>1. SUFFICES ASSUME NEW m \in DOMAIN open, ~ (open[n].at < open[m].at)
                 PROVE  open[n].at = open[m].at /\ n <= m
    OBVIOUS
  <2>2. a \in Nat /\ open[n].at = a /\ open[m].at \in At /\ open[m].at \in Nat
    BY <1>1, <1>2
  <2>3. open[m].at = a
    <3>1. a <= open[m].at
      BY <2>2, <1>3
    <3>. HIDE DEF At
    <3>. QED  BY <2>1, <2>2, <3>1
  <2>. QED  BY <2>2, <2>3, <1>5
<1>. QED  BY <1>6 DEF Reg!Oldest

(* Making room and appending: an unlisted url stays listed once, and what  *)
(* was listed is listed or has been displaced.                             *)
LEMMA Filed ==
    ASSUME RegType, Once(open), NEW rec \in [id : Nat, url : URL, at : Nat],
           ~Reg!Listed(rec.url), NEW list, list = Append(Reg!Kept, rec)
    PROVE  /\ list \in Entries /\ Once(list)
           /\ \E k \in DOMAIN list : list[k] = rec
<1> DEFINE kept == Reg!Kept
<1>0. open \in Entries /\ Len(open) \in Nat
  BY LenProperties DEF RegType, Entries
<1>1. kept \in Entries /\ Once(kept) /\ \A k \in DOMAIN kept : kept[k].url # rec.url
  <2>1. CASE Len(open) >= OpenCap
    <3>1. open # <<>>
      BY <2>1, <1>0, RegistryAssumption, EmptySeq
    <3>2. Reg!Oldest \in DOMAIN open
      BY <3>1, <1>0, OldestExists
    <3>3. kept = SubSeq(open, 1, Reg!Oldest - 1) \o SubSeq(open, Reg!Oldest + 1, Len(open))
      BY <2>1 DEF Reg!Kept, Reg!Without
    <3>4. /\ kept \in Entries /\ Once(kept)
          /\ \A k \in DOMAIN kept : \E j \in DOMAIN open : kept[k] = open[j]
      <4> HIDE DEF kept
      <4>. QED  BY <3>2, <3>3, <1>0, OnceWithout
    <3>. QED  BY <3>4 DEF Reg!Listed
  <2>2. CASE ~(Len(open) >= OpenCap)
    BY <2>2, <1>0 DEF Reg!Kept, Reg!Listed
  <2>. QED  BY <2>1, <2>2
<1> HIDE DEF kept
<1>2. list = Append(kept, rec)
  BY DEF kept
<1>3. /\ list \in Entries /\ Len(list) = Len(kept) + 1 /\ list[Len(kept) + 1] = rec
      /\ \A k \in 1..Len(kept) : list[k] = kept[k]
  BY <1>1, <1>2, AppendProperties DEF Entries
<1>4. /\ DOMAIN kept = 1..Len(kept) /\ DOMAIN list = 1..Len(kept) + 1 /\ Len(kept) \in Nat
  BY <1>1, <1>3, LenProperties DEF Entries
<1>5. Once(list)
  <2>1. SUFFICES ASSUME NEW m \in DOMAIN list, NEW n \in DOMAIN list,
                        list[m].url = list[n].url
                 PROVE  m = n
    BY DEF Once
  <2>2. CASE m \in 1..Len(kept) /\ n \in 1..Len(kept)
    BY <2>1, <2>2, <1>1, <1>3, <1>4 DEF Once
  <2>3. CASE m = Len(kept) + 1 /\ n \in 1..Len(kept)
    BY <2>1, <2>3, <1>1, <1>3, <1>4
  <2>4. CASE n = Len(kept) + 1 /\ m \in 1..Len(kept)
    BY <2>1, <2>4, <1>1, <1>3, <1>4
  <2>. QED  BY <2>2, <2>3, <2>4, <1>4
<1>. QED  BY <1>3, <1>4, <1>5

(* What a thread's request is, by where it stands.                         *)
LEMMA Standing ==
    ASSUME RegType, NEW t \in Thread
    PROVE  /\ req[t].pc = "fetched" => req[t] \in Fetched
           /\ req[t].pc = "stamped" => req[t] \in Stamped
<1>1. Reg!Idle.pc = "idle"
  BY DEF Reg!Idle
<1>2. (\A r \in Fetched : r.pc = "fetched") /\ (\A r \in Stamped : r.pc = "stamped")
  BY DEF Fetched, Stamped
<1>3. req[t] \in {Reg!Idle} \cup Fetched \cup Stamped
  BY DEF RegType
<1>. QED  BY <1>1, <1>2, <1>3

LEMMA RegInit == Reg!Init => RegInv
<1> SUFFICES ASSUME Reg!Init PROVE RegInv
  OBVIOUS
<1> USE DEF Reg!Init
<1>1. RegType
  <2>1. <<>> \in Entries
    BY EmptySeq DEF Entries
  <2>. QED  BY <2>1 DEF RegType
<1>2. Once(open) /\ Once(file.open)
  BY DEF Once
<1>3. RegKeys /\ RegTold
  BY DEF RegKeys, RegTold
<1>. QED  BY <1>1, <1>2, <1>3 DEF RegInv

LEMMA RegStart == RegInv /\ Reg!Start => RegInv'
<1> SUFFICES ASSUME RegInv, Reg!Start PROVE RegInv'
  OBVIOUS
<1> USE DEF Reg!Start, RegInv
<1>1. RegType'
  BY DEF RegType
<1>2. Once(open)' /\ Once(file.open)'
  BY DEF Once
<1>3. RegKeys'
  BY DEF RegKeys, RegType
<1>4. RegTold'
  BY DEF RegTold, Reg!Ids
<1>. QED  BY <1>1, <1>2, <1>3, <1>4

LEMMA RegFetch == ASSUME NEW t \in Thread PROVE RegInv /\ Reg!Fetch(t) => RegInv'
<1> SUFFICES ASSUME RegInv, Reg!Fetch(t) PROVE RegInv'
  OBVIOUS
<1> USE DEF Reg!Fetch, RegInv
<1>1. RegType'
  <2>1. PICK u \in URL, s \in Source :
           req' = [req EXCEPT ![t] = [Reg!Idle EXCEPT !.pc = "fetched", !.url = u, !.src = s]]
    OBVIOUS
  <2>2. [Reg!Idle EXCEPT !.pc = "fetched", !.url = u, !.src = s] \in Fetched
    BY DEF Reg!Idle, Fetched
  <2>. QED  BY <2>1, <2>2 DEF RegType
<1>2. Once(open)' /\ Once(file.open)' /\ RegKeys' /\ RegTold'
  BY DEF Once, RegKeys, RegTold, Reg!Ids
<1>. QED  BY <1>1, <1>2

LEMMA RegLimit == ASSUME NEW t \in Thread PROVE RegInv /\ Reg!Limit(t) => RegInv'
<1> SUFFICES ASSUME RegInv, Reg!Limit(t) PROVE RegInv'
  OBVIOUS
<1> USE DEF Reg!Limit, RegInv
<1>1. RegType'
  <2>1. req[t] \in Fetched
    BY Standing
  <2>2. ids' \in Nat
    BY DEF RegType
  <2>3. [req[t] EXCEPT !.pc = "stamped", !.id = ids', !.at = clock] \in Stamped
    BY <2>1, <2>2 DEF RegType, Fetched, Stamped
  <2>4. req' = [req EXCEPT ![t] = Reg!Idle]
        \/ req' = [req EXCEPT ![t] = [req[t] EXCEPT !.pc = "stamped", !.id = ids', !.at = clock]]
    BY <2>1 DEF RegType
  <2>. QED  BY <2>2, <2>3, <2>4 DEF RegType
<1>2. Once(open)' /\ Once(file.open)' /\ RegKeys' /\ RegTold'
  BY DEF Once, RegKeys, RegTold, Reg!Ids
<1>. QED  BY <1>1, <1>2

LEMMA RegFile == ASSUME NEW t \in Thread PROVE RegInv /\ Reg!File(t) => RegInv'
<1> SUFFICES ASSUME RegInv, Reg!File(t) PROVE RegInv'
  OBVIOUS
<1> DEFINE rec == [id |-> req[t].id, url |-> req[t].url, at |-> req[t].at]
           gone == {open[n].id : n \in {m \in DOMAIN open :
                                          \A k \in DOMAIN open' : open'[k] # open[m]}}
<1>1. req[t] \in Stamped /\ rec \in [id : Nat, url : URL, at : Nat]
  <2>1. req[t] \in Stamped
    BY Standing DEF RegInv, Reg!File
  <2>. QED  BY <2>1 DEF Stamped
<1>2. /\ serving /\ serving' = serving /\ verified' = verified /\ key' = key
      /\ keyFile' = keyFile /\ clock' = clock /\ ids' = ids /\ published' = published
      /\ cut' = cut /\ req' = [req EXCEPT ![t] = Reg!Idle]
  BY DEF Reg!File
<1>3. CASE Reg!Listed(rec.url)
  <2>1. UNCHANGED <<open, file, told, displaced, stops>>
    BY <1>3 DEF Reg!File
  <2>. QED  BY <2>1, <1>2 DEF RegInv, RegType, Once, RegKeys, RegTold, Reg!Ids
<1>4. CASE ~Reg!Listed(rec.url)
  <2>1. /\ open' = Append(Reg!Kept, rec)
        /\ displaced' = displaced \cup gone
        /\ \/ /\ file' = [open |-> open', verified |-> verified, ok |-> TRUE]
              /\ told' = told \cup {rec.id} /\ stops' = stops
           \/ /\ stops < MaxStops /\ stops' = stops + 1
              /\ UNCHANGED <<file, told>>
    BY <1>4 DEF Reg!File
  <2>2. /\ open' \in Entries /\ Once(open')
        /\ \E k \in DOMAIN open' : open'[k] = rec
    <3> HIDE DEF rec
    <3>. QED  BY <2>1, <1>1, <1>4, Filed DEF RegInv
  <2> HIDE DEF rec
  <2>3. RegType'
    <3>1. stops' \in Nat
      BY <2>1 DEF RegInv, RegType
    <3>2. file'.open \in Entries
          /\ file' = [open |-> file'.open, verified |-> file'.verified, ok |-> file'.ok]
      <4>1. CASE file' = [open |-> open', verified |-> verified, ok |-> TRUE]
        BY <4>1, <2>2
      <4>2. CASE file' = file
        BY <4>2 DEF RegInv, RegType
      <4>. QED  BY <4>1, <4>2, <2>1
    <3>3. req' \in [Thread -> {Reg!Idle} \cup Fetched \cup Stamped]
      BY <1>2 DEF RegInv, RegType
    <3>. QED  BY <2>2, <3>1, <3>2, <3>3, <1>2 DEF RegInv, RegType
  <2>4. Once(open)' /\ Once(file.open)'
    BY <2>1, <2>2 DEF RegInv, Once
  <2>5. RegKeys'
    BY <2>1, <1>2 DEF RegInv, RegKeys
  <2>6. ASSUME NEW id \in Reg!Ids(open, verified), id \notin gone
        PROVE  id \in Reg!Ids(open', verified')
    BY <2>6, <1>2 DEF Reg!Ids
  <2>7. RegTold'
    <3>1. SUFFICES ASSUME ~cut', NEW id \in told', id \notin displaced'
                   PROVE  /\ id \in Reg!Ids(file'.open, file'.verified)
                          /\ serving' => id \in Reg!Ids(open', verified')
      BY DEF RegTold
    <3>2. CASE id \in told
      <4>1. /\ id \in Reg!Ids(file.open, file.verified)
            /\ id \in Reg!Ids(open, verified)
        BY <3>1, <3>2, <2>1, <1>2 DEF RegInv, RegTold
      <4>2. id \in Reg!Ids(open', verified')
        BY <4>1, <3>1, <2>1, <2>6
      <4>3. CASE file' = [open |-> open', verified |-> verified, ok |-> TRUE]
        <5>1. file'.open = open' /\ file'.verified = verified'
          BY <4>3, <1>2
        <5>. QED  BY <5>1, <4>2
      <4>4. CASE file' = file
        BY <4>1, <4>2, <4>4
      <4>. QED  BY <4>3, <4>4, <2>1
    <3>3. CASE id \notin told
      <4>1. id = rec.id /\ file' = [open |-> open', verified |-> verified, ok |-> TRUE]
        BY <3>1, <3>3, <2>1
      <4>2. id \in Reg!Ids(open', verified')
        BY <4>1, <2>2 DEF Reg!Ids
      <4>. QED  BY <4>1, <4>2, <1>2
    <3>. QED  BY <3>2, <3>3
  <2>. QED  BY <2>3, <2>4, <2>5, <2>7 DEF RegInv
<1>. QED  BY <1>3, <1>4

LEMMA RegStops == RegInv /\ (Reg!Tick \/ Reg!Stop \/ Reg!PowerCut) => RegInv'
<1>1. ASSUME RegInv, Reg!Tick PROVE RegInv'
  BY <1>1 DEF Reg!Tick, RegInv, RegType, Once, RegKeys, RegTold, Reg!Ids
<1>2. <<>> \in Entries /\ Once(<<>>)
  BY EmptySeq DEF Entries, Once
<1>3. ASSUME RegInv, Reg!Stop PROVE RegInv'
  <2> USE <1>3 DEF Reg!Stop, RegInv
  <2>1. RegType'
    <3>1. stops' \in Nat
      BY DEF RegType
    <3>4. open' \in Entries /\ serving' \in BOOLEAN
      BY <1>2
    <3>2. req' \in [Thread -> {Reg!Idle} \cup Fetched \cup Stamped]
      OBVIOUS
    <3>. QED  BY <3>1, <3>2, <3>4, <1>2 DEF RegType
  <2>2. Once(open)' /\ Once(file.open)' /\ RegKeys' /\ RegTold'
    BY <1>2 DEF Once, RegKeys, RegTold, Reg!Ids
  <2>. QED  BY <2>1, <2>2
<1>4. ASSUME RegInv, Reg!PowerCut PROVE RegInv'
  <2> USE <1>4 DEF Reg!PowerCut, RegInv
  <2>1. RegType'
    <3>1. stops' \in Nat
      BY DEF RegType
    <3>4. open' \in Entries /\ serving' \in BOOLEAN
      BY <1>2
    <3>2. req' \in [Thread -> {Reg!Idle} \cup Fetched \cup Stamped]
      OBVIOUS
    <3>. QED  BY <3>1, <3>2, <3>4, <1>2 DEF RegType, Reg!Torn
  <2>2. Once(open)' /\ Once(file.open)' /\ RegKeys' /\ RegTold'
    BY <1>2 DEF Once, RegKeys, RegTold, Reg!Ids, Reg!Torn
  <2>. QED  BY <2>1, <2>2
<1>. QED  BY <1>1, <1>3, <1>4

LEMMA RegReview == RegInv /\ Reg!Review => RegInv'
<1> SUFFICES ASSUME RegInv, Reg!Review PROVE RegInv'
  OBVIOUS
<1>1. PICK n \in DOMAIN file.open :
         file' = [file EXCEPT !.open = SubSeq(@, 1, n - 1) \o SubSeq(@, n + 1, Len(@)),
                              !.verified = @ \cup {file.open[n]}]
  BY DEF Reg!Review
<1> DEFINE w == SubSeq(file.open, 1, n - 1) \o SubSeq(file.open, n + 1, Len(file.open))
<1>2. file' = [open |-> w, verified |-> file.verified \cup {file.open[n]}, ok |-> file.ok]
  BY <1>1 DEF RegInv, RegType
<1>3. /\ w \in Entries /\ Once(w)
      /\ \A j \in DOMAIN file.open \ {n} : \E k \in DOMAIN w : w[k] = file.open[j]
  <2> HIDE DEF w
  <2>. QED  BY OnceWithout DEF RegInv, RegType, w
<1> HIDE DEF w
<1>4. /\ ~serving /\ UNCHANGED <<serving, open, verified, key, keyFile, req, hits, clock, ids,
                                 stops, told, displaced, published, cut>>
  BY DEF Reg!Review
<1>5. RegType'
  BY <1>2, <1>3, <1>4 DEF RegInv, RegType
<1>6. Once(open)' /\ Once(file.open)' /\ RegKeys'
  BY <1>2, <1>3, <1>4 DEF RegInv, Once, RegKeys
<1>7. ASSUME NEW id \in Reg!Ids(file.open, file.verified)
      PROVE  id \in Reg!Ids(file'.open, file'.verified)
  BY <1>2, <1>3 DEF Reg!Ids
<1>8. RegTold'
  BY <1>4, <1>7 DEF RegInv, RegTold
<1>. QED  BY <1>5, <1>6, <1>8 DEF RegInv

LEMMA RegNext == RegInv /\ [Reg!Next]_regVars => RegInv'
<1>1. ASSUME RegInv, UNCHANGED regVars PROVE RegInv'
  BY <1>1 DEF regVars, RegInv, RegType, Once, RegKeys, RegTold, Reg!Ids
<1>. QED  BY <1>1, RegStart, RegFetch, RegLimit, RegFile, RegStops, RegReview DEF Reg!Next

LEMMA RegImplies == RegInv => OneURL /\ VouchedTillDisplaced
<1> SUFFICES ASSUME RegInv PROVE OneURL /\ VouchedTillDisplaced
  OBVIOUS
<1>1. OneURL
  BY DEF RegInv, Once, OneURL, Reg!OneURL
<1>2. ASSUME serving, NEW r \in verified \cup {open[n] : n \in DOMAIN open}, NEW pin \in published
      PROVE  Reg!CheckRegistry(Reg!Document, r.url, pin) = "CONFORMANT"
  <2>1. Reg!Document.signedBy = pin /\ r.url \in Reg!Document.hubs
    BY <1>2 DEF Reg!Document, RegInv, RegKeys
  <2>. QED  BY <2>1, <1>2 DEF Reg!CheckRegistry
<1>3. VouchedTillDisplaced
  BY <1>2 DEF RegInv, RegTold, VouchedTillDisplaced, Reg!VouchedTillDisplaced
<1>. QED  BY <1>1, <1>3

(* A step of the whole is a step of the registry, or leaves it alone.      *)
LEMMA RegStep == [Next]_vars => [Reg!Next]_regVars
  BY DEF Next, vars

THEOREM OneURLHolds == Spec => []OneURL
<1>1. Init => RegInv
  BY RegInit DEF Init
<1>2. RegInv /\ [Next]_vars => RegInv'
  BY RegNext, RegStep
<1>. QED  BY <1>1, <1>2, RegImplies, PTL DEF Spec

THEOREM VouchedHolds == Spec => []VouchedTillDisplaced
<1>1. Init => RegInv
  BY RegInit DEF Init
<1>2. RegInv /\ [Next]_vars => RegInv'
  BY RegNext, RegStep
<1>. QED  BY <1>1, <1>2, RegImplies, PTL DEF Spec

(***************************************************************************)
(* The registry checker.                                                   *)
(***************************************************************************)
LedgerEntry == [kind : {"booking", "escrow_sync"}, escrow : Chk!Escrow \cup {"none"},
                amount : Int, fee : Int, payout : Int]

ChkType ==
    /\ ledger \in Seq(LedgerEntry) /\ served \in Seq(LedgerEntry)
    /\ pct \in Pct /\ declared \in Pct \cup {0} /\ repriced \in Nat
    /\ totals \in [volume : Int, fees : Int]
    /\ raced \in BOOLEAN
    /\ step \in {"challenge", "sync", "done"} \cup Chk!Early

(* What an honest hub writes into an entry.                                *)
Fair(e) == e.kind = "booking" =>
    /\ e.escrow \in Chk!Escrow
    /\ e.fee + e.payout = e.amount
    /\ e.escrow = "WAIVED" => e.amount = 0
    /\ repriced = 0 => e.fee = (e.amount * pct) \div 10000

ChkLedger == cheat = "none" => \A n \in DOMAIN ledger : Fair(ledger[n])

(* Where the checker stands, and what it may rely on there.                *)
ChkPlace ==
    /\ step \in {"manifest", "totals", "list"} => verdict = "none"
    /\ step \in {"totals", "list"} /\ repriced = 0 => declared = pct
    /\ step = "list" /\ ~raced => totals = [volume |-> Chk!Volume(ledger),
                                            fees |-> Chk!Fees(ledger)]

Blame == cheat # "none" \/ Chk!Instant \/ raced \/ repriced > 0 \/ dark = "challenge"

(* How far the checker can come once the hub is dark, and with what verdict. *)
ChkDark ==
    /\ dark \in {"none", "challenge", "sync"} \cup Chk!Early
    /\ verdict = "UNREACHABLE" => dark \in Chk!Early
    /\ dark \in Chk!Early => step \in Chk!Early \/ (step = "done" /\ verdict = "UNREACHABLE")
    /\ dark = "challenge" =>
          step = "challenge" \/ (step \in {"sync", "done"} /\ verdict = "NON-CONFORMANT")
    /\ dark = "sync" => step \in {"sync", "done"}

ChkVerdict ==
    /\ verdict = "NON-CONFORMANT" => Blame
    /\ verdict = "CONFORMANT" =>
          /\ \A n \in Chk!Bookings(served) : Chk!Honest(served[n])
          /\ Chk!Abs(totals.volume - Chk!Volume(served)) < 2
    /\ verdict = "INSUFFICIENT-EVIDENCE" => totals.volume = 0 \/ raced \/ cheat = "hide"

ChkInv == ChkType /\ ChkLedger /\ ChkPlace /\ ChkDark /\ ChkVerdict

LEMMA SameSum == \A f, S : Chk!SumFunctionOnSet(f, S) = SumFunctionOnSet(f, S)
  BY DEF Chk!SumFunctionOnSet, SumFunctionOnSet, Chk!FoldFunctionOnSet, FoldFunctionOnSet,
         Chk!MapThenFoldSet, MapThenFoldSet

(* Sums over the bookings of a ledger are numbers, and none is nothing.    *)
LEMMA SumsOfLedger ==
    ASSUME NEW list \in Seq(LedgerEntry)
    PROVE  /\ Chk!Volume(list) \in Int /\ Chk!Fees(list) \in Int
           /\ Chk!Bookings(list) = {} => Chk!Volume(list) = 0
<1> DEFINE B == Chk!Bookings(list)
<1>1. DOMAIN list = 1..Len(list) /\ Len(list) \in Nat
  BY LenProperties
<1>2. IsFiniteSet(B)
  <2>1. IsFiniteSet(1..Len(list)) /\ B \subseteq 1..Len(list)
    BY <1>1, FS_Interval DEF Chk!Bookings
  <2>. QED  BY <2>1, FS_Subset
<1>3. \A n \in B : list[n] \in LedgerEntry
  BY ElementOfSeq, <1>1 DEF Chk!Bookings
<1> DEFINE amounts == [n \in DOMAIN list |-> list[n].amount]
           fees == [n \in DOMAIN list |-> list[n].fee]
<1>4. \A n \in B : amounts[n] \in Int /\ fees[n] \in Int
  BY <1>3 DEF LedgerEntry, Chk!Bookings
<1>5. Chk!Volume(list) = SumFunctionOnSet(amounts, B) /\ Chk!Fees(list) = SumFunctionOnSet(fees, B)
  BY SameSum DEF Chk!Volume, Chk!Fees
<1> HIDE DEF amounts, fees, B
<1>6. SumFunctionOnSet(amounts, B) \in Int /\ SumFunctionOnSet(fees, B) \in Int
  BY <1>2, <1>4, SumType
<1>7. B = {} => SumFunctionOnSet(amounts, B) = 0
  BY SumEmpty
<1>. QED  BY <1>5, <1>6, <1>7 DEF B

(* Half up and down differ by a cent at most.                              *)
LEMMA RoundedDown ==
    ASSUME NEW x \in Int PROVE ~Chk!Off(x \div 10000, Chk!Round(x))
  BY DEF Chk!Off, Chk!Abs, Chk!Round

(* What passes C3 is within two cents of the declared fee.                 *)
LEMMA CheckedFee ==
    ASSUME NEW fee \in Int, NEW x \in Int, ~Chk!Off(fee, Chk!Round(x))
    PROVE  Chk!Abs(fee * 10000 - x) < 20000
  BY DEF Chk!Off, Chk!Abs, Chk!Round

LEMMA ChkInit == Chk!Init => ChkInv
<1> SUFFICES ASSUME Chk!Init PROVE ChkInv
  OBVIOUS
<1>1. <<>> \in Seq(LedgerEntry) /\ DOMAIN <<>> = {}
  BY EmptySeq
<1>2. ChkType
  <2>1. ledger \in Seq(LedgerEntry) /\ served \in Seq(LedgerEntry)
    BY <1>1 DEF Chk!Init
  <2>2. totals \in [volume : Int, fees : Int]
    BY DEF Chk!Init
  <2>. QED  BY <2>1, <2>2 DEF Chk!Init, ChkType, Chk!Early
<1>. QED  BY <1>1, <1>2 DEF Chk!Init, ChkInv, ChkLedger, ChkPlace, ChkDark, ChkVerdict,
          Chk!Early

(* What a change of the ledger leaves to be shown.                         *)
LEMMA ChkWriting ==
    ASSUME ChkInv, step # "done", raced' = (raced \/ step = "list"),
           UNCHANGED <<dark, pct, cheat, totals, served, step, declared, verdict, repriced>>,
           ledger' \in Seq(LedgerEntry), ChkLedger', Chk!Instant => Chk!Instant'
    PROVE  ChkInv'
<1>1. ChkType'
  BY DEF ChkInv, ChkType
<1>2. ChkPlace'
  BY DEF ChkInv, ChkPlace, ChkType
<1>3. Chk!Bookings(served)' = Chk!Bookings(served) /\ Chk!Volume(served)' = Chk!Volume(served)
  BY DEF Chk!Bookings, Chk!Volume, ChkType
<1>4. ChkVerdict'
  BY <1>3 DEF ChkInv, ChkVerdict, Blame, Chk!Honest, ChkType
<1>5. ChkDark'
  BY DEF ChkInv, ChkDark
<1>. QED  BY <1>1, <1>2, <1>4, <1>5 DEF ChkInv

LEMMA NewEntry ==
    ASSUME ChkType, NEW price \in Price, NEW rail \in Chk!Rail(price)
    PROVE  /\ Chk!Entry(price, rail) \in LedgerEntry
           /\ cheat = "none" => Fair(Chk!Entry(price, rail))
<1>1. price \in Nat /\ pct \in Nat /\ price * pct \in Int
  BY CheckerAssumption DEF ChkType
<1>2. Chk!hub_fee_c(price) \in Int /\ Chk!hub_fee_c(price) = (price * pct) \div 10000
  BY <1>1 DEF Chk!hub_fee_c
<1>3. rail \in Chk!Escrow /\ (rail = "WAIVED" => price = 0)
  BY DEF Chk!Rail, Chk!Escrow
<1> DEFINE e == Chk!Entry(price, rail)
           fee == Chk!hub_fee_c(price) + (IF cheat = "fee" THEN 3 ELSE 0)
<1>4. /\ e.kind = "booking" /\ e.amount = price /\ e.fee = fee
      /\ e.escrow = (IF cheat = "waive" THEN "WAIVED" ELSE rail)
      /\ e.payout = price - fee - (IF cheat = "skim" THEN 3 ELSE 0)
      /\ e = [kind |-> e.kind, escrow |-> e.escrow, amount |-> e.amount, fee |-> e.fee,
              payout |-> e.payout]
  BY DEF Chk!Entry
<1> HIDE DEF e
<1>5. e \in LedgerEntry
  BY <1>1, <1>2, <1>3, <1>4 DEF LedgerEntry, Chk!Escrow
<1>6. cheat = "none" => Fair(e)
  BY <1>1, <1>2, <1>3, <1>4 DEF Fair
<1>. QED  BY <1>5, <1>6 DEF e

(* Appending an entry.                                                     *)
LEMMA Appended ==
    ASSUME ChkInv, NEW e \in LedgerEntry, cheat = "none" => Fair(e),
           ledger' = Append(ledger, e), UNCHANGED <<cheat, pct, repriced>>
    PROVE  ledger' \in Seq(LedgerEntry) /\ ChkLedger' /\ (Chk!Instant => Chk!Instant')
<1>1. /\ ledger' \in Seq(LedgerEntry) /\ Len(ledger') = Len(ledger) + 1
      /\ ledger'[Len(ledger) + 1] = e
      /\ \A k \in 1..Len(ledger) : ledger'[k] = ledger[k]
  BY AppendProperties DEF ChkInv, ChkType
<1>2. /\ DOMAIN ledger = 1..Len(ledger) /\ DOMAIN ledger' = 1..Len(ledger) + 1
      /\ Len(ledger) \in Nat
  BY <1>1, LenProperties DEF ChkInv, ChkType
<1>3. ChkLedger'
  <2>1. SUFFICES ASSUME cheat = "none", NEW n \in 1..Len(ledger) + 1
                 PROVE  Fair(ledger[n])'
    BY <1>2 DEF ChkLedger
  <2>2. CASE n \in 1..Len(ledger)
    BY <2>1, <2>2, <1>1, <1>2 DEF ChkInv, ChkLedger, Fair
  <2>3. CASE n = Len(ledger) + 1
    BY <2>1, <2>3, <1>1 DEF Fair
  <2>. QED  BY <2>2, <2>3, <1>2
<1>4. Chk!Instant => Chk!Instant'
  <2>1. SUFFICES ASSUME NEW n \in 1..Len(ledger), ledger[n].escrow = "DIRECT"
                 PROVE  Chk!Instant'
    BY <1>2 DEF Chk!Instant
  <2>2. n \in DOMAIN ledger' /\ ledger'[n].escrow = "DIRECT"
    BY <2>1, <1>1, <1>2
  <2>. QED  BY <2>2 DEF Chk!Instant
<1>. QED  BY <1>1, <1>3, <1>4

LEMMA ChkBook == ChkInv /\ (Chk!Book \/ Chk!Mirrored) => ChkInv'
<1>1. ASSUME ChkInv, Chk!Book PROVE ChkInv'
  <2>0. PICK price \in Price :
           \E rail \in Chk!Rail(price) :
              Chk!Writing(Len(ledger) < MaxEntries
                          /\ ledger' = Append(ledger, Chk!Entry(price, rail)))
    BY <1>1 DEF Chk!Book
  <2>1. PICK rail \in Chk!Rail(price) :
           Chk!Writing(Len(ledger) < MaxEntries
                       /\ ledger' = Append(ledger, Chk!Entry(price, rail)))
    BY <2>0
  <2> DEFINE e == Chk!Entry(price, rail)
  <2>2. e \in LedgerEntry /\ (cheat = "none" => Fair(e))
    BY <1>1, NewEntry DEF ChkInv
  <2> HIDE DEF e
  <2>3. /\ ledger' = Append(ledger, e) /\ step # "done" /\ raced' = (raced \/ step = "list")
        /\ UNCHANGED <<dark, pct, cheat, totals, served, step, declared, verdict, repriced>>
    BY <2>1 DEF Chk!Writing, e
  <2>. QED  BY <1>1, <2>2, <2>3, Appended, ChkWriting
<1>2. ASSUME ChkInv, Chk!Mirrored PROVE ChkInv'
  <2>1. Chk!Mirror \in LedgerEntry /\ (cheat = "none" => Fair(Chk!Mirror))
    BY DEF Chk!Mirror, LedgerEntry, Fair
  <2>2. /\ ledger' = Append(ledger, Chk!Mirror) /\ step # "done"
        /\ raced' = (raced \/ step = "list")
        /\ UNCHANGED <<dark, pct, cheat, totals, served, step, declared, verdict, repriced>>
    BY <1>2 DEF Chk!Mirrored, Chk!Writing
  <2>. QED  BY <1>2, <2>1, <2>2, Appended, ChkWriting
<1>. QED  BY <1>1, <1>2

LEMMA ChkSettle == ChkInv /\ Chk!Settle => ChkInv'
<1> SUFFICES ASSUME ChkInv, Chk!Settle PROVE ChkInv'
  OBVIOUS
<1>1. PICK n \in DOMAIN ledger, to \in {"RELEASED", "REFUNDED"} :
         Chk!Writing(/\ ledger[n].escrow \in {"HELD", "WAIVED"} /\ cheat # "waive"
                     /\ ledger' = [ledger EXCEPT ![n].escrow = to])
  BY DEF Chk!Settle
<1> DEFINE e == [ledger[n] EXCEPT !.escrow = to]
<1>2. /\ ledger[n].escrow \in {"HELD", "WAIVED"} /\ ledger' = [ledger EXCEPT ![n] = e]
      /\ step # "done" /\ raced' = (raced \/ step = "list")
      /\ UNCHANGED <<dark, pct, cheat, totals, served, step, declared, verdict, repriced>>
  BY <1>1 DEF Chk!Writing
<1>3. DOMAIN ledger = 1..Len(ledger) /\ ledger[n] \in LedgerEntry
  BY LenProperties, ElementOfSeq DEF ChkInv, ChkType
<1>4. e \in LedgerEntry /\ e.escrow = to /\ (Fair(ledger[n]) => Fair(e))
  BY <1>3 DEF LedgerEntry, Chk!Escrow, Fair
<1> HIDE DEF e
<1>5. ledger' \in Seq(LedgerEntry) /\ DOMAIN ledger' = DOMAIN ledger
  BY <1>2, <1>3, <1>4, ExceptSeq DEF ChkInv, ChkType
<1>6. /\ ledger'[n] = e /\ \A m \in DOMAIN ledger \ {n} : ledger'[m] = ledger[m]
  BY <1>2
<1>7. ChkLedger'
  <2>1. SUFFICES ASSUME cheat = "none", NEW m \in DOMAIN ledger PROVE Fair(ledger[m])'
    BY <1>2, <1>5 DEF ChkLedger
  <2>2. Fair(ledger[m])
    BY <2>1 DEF ChkInv, ChkLedger
  <2>3. Fair(ledger'[m])
    BY <2>2, <1>4, <1>6
  <2>. QED  BY <2>3, <1>2 DEF Fair
<1>8. Chk!Instant => Chk!Instant'
  <2>1. SUFFICES ASSUME NEW m \in DOMAIN ledger, ledger[m].escrow = "DIRECT"
                 PROVE  Chk!Instant'
    BY DEF Chk!Instant
  <2>2. m # n
    BY <2>1, <1>2
  <2>. QED  BY <2>1, <2>2, <1>5, <1>6 DEF Chk!Instant
<1>. QED  BY <1>2, <1>5, <1>7, <1>8, ChkWriting

LEMMA ChkOther == ChkInv /\ (Chk!Reprice \/ Chk!GoDark) => ChkInv'
<1>1. ASSUME ChkInv, Chk!Reprice PROVE ChkInv'
  <2>1. /\ repriced' = repriced + 1 /\ pct' \in Pct /\ repriced \in Nat
        /\ UNCHANGED <<dark, cheat, ledger, totals, served, step, declared, verdict, raced>>
    BY <1>1 DEF Chk!Reprice, ChkInv, ChkType
  <2>2. repriced' # 0 /\ repriced' > 0 /\ repriced' \in Nat
    BY <2>1
  <2>3. ChkType'
    BY <1>1, <2>1, <2>2 DEF ChkInv, ChkType
  <2>4. ChkLedger' /\ ChkPlace'
    BY <1>1, <2>1, <2>2 DEF ChkInv, ChkLedger, Fair, ChkPlace, Chk!Volume, Chk!Fees, Chk!Bookings
  <2>5. ChkVerdict'
    BY <1>1, <2>1, <2>2 DEF ChkInv, ChkVerdict, Blame, Chk!Honest, Chk!Volume, Chk!Bookings
  <2>6. ChkDark'
    BY <1>1, <2>1 DEF ChkInv, ChkDark
  <2>. QED  BY <2>3, <2>4, <2>5, <2>6 DEF ChkInv
<1>2. ASSUME ChkInv, Chk!GoDark PROVE ChkInv'
  <2>1. /\ dark = "none" /\ dark' = step /\ step # "done"
        /\ UNCHANGED <<pct, cheat, ledger, totals, served, step, declared, verdict, raced, repriced>>
    BY <1>2 DEF Chk!GoDark, Chk!up
  <2>2. ChkType' /\ ChkLedger' /\ ChkPlace'
    <3>1. ChkType'
      BY <1>2, <2>1 DEF ChkInv, ChkType
    <3>3. ChkLedger'
      BY <1>2, <2>1 DEF ChkInv, ChkLedger, Fair
    <3>2. ChkPlace'
      BY <1>2, <2>1 DEF ChkInv, ChkPlace, Chk!Volume, Chk!Fees, Chk!Bookings
    <3>. QED  BY <3>1, <3>2, <3>3
  <2>3. ChkVerdict'
    BY <1>2, <2>1 DEF ChkInv, ChkVerdict, Blame, Chk!Instant, Chk!Honest, Chk!Volume,
                      Chk!Bookings
  <2>4. ChkDark'
    BY <1>2, <2>1 DEF ChkInv, ChkDark, ChkType, Chk!Early
  <2>. QED  BY <2>2, <2>3, <2>4 DEF ChkInv
<1>. QED  BY <1>1, <1>2

LEMMA ChkManifest == ChkInv /\ Chk!Manifest => ChkInv'
<1> SUFFICES ASSUME ChkInv, Chk!Manifest PROVE ChkInv'
  OBVIOUS
<1>1. UNCHANGED <<dark, pct, cheat, ledger, raced, repriced, totals, served>>
  BY DEF Chk!Manifest, Chk!Conclude
<1>2. /\ step = "manifest"
      /\ \/ dark = "none" /\ step' = "totals" /\ declared' = pct /\ verdict' = "none"
         \/ dark # "none" /\ step' = "done" /\ declared' = declared /\ verdict' = "UNREACHABLE"
  BY DEF Chk!Manifest, Chk!Conclude, Chk!up
<1>3. ChkType'
  BY <1>1, <1>2 DEF ChkInv, ChkType, Chk!Early
<1>4. ChkLedger' /\ ChkPlace' /\ ChkVerdict'
  BY <1>1, <1>2 DEF ChkInv, ChkLedger, Fair, ChkPlace, ChkVerdict
<1>5. ChkDark'
  BY <1>1, <1>2 DEF ChkInv, ChkDark, Chk!Early
<1>. QED  BY <1>3, <1>4, <1>5 DEF ChkInv

LEMMA ChkTotals == ChkInv /\ Chk!Totals => ChkInv'
<1> SUFFICES ASSUME ChkInv, Chk!Totals PROVE ChkInv'
  OBVIOUS
<1>1. UNCHANGED <<dark, pct, cheat, ledger, raced, repriced, declared, served>>
  BY DEF Chk!Totals, Chk!Conclude
<1>2. /\ step = "totals"
      /\ \/ /\ dark = "none" /\ step' = "list" /\ verdict' = "none"
            /\ totals' = [volume |-> Chk!Volume(ledger), fees |-> Chk!Fees(ledger)]
         \/ dark # "none" /\ step' = "done" /\ totals' = totals /\ verdict' = "UNREACHABLE"
  BY DEF Chk!Totals, Chk!Conclude, Chk!up
<1>3. Chk!Volume(ledger) \in Int /\ Chk!Fees(ledger) \in Int
  BY SumsOfLedger DEF ChkInv, ChkType
<1>4. Chk!Volume(ledger)' = Chk!Volume(ledger) /\ Chk!Fees(ledger)' = Chk!Fees(ledger)
  BY <1>1 DEF Chk!Volume, Chk!Fees, Chk!Bookings
<1>5. ChkType'
  BY <1>1, <1>2, <1>3 DEF ChkInv, ChkType, Chk!Early
<1>6. ChkLedger' /\ ChkVerdict'
  BY <1>1, <1>2 DEF ChkInv, ChkLedger, Fair, ChkVerdict
<1>7. ChkPlace'
  BY <1>1, <1>2, <1>4 DEF ChkInv, ChkPlace, Chk!Totals
<1>8. ChkDark'
  BY <1>1, <1>2 DEF ChkInv, ChkDark, Chk!Early
<1>. QED  BY <1>5, <1>6, <1>7, <1>8 DEF ChkInv

(* C2 to C5 of an honest hub whose ledger stood still.                     *)
LEMMA HonestPasses ==
    ASSUME ChkInv, step = "list", cheat = "none", ~Chk!Instant, ~raced, repriced = 0
    PROVE  ~Chk!Inconsistent(ledger)
<1>1. ASSUME NEW n \in Chk!Bookings(ledger)
      PROVE  ~ (\/ Chk!BadArithmetic(ledger[n]) \/ Chk!BadFee(ledger[n])
                \/ Chk!UnknownState(ledger[n]) \/ Chk!WaivedPaid(ledger[n]))
  <2>1. n \in DOMAIN ledger /\ ledger[n].kind = "booking"
    BY DEF Chk!Bookings
  <2>2. Fair(ledger[n]) /\ ledger[n] \in LedgerEntry
    BY <2>1, ElementOfSeq, LenProperties DEF ChkInv, ChkLedger, ChkType
  <2> DEFINE e == ledger[n]
  <2>3. /\ e.escrow \in Chk!Escrow /\ e.fee + e.payout = e.amount
        /\ (e.escrow = "WAIVED" => e.amount = 0)
        /\ e.fee = (e.amount * pct) \div 10000
        /\ e.amount \in Int /\ e.fee \in Int /\ e.payout \in Int
        /\ e.escrow # "DIRECT"
    BY <2>1, <2>2 DEF Fair, LedgerEntry, Chk!Instant
  <2> HIDE DEF e
  <2>4. ~Chk!BadArithmetic(e)
    BY <2>3 DEF Chk!BadArithmetic, Chk!Off, Chk!Abs
  <2>5. ~Chk!BadFee(e)
    <3>1. declared = pct /\ pct \in Nat
      BY CheckerAssumption DEF ChkInv, ChkPlace, ChkType
    <3>2. e.amount * pct \in Int
      BY <2>3, <3>1
    <3>. QED  BY <2>3, <3>1, <3>2, RoundedDown DEF Chk!BadFee
  <2>6. ~Chk!UnknownState(e) /\ ~Chk!WaivedPaid(e)
    BY <2>3 DEF Chk!UnknownState, Chk!WaivedPaid, Chk!Escrow
  <2>. QED  BY <2>4, <2>5, <2>6 DEF e
<1>2. ~Chk!BadTotals(ledger)
  <2>1. totals.volume = Chk!Volume(ledger) /\ totals.fees = Chk!Fees(ledger)
    BY DEF ChkInv, ChkPlace
  <2>2. Chk!Volume(ledger) \in Int /\ Chk!Fees(ledger) \in Int
    BY SumsOfLedger DEF ChkInv, ChkType
  <2>. QED  BY <2>1, <2>2 DEF Chk!BadTotals, Chk!Off, Chk!Abs
<1>. QED  BY <1>1, <1>2 DEF Chk!Inconsistent

(* What C2 to C5 let pass was charged as declared and adds up.             *)
LEMMA PassedIsHonest ==
    ASSUME ChkType, NEW list \in Seq(LedgerEntry), ~Chk!Inconsistent(list)
    PROVE  /\ \A n \in Chk!Bookings(list) : Chk!Honest(list[n])
           /\ Chk!Abs(totals.volume - Chk!Volume(list)) < 2
<1>1. ASSUME NEW n \in Chk!Bookings(list) PROVE Chk!Honest(list[n])
  <2> DEFINE e == list[n]
  <2>1. e \in LedgerEntry
    BY ElementOfSeq, LenProperties DEF Chk!Bookings
  <2>2. ~Chk!BadArithmetic(e) /\ ~Chk!BadFee(e) /\ ~Chk!WaivedPaid(e)
    BY DEF Chk!Inconsistent
  <2> HIDE DEF e
  <2>3. e.amount \in Int /\ e.fee \in Int /\ e.payout \in Int
    BY <2>1 DEF LedgerEntry
  <2>4. Chk!Abs(e.fee + e.payout - e.amount) < 2
    BY <2>2, <2>3 DEF Chk!BadArithmetic, Chk!Off, Chk!Abs
  <2>5. Chk!Abs(e.fee * 10000 - e.amount * declared) < 20000
    <3>1. declared \in Int
      BY CheckerAssumption DEF ChkType
    <3>2. e.amount * declared \in Int
      BY <2>3, <3>1
    <3>. QED  BY <2>2, <2>3, <3>2, CheckedFee DEF Chk!BadFee
  <2>6. e.escrow = "WAIVED" => e.amount = 0
    BY <2>2 DEF Chk!WaivedPaid
  <2>. QED  BY <2>4, <2>5, <2>6 DEF Chk!Honest, e
<1>2. Chk!Abs(totals.volume - Chk!Volume(list)) < 2
  <2>1. ~Chk!Off(totals.volume, Chk!Volume(list))
    BY DEF Chk!Inconsistent, Chk!BadTotals
  <2>2. totals.volume \in Int /\ Chk!Volume(list) \in Int
    BY SumsOfLedger DEF ChkType
  <2>. QED  BY <2>1, <2>2 DEF Chk!Off, Chk!Abs
<1>. QED  BY <1>1, <1>2

LEMMA ChkList == ChkInv /\ Chk!List => ChkInv'
<1> SUFFICES ASSUME ChkInv, Chk!List PROVE ChkInv'
  OBVIOUS
<1> DEFINE list == IF cheat = "hide" /\ ledger # <<>> THEN Tail(ledger) ELSE ledger
<1>1. UNCHANGED <<dark, pct, cheat, ledger, raced, repriced, declared, totals>>
  BY DEF Chk!List, Chk!Conclude
<1>2. /\ step = "list" /\ step' \in {"challenge", "done"}
      /\ \/ /\ dark # "none" /\ step' = "done"
            /\ served' = served /\ verdict' = "UNREACHABLE"
         \/ /\ dark = "none" /\ served' = list
            /\ \/ Chk!Bookings(list) = {} /\ verdict' = "INSUFFICIENT-EVIDENCE"
               \/ Chk!Inconsistent(list) /\ verdict' = "NON-CONFORMANT"
               \/ ~Chk!Inconsistent(list) /\ verdict' = "CONFORMANT"
  BY DEF Chk!List, Chk!Conclude, Chk!up
<1>3. list \in Seq(LedgerEntry)
  BY HeadTailProperties DEF ChkInv, ChkType
<1>4. cheat # "hide" => list = ledger
  OBVIOUS
<1> HIDE DEF list
<1>5. ChkType' /\ ChkLedger' /\ ChkPlace' /\ ChkDark'
  <2>1. ChkType' /\ ChkLedger' /\ ChkPlace'
    BY <1>1, <1>2, <1>3 DEF ChkInv, ChkType, ChkLedger, Fair, ChkPlace
  <2>2. ChkDark'
    BY <1>1, <1>2 DEF ChkInv, ChkDark, Chk!Early
  <2>. QED  BY <2>1, <2>2
<1>6. Chk!Instant' = Chk!Instant /\ Blame' = Blame
  BY <1>1 DEF Blame, Chk!Instant
<1>7. CASE verdict' = "UNREACHABLE"
  BY <1>5, <1>7 DEF ChkInv, ChkVerdict
<1>8. CASE verdict' = "INSUFFICIENT-EVIDENCE"
  <2>1. cheat # "hide" /\ ~raced => totals.volume = 0
    BY <1>2, <1>4, <1>8, SumsOfLedger DEF ChkInv, ChkPlace, ChkType
  <2>2. ChkVerdict'
    BY <2>1, <1>1, <1>8 DEF ChkVerdict, ChkInv, ChkType
  <2>. QED  BY <1>5, <2>2 DEF ChkInv
<1>9. CASE verdict' = "NON-CONFORMANT"
  <2>1. Blame
    <3>1. Chk!Inconsistent(list)
      BY <1>2, <1>9
    <3>2. repriced = 0 \/ repriced > 0
      BY DEF ChkInv, ChkType
    <3>. QED  BY <3>1, <3>2, <1>2, <1>4, HonestPasses DEF Blame
  <2>. QED  BY <2>1, <1>5, <1>6, <1>9 DEF ChkInv, ChkVerdict
<1>10. CASE verdict' = "CONFORMANT"
  <2>1. served' = list /\ ~Chk!Inconsistent(list)
    BY <1>2, <1>10
  <2>2. /\ \A n \in Chk!Bookings(list) : Chk!Honest(list[n])
        /\ Chk!Abs(totals.volume - Chk!Volume(list)) < 2
    BY <2>1, <1>3, PassedIsHonest DEF ChkInv
  <2>3. /\ \A n \in Chk!Bookings(served)' : Chk!Honest(served[n])'
        /\ Chk!Abs(totals.volume - Chk!Volume(served))' < 2
    BY <2>1, <2>2, <1>1 DEF Chk!Bookings, Chk!Honest, Chk!Volume, Chk!Abs
  <2>. QED  BY <2>3, <1>5, <1>10 DEF ChkInv, ChkVerdict
<1>. QED  BY <1>2, <1>7, <1>8, <1>9, <1>10

LEMMA ChkLast == ChkInv /\ (Chk!Challenge \/ Chk!Sync) => ChkInv'
<1> SUFFICES ASSUME ChkInv, Chk!Challenge \/ Chk!Sync PROVE ChkInv'
  OBVIOUS
<1>1. /\ UNCHANGED <<dark, pct, cheat, ledger, repriced, declared, totals, served>>
      /\ (raced => raced') /\ raced' \in BOOLEAN
      /\ \/ /\ step = "challenge" /\ step' = "sync"
            /\ \/ dark = "none" /\ verdict' = verdict
               \/ dark # "none" /\ verdict' = "NON-CONFORMANT"
         \/ /\ step = "sync" /\ step' = "done"
            /\ \/ verdict' = verdict
               \/ verdict' = "NON-CONFORMANT" /\ raced' /\ dark = "none"
  BY DEF Chk!Challenge, Chk!Sync, Chk!Conclude, Chk!up, ChkInv, ChkType
<1>2. ChkType' /\ ChkLedger' /\ ChkPlace' /\ ChkDark'
  <2>1. ChkType' /\ ChkLedger' /\ ChkPlace'
    BY <1>1 DEF ChkInv, ChkType, ChkLedger, Fair, ChkPlace
  <2>2. ChkDark'
    BY <1>1 DEF ChkInv, ChkDark, Chk!Early
  <2>. QED  BY <2>1, <2>2
<1>3. ChkVerdict'
  BY <1>1 DEF ChkInv, ChkDark, ChkVerdict, Blame, Chk!Early, Chk!Instant, Chk!Bookings,
              Chk!Honest, Chk!Volume, Chk!Abs
<1>. QED  BY <1>2, <1>3 DEF ChkInv

LEMMA ChkNext == ChkInv /\ [Chk!Next]_chkVars => ChkInv'
<1>1. ASSUME ChkInv, UNCHANGED chkVars PROVE ChkInv'
  <2> USE <1>1 DEF chkVars
  <2>1. ChkType' /\ ChkLedger'
    BY DEF ChkInv, ChkType, ChkLedger, Fair
  <2>2. ChkPlace'
    BY DEF ChkInv, ChkPlace, Chk!Volume, Chk!Fees, Chk!Bookings
  <2>3. ChkVerdict'
    BY DEF ChkInv, ChkVerdict, Blame, Chk!Instant, Chk!Bookings, Chk!Honest, Chk!Volume, Chk!Abs
  <2>4. ChkDark'
    BY DEF ChkInv, ChkDark
  <2>. QED  BY <2>1, <2>2, <2>3, <2>4 DEF ChkInv
<1>. QED  BY <1>1, ChkBook, ChkSettle, ChkOther, ChkManifest, ChkTotals, ChkList, ChkLast
          DEF Chk!Next

LEMMA ChkStep == [Next]_vars => [Chk!Next]_chkVars
  BY DEF Next, vars

(* The verdict of the checker fits the hub it looked at.                   *)
THEOREM VerdictFitsHolds == Spec => []VerdictFits
<1>1. Init => ChkInv
  BY ChkInit DEF Init
<1>2. ChkInv /\ [Next]_vars => ChkInv'
  BY ChkNext, ChkStep
<1>3. ChkInv => VerdictFits
  BY DEF ChkInv, ChkVerdict, ChkDark, Blame, VerdictFits, Chk!VerdictFits, Chk!ExitCode, Chk!Early
<1>. QED  BY <1>1, <1>2, <1>3, PTL DEF Spec
=============================================================================
