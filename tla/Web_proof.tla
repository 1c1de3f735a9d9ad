------------------------------- MODULE Web_proof -------------------------------
(***************************************************************************)
(* Proofs about the two web front ends.  Payments, for any sets of         *)
(* authorizations, spellings and threads and any number of restarts: a     *)
(* payment that did not expire while it was verified is asked for once and *)
(* served once, and registry and ledger agree.  Chat, for any sets of sids, *)
(* accounts, listings and requests in flight: a number books what was      *)
(* shown at it, cancel tokens stay with their account, the browser acts as *)
(* it was told, and only an announced deletion erases.                     *)
(***************************************************************************)
EXTENDS Web, Data_proof

(***************************************************************************)
(* Payments                                                                *)
(***************************************************************************)
Stage == {"window", "recover", "verified", "settle", "asked"}
Looked == {"recover", "verified", "settle", "asked"}
ThreadRec == {Idle} \cup [pc : Stage, p : Payment]

TypeInv ==
    /\ used \subseteq Payment
    /\ status \in [Payment -> Statuses]
    /\ entries \in [Payment -> Nat]
    /\ disk \in [used : SUBSET Payment, status : [Payment -> Statuses],
                 entries : [Payment -> Nat]]
    /\ thread \in [Thread -> ThreadRec]
    /\ expired \subseteq Payment
    /\ onChain \subseteq Payment
    /\ asked \in [Payment -> Nat]
    /\ served \in [Payment -> Nat]

(* Thread t is at one of the steps S with payment p.                       *)
Has(t, p, S) == thread[t].pc \in S /\ thread[t].p = p

Locked == {"settle", "asked"}
Recorded == {"verified", "settle", "asked"}

(* LOCK is held by the one thread of the settlement section.               *)
LockInv == \A t \in Thread : thread[t].pc \in Locked <=> lock = t

(* The outcome and the ledger reach memory and disk in one step.           *)
DiskInv == disk.status = status /\ disk.entries = entries

(* A nonce that must not be forgotten is in the table, or it has expired.  *)
Kept(p) == p \in used \cup expired /\ p \in disk.used \cup expired

(* Who is in the settlement section has a nonce that a crash cannot undo.  *)
NonceInv == \A t \in Thread, p \in Payment :
    /\ Has(t, p, Recorded) => p \in used \cup expired
    /\ Has(t, p, Locked) => Kept(p)

(* Without a record, the facilitator was asked by the thread that still waits,
   or a crash has taken every thread that had passed a look with the payment. *)
Waiting(p) == \E t \in Thread : Has(t, p, {"asked"})
Gone(p) == \A t \in Thread : ~Has(t, p, Looked)

AskInv ==
    /\ \A p \in Payment : Waiting(p) => status[p] = "none"
    /\ \A p \in Payment \ late :
        /\ asked[p] <= 1
        /\ asked[p] = 1 /\ status[p] = "none" => Kept(p) /\ (Waiting(p) \/ Gone(p))

ReconInv == \A p \in Payment :
    /\ status[p] = "settled" <=> entries[p] > 0
    /\ status[p] = "settled" => OnChain(p)

(* A payment that is not late is past its second look in one thread, and not
   after it was served.                                                    *)
ServeInv == \A p \in Payment \ late :
    /\ \A t \in Thread : Has(t, p, Stage) => p \notin expired
    /\ \A t, u \in Thread : Has(t, p, Recorded) /\ Has(u, p, Recorded) => t = u
    /\ \A t \in Thread : Has(t, p, Recorded) => served[p] = 0
    /\ served[p] <= 1
    /\ served[p] = 1 => Kept(p)

IInv == TypeInv /\ LockInv /\ DiskInv /\ NonceInv /\ AskInv /\ ReconInv /\ ServeInv

-----------------------------------------------------------------------------
(* Lemmas about the threads.                                               *)

(* A thread at one of the stages has a payment; another pc means none.     *)
LEMMA AtStage ==
  ASSUME TypeInv, NEW t \in Thread, thread[t].pc \in Stage
  PROVE  thread[t] \in [pc : Stage, p : Payment]
BY DEF TypeInv, ThreadRec, Stage, Idle

(* Goto moves one thread on with its payment and leaves the others alone.  *)
LEMMA Moves ==
  ASSUME TypeInv, NEW t \in Thread, thread[t].pc \in Stage, NEW s \in Stage, Goto(t, s)
  PROVE  /\ thread' \in [Thread -> ThreadRec]
         /\ thread'[t].pc = s /\ thread'[t].p = thread[t].p
         /\ \A u \in Thread \ {t} : thread'[u] = thread[u]
<1>1. thread[t] \in [pc : Stage, p : Payment]
  BY AtStage
<1>2. thread \in [Thread -> ThreadRec]
  BY DEF TypeInv
<1>3. [thread[t] EXCEPT !.pc = s] = [pc |-> s, p |-> thread[t].p]
  BY <1>1
<1>4. thread' = [thread EXCEPT ![t] = [pc |-> s, p |-> thread[t].p]]
  BY <1>2, <1>3 DEF Goto
<1>5. [pc |-> s, p |-> thread[t].p] \in ThreadRec
  BY <1>1 DEF ThreadRec
<1>6. QED
  BY <1>2, <1>4, <1>5

(* Drop makes one thread idle and leaves the others alone.                 *)
LEMMA Drops ==
  ASSUME TypeInv, NEW t \in Thread, Drop(t)
  PROVE  /\ thread' \in [Thread -> ThreadRec]
         /\ thread'[t].pc = "idle"
         /\ \A u \in Thread \ {t} : thread'[u] = thread[u]
BY DEF TypeInv, Drop, ThreadRec, Idle

(* A thread that a step moved from stage to stage, seen as Has.            *)
LEMMA HasMoves ==
  ASSUME TypeInv, NEW t \in Thread, thread[t].pc \in Stage, NEW s \in Stage, Goto(t, s),
         NEW u \in Thread, NEW p \in Payment, NEW S \in SUBSET Stage
  PROVE  Has(u, p, S)' <=> IF u = t THEN s \in S /\ thread[t].p = p ELSE Has(u, p, S)
<1>1. /\ thread'[t].pc = s /\ thread'[t].p = thread[t].p
      /\ \A v \in Thread \ {t} : thread'[v] = thread[v]
  BY Moves
<1>2. CASE u = t
  BY <1>1, <1>2 DEF Has
<1>3. CASE u # t
  BY <1>1, <1>3 DEF Has
<1>4. QED
  BY <1>2, <1>3

LEMMA HasDrops ==
  ASSUME TypeInv, NEW t \in Thread, Drop(t),
         NEW u \in Thread, NEW p \in Payment, NEW S \in SUBSET Stage
  PROVE  Has(u, p, S)' <=> u # t /\ Has(u, p, S)
<1>1. /\ thread'[t].pc = "idle"
      /\ \A v \in Thread \ {t} : thread'[v] = thread[v]
  BY Drops
<1>2. QED
  BY <1>1 DEF Has, Stage

-----------------------------------------------------------------------------
(* Every step keeps the invariant, conjunct by conjunct.                   *)

(* Types: each action writes values of the kind it read.                   *)
LEMMA TypeStep == TypeInv /\ [Next]_vars => TypeInv'
<1> SUFFICES ASSUME TypeInv, [Next]_vars PROVE TypeInv'
  OBVIOUS
<1> USE DEF TypeInv, Pruned, world
<1>1. ASSUME NEW t \in Thread, NEW p \in Payment, CheckWindow(t, p) PROVE TypeInv'
  <2>1. [pc |-> "window", p |-> p] \in ThreadRec
    BY DEF ThreadRec, Stage
  <2>2. QED
    BY <1>1, <2>1 DEF CheckWindow
<1>a. ASSUME NEW t \in Thread, FirstLook(t) PROVE TypeInv'
  <2>1. thread' \in [Thread -> ThreadRec]
    BY <1>a, Moves DEF FirstLook, At, Stage
  <2>2. QED
    BY <1>a, <2>1 DEF FirstLook
<1>2. ASSUME NEW t \in Thread, SecondLook(t) PROVE TypeInv'
  <2>1. Pay(t) \in Payment /\ thread[t].pc \in Stage
    BY <1>2, AtStage DEF SecondLook, At, Pay, Stage
  <2>2. thread' \in [Thread -> ThreadRec]
    BY <1>2, <2>1, Moves DEF SecondLook, Stage
  <2>3. QED
    BY <1>2, <2>1, <2>2 DEF SecondLook
<1>3. ASSUME NEW t \in Thread, Replayed(t) \/ BadSignature(t) PROVE TypeInv'
  BY <1>3, Drops DEF Replayed, BadSignature
<1>4. ASSUME NEW t \in Thread, Enter(t) PROVE TypeInv'
  <2>1. thread' \in [Thread -> ThreadRec]
    BY <1>4, Moves DEF Enter, At, Stage
  <2>2. QED
    BY <1>4, <2>1 DEF Enter, Persist
<1>5. ASSUME NEW t \in Thread, Ask(t) PROVE TypeInv'
  <2>1. Pay(t) \in Payment
    BY <1>5, AtStage DEF Ask, At, Pay, Stage
  <2>2. thread' \in [Thread -> ThreadRec]
    BY <1>5, Moves DEF Ask, At, Stage
  <2>3. QED
    BY <1>5, <2>1, <2>2 DEF Ask
<1>6. ASSUME NEW t \in Thread, Record(t) \/ Reuse(t) PROVE TypeInv'
  <2>1. Pay(t) \in Payment
    BY <1>6, AtStage DEF Record, Reuse, At, Pay, Stage
  <2>2. thread' \in [Thread -> ThreadRec]
    BY <1>6, Drops DEF Record, Reuse, Finish
  <2>3. status' \in [Payment -> Statuses]
    BY <1>6 DEF Record, Reuse, Outcomes
  <2>4. entries' \in [Payment -> Nat]
    BY <1>6, <2>1 DEF Record, Reuse, Finish
  <2>5. QED
    BY <1>6, <2>1, <2>2, <2>3, <2>4 DEF Record, Reuse, Finish, Persist
<1>7. ASSUME NEW a \in Authorization, Expire(a) PROVE TypeInv'
  BY <1>7 DEF Expire, SpellingsOf
<1>8. CASE OtherPersist
  BY <1>8 DEF OtherPersist, Persist
<1>9. CASE Restart
  BY <1>9 DEF Restart, ThreadRec
<1>10. CASE UNCHANGED vars
  BY <1>10 DEF vars
<1>11. QED
  BY <1>1, <1>a, <1>2, <1>3, <1>4, <1>5, <1>6, <1>7, <1>8, <1>9, <1>10 DEF Next

(* LOCK: taken only when it is free, let go only by its holder.            *)
LEMMA LockStep == TypeInv /\ LockInv /\ [Next]_vars => LockInv'
<1> SUFFICES ASSUME TypeInv, LockInv, [Next]_vars PROVE LockInv'
  OBVIOUS
<1> USE DEF LockInv, Locked
<1>0. Free \notin Thread
  BY X402Assumption
<1>1. ASSUME NEW t \in Thread, NEW p \in Payment, CheckWindow(t, p) PROVE LockInv'
  BY <1>1 DEF CheckWindow, At, TypeInv
<1>a. ASSUME NEW t \in Thread, FirstLook(t) PROVE LockInv'
  <2>1. thread'[t].pc = "recover" /\ \A u \in Thread \ {t} : thread'[u] = thread[u]
    BY <1>a, Moves DEF FirstLook, At, Stage
  <2>2. QED
    BY <1>a, <2>1 DEF FirstLook, At
<1>2. ASSUME NEW t \in Thread, SecondLook(t) PROVE LockInv'
  <2>1. thread'[t].pc = "verified" /\ \A u \in Thread \ {t} : thread'[u] = thread[u]
    BY <1>2, Moves DEF SecondLook, At, Stage
  <2>2. QED
    BY <1>2, <2>1 DEF SecondLook, At
<1>3. ASSUME NEW t \in Thread, Replayed(t) \/ BadSignature(t) PROVE LockInv'
  <2>1. thread'[t].pc = "idle" /\ \A u \in Thread \ {t} : thread'[u] = thread[u]
    BY <1>3, Drops DEF Replayed, BadSignature
  <2>2. QED
    BY <1>3, <2>1 DEF Replayed, BadSignature, At
<1>4. ASSUME NEW t \in Thread, Enter(t) PROVE LockInv'
  <2>1. thread'[t].pc = "settle" /\ \A u \in Thread \ {t} : thread'[u] = thread[u]
    BY <1>4, Moves DEF Enter, At, Stage
  <2>2. QED
    BY <1>0, <1>4, <2>1 DEF Enter, At
<1>5. ASSUME NEW t \in Thread, Ask(t) PROVE LockInv'
  <2>1. thread'[t].pc = "asked" /\ \A u \in Thread \ {t} : thread'[u] = thread[u]
    BY <1>5, Moves DEF Ask, At, Stage
  <2>2. QED
    BY <1>5, <2>1 DEF Ask, At
<1>6. ASSUME NEW t \in Thread, Record(t) \/ Reuse(t) PROVE LockInv'
  <2>1. thread'[t].pc = "idle" /\ \A u \in Thread \ {t} : thread'[u] = thread[u]
    BY <1>6, Drops DEF Record, Reuse, Finish
  <2>2. lock = t /\ lock' = Free
    BY <1>6 DEF Record, Reuse, Finish, At
  <2>3. QED
    BY <1>0, <2>1, <2>2
<1>7. CASE Restart
  BY <1>0, <1>7 DEF Restart, Idle
<1>8. CASE UNCHANGED <<thread, lock>>
  BY <1>8
<1>9. QED
  BY <1>1, <1>a, <1>2, <1>3, <1>4, <1>5, <1>6, <1>7, <1>8 DEF Next, Expire, OtherPersist, vars

(* Outcome and ledger change only together with the snapshot.              *)
LEMMA DiskStep == TypeInv /\ DiskInv /\ [Next]_vars => DiskInv'
BY DEF DiskInv, Next, CheckWindow, FirstLook, SecondLook, Replayed, BadSignature, Enter, Ask, Record, Reuse,
       Finish, Expire, OtherPersist, Restart, Persist, vars

(* What a step may do to the nonces: prune or add in memory, and write what
   is in memory; nothing that is kept gets lost.                           *)
LEMMA KeptStep ==
  ASSUME TypeInv, [Next]_vars, NEW p \in Payment, Kept(p)
  PROVE  Kept(p)'
<1> USE DEF Kept, Pruned
<1>1. ASSUME NEW t \in Thread, NEW q \in Payment, CheckWindow(t, q) PROVE Kept(p)'
  BY <1>1 DEF CheckWindow, world
<1>a. ASSUME NEW t \in Thread, FirstLook(t) PROVE Kept(p)'
  BY <1>a DEF FirstLook, world
<1>2. ASSUME NEW t \in Thread, SecondLook(t) PROVE Kept(p)'
  BY <1>2 DEF SecondLook, world
<1>3. ASSUME NEW t \in Thread, Replayed(t) \/ BadSignature(t) PROVE Kept(p)'
  BY <1>3 DEF Replayed, BadSignature, world
<1>4. ASSUME NEW t \in Thread, Enter(t) PROVE Kept(p)'
  BY <1>4 DEF Enter, Persist, world
<1>5. ASSUME NEW t \in Thread, Ask(t) PROVE Kept(p)'
  BY <1>5 DEF Ask
<1>6. ASSUME NEW t \in Thread, Record(t) \/ Reuse(t) PROVE Kept(p)'
  BY <1>6 DEF Record, Reuse, Finish, Persist, world
<1>7. ASSUME NEW a \in Authorization, Expire(a) PROVE Kept(p)'
  BY <1>7 DEF Expire
<1>8. CASE OtherPersist
  BY <1>8 DEF OtherPersist, Persist, world
<1>9. CASE Restart
  BY <1>9 DEF Restart, world
<1>10. CASE UNCHANGED vars
  BY <1>10 DEF vars
<1>11. QED
  BY <1>1, <1>a, <1>2, <1>3, <1>4, <1>5, <1>6, <1>7, <1>8, <1>9, <1>10 DEF Next

(* A nonce that was recorded stays so in memory, unless the hub restarts.   *)
LEMMA UsedStep ==
  ASSUME TypeInv, [Next]_vars, ~Restart, NEW p \in Payment, p \in used \cup expired
  PROVE  p \in (used \cup expired)'
BY DEF Next, CheckWindow, FirstLook, SecondLook, Replayed, BadSignature, Enter, Ask, Record,
       Reuse, Finish, Expire, OtherPersist, Pruned, vars, world

(* The nonce is recorded by the second look and persisted with the lock.    *)
LEMMA NonceStep == TypeInv /\ NonceInv /\ [Next]_vars => NonceInv'
<1> SUFFICES ASSUME TypeInv, NonceInv, [Next]_vars, NEW u \in Thread, NEW q \in Payment
             PROVE  /\ Has(u, q, Recorded)' => q \in (used \cup expired)'
                    /\ Has(u, q, Locked)' => Kept(q)'
  BY DEF NonceInv
<1>0. /\ Has(u, q, Recorded) => q \in used \cup expired
      /\ Has(u, q, Locked) => Kept(q)
  BY DEF NonceInv
<1>a. Recorded \in SUBSET Stage /\ Locked \in SUBSET Stage
  BY DEF Recorded, Locked, Stage
<1>1. ASSUME NEW t \in Thread, NEW p \in Payment, CheckWindow(t, p)
      PROVE  /\ Has(u, q, Recorded)' => Has(u, q, Recorded)
             /\ Has(u, q, Locked)' => Has(u, q, Locked)
  BY <1>1 DEF CheckWindow, Has, Recorded, Locked, TypeInv
<1>b. ASSUME NEW t \in Thread, FirstLook(t)
      PROVE  /\ Has(u, q, Recorded)' => Has(u, q, Recorded)
             /\ Has(u, q, Locked)' => Has(u, q, Locked)
  <2>1. thread[t].pc \in Stage /\ Goto(t, "recover") /\ "recover" \in Stage
    BY <1>b DEF FirstLook, At, Stage
  <2>2. /\ Has(u, q, Recorded)' <=> IF u = t THEN "recover" \in Recorded /\ thread[t].p = q
                                     ELSE Has(u, q, Recorded)
        /\ Has(u, q, Locked)' <=> IF u = t THEN "recover" \in Locked /\ thread[t].p = q
                                   ELSE Has(u, q, Locked)
    BY <1>a, <2>1, HasMoves
  <2>3. QED
    BY <2>2 DEF Recorded, Locked
<1>2. ASSUME NEW t \in Thread, SecondLook(t)
      PROVE  /\ Has(u, q, Recorded)' => Has(u, q, Recorded) \/ q = Pay(t)
             /\ Has(u, q, Locked)' => Has(u, q, Locked)
  <2>1. thread[t].pc \in Stage /\ Goto(t, "verified") /\ "verified" \in Stage
    BY <1>2 DEF SecondLook, At, Stage
  <2>2. /\ Has(u, q, Recorded)' <=> IF u = t THEN "verified" \in Recorded /\ thread[t].p = q
                                     ELSE Has(u, q, Recorded)
        /\ Has(u, q, Locked)' <=> IF u = t THEN "verified" \in Locked /\ thread[t].p = q
                                   ELSE Has(u, q, Locked)
    BY <1>a, <2>1, HasMoves
  <2>3. QED
    BY <2>2 DEF Pay, Locked
<1>3. ASSUME NEW t \in Thread, Drop(t)
      PROVE  /\ Has(u, q, Recorded)' => Has(u, q, Recorded)
             /\ Has(u, q, Locked)' => Has(u, q, Locked)
  BY <1>a, <1>3, HasDrops
<1>4. ASSUME NEW t \in Thread, Enter(t)
      PROVE  /\ Has(u, q, Recorded)' => Has(u, q, Recorded)
             /\ Has(u, q, Locked)' => Has(u, q, Locked) \/ Has(u, q, Recorded)
  <2>1. thread[t].pc \in Stage /\ Goto(t, "settle") /\ "settle" \in Stage
    BY <1>4 DEF Enter, At, Stage
  <2>2. /\ Has(u, q, Recorded)' <=> IF u = t THEN "settle" \in Recorded /\ thread[t].p = q
                                     ELSE Has(u, q, Recorded)
        /\ Has(u, q, Locked)' <=> IF u = t THEN "settle" \in Locked /\ thread[t].p = q
                                   ELSE Has(u, q, Locked)
    BY <1>a, <2>1, HasMoves
  <2>3. QED
    BY <1>4, <2>2 DEF Enter, At, Has, Recorded
<1>5. ASSUME NEW t \in Thread, Ask(t)
      PROVE  /\ Has(u, q, Recorded)' => Has(u, q, Recorded)
             /\ Has(u, q, Locked)' => Has(u, q, Locked)
  <2>1. thread[t].pc \in Stage /\ Goto(t, "asked") /\ "asked" \in Stage
    BY <1>5 DEF Ask, At, Stage
  <2>2. /\ Has(u, q, Recorded)' <=> IF u = t THEN "asked" \in Recorded /\ thread[t].p = q
                                     ELSE Has(u, q, Recorded)
        /\ Has(u, q, Locked)' <=> IF u = t THEN "asked" \in Locked /\ thread[t].p = q
                                   ELSE Has(u, q, Locked)
    BY <1>a, <2>1, HasMoves
  <2>3. QED
    BY <1>5, <2>2 DEF Ask, At, Has, Recorded, Locked
<1>6. CASE Restart
  BY <1>6 DEF Restart, Has, Recorded, Locked, Idle
<1>7. CASE UNCHANGED thread /\ ~Restart
  <2>1. /\ Has(u, q, Recorded)' => Has(u, q, Recorded)
        /\ Has(u, q, Locked)' => Has(u, q, Locked)
    BY <1>7 DEF Has
  <2>2. QED
    BY <1>0, <1>7, <2>1, KeptStep, UsedStep
<1>8. ASSUME NEW t \in Thread, SecondLook(t) PROVE Pay(t) \in used'
  BY <1>8 DEF SecondLook
<1>9. ASSUME NEW t \in Thread, Enter(t), Has(u, q, Recorded) PROVE Kept(q)'
  BY <1>0, <1>9 DEF Enter, Persist, Kept, Pruned, world
<1>10. QED
  <2>1. ASSUME ~Restart, Has(u, q, Recorded)' => Has(u, q, Recorded),
               Has(u, q, Locked)' => Has(u, q, Locked)
        PROVE  /\ Has(u, q, Recorded)' => q \in (used \cup expired)'
               /\ Has(u, q, Locked)' => Kept(q)'
    BY <1>0, <2>1, KeptStep, UsedStep
  <2>2. ASSUME NEW t \in Thread, SecondLook(t), ~Restart
        PROVE  /\ Has(u, q, Recorded)' => q \in (used \cup expired)'
               /\ Has(u, q, Locked)' => Kept(q)'
    BY <1>0, <1>2, <1>8, <2>2, KeptStep, UsedStep
  <2>3. ASSUME NEW t \in Thread, Enter(t), ~Restart
        PROVE  /\ Has(u, q, Recorded)' => q \in (used \cup expired)'
               /\ Has(u, q, Locked)' => Kept(q)'
    BY <1>0, <1>4, <1>9, <2>3, KeptStep, UsedStep
  <2>4. QED
    BY <1>1, <1>b, <1>3, <1>5, <1>6, <1>7, <2>1, <2>2, <2>3
       DEF Next, Replayed, BadSignature, Record, Reuse, Finish, Expire, OtherPersist, vars

(* A thread in the settlement section shuts out all others.                *)
LEMMA Alone ==
  ASSUME LockInv, NEW t \in Thread, thread[t].pc \in Locked, NEW u \in Thread, thread[u].pc \in Locked
  PROVE  t = u
BY DEF LockInv

(* What expired under a request stays on record.                           *)
LEMMA LateGrows == [Next]_vars => late \subseteq late'
BY DEF Next, CheckWindow, FirstLook, SecondLook, Replayed, BadSignature, Enter, Ask, Record,
       Reuse, Finish, Expire, OtherPersist, Restart, vars, world

(* Steps outside the settlement section neither ask nor record.            *)
LEMMA AskOutside ==
  ASSUME TypeInv, AskInv, [Next]_vars, UNCHANGED <<status, asked>>,
         \A p \in Payment : Waiting(p)' <=> Waiting(p),
         \A p \in Payment \ late : Kept(p) /\ Gone(p) => Gone(p)'
  PROVE  AskInv'
BY KeptStep, LateGrows DEF AskInv

(* The facilitator is asked for what nobody asked for, and the outcome is
   recorded before the lock is free.                                       *)
LEMMA AskStep ==
  TypeInv /\ LockInv /\ DiskInv /\ NonceInv /\ AskInv /\ ServeInv /\ [Next]_vars => AskInv'
<1> SUFFICES ASSUME TypeInv, LockInv, DiskInv, NonceInv, AskInv, ServeInv, [Next]_vars
             PROVE  AskInv'
  OBVIOUS
<1>a. {"asked"} \in SUBSET Stage /\ Looked \in SUBSET Stage
  BY DEF Stage, Looked
<1>1. ASSUME NEW t \in Thread, NEW p \in Payment, CheckWindow(t, p) PROVE AskInv'
  <2>1. \A q \in Payment : Waiting(q)' <=> Waiting(q)
    BY <1>1 DEF CheckWindow, Waiting, Has, At, TypeInv
  <2>2. \A q \in Payment : Kept(q) /\ Gone(q) => Gone(q)'
    BY <1>1 DEF CheckWindow, Gone, Has, Looked, TypeInv
  <2>3. QED
    BY <1>1, <2>1, <2>2, AskOutside DEF CheckWindow, world
<1>b. ASSUME NEW t \in Thread, FirstLook(t) PROVE AskInv'
  <2>1. thread[t].pc = "window" /\ thread[t].pc \in Stage /\ Goto(t, "recover") /\ "recover" \in Stage
    BY <1>b DEF FirstLook, At, Stage
  <2>2. PICK r \in Payment : r = Pay(t) /\ Has(t, r, Stage)
    BY <2>1, AtStage DEF Pay, Has
  <2>3. \A u \in Thread, q \in Payment :
          /\ Has(u, q, {"asked"})' <=> Has(u, q, {"asked"})
          /\ Has(u, q, Looked)' => Has(u, q, Looked) \/ q = r
    <3> SUFFICES ASSUME NEW u \in Thread, NEW q \in Payment
                 PROVE  /\ Has(u, q, {"asked"})' <=> Has(u, q, {"asked"})
                        /\ Has(u, q, Looked)' => Has(u, q, Looked) \/ q = r
      OBVIOUS
    <3>1. /\ Has(u, q, {"asked"})' <=> IF u = t THEN "recover" \in {"asked"} /\ thread[t].p = q
                                        ELSE Has(u, q, {"asked"})
          /\ Has(u, q, Looked)' <=> IF u = t THEN "recover" \in Looked /\ thread[t].p = q
                                    ELSE Has(u, q, Looked)
      BY <1>a, <2>1, HasMoves
    <3>2. QED
      BY <2>1, <2>2, <3>1 DEF Has, Pay
  <2>4. r \notin late => ~Kept(r)
    <3>1. r \notin late => r \notin expired
      BY <2>2 DEF ServeInv
    <3>2. r \notin used \ expired
      BY <1>b, <2>2 DEF FirstLook, Pruned
    <3>3. QED
      BY <3>1, <3>2 DEF Kept
  <2>5. \A q \in Payment \ late : Kept(q) /\ Gone(q) => Gone(q)'
    BY <2>3, <2>4 DEF Gone
  <2>6. QED
    BY <1>b, <2>3, <2>5, AskOutside DEF FirstLook, Waiting, world
<1>2. ASSUME NEW t \in Thread, SecondLook(t) \/ Enter(t) PROVE AskInv'
  <2>1. PICK s \in {"verified", "settle"} : Goto(t, s)
    BY <1>2 DEF SecondLook, Enter
  <2>2. thread[t].pc \in Looked /\ thread[t].pc \in Stage /\ thread[t].pc # "asked"
        /\ s \in Stage /\ s \in Looked
    BY <1>2 DEF SecondLook, Enter, At, Stage, Looked
  <2>3. \A u \in Thread, q \in Payment :
          /\ Has(u, q, {"asked"})' <=> Has(u, q, {"asked"})
          /\ Has(u, q, Looked)' <=> Has(u, q, Looked)
    <3> SUFFICES ASSUME NEW u \in Thread, NEW q \in Payment
                 PROVE  /\ Has(u, q, {"asked"})' <=> Has(u, q, {"asked"})
                        /\ Has(u, q, Looked)' <=> Has(u, q, Looked)
      OBVIOUS
    <3>1. /\ Has(u, q, {"asked"})' <=> IF u = t THEN s \in {"asked"} /\ thread[t].p = q
                                        ELSE Has(u, q, {"asked"})
          /\ Has(u, q, Looked)' <=> IF u = t THEN s \in Looked /\ thread[t].p = q
                                    ELSE Has(u, q, Looked)
      BY <1>a, <2>1, <2>2, HasMoves
    <3>2. QED
      BY <2>1, <2>2, <3>1 DEF Has
  <2>4. QED
    BY <1>2, <2>3, AskOutside DEF SecondLook, Enter, Waiting, Gone, world
<1>3. ASSUME NEW t \in Thread, Replayed(t) \/ BadSignature(t) PROVE AskInv'
  <2>1. Drop(t) /\ thread[t].pc # "asked"
    BY <1>3 DEF Replayed, BadSignature, At
  <2>2. \A u \in Thread, q \in Payment :
          /\ Has(u, q, {"asked"})' <=> u # t /\ Has(u, q, {"asked"})
          /\ Has(u, q, Looked)' <=> u # t /\ Has(u, q, Looked)
    BY <1>a, <2>1, HasDrops
  <2>3. \A q \in Payment : (Waiting(q)' <=> Waiting(q)) /\ (Gone(q) => Gone(q)')
    BY <2>1, <2>2 DEF Waiting, Gone, Has
  <2>4. QED
    BY <1>3, <2>3, AskOutside DEF Replayed, BadSignature, world
<1>4. ASSUME NEW t \in Thread, Ask(t) PROVE AskInv'
  <2>1. thread[t].pc = "settle" /\ thread[t].pc \in Stage /\ Goto(t, "asked") /\ "asked" \in Stage
    BY <1>4 DEF Ask, At, Stage
  <2>2. PICK r \in Payment : r = Pay(t) /\ Has(t, r, {"settle"})
    BY <2>1, AtStage DEF Pay, Has
  <2>3. \A u \in Thread : thread[u].pc # "asked"
    BY <2>1, Alone DEF Locked
  <2>4. \A u \in Thread, q \in Payment :
          /\ Has(u, q, {"asked"})' <=> u = t /\ q = r
          /\ u # t => (Has(u, q, Looked)' <=> Has(u, q, Looked))
          /\ Has(t, q, Looked)' <=> q = r
    <3> SUFFICES ASSUME NEW u \in Thread, NEW q \in Payment
                 PROVE  /\ Has(u, q, {"asked"})' <=> u = t /\ q = r
                        /\ u # t => (Has(u, q, Looked)' <=> Has(u, q, Looked))
                        /\ Has(t, q, Looked)' <=> q = r
      OBVIOUS
    <3>1. /\ Has(u, q, {"asked"})' <=> IF u = t THEN "asked" \in {"asked"} /\ thread[t].p = q
                                        ELSE Has(u, q, {"asked"})
          /\ Has(u, q, Looked)' <=> IF u = t THEN "asked" \in Looked /\ thread[t].p = q
                                    ELSE Has(u, q, Looked)
          /\ Has(t, q, Looked)' <=> IF t = t THEN "asked" \in Looked /\ thread[t].p = q
                                    ELSE Has(t, q, Looked)
      BY <1>a, <2>1, HasMoves
    <3>2. ~Has(u, q, {"asked"})
      BY <2>3 DEF Has
    <3>3. QED
      BY <2>1, <2>2, <3>1, <3>2 DEF Pay, Looked
  <2>5. status[r] = "none" /\ status' = status /\ asked' = [asked EXCEPT ![r] = @ + 1]
    BY <1>4, <2>2 DEF Ask
  <2>6. r \notin late => asked[r] = 0
    <3>1. ~Waiting(r) /\ ~Gone(r)
      BY <2>2, <2>3 DEF Waiting, Gone, Has, Looked
    <3>2. r \notin late => asked[r] <= 1 /\ asked[r] # 1
      BY <2>2, <2>5, <3>1 DEF AskInv
    <3>3. QED
      BY <2>2, <3>2 DEF TypeInv
  <2>7. (r \notin late => asked'[r] = 1) /\ \A q \in Payment \ {r} : asked'[q] = asked[q]
    <3>1. asked \in [Payment -> Nat]
      BY DEF TypeInv
    <3>2. QED
      BY <2>2, <2>5, <2>6, <3>1
  <2>8. Waiting(r)' /\ \A q \in Payment \ {r} : ~Waiting(q)' /\ ~Waiting(q)
    <3>1. \A u \in Thread, q \in Payment : ~Has(u, q, {"asked"})
      BY <2>3 DEF Has
    <3>2. Has(t, r, {"asked"})'
      BY <2>2, <2>4
    <3>3. QED
      BY <2>4, <3>1, <3>2 DEF Waiting
  <2>9. Kept(r)'
    BY <2>2, KeptStep DEF NonceInv, Has, Locked
  <2>10. \A q \in Payment \ {r} : Gone(q) => Gone(q)'
    BY <2>4 DEF Gone
  <2>11. \A q \in Payment : Waiting(q)' => status'[q] = "none"
    BY <2>5, <2>8
  <2>12. ASSUME NEW q \in Payment, q \notin late
         PROVE  /\ asked'[q] <= 1
                /\ asked'[q] = 1 /\ status'[q] = "none" => Kept(q)' /\ (Waiting(q)' \/ Gone(q)')
    <3>1. CASE q = r
      BY <2>7, <2>8, <2>9, <2>12, <3>1
    <3>2. CASE q # r
      <4>1. asked[q] <= 1 /\ (asked[q] = 1 /\ status[q] = "none" => Kept(q) /\ (Waiting(q) \/ Gone(q)))
        BY <2>12 DEF AskInv
      <4>2. Kept(q) => Kept(q)'
        BY KeptStep
      <4>3. QED
        BY <2>5, <2>7, <2>8, <2>10, <3>2, <4>1, <4>2
    <3>3. QED
      BY <3>1, <3>2
  <2>13. QED
    BY <2>11, <2>12, LateGrows DEF AskInv
<1>5. ASSUME NEW t \in Thread, Record(t) \/ Reuse(t) PROVE AskInv'
  <2>1. Drop(t) /\ thread[t].pc \in Locked /\ UNCHANGED asked
    BY <1>5 DEF Record, Reuse, Finish, At, Locked, world
  <2>2. PICK r \in Payment : r = Pay(t) /\ thread[t].p = r
    BY <2>1, AtStage DEF Pay, Stage, Locked
  <2>3. \A u \in Thread, q \in Payment :
          /\ Has(u, q, {"asked"})' <=> u # t /\ Has(u, q, {"asked"})
          /\ Has(u, q, Looked)' <=> u # t /\ Has(u, q, Looked)
    BY <1>a, <2>1, HasDrops
  <2>4. \A q \in Payment : ~Waiting(q)' /\ (Waiting(q) => q = r)
    BY <2>1, <2>2, <2>3, Alone DEF Waiting, Has, Locked
  <2>5. \A q \in Payment : Gone(q) => Gone(q)'
    BY <2>3 DEF Gone
  <2>6. status'[r] # "none" /\ \A q \in Payment \ {r} : status'[q] = status[q]
    <3>1. CASE Record(t)
      BY <2>2, <3>1 DEF Record, Outcomes, MayReport, TypeInv
    <3>2. CASE Reuse(t)
      BY <2>2, <3>2 DEF Reuse
    <3>3. QED
      BY <1>5, <3>1, <3>2
  <2>7. QED
    BY <2>1, <2>4, <2>5, <2>6, KeptStep, LateGrows DEF AskInv
<1>6. CASE Restart
  <2>1. status' = status /\ asked' = asked
    BY <1>6 DEF Restart, DiskInv, world
  <2>2. \A q \in Payment : ~Waiting(q)' /\ Gone(q)'
    BY <1>6 DEF Restart, Waiting, Gone, Has, Idle, Looked
  <2>3. QED
    BY <2>1, <2>2, KeptStep, LateGrows DEF AskInv
<1>7. CASE UNCHANGED <<thread, status, asked>>
  <2>1. \A q \in Payment : (Waiting(q)' <=> Waiting(q)) /\ (Gone(q) => Gone(q)')
    BY <1>7 DEF Waiting, Gone, Has
  <2>2. QED
    BY <1>7, <2>1, AskOutside
<1>8. QED
  BY <1>1, <1>b, <1>2, <1>3, <1>4, <1>5, <1>6, <1>7 DEF Next, Expire, OtherPersist, vars, world

(* The ledger has entries for what is settled, which is on the chain.      *)
LEMMA ReconStep ==
  TypeInv /\ DiskInv /\ AskInv /\ ReconInv /\ [Next]_vars => ReconInv'
<1> SUFFICES ASSUME TypeInv, DiskInv, AskInv, ReconInv, [Next]_vars PROVE ReconInv'
  OBVIOUS
<1>1. ASSUME NEW t \in Thread, Record(t) PROVE ReconInv'
  <2>1. thread[t].pc \in Stage /\ thread[t].pc = "asked"
    BY <1>1 DEF Record, At, Stage
  <2>2. Pay(t) \in Payment /\ Has(t, Pay(t), {"asked"})
    BY <2>1, AtStage DEF Pay, Has
  <2>3. status[Pay(t)] = "none" /\ entries[Pay(t)] = 0
    BY <2>2 DEF AskInv, Waiting, ReconInv, TypeInv
  <2>4. PICK s \in Outcomes(Pay(t)) : status' = [status EXCEPT ![Pay(t)] = s]
    BY <1>1 DEF Record
  <2>5. s = "settled" => OnChain(Pay(t))
    BY DEF Outcomes, MayReport
  <2>6. entries' = IF status'[Pay(t)] = "settled"
                   THEN [entries EXCEPT ![Pay(t)] = @ + 1] ELSE entries
    BY <1>1 DEF Record, Finish
  <2>7. onChain' = onChain
    BY <1>1 DEF Record, world
  <2>8. QED
    BY <2>2, <2>3, <2>4, <2>5, <2>6, <2>7 DEF ReconInv, TypeInv, OnChain
<1>2. ASSUME NEW t \in Thread, Reuse(t) PROVE ReconInv'
  <2>1. thread[t].pc \in Stage
    BY <1>2 DEF Reuse, At, Stage
  <2>2. Pay(t) \in Payment
    BY <2>1, AtStage DEF Pay
  <2>3. QED
    BY <1>2, <2>2 DEF Reuse, Finish, ReconInv, TypeInv, OnChain, world
<1>3. ASSUME NEW t \in Thread, Ask(t) PROVE ReconInv'
  BY <1>3 DEF Ask, ReconInv, OnChain
<1>4. CASE Restart
  BY <1>4 DEF Restart, DiskInv, ReconInv, OnChain, world
<1>5. CASE UNCHANGED <<status, entries, onChain>>
  BY <1>5 DEF ReconInv, OnChain
<1>6. QED
  BY <1>1, <1>2, <1>3, <1>4, <1>5 DEF Next, CheckWindow, FirstLook, SecondLook, Replayed, BadSignature,
     Enter, Expire, OtherPersist, vars, world

(* Steps that serve nobody and bring nobody past a look.                   *)
LEMMA ServeQuiet ==
  ASSUME TypeInv, ServeInv, [Next]_vars, UNCHANGED <<served, expired, late>>,
         \A t \in Thread, p \in Payment :
           /\ Has(t, p, Stage)' => Has(t, p, Stage)
           /\ Has(t, p, Recorded)' => Has(t, p, Recorded)
  PROVE  ServeInv'
BY KeptStep DEF ServeInv

(* A payment that is not late passes its second look in one thread only, and
   not again once it was served.                                           *)
LEMMA ServeStep == TypeInv /\ LockInv /\ NonceInv /\ ServeInv /\ [Next]_vars => ServeInv'
<1> SUFFICES ASSUME TypeInv, LockInv, NonceInv, ServeInv, [Next]_vars PROVE ServeInv'
  OBVIOUS
<1>a. Recorded \in SUBSET Stage /\ Stage \in SUBSET Stage
  BY DEF Recorded, Stage
<1>1. ASSUME NEW t \in Thread, NEW q \in Payment, CheckWindow(t, q) PROVE ServeInv'
  <2>1. \A u \in Thread, p \in Payment :
          /\ Has(u, p, Stage)' => Has(u, p, Stage) \/ p = q
          /\ Has(u, p, Recorded)' => Has(u, p, Recorded)
    BY <1>1 DEF CheckWindow, Has, Recorded, TypeInv
  <2>2. q \notin expired /\ UNCHANGED <<served, expired, late>>
    BY <1>1 DEF CheckWindow, world
  <2>3. QED
    BY <2>1, <2>2, KeptStep DEF ServeInv
<1>b. ASSUME NEW t \in Thread, FirstLook(t) PROVE ServeInv'
  <2>1. thread[t].pc \in Stage /\ Goto(t, "recover") /\ "recover" \in Stage
    BY <1>b DEF FirstLook, At, Stage
  <2>2. \A u \in Thread, p \in Payment :
          /\ Has(u, p, Stage)' => Has(u, p, Stage)
          /\ Has(u, p, Recorded)' => Has(u, p, Recorded)
    <3> SUFFICES ASSUME NEW u \in Thread, NEW p \in Payment
                 PROVE  /\ Has(u, p, Stage)' => Has(u, p, Stage)
                        /\ Has(u, p, Recorded)' => Has(u, p, Recorded)
      OBVIOUS
    <3>1. /\ Has(u, p, Stage)' <=> IF u = t THEN "recover" \in Stage /\ thread[t].p = p
                                    ELSE Has(u, p, Stage)
          /\ Has(u, p, Recorded)' <=> IF u = t THEN "recover" \in Recorded /\ thread[t].p = p
                                       ELSE Has(u, p, Recorded)
      BY <1>a, <2>1, HasMoves
    <3>2. QED
      BY <2>1, <3>1 DEF Has, Recorded
  <2>3. QED
    BY <1>b, <2>2, ServeQuiet DEF FirstLook, world
<1>2. ASSUME NEW t \in Thread, SecondLook(t) PROVE ServeInv'
  <2>1. thread[t].pc \in Stage /\ Goto(t, "verified") /\ "verified" \in Stage
    BY <1>2 DEF SecondLook, At, Stage
  <2>2. PICK r \in Payment : r = Pay(t) /\ Has(t, r, Stage)
    BY <2>1, AtStage DEF Pay, Has
  <2>3. r \notin used /\ UNCHANGED <<served, expired, late>>
    BY <1>2, <2>2 DEF SecondLook, world
  <2>4. \A u \in Thread, p \in Payment :
          /\ Has(u, p, Stage)' => Has(u, p, Stage)
          /\ Has(u, p, Recorded)' => Has(u, p, Recorded) \/ (u = t /\ p = r)
    <3> SUFFICES ASSUME NEW u \in Thread, NEW p \in Payment
                 PROVE  /\ Has(u, p, Stage)' => Has(u, p, Stage)
                        /\ Has(u, p, Recorded)' => Has(u, p, Recorded) \/ (u = t /\ p = r)
      OBVIOUS
    <3>1. /\ Has(u, p, Stage)' <=> IF u = t THEN "verified" \in Stage /\ thread[t].p = p
                                    ELSE Has(u, p, Stage)
          /\ Has(u, p, Recorded)' <=> IF u = t THEN "verified" \in Recorded /\ thread[t].p = p
                                       ELSE Has(u, p, Recorded)
      BY <1>a, <2>1, HasMoves
    <3>2. QED
      BY <2>1, <2>2, <3>1 DEF Has, Pay
  <2>5. ASSUME r \notin late
        PROVE  served[r] = 0 /\ \A u \in Thread : ~Has(u, r, Recorded)
    <3>1. r \notin used \cup expired
      BY <2>2, <2>3, <2>5 DEF ServeInv
    <3>2. \A u \in Thread : ~Has(u, r, Recorded)
      BY <3>1 DEF NonceInv
    <3>3. served[r] <= 1 /\ served[r] # 1 /\ served[r] \in Nat
      BY <2>2, <2>5, <3>1 DEF ServeInv, Kept, TypeInv
    <3>4. QED
      BY <3>2, <3>3
  <2>6. ASSUME NEW p \in Payment, p \notin late
        PROVE  /\ \A u \in Thread : Has(u, p, Stage)' => p \notin expired
               /\ \A u, v \in Thread : Has(u, p, Recorded)' /\ Has(v, p, Recorded)' => u = v
               /\ \A u \in Thread : Has(u, p, Recorded)' => served[p] = 0
    BY <2>4, <2>5, <2>6 DEF ServeInv
  <2>7. QED
    BY <2>3, <2>6, KeptStep DEF ServeInv
<1>3. ASSUME NEW t \in Thread, Replayed(t) \/ BadSignature(t) PROVE ServeInv'
  <2>1. \A u \in Thread, p \in Payment :
          /\ Has(u, p, Stage)' <=> u # t /\ Has(u, p, Stage)
          /\ Has(u, p, Recorded)' <=> u # t /\ Has(u, p, Recorded)
    BY <1>3, <1>a, HasDrops DEF Replayed, BadSignature
  <2>2. QED
    BY <1>3, <2>1, ServeQuiet DEF Replayed, BadSignature, world
<1>4. ASSUME NEW t \in Thread, Enter(t) \/ Ask(t) PROVE ServeInv'
  <2>1. PICK s \in Locked : Goto(t, s)
    BY <1>4 DEF Enter, Ask, Locked
  <2>2. thread[t].pc \in Recorded /\ thread[t].pc \in Stage /\ s \in Stage
    BY <1>4 DEF Enter, Ask, At, Recorded, Stage, Locked
  <2>3. \A u \in Thread, p \in Payment :
          /\ Has(u, p, Stage)' => Has(u, p, Stage)
          /\ Has(u, p, Recorded)' => Has(u, p, Recorded)
    <3> SUFFICES ASSUME NEW u \in Thread, NEW p \in Payment
                 PROVE  /\ Has(u, p, Stage)' => Has(u, p, Stage)
                        /\ Has(u, p, Recorded)' => Has(u, p, Recorded)
      OBVIOUS
    <3>1. /\ Has(u, p, Stage)' <=> IF u = t THEN s \in Stage /\ thread[t].p = p
                                    ELSE Has(u, p, Stage)
          /\ Has(u, p, Recorded)' <=> IF u = t THEN s \in Recorded /\ thread[t].p = p
                                       ELSE Has(u, p, Recorded)
      BY <1>a, <2>1, <2>2, HasMoves
    <3>2. QED
      BY <2>2, <3>1 DEF Has
  <2>4. UNCHANGED <<served, expired, late>>
    BY <1>4 DEF Enter, Ask, world
  <2>5. QED
    BY <2>3, <2>4, ServeQuiet
<1>5. ASSUME NEW t \in Thread, Record(t) \/ Reuse(t) PROVE ServeInv'
  <2>1. Drop(t) /\ thread[t].pc \in Locked /\ thread[t].pc \in Stage
    BY <1>5 DEF Record, Reuse, Finish, At, Locked, Stage
  <2>2. PICK r \in Payment : r = Pay(t) /\ thread[t].p = r
    BY <2>1, AtStage DEF Pay
  <2>3. Has(t, r, Recorded) /\ Kept(r)
    BY <2>1, <2>2 DEF NonceInv, Has, Locked, Recorded
  <2>4. \A u \in Thread, p \in Payment :
          /\ Has(u, p, Stage)' <=> u # t /\ Has(u, p, Stage)
          /\ Has(u, p, Recorded)' <=> u # t /\ Has(u, p, Recorded)
    BY <1>a, <2>1, HasDrops
  <2>5. served' = [served EXCEPT ![r] = @ + 1] /\ UNCHANGED <<expired, late>>
    BY <1>5, <2>2 DEF Record, Reuse, Finish, world
  <2>6. served'[r] = served[r] + 1 /\ \A p \in Payment \ {r} : served'[p] = served[p]
    BY <2>2, <2>5 DEF TypeInv
  <2>7. ASSUME NEW p \in Payment, p \notin late
        PROVE  /\ \A u \in Thread : Has(u, p, Stage)' => p \notin expired
               /\ \A u, v \in Thread : Has(u, p, Recorded)' /\ Has(v, p, Recorded)' => u = v
               /\ \A u \in Thread : Has(u, p, Recorded)' => served'[p] = 0
               /\ served'[p] <= 1
               /\ served'[p] = 1 => Kept(p)'
    <3>1. CASE p = r
      BY <2>3, <2>4, <2>6, <2>7, <3>1, KeptStep DEF ServeInv
    <3>2. CASE p # r
      BY <2>4, <2>6, <2>7, <3>2, KeptStep DEF ServeInv
    <3>3. QED
      BY <3>1, <3>2
  <2>8. QED
    BY <2>5, <2>7 DEF ServeInv
<1>6. ASSUME NEW a \in Authorization, Expire(a) PROVE ServeInv'
  <2>1. UNCHANGED <<thread, served>> /\ late \subseteq late' /\ expired' = expired \cup SpellingsOf(a)
    BY <1>6 DEF Expire
  <2>2. \A u \in Thread, q \in SpellingsOf(a) : Has(u, q, Stage) => q \in late'
    BY <1>6 DEF Expire, Has, Pay, Busy, At, Stage
  <2>3. \A u \in Thread, p \in Payment :
          /\ Has(u, p, Stage)' <=> Has(u, p, Stage)
          /\ Has(u, p, Recorded)' <=> Has(u, p, Recorded)
    BY <2>1 DEF Has
  <2>4. QED
    BY <2>1, <2>2, <2>3, KeptStep DEF ServeInv
<1>7. CASE Restart
  <2>1. \A u \in Thread, p \in Payment : ~Has(u, p, Stage)' /\ ~Has(u, p, Recorded)'
    BY <1>7 DEF Restart, Has, Idle, Stage, Recorded
  <2>2. QED
    BY <1>7, <2>1, ServeQuiet DEF Restart, world
<1>8. CASE UNCHANGED <<thread, served, expired, late>>
  BY <1>8, ServeQuiet DEF Has
<1>9. QED
  BY <1>1, <1>b, <1>2, <1>3, <1>4, <1>5, <1>6, <1>7, <1>8 DEF Next, OtherPersist, vars, world

-----------------------------------------------------------------------------
(* The invariant, and what follows from it.                                *)

LEMMA InvInit == Init => IInv
<1> SUFFICES ASSUME Init PROVE IInv
  OBVIOUS
<1>1. TypeInv /\ DiskInv
  BY DEF Init, TypeInv, DiskInv, Statuses, ThreadRec
<1>2. \A t \in Thread : thread[t].pc = "idle"
  BY DEF Init, Idle
<1>3. \A t \in Thread, p \in Payment :
        ~Has(t, p, Stage) /\ ~Has(t, p, Recorded) /\ ~Has(t, p, Locked) /\ ~Has(t, p, {"asked"})
  BY <1>2 DEF Has, Stage, Recorded, Locked
<1>4. LockInv
  BY <1>2, X402Assumption DEF Init, LockInv, Locked
<1>5. NonceInv
  BY <1>3 DEF NonceInv
<1>6. AskInv
  BY <1>3 DEF Init, AskInv, Waiting, Gone
<1>7. ReconInv
  BY DEF Init, ReconInv
<1>8. ServeInv
  BY <1>3 DEF Init, ServeInv
<1>9. QED
  BY <1>1, <1>4, <1>5, <1>6, <1>7, <1>8 DEF IInv

LEMMA InvStep == IInv /\ [Next]_vars => IInv'
BY TypeStep, LockStep, DiskStep, NonceStep, AskStep, ReconStep, ServeStep DEF IInv

(* The inductive invariant of the payments.                                *)
THEOREM Invariance == Spec => []IInv
  BY InvInit, InvStep, PTL DEF Spec

(* Tables keep their types, and LOCK is held by the thread that settles.   *)
THEOREM TypeCorrect == Spec => []TypeOK
<1>1. IInv => TypeOK
  BY DEF IInv, TypeInv, LockInv, Locked, TypeOK
<1>2. QED
  BY <1>1, Invariance, PTL

(* The facilitator is asked at most once for a fingerprint ("settles AT MOST
   once"), through races and restarts, if the payment did not expire while a
   request was verifying it.                                               *)
THEOREM SettledOnce == Spec => []AskedOnce
<1>1. IInv => AskedOnce
  BY DEF IInv, AskInv, AskedOnce
<1>2. QED
  BY <1>1, Invariance, PTL

(* Registry and ledger agree, in memory and on disk, and tell the chain.   *)
THEOREM LedgerReconciled == Spec => []Reconciled
<1>1. IInv => Reconciled
  BY DEF IInv, DiskInv, ReconInv, Reconciled
<1>2. QED
  BY <1>1, Invariance, PTL

(* A payment, as its nonce was spelled, is served at most once, through races
   and restarts, if it did not expire while it was being verified.         *)
THEOREM PaymentServedOnce == Spec => []ServedOnce
<1>1. IInv => ServedOnce
  BY DEF IInv, ServeInv, ServedOnce
<1>2. QED
  BY <1>1, Invariance, PTL

(* The chat leaves the payments alone: what is proved of Spec holds of both *)
(* front ends together.                                                    *)
THEOREM PaymentsUndisturbed == WebSpec => Spec
<1>1. WebInit => Init
  BY DEF WebInit
<1>2. [WebNext]_webVars => [Next]_vars
  BY DEF WebNext, webVars
<1>. QED  BY <1>1, <1>2, PTL DEF WebSpec, Spec

(***************************************************************************)
(* Chat: the inductive invariant.  ChTokens needs the lock and is kept     *)
(* apart.                                                                  *)
(***************************************************************************)
Booking == [by : Account, item : Item, asked : Item, active : BOOLEAN]
Request == [pc : {"idle", "sent", "posted", "keyed", "entered", "answered"},
            sid : Sid \cup {None}, kind : Ch!Kinds, says : Account \cup {None, "same"},
            posted : 0..MaxBookings, alone : BOOLEAN]

ChType ==
    /\ live \subseteq Account /\ bookings \in Seq(Booking)
    /\ sessions \in [Sid -> Ch!SessionType \cup {None}]
    /\ stash \in [Sid -> Ch!Numbered \cup {None}] /\ shown \in [Sid -> Ch!Numbered]
    /\ warned \in [Sid -> Account \cup {None}]
    /\ cookie \in Sid \cup {None} /\ minted \subseteq Sid /\ told \in Account \cup {None}
    /\ req \in [Tab -> Request]
    /\ \A t \in Tab : /\ req[t].pc \notin {"idle", "answered"} => req[t].sid \in minted
                      /\ req[t].pc = "posted" => req[t].posted # 0

(* The numbers a sender can book by are the ones it was shown.             *)
ChShown ==
    /\ \A s \in Sid : stash[s] # None => shown[s] = stash[s]
    /\ Ch!BookedAsShown

(* A booking on its way into a session fits the session that is there.     *)
ChTokens ==
    /\ Ch!CancelTokensFit
    /\ \A t \in Tab : req[t].pc = "posted" =>
          /\ req[t].posted \in DOMAIN bookings
          /\ sessions[req[t].sid] # None =>
                sessions[req[t].sid].acct = bookings[req[t].posted].by

(* A pending deletion is of the account the session was warned about.      *)
ChWarned ==
    \A s \in Sid : sessions[s] # None /\ sessions[s].pend # None =>
        warned[s] = sessions[s].pend

(* A request that was alone still is, and came with the browser's cookie.  *)
ChAlone ==
    \A t \in Tab : req[t].pc # "idle" /\ req[t].alone =>
        /\ \A u \in Tab \ {t} : req[u].pc = "idle"
        /\ cookie # None /\ (req[t].pc = "answered" => req[t].says = "same")
              => req[t].sid = cookie

(* What such a request will tell is the account of the session it leaves.  *)
Holds(s, a) == s \in Sid /\ sessions[s] # None /\ sessions[s].acct = a
ChSays ==
    \A t \in Tab :
        /\ req[t].pc = "entered" => req[t].says # "same"
        /\ req[t].pc \in {"entered", "answered"} /\ req[t].alone
              /\ req[t].says \notin {None, "same"} => Holds(req[t].sid, req[t].says)

(* While the browser does not act as it was told, a reply is on its way    *)
(* that will tell it.                                                      *)
Telling(t) ==
    \/ req[t].pc = "answered" /\ (~req[t].alone \/ req[t].says # "same")
    \/ req[t].pc \in {"keyed", "entered"} /\ sessions[req[t].sid] # None
ChTold == told # None => Holds(cookie, told) \/ \E t \in Tab : Telling(t)

ChInv == ChType /\ ChShown /\ ChWarned /\ ChAlone /\ ChSays /\ ChTold

(***************************************************************************)
(* What a step of a request does to the sessions and to the request.       *)
(***************************************************************************)
Turned(t, pc, sid, says) ==
    /\ req' \in [Tab -> Request]
    /\ req'[t].pc = pc /\ req'[t].sid = sid /\ req'[t].says = says
    /\ req'[t].alone = req[t].alone /\ (pc = "posted" => req'[t].posted # 0)
    /\ \A u \in Tab \ {t} : req'[u] = req[u]

Stays(t) ==
    /\ \A s \in Sid : /\ sessions'[s] = None <=> sessions[s] = None
                      /\ sessions[s] # None => sessions'[s].acct = sessions[s].acct
    /\ \/ /\ req[t].pc \in {"sent", "posted"}
          /\ Turned(t, "answered", req[t].sid, "same") \/ Turned(t, "posted", req[t].sid, "same")
       \/ sessions[req[t].sid] = None /\ Turned(t, "answered", req[t].sid, None)
       \/ /\ sessions[req[t].sid] # None
          /\ Turned(t, "entered", req[t].sid, sessions[req[t].sid].acct)
Enters(t) ==
    \E a \in Account :
        /\ sessions' = [sessions EXCEPT ![req[t].sid] = Ch!Fresh(a)]
        /\ \/ Turned(t, "answered", req[t].sid, a)
           \/ Turned(t, "entered", req[t].sid, a)
           \/ Turned(t, "keyed", req[t].sid, req[t].says)
Leaves(t) ==
    /\ sessions' = [sessions EXCEPT ![req[t].sid] = None]
    /\ \E sid \in {req[t].sid, None} : Turned(t, "answered", sid, None)
Dies(t) ==
    /\ sessions[req[t].sid] = None /\ sessions' = sessions
    /\ req' = [req EXCEPT ![t] = Ch!NoReq]
Rotates(t) ==
    /\ req[t].pc = "entered" /\ sessions[req[t].sid] # None
    /\ \E n \in Sid \ minted :
          /\ sessions' = [sessions EXCEPT ![n] = sessions[req[t].sid], ![req[t].sid] = None]
          /\ Turned(t, "answered", n, req[t].says)

Works(t) ==
    /\ req[t].pc \notin {"idle", "answered"} /\ req[t].sid \in minted
    /\ UNCHANGED <<cookie, told>>
    /\ Stays(t) \/ Enters(t) \/ Leaves(t) \/ Dies(t) \/ Rotates(t)

LEMMA ChAnswer ==
    ASSUME ChType, NEW t \in Tab, NEW sid \in Sid \cup {None},
           NEW says \in Account \cup {None, "same"}, Ch!Answer(t, sid, says)
    PROVE  Turned(t, "answered", sid, says) /\ req'[t].posted = req[t].posted
<1>1. req \in [Tab -> Request] /\ req[t] \in Request
  BY DEF ChType
<1> DEFINE q == [req[t] EXCEPT !.pc = "answered", !.sid = sid, !.says = says]
<1>2. q \in Request /\ q.pc = "answered" /\ q.sid = sid /\ q.says = says
      /\ q.alone = req[t].alone /\ q.posted = req[t].posted
  BY <1>1 DEF Request
<1>3. req' = [req EXCEPT ![t] = q]
  BY <1>1 DEF Ch!Answer
<1> HIDE DEF q
<1>. QED  BY <1>1, <1>2, <1>3 DEF Turned

LEMMA ChFresh ==
    ASSUME NEW a \in Account
    PROVE  Ch!Fresh(a) \in Ch!SessionType /\ Ch!Fresh(a) # None /\ Ch!Fresh(a).acct = a
           /\ Ch!Fresh(a).pend = None /\ Ch!Fresh(a).cancels = {}
<1>1. Ch!Fresh(a) \in Ch!SessionType
  BY DEF Ch!Fresh, Ch!SessionType
<1>. QED  BY <1>1, ChatAssumption DEF Ch!Fresh

(* The sessions, cookies and requests keep their types.                    *)
ChRest ==
    /\ live' \subseteq Account /\ bookings' \in Seq(Booking)
    /\ sessions' \in [Sid -> Ch!SessionType \cup {None}]
    /\ stash' \in [Sid -> Ch!Numbered \cup {None}] /\ shown' \in [Sid -> Ch!Numbered]
    /\ warned' \in [Sid -> Account \cup {None}]
    /\ cookie' \in Sid \cup {None} /\ minted' \subseteq Sid /\ told' \in Account \cup {None}
    /\ minted \subseteq minted'

LEMMA ChTypeStep ==
    ASSUME ChType, NEW t \in Tab, Works(t), ChRest
    PROVE  ChType'
<1>1. req \in [Tab -> Request] /\ \A u \in Tab : req[u].pc \notin {"idle", "answered"} =>
                                                     req[u].sid \in minted
  BY DEF ChType
<1>2. ASSUME NEW pc, NEW sid, NEW says, Turned(t, pc, sid, says),
             pc = "answered" \/ sid = req[t].sid
      PROVE  ChType'
  <2>1. \A u \in Tab : req'[u].pc \notin {"idle", "answered"} => req'[u].sid \in minted'
    BY <1>1, <1>2 DEF Turned, Works, ChRest
  <2>2. \A u \in Tab : req'[u].pc = "posted" => req'[u].posted # 0
    BY <1>2 DEF Turned, ChType
  <2>. QED  BY <2>1, <2>2, <1>2 DEF ChType, ChRest, Turned
<1>3. CASE Dies(t)
  <2>1. Ch!NoReq \in Request /\ Ch!NoReq.pc = "idle"
    BY ChatAssumption DEF Ch!NoReq, Request, Ch!Kinds
  <2>2. req' \in [Tab -> Request] /\ \A u \in Tab : req'[u] = IF u = t THEN Ch!NoReq ELSE req[u]
    BY <2>1, <1>1, <1>3 DEF Dies
  <2>. QED  BY <2>1, <2>2, <1>1 DEF ChType, ChRest
<1>4. CASE Stays(t)
  BY <1>2, <1>4 DEF Stays
<1>5. CASE Enters(t)
  BY <1>2, <1>5 DEF Enters
<1>6. CASE Leaves(t)
  BY <1>2, <1>6 DEF Leaves
<1>7. CASE Rotates(t)
  BY <1>2, <1>7 DEF Rotates
<1>. QED  BY <1>3, <1>4, <1>5, <1>6, <1>7 DEF Works

(* An answer by which nothing changed that the others see.                 *)
LEMMA ChSay ==
    ASSUME ChType, NEW t \in Tab, req[t].pc = "sent", Ch!Say(t),
           \A s \in Sid : /\ sessions'[s] = None <=> sessions[s] = None
                          /\ sessions[s] # None => sessions'[s].acct = sessions[s].acct,
           UNCHANGED <<cookie, told>>
    PROVE  Works(t)
<1>1. req[t].sid \in minted /\ req[t].sid \in Sid
  BY DEF ChType
<1>2. Turned(t, "answered", req[t].sid, "same")
  BY <1>1, ChAnswer DEF Ch!Say, Ch!S
<1>. QED  BY <1>1, <1>2 DEF Works, Stays

LEMMA ChBookPost ==
    ASSUME ChType, ChShown, NEW t \in Tab, req[t].sid \in Sid, Ch!BookPost(t)
    PROVE  \E pc \in {"posted", "answered"}, i \in Item :
               /\ Turned(t, pc, req[t].sid, "same")
               /\ sessions[req[t].sid] # None /\ sessions[req[t].sid].acct \in Account
               /\ bookings' = Append(bookings, [by |-> sessions[req[t].sid].acct, item |-> i,
                                               asked |-> i, active |-> TRUE])
               /\ req'[t].posted = Len(bookings) + 1
               /\ UNCHANGED <<live, sessions, stash, shown, warned>>
<1> DEFINE s == req[t].sid
<1>1. PICK pick \in {<<Ch!Target(s, n), Ch!ShownAt(s, n)>> : n \in Ch!Positions(s)}
                    \cup {<<i, i>> : i \in Item} :
        \E heard \in BOOLEAN :
          /\ pick[1] \in Item \ Paid
          /\ bookings' = Append(bookings, [by |-> sessions[s].acct, item |-> pick[1],
                                          asked |-> pick[2], active |-> TRUE])
          /\ req' = [req EXCEPT ![t].pc = IF heard THEN "posted" ELSE "answered",
                                ![t].says = "same", ![t].posted = Len(bookings) + 1]
  BY DEF Ch!BookPost, Ch!S
<1>2. PICK heard \in BOOLEAN :
          /\ pick[1] \in Item \ Paid
          /\ bookings' = Append(bookings, [by |-> sessions[s].acct, item |-> pick[1],
                                          asked |-> pick[2], active |-> TRUE])
          /\ req' = [req EXCEPT ![t].pc = IF heard THEN "posted" ELSE "answered",
                                ![t].says = "same", ![t].posted = Len(bookings) + 1]
  BY <1>1
<1>3. pick[1] = pick[2]
  <2>1. CASE pick \in {<<i, i>> : i \in Item}
    BY <2>1
  <2>2. CASE pick \in {<<Ch!Target(s, n), Ch!ShownAt(s, n)>> : n \in Ch!Positions(s)}
    <3>1. PICK n \in Ch!Positions(s) : pick = <<Ch!Target(s, n), Ch!ShownAt(s, n)>>
      BY <2>2
    <3>2. stash[s] # None /\ n \in DOMAIN stash[s] /\ shown[s] = stash[s]
      BY <3>1 DEF Ch!Positions, ChShown
    <3>3. Ch!Target(s, n) = Ch!ShownAt(s, n)
      BY <3>2 DEF Ch!Target, Ch!ShownAt
    <3>. QED  BY <3>1, <3>3
  <2>. QED  BY <1>1, <2>1, <2>2
<1>4. /\ sessions[s] # None /\ sessions[s].acct \in live
      /\ Len(bookings) < MaxBookings /\ UNCHANGED <<live, sessions, stash, shown, warned>>
  BY DEF Ch!BookPost, Ch!S, Ch!chatVars
<1>5. Len(bookings) + 1 \in 0..MaxBookings
  <2>1. Len(bookings) \in Nat
    BY LenProperties DEF ChType
  <2>. QED  BY <2>1, <1>4, ChatAssumption
<1> DEFINE pc == IF heard THEN "posted" ELSE "answered"
           q == [req[t] EXCEPT !.pc = pc, !.says = "same", !.posted = Len(bookings) + 1]
<1>6. req \in [Tab -> Request] /\ req[t] \in Request
  BY DEF ChType
<1>7. pc \in {"posted", "answered"} /\ req' = [req EXCEPT ![t] = q]
  BY <1>2, <1>6
<1>8. q \in Request /\ q.pc = pc /\ q.sid = s /\ q.says = "same" /\ q.alone = req[t].alone
      /\ q.posted = Len(bookings) + 1
  BY <1>5, <1>6 DEF Request
<1>8a. Len(bookings) + 1 # 0
  BY LenProperties DEF ChType
<1> HIDE DEF q, pc
<1>9. Turned(t, pc, s, "same") /\ req'[t].posted = Len(bookings) + 1
  BY <1>6, <1>7, <1>8, <1>8a DEF Turned
<1>10. sessions[s].acct \in Account
  BY <1>4 DEF ChType
<1>. QED  BY <1>2, <1>3, <1>4, <1>7, <1>9, <1>10

LEMMA ChChatWorks ==
    ASSUME ChType, ChShown, NEW t \in Tab, Ch!HandleText(t)
    PROVE  Works(t) /\ ChRest
<1>0. /\ req[t].pc = "sent" /\ UNCHANGED <<cookie, minted, told>>
      /\ req[t].sid \in minted /\ req[t].sid \in Sid /\ Ch!S(t) = req[t].sid
      /\ sessions \in [Sid -> Ch!SessionType \cup {None}]
      /\ cookie' \in Sid \cup {None} /\ minted' \subseteq Sid /\ told' \in Account \cup {None}
  BY DEF ChType, Ch!HandleText, Ch!At, Ch!S
<1> DEFINE s == req[t].sid
           Same == \A x \in Sid : /\ sessions'[x] = None <=> sessions[x] = None
                                  /\ sessions[x] # None => sessions'[x].acct = sessions[x].acct
<1>1. CASE Ch!TypedLogin(t)
  <2>1. PICK a \in live : Ch!SetSession(Ch!S(t), a) /\ Ch!Answer(t, Ch!S(t), a)
    BY <1>1 DEF Ch!TypedLogin
  <2>2. a \in Account
    BY DEF ChType
  <2>3. Turned(t, "answered", s, a)
    BY <2>1, <2>2, <1>0, ChAnswer
  <2>4. sessions' = [sessions EXCEPT ![s] = Ch!Fresh(a)] /\ warned' = [warned EXCEPT ![s] = None]
    BY <2>1, <1>0 DEF Ch!SetSession
  <2>5. Works(t)
    BY <2>2, <2>3, <2>4, <1>0 DEF Works, Enters
  <2>6. sessions' \in [Sid -> Ch!SessionType \cup {None}] /\ warned' \in [Sid -> Account \cup {None}]
    BY <2>2, <2>4, <1>0, ChFresh DEF ChType
  <2>. QED  BY <2>5, <2>6, <1>0, <1>1 DEF Ch!TypedLogin, Ch!hubVars, ChType, ChRest
<1>2. ASSUME Ch!DropSession(Ch!S(t)), Ch!Answer(t, Ch!S(t), None)
      PROVE  /\ Works(t) /\ sessions' \in [Sid -> Ch!SessionType \cup {None}]
             /\ warned' \in [Sid -> Account \cup {None}]
  <2>1. Turned(t, "answered", s, None)
    BY <1>0, <1>2, ChAnswer
  <2>2. sessions' = [sessions EXCEPT ![s] = None] /\ warned' = [warned EXCEPT ![s] = None]
    BY <1>0, <1>2 DEF Ch!DropSession
  <2>3. Works(t)
    BY <2>1, <2>2, <1>0 DEF Works, Leaves
  <2>. QED  BY <2>2, <2>3, <1>0 DEF ChType
<1>3. CASE Ch!TypedLogout(t)
  BY <1>0, <1>2, <1>3 DEF Ch!TypedLogout, Ch!hubVars, ChType, ChRest
<1>4. ASSUME Ch!Say(t), Same PROVE Works(t)
  BY <1>0, <1>4, ChSay
<1>5. CASE Ch!LogoutAll(t)
  <2>1. CASE Ch!DropSession(Ch!S(t)) /\ Ch!Answer(t, Ch!S(t), None)
    BY <1>0, <1>2, <1>5, <2>1 DEF Ch!LogoutAll, Ch!hubVars, ChType, ChRest
  <2>2. CASE Ch!Say(t) /\ UNCHANGED <<sessions, warned>>
    BY <1>0, <1>4, <1>5, <2>2 DEF Ch!LogoutAll, Ch!hubVars, ChType, ChRest
  <2>. QED  BY <1>5, <2>1, <2>2 DEF Ch!LogoutAll
<1>6. CASE Ch!DeleteWarn(t)
  <2>1. /\ sessions[s] # None /\ sessions' = [sessions EXCEPT ![s].pend = sessions[s].acct]
        /\ warned' = [warned EXCEPT ![s] = sessions[s].acct] /\ Ch!Say(t)
    BY <1>0, <1>6 DEF Ch!DeleteWarn
  <2>2. sessions[s] \in Ch!SessionType
    BY <2>1, <1>0
  <2> DEFINE z == [sessions[s] EXCEPT !.pend = sessions[s].acct]
  <2>3. z \in Ch!SessionType /\ z.acct = sessions[s].acct /\ sessions[s].acct \in Account
    BY <2>2 DEF Ch!SessionType
  <2>4. z # None
    <3>. HIDE DEF z
    <3>. QED  BY <2>3, ChatAssumption
  <2>5. sessions' = [sessions EXCEPT ![s] = z]
    BY <2>1
  <2> HIDE DEF z
  <2>6. Same /\ sessions' \in [Sid -> Ch!SessionType \cup {None}]
    BY <2>1, <2>3, <2>4, <2>5, <1>0
  <2>7. Works(t)
    BY <2>1, <2>6, <1>4
  <2>8. warned' \in [Sid -> Account \cup {None}]
    BY <2>1, <2>3 DEF ChType
  <2>. QED  BY <2>6, <2>7, <2>8, <1>0, <1>6 DEF Ch!DeleteWarn, Ch!hubVars, ChType, ChRest
<1>7. CASE Ch!DeleteConfirm(t)
  <2>1. CASE live' = live \ {sessions[s].acct} /\ Ch!DropSession(Ch!S(t)) /\ Ch!Answer(t, Ch!S(t), None)
    BY <1>0, <1>2, <1>7, <2>1 DEF Ch!DeleteConfirm, ChType, ChRest
  <2>2. CASE Ch!Say(t) /\ UNCHANGED <<live, sessions, warned>>
    BY <1>0, <1>4, <1>7, <2>2 DEF Ch!DeleteConfirm, ChType, ChRest
  <2>. QED  BY <1>0, <1>7, <2>1, <2>2 DEF Ch!DeleteConfirm
<1>8. CASE Ch!BrowseExcept(t) \/ Ch!Search(t) \/ Ch!BoardReset(t)
  <2>1. Ch!Say(t) /\ UNCHANGED <<live, bookings, sessions, warned>>
    BY <1>8 DEF Ch!BrowseExcept, Ch!Search, Ch!BoardReset, Ch!hubVars
  <2>2. <<>> \in Ch!Numbered
    BY DEF Ch!Numbered, Ch!Lists
  <2>3. stash' \in [Sid -> Ch!Numbered \cup {None}] /\ shown' \in [Sid -> Ch!Numbered]
    BY <2>2, <1>0, <1>8 DEF Ch!BrowseExcept, Ch!Search, Ch!BoardReset, ChType
  <2>. QED  BY <2>1, <2>3, <1>0, <1>4 DEF ChType, ChRest
<1>9. CASE Ch!Say(t) /\ UNCHANGED <<Ch!hubVars, Ch!chatVars, shown, warned>>
  BY <1>0, <1>4, <1>9 DEF Ch!hubVars, Ch!chatVars, ChType, ChRest
<1>10. CASE Ch!BookPost(t)
  <2>1. PICK pc \in {"posted", "answered"}, i \in Item :
               /\ Turned(t, pc, req[t].sid, "same")
               /\ sessions[req[t].sid] # None /\ sessions[req[t].sid].acct \in Account
               /\ bookings' = Append(bookings, [by |-> sessions[req[t].sid].acct, item |-> i,
                                               asked |-> i, active |-> TRUE])
               /\ UNCHANGED <<live, sessions, stash, shown, warned>>
    BY <1>0, <1>10, ChBookPost
  <2>2. Works(t)
    BY <2>1, <1>0 DEF Works, Stays
  <2>3. bookings' \in Seq(Booking)
    <3> DEFINE b == [by |-> sessions[req[t].sid].acct, item |-> i, asked |-> i, active |-> TRUE]
    <3>1. b \in Booking /\ bookings' = Append(bookings, b)
      BY <2>1 DEF Booking
    <3> HIDE DEF b
    <3>. QED  BY <3>1, AppendProperties DEF ChType
  <2>. QED  BY <2>1, <2>2, <2>3, <1>0 DEF ChType, ChRest
<1>. QED
  BY <1>1, <1>3, <1>5, <1>6, <1>7, <1>8, <1>9, <1>10 DEF Ch!HandleText, Ch!BrainTurn

LEMMA ChInactive ==
    ASSUME ChType, NEW b, bookings' = [bookings EXCEPT ![b].active = FALSE]
    PROVE  /\ bookings' \in Seq(Booking) /\ DOMAIN bookings' = DOMAIN bookings
           /\ \A n \in DOMAIN bookings : /\ bookings'[n].by = bookings[n].by
                                          /\ bookings'[n].item = bookings[n].item
                                          /\ bookings'[n].asked = bookings[n].asked
<1>1. /\ bookings \in Seq(Booking) /\ DOMAIN bookings = 1..Len(bookings)
      /\ \A n \in DOMAIN bookings : bookings[n] \in Booking
  BY LenProperties, ElementOfSeq DEF ChType
<1>2. CASE b \in DOMAIN bookings
  <2> DEFINE e == [bookings[b] EXCEPT !.active = FALSE]
  <2>1. e \in Booking /\ e.by = bookings[b].by /\ e.item = bookings[b].item
        /\ e.asked = bookings[b].asked
    BY <1>1, <1>2 DEF Booking
  <2>2. bookings' = [bookings EXCEPT ![b] = e]
    OBVIOUS
  <2> HIDE DEF e
  <2>3. bookings' \in Seq(Booking)
    <3>1. b \in 1..Len(bookings) /\ bookings \in Seq(Booking) /\ e \in Booking
      BY <1>1, <1>2, <2>1
    <3>2. [bookings EXCEPT ![b] = e] \in Seq(Booking)
      BY <3>1, ExceptSeq
    <3>. QED  BY <3>2, <2>2
  <2>. QED  BY <1>1, <2>1, <2>2, <2>3
<1>3. CASE b \notin DOMAIN bookings
  <2>1. bookings' = bookings
    BY <1>1, <1>3, LenProperties
  <2>. QED  BY <1>1, <2>1
<1>. QED  BY <1>2, <1>3

(* The steps of a request that is not a message.                           *)
LEMMA ChApiWorks ==
    ASSUME ChType, NEW t \in Tab,
           \/ Ch!BookStore(t) \/ Ch!ApiLogin(t) \/ Ch!ApiLoginKey(t) \/ Ch!ReadBack(t)
           \/ Ch!Rotate(t) \/ Ch!ApiLogout(t) \/ Ch!ApiReset(t) \/ Ch!ApiCancel(t)
    PROVE  Works(t) /\ ChRest
<1>0. /\ req[t].pc \notin {"idle", "answered"} /\ UNCHANGED <<live, cookie, told>>
      /\ req[t].sid \in minted /\ req[t].sid \in Sid /\ Ch!S(t) = req[t].sid
      /\ sessions \in [Sid -> Ch!SessionType \cup {None}]
      /\ cookie' \in Sid \cup {None} /\ told' \in Account \cup {None}
      /\ req \in [Tab -> Request] /\ req[t] \in Request
  BY DEF ChType, Ch!At, Ch!S, Ch!hubVars, Ch!BookStore, Ch!ApiLogin, Ch!ApiLoginKey, Ch!ReadBack,
         Ch!Rotate, Ch!ApiLogout, Ch!ApiReset, Ch!ApiCancel
<1> DEFINE s == req[t].sid
           Same == \A x \in Sid : /\ sessions'[x] = None <=> sessions[x] = None
                                  /\ sessions[x] # None => sessions'[x].acct = sessions[x].acct
(* One session gets other cancel tokens.                                   *)
<1>1. ASSUME sessions[s] # None, NEW C, C \subseteq 1..MaxBookings,
             sessions' = [sessions EXCEPT ![s].cancels = C]
      PROVE  Same /\ sessions' \in [Sid -> Ch!SessionType \cup {None}]
  <2>1. sessions[s] \in Ch!SessionType
    BY <1>0, <1>1
  <2> DEFINE z == [sessions[s] EXCEPT !.cancels = C]
  <2>2. z \in Ch!SessionType /\ z.acct = sessions[s].acct
    BY <2>1, <1>1 DEF Ch!SessionType
  <2>3. sessions' = [sessions EXCEPT ![s] = z]
    BY <1>1
  <2> HIDE DEF z
  <2>4. z # None
    BY <2>2, ChatAssumption
  <2>. QED  BY <2>2, <2>3, <2>4, <1>0, <1>1
(* The request moves on to the step pc.                                    *)
<1>2. ASSUME NEW pc \in {"answered", "entered", "keyed"},
             NEW says \in Account \cup {None, "same"},
             req' = [req EXCEPT ![t].pc = pc, ![t].says = says]
      PROVE  Turned(t, pc, s, says)
  <2> DEFINE q == [req[t] EXCEPT !.pc = pc, !.says = says]
  <2>1. q \in Request /\ q.pc = pc /\ q.sid = s /\ q.says = says /\ q.alone = req[t].alone
    BY <1>0 DEF Request
  <2>2. req' = [req EXCEPT ![t] = q]
    BY <1>0, <1>2
  <2> HIDE DEF q
  <2>. QED  BY <2>1, <2>2, <1>0 DEF Turned
(* A login.                                                                *)
<1>3. ASSUME NEW a \in Account, Ch!SetSession(s, a)
      PROVE  /\ sessions' = [sessions EXCEPT ![s] = Ch!Fresh(a)]
             /\ sessions' \in [Sid -> Ch!SessionType \cup {None}]
             /\ warned' \in [Sid -> Account \cup {None}]
  <2>1. sessions' = [sessions EXCEPT ![s] = Ch!Fresh(a)] /\ warned' = [warned EXCEPT ![s] = None]
    BY <1>3 DEF Ch!SetSession
  <2>. QED  BY <2>1, <1>0, ChFresh DEF ChType
<1>4. CASE Ch!BookStore(t)
  <2>1. Turned(t, "answered", s, "same")
    BY <1>0, <1>4, ChAnswer DEF Ch!BookStore
  <2>2. Same /\ sessions' \in [Sid -> Ch!SessionType \cup {None}]
    <3>1. CASE sessions[s] = None
      BY <3>1, <1>0, <1>4 DEF Ch!BookStore
    <3>2. CASE sessions[s] # None
      <4> DEFINE C == sessions[s].cancels \cup {req[t].posted}
      <4>1. sessions' = [sessions EXCEPT ![s].cancels = C]
        BY <3>2, <1>0, <1>4 DEF Ch!BookStore
      <4>2. C \subseteq 1..MaxBookings
        <5>1. req[t].posted \in 1..MaxBookings
          BY <1>0, <1>4, ChatAssumption DEF ChType, Request, Ch!BookStore, Ch!At
        <5>2. sessions[s].cancels \subseteq 1..MaxBookings
          BY <3>2, <1>0 DEF Ch!SessionType
        <5>. QED  BY <5>1, <5>2
      <4> HIDE DEF C
      <4>. QED  BY <3>2, <4>1, <4>2, <1>1
    <3>. QED  BY <3>1, <3>2
  <2>3. Works(t)
    BY <2>1, <2>2, <1>0, <1>4 DEF Works, Stays, Ch!BookStore, Ch!At
  <2>. QED  BY <2>2, <2>3, <1>0, <1>4 DEF Ch!BookStore, Ch!hubVars, ChType, ChRest
<1>5. CASE Ch!ApiLogin(t)
  <2>1. CASE \E a \in live : /\ Ch!SetSession(Ch!S(t), a)
                            /\ req' = [req EXCEPT ![t].pc = "entered", ![t].says = a]
    <3>1. PICK a \in Account : /\ Ch!SetSession(s, a)
                               /\ req' = [req EXCEPT ![t].pc = "entered", ![t].says = a]
      BY <2>1, <1>0 DEF ChType
    <3>2. Turned(t, "entered", s, a)
      BY <3>1, <1>2
    <3>3. Works(t)
      BY <3>1, <3>2, <1>0, <1>3 DEF Works, Enters
    <3>. QED  BY <3>1, <3>3, <1>0, <1>3, <1>5 DEF Ch!ApiLogin, Ch!hubVars, ChType, ChRest
  <2>2. CASE /\ req' = [req EXCEPT ![t].pc = IF sessions[Ch!S(t)] = None THEN "answered" ELSE "entered",
                                   ![t].says = IF sessions[Ch!S(t)] = None THEN None
                                               ELSE sessions[Ch!S(t)].acct]
             /\ UNCHANGED <<sessions, warned>>
    <3>1. CASE sessions[s] = None
      <4>1. req' = [req EXCEPT ![t].pc = "answered", ![t].says = None]
        BY <2>2, <3>1, <1>0
      <4>2. Turned(t, "answered", s, None)
        BY <4>1, <1>2
      <4>. QED  BY <4>2, <2>2, <3>1, <1>0, <1>5
               DEF Works, Stays, Ch!ApiLogin, Ch!hubVars, ChType, ChRest
    <3>2. CASE sessions[s] # None
      <4>1. req' = [req EXCEPT ![t].pc = "entered", ![t].says = sessions[s].acct]
        BY <2>2, <3>2, <1>0
      <4>2. sessions[s].acct \in Account
        BY <3>2, <1>0 DEF Ch!SessionType
      <4>3. Turned(t, "entered", s, sessions[s].acct)
        BY <4>1, <4>2, <1>2
      <4>. QED  BY <4>3, <2>2, <3>2, <1>0, <1>5
               DEF Works, Stays, Ch!ApiLogin, Ch!hubVars, ChType, ChRest
    <3>. QED  BY <3>1, <3>2
  <2>. QED  BY <1>5, <2>1, <2>2 DEF Ch!ApiLogin
<1>6. CASE Ch!ApiLoginKey(t)
  <2>1. CASE (\E a \in live : Ch!SetSession(Ch!S(t), a)) /\ req' = [req EXCEPT ![t].pc = "keyed"]
    <3>1. PICK a \in Account : Ch!SetSession(s, a)
      BY <2>1, <1>0 DEF ChType
    <3>2. req' = [req EXCEPT ![t].pc = "keyed", ![t].says = req[t].says]
      BY <2>1, <1>0 DEF Request
    <3>3. Turned(t, "keyed", s, req[t].says)
      BY <3>2, <1>0, <1>2 DEF Request
    <3>4. Works(t)
      BY <3>1, <3>3, <1>0, <1>3 DEF Works, Enters
    <3>. QED  BY <3>1, <3>4, <1>0, <1>3, <1>6 DEF Ch!ApiLoginKey, Ch!hubVars, ChType, ChRest
  <2>2. CASE Ch!Say(t) /\ UNCHANGED <<sessions, warned>>
    <3>1. Works(t)
      <4>1. req[t].pc = "sent"
        BY <1>6 DEF Ch!ApiLoginKey, Ch!At
      <4>. QED  BY <4>1, <2>2, <1>0, ChSay
    <3>. QED  BY <2>2, <3>1, <1>0, <1>6 DEF Ch!ApiLoginKey, Ch!hubVars, ChType, ChRest
  <2>. QED  BY <1>6, <2>1, <2>2 DEF Ch!ApiLoginKey
<1>7. CASE Ch!ReadBack(t)
  <2>1. CASE sessions[s] = None
    BY <2>1, <1>0, <1>7
       DEF Ch!ReadBack, Ch!hubVars, Ch!chatVars, Works, Dies, ChType, ChRest
  <2>2. CASE sessions[s] # None
    <3>1. req' = [req EXCEPT ![t].pc = "entered", ![t].says = sessions[s].acct]
      BY <2>2, <1>0, <1>7 DEF Ch!ReadBack
    <3>2. sessions[s].acct \in Account
      BY <2>2, <1>0 DEF Ch!SessionType
    <3>3. Turned(t, "entered", s, sessions[s].acct)
      BY <3>1, <3>2, <1>2
    <3>. QED  BY <3>3, <2>2, <1>0, <1>7
             DEF Works, Stays, Ch!ReadBack, Ch!hubVars, Ch!chatVars, ChType, ChRest
  <2>. QED  BY <2>1, <2>2
<1>8. CASE Ch!Rotate(t)
  <2>1. CASE sessions[s] = None
    BY <2>1, <1>0, <1>8
       DEF Ch!Rotate, Ch!hubVars, Ch!chatVars, Works, Dies, ChType, ChRest
  <2>2. CASE sessions[s] # None
    <3>1. PICK n \in Sid \ minted :
            /\ minted' = minted \cup {n}
            /\ sessions' = [sessions EXCEPT ![n] = sessions[s], ![s] = None]
            /\ warned' = [warned EXCEPT ![n] = warned[s], ![s] = None]
            /\ stash' = [stash EXCEPT ![n] = stash[s], ![s] = None]
            /\ shown' = [shown EXCEPT ![n] = shown[s], ![s] = <<>>]
            /\ Ch!Answer(t, n, req[t].says)
      BY <2>2, <1>0, <1>8 DEF Ch!Rotate
    <3>2. req[t].says \in Account \cup {None, "same"} /\ req[t].pc = "entered"
      BY <1>0, <1>8 DEF Request, Ch!Rotate
    <3>3. Turned(t, "answered", n, req[t].says)
      BY <3>1, <3>2, ChAnswer
    <3>4. Works(t)
      BY <3>1, <3>2, <3>3, <2>2, <1>0 DEF Works, Rotates
    <3>5. <<>> \in Ch!Numbered
      BY DEF Ch!Numbered, Ch!Lists
    <3>6. /\ sessions' \in [Sid -> Ch!SessionType \cup {None}]
          /\ warned' \in [Sid -> Account \cup {None}]
          /\ stash' \in [Sid -> Ch!Numbered \cup {None}] /\ shown' \in [Sid -> Ch!Numbered]
          /\ minted' \subseteq Sid /\ minted \subseteq minted'
      BY <3>1, <3>5, <1>0 DEF ChType
    <3>. QED  BY <3>4, <3>6, <1>0, <1>8 DEF Ch!Rotate, Ch!hubVars, ChType, ChRest
  <2>. QED  BY <2>1, <2>2
<1>9. CASE Ch!ApiLogout(t) \/ Ch!ApiReset(t)
  <2>1. PICK sid \in {s, None} : Ch!DropSession(s) /\ Ch!Answer(t, sid, None)
    BY <1>0, <1>9 DEF Ch!ApiLogout, Ch!ApiReset
  <2>2. Turned(t, "answered", sid, None)
    BY <2>1, <1>0, ChAnswer
  <2>3. sessions' = [sessions EXCEPT ![s] = None] /\ warned' = [warned EXCEPT ![s] = None]
    BY <2>1 DEF Ch!DropSession
  <2>4. Works(t)
    BY <2>2, <2>3, <1>0 DEF Works, Leaves
  <2>. QED  BY <2>3, <2>4, <1>0, <1>9 DEF Ch!ApiLogout, Ch!ApiReset, Ch!hubVars, ChType, ChRest
<1>10. CASE Ch!ApiCancel(t)
  <2>1. PICK b \in IF sessions[s] = None THEN {} ELSE sessions[s].cancels :
            /\ bookings' = [bookings EXCEPT ![b].active = FALSE]
            /\ \E heard \in BOOLEAN :
                  sessions' = IF heard /\ bookings[b].active
                              THEN [sessions EXCEPT ![s].cancels = @ \ {b}] ELSE sessions
    BY <1>0, <1>10 DEF Ch!ApiCancel
  <2>2. sessions[s] # None /\ sessions[s] \in Ch!SessionType
    BY <2>1, <1>0
  <2>3. Same /\ sessions' \in [Sid -> Ch!SessionType \cup {None}]
    <3>1. CASE sessions' = sessions
      BY <3>1, <1>0
    <3>2. CASE sessions' = [sessions EXCEPT ![s].cancels = @ \ {b}]
      <4> DEFINE C == sessions[s].cancels \ {b}
      <4>1. sessions' = [sessions EXCEPT ![s].cancels = C]
        BY <3>2
      <4>2. C \subseteq 1..MaxBookings
        BY <2>2 DEF Ch!SessionType
      <4> HIDE DEF C
      <4>. QED  BY <2>2, <4>1, <4>2, <1>1
    <3>. QED  BY <2>1, <3>1, <3>2
  <2>4. Works(t)
    <3>1. req[t].pc = "sent" /\ Ch!Say(t)
      BY <1>10 DEF Ch!ApiCancel, Ch!At
    <3>. QED  BY <3>1, <2>3, <1>0, ChSay
  <2>5. bookings' \in Seq(Booking)
    BY <2>1, ChInactive
  <2>. QED  BY <2>3, <2>4, <2>5, <1>0, <1>10 DEF Ch!ApiCancel, ChType, ChRest
<1>. QED  BY <1>4, <1>5, <1>6, <1>7, <1>8, <1>9, <1>10

(***************************************************************************)
(* The invariant, conjunct by conjunct.                                    *)
(***************************************************************************)
LEMMA ChInit == Ch!Init => ChInv /\ ChTokens
<1> SUFFICES ASSUME Ch!Init PROVE ChInv /\ ChTokens
  OBVIOUS
<1>1. /\ live = Account /\ bookings = <<>> /\ cookie = None /\ minted = {} /\ told = None
      /\ sessions = [s \in Sid |-> None] /\ stash = [s \in Sid |-> None]
      /\ shown = [s \in Sid |-> <<>>] /\ warned = [s \in Sid |-> None]
      /\ req = [t \in Tab |-> Ch!NoReq]
  BY DEF Ch!Init
<1>2. Ch!NoReq \in Request /\ Ch!NoReq.pc = "idle"
  BY ChatAssumption DEF Ch!NoReq, Request, Ch!Kinds
<1>3. <<>> \in Ch!Numbered
  BY DEF Ch!Numbered, Ch!Lists
<1>4. <<>> \in Seq(Booking) /\ DOMAIN (<<>>) = {}
  BY EmptySeq
<1>5. req \in [Tab -> Request] /\ \A t \in Tab : req[t].pc = "idle"
  BY <1>1, <1>2
<1>6. ChType
  BY <1>1, <1>3, <1>4, <1>5 DEF ChType
<1>7. ChShown /\ ChWarned
  BY <1>1, <1>4 DEF ChShown, ChWarned, Ch!BookedAsShown
<1>8. ChAlone /\ ChSays /\ ChTold
  BY <1>1, <1>5 DEF ChAlone, ChSays, ChTold
<1>9. ChTokens
  BY <1>1, <1>4, <1>5 DEF ChTokens, Ch!CancelTokensFit
<1>. QED  BY <1>6, <1>7, <1>8, <1>9 DEF ChInv

(* A request comes in: those in flight are no longer alone.                *)
LEMMA ChSendIs ==
    ASSUME ChType, NEW t \in Tab, NEW k \in Ch!Kinds, Ch!Send(t, k)
    PROVE  /\ req \in [Tab -> Request] /\ req' \in [Tab -> Request] /\ req[t].pc = "idle"
           /\ req'[t].pc = "sent" /\ (req'[t].alone <=> Ch!InFlight = {})
           /\ req'[t].sid \in Sid /\ (cookie # None => req'[t].sid = cookie)
           /\ req'[t].sid \in minted' /\ minted \subseteq minted' /\ minted' \subseteq Sid
           /\ \A u \in Tab \ {t} :
                 /\ req'[u].pc = req[u].pc /\ req'[u].sid = req[u].sid /\ ~req'[u].alone
                 /\ req'[u].says = req[u].says /\ req'[u].posted = req[u].posted
           /\ UNCHANGED <<live, bookings, sessions, stash, cookie, shown, warned, told>>
<1>1. UNCHANGED <<live, bookings, sessions, stash, cookie, shown, warned, told>> /\ req[t].pc = "idle"
  BY DEF Ch!Send, Ch!hubVars, Ch!chatVars
<1>2. PICK s \in IF cookie # None THEN {cookie} ELSE Sid \ minted :
          /\ minted' = minted \cup {s}
          /\ req' = [u \in Tab |->
                IF u = t THEN [Ch!NoReq EXCEPT !.pc = "sent", !.sid = s, !.kind = k,
                                               !.alone = Ch!InFlight = {}]
                ELSE [req[u] EXCEPT !.alone = FALSE]]
  BY DEF Ch!Send
<1>3. s \in Sid /\ (cookie # None => s = cookie) /\ minted \subseteq Sid
  BY <1>2 DEF ChType
<1> DEFINE q == [Ch!NoReq EXCEPT !.pc = "sent", !.sid = s, !.kind = k, !.alone = Ch!InFlight = {}]
           r(u) == [req[u] EXCEPT !.alone = FALSE]
<1>4. q \in Request /\ q.pc = "sent" /\ q.sid = s /\ (q.alone <=> Ch!InFlight = {})
  <2>1. Ch!NoReq \in Request
    BY ChatAssumption DEF Ch!NoReq, Request, Ch!Kinds
  <2>. QED  BY <2>1, <1>3 DEF Request
<1>5. \A u \in Tab : /\ r(u) \in Request /\ r(u).pc = req[u].pc /\ r(u).sid = req[u].sid
                     /\ ~r(u).alone /\ r(u).says = req[u].says /\ r(u).posted = req[u].posted
  BY DEF ChType, Request
<1>6. req' = [u \in Tab |-> IF u = t THEN q ELSE r(u)]
  BY <1>2
<1> HIDE DEF q, r
<1>7. req' \in [Tab -> Request] /\ req'[t] = q /\ \A u \in Tab \ {t} : req'[u] = r(u)
  BY <1>4, <1>5, <1>6
<1>8. req \in [Tab -> Request]
  BY DEF ChType
<1>9. /\ req'[t].pc = "sent" /\ (req'[t].alone <=> Ch!InFlight = {}) /\ req'[t].sid = s
  BY <1>4, <1>7
<1>10. \A u \in Tab \ {t} :
           /\ req'[u].pc = req[u].pc /\ req'[u].sid = req[u].sid /\ ~req'[u].alone
           /\ req'[u].says = req[u].says /\ req'[u].posted = req[u].posted
  BY <1>5, <1>7
<1>11. req'[t].sid \in Sid /\ (cookie # None => req'[t].sid = cookie)
  BY <1>3, <1>9
<1>12. req'[t].sid \in minted' /\ minted \subseteq minted' /\ minted' \subseteq Sid
  <2>1. minted' = minted \cup {s}
    BY <1>2
  <2>2. req'[t].sid = s
    BY <1>9
  <2>. QED  BY <2>1, <2>2, <1>3
<1>. QED  BY <1>1, <1>7, <1>8, <1>9, <1>10, <1>11, <1>12

LEMMA ChDeliverIs ==
    ASSUME ChType, NEW t \in Tab, Ch!Deliver(t)
    PROVE  /\ req[t].pc = "answered" /\ req' \in [Tab -> Request] /\ req'[t].pc = "idle"
           /\ \A u \in Tab \ {t} : req'[u] = req[u]
           /\ cookie' = req[t].sid
           /\ told' = IF ~req[t].alone THEN None
                      ELSE IF req[t].says = "same" THEN told ELSE req[t].says
           /\ UNCHANGED <<live, bookings, sessions, stash, minted, shown, warned>>
<1>1. Ch!NoReq \in Request /\ Ch!NoReq.pc = "idle"
  BY ChatAssumption DEF Ch!NoReq, Request, Ch!Kinds
<1>. QED  BY <1>1 DEF ChType, Ch!Deliver, Ch!S, Ch!hubVars, Ch!chatVars

(* Eviction and expiry: a session goes, and with it what the browser knew. *)
LEMMA ChForgetIs ==
    ASSUME ChType, NEW s \in Sid, Ch!Forget(s)
    PROVE  /\ UNCHANGED <<live, bookings, cookie, minted>>
           /\ \/ /\ sessions' = [sessions EXCEPT ![s] = None]
                 /\ warned' = [warned EXCEPT ![s] = None]
                 /\ told' = None /\ UNCHANGED <<stash, shown>>
                 /\ req' \in [Tab -> Request]
                 /\ \A t \in Tab :
                       /\ req'[t].pc = req[t].pc /\ req'[t].sid = req[t].sid
                       /\ req'[t].alone = req[t].alone /\ req'[t].posted = req[t].posted
                       /\ req'[t].says = IF req[t].says = "same" THEN "same" ELSE None
              \/ /\ stash' = [stash EXCEPT ![s] = None] /\ shown' = [shown EXCEPT ![s] = <<>>]
                 /\ UNCHANGED <<sessions, warned, req, told>>
<1>1. UNCHANGED <<live, bookings, cookie, minted>>
  BY DEF Ch!Forget, Ch!hubVars
<1>2. ASSUME Ch!DropSession(s), told' = None, UNCHANGED <<stash, shown>>,
             req' = [t \in Tab |-> [req[t] EXCEPT !.says = IF @ = "same" THEN @ ELSE None]]
      PROVE  /\ sessions' = [sessions EXCEPT ![s] = None]
             /\ warned' = [warned EXCEPT ![s] = None]
             /\ req' \in [Tab -> Request]
             /\ \A t \in Tab :
                   /\ req'[t].pc = req[t].pc /\ req'[t].sid = req[t].sid
                   /\ req'[t].alone = req[t].alone /\ req'[t].posted = req[t].posted
                   /\ req'[t].says = IF req[t].says = "same" THEN "same" ELSE None
  <2> DEFINE r(t) == [req[t] EXCEPT !.says = IF @ = "same" THEN @ ELSE None]
  <2>1. \A t \in Tab : /\ r(t) \in Request /\ r(t).pc = req[t].pc /\ r(t).sid = req[t].sid
                       /\ r(t).alone = req[t].alone /\ r(t).posted = req[t].posted
                       /\ r(t).says = IF req[t].says = "same" THEN "same" ELSE None
    BY DEF ChType, Request
  <2>2. req' = [t \in Tab |-> r(t)]
    BY <1>2
  <2> HIDE DEF r
  <2>. QED  BY <2>1, <2>2, <1>2 DEF Ch!DropSession
<1>. QED  BY <1>1, <1>2 DEF Ch!Forget

Confirms == \E b \in DOMAIN bookings : Ch!OwnerConfirms(b)
LEMMA ChConfirms ==
    ASSUME ChType, Confirms
    PROVE  /\ UNCHANGED <<live, sessions, stash, cookie, minted, req, shown, warned, told>>
           /\ bookings' \in Seq(Booking) /\ DOMAIN bookings' = DOMAIN bookings
           /\ \A n \in DOMAIN bookings : /\ bookings'[n].by = bookings[n].by
                                         /\ bookings'[n].item = bookings[n].item
                                         /\ bookings'[n].asked = bookings[n].asked
<1>1. PICK b : Ch!OwnerConfirms(b)
  BY DEF Confirms
<1>2. bookings' = [bookings EXCEPT ![b].active = FALSE]
  BY <1>1 DEF Ch!OwnerConfirms
<1>. QED  BY <1>1, <1>2, ChInactive DEF Ch!OwnerConfirms, Ch!chatVars

(* The five kinds of steps.                                                *)
LEMMA ChSteps ==
    ASSUME ChType, ChShown, Ch!Next
    PROVE  \/ \E t \in Tab : Works(t) /\ ChRest
           \/ \E t \in Tab : \E k \in Ch!Kinds : Ch!Send(t, k)
           \/ \E t \in Tab : Ch!Deliver(t)
           \/ \E s \in Sid : Ch!Forget(s)
           \/ Confirms
BY ChChatWorks, ChApiWorks DEF Ch!Next, Confirms

LEMMA ChTypeNext == ChType /\ ChShown /\ Ch!Next => ChType'
<1> SUFFICES ASSUME ChType, ChShown, Ch!Next PROVE ChType'
  OBVIOUS
<1>1. ASSUME NEW t \in Tab, Works(t), ChRest PROVE ChType'
  BY <1>1, ChTypeStep
<1>2. ASSUME NEW t \in Tab, NEW k \in Ch!Kinds, Ch!Send(t, k) PROVE ChType'
  <2>1. \A u \in Tab : req'[u].pc \notin {"idle", "answered"} => req'[u].sid \in minted'
    BY <1>2, ChSendIs DEF ChType
  <2>2. \A u \in Tab : req'[u].pc = "posted" => req'[u].posted # 0
    BY <1>2, ChSendIs DEF ChType
  <2>. QED  BY <2>1, <2>2, <1>2, ChSendIs DEF ChType
<1>3. ASSUME NEW t \in Tab, Ch!Deliver(t) PROVE ChType'
  <2>1. cookie' \in Sid \cup {None} /\ told' \in Account \cup {None}
    BY <1>3, ChDeliverIs DEF ChType, Request
  <2>. QED  BY <2>1, <1>3, ChDeliverIs DEF ChType
<1>4. ASSUME NEW s \in Sid, Ch!Forget(s) PROVE ChType'
  <2>1. <<>> \in Ch!Numbered
    BY DEF Ch!Numbered, Ch!Lists
  <2>. QED  BY <2>1, <1>4, ChForgetIs DEF ChType
<1>5. CASE Confirms
  BY <1>5, ChConfirms DEF ChType
<1>. QED  BY <1>1, <1>2, <1>3, <1>4, <1>5, ChSteps

LEMMA ChShownNext == ChType /\ ChShown /\ Ch!Next => ChShown'
<1> SUFFICES ASSUME ChType, ChShown, Ch!Next PROVE ChShown'
  OBVIOUS
<1> DEFINE Agree == \A s \in Sid : stash[s] # None => shown[s] = stash[s]
<1>0. Agree /\ Ch!BookedAsShown /\ \A n \in DOMAIN bookings : bookings[n].item = bookings[n].asked
  BY DEF ChShown, Ch!BookedAsShown
<1>1. ASSUME UNCHANGED <<stash, shown>> PROVE Agree'
  BY <1>0, <1>1
<1>2. ASSUME UNCHANGED bookings PROVE Ch!BookedAsShown'
  BY <1>0, <1>2 DEF Ch!BookedAsShown
<1>3. ASSUME NEW b, bookings' = [bookings EXCEPT ![b].active = FALSE] PROVE Ch!BookedAsShown'
  BY <1>0, <1>3, ChInactive DEF Ch!BookedAsShown
<1>4. ASSUME NEW t \in Tab, Ch!HandleText(t) PROVE ChShown'
  <2>0. req[t].sid \in Sid /\ Ch!S(t) = req[t].sid
    BY <1>4 DEF ChType, Ch!HandleText, Ch!At, Ch!S
  <2>1. CASE Ch!BookPost(t)
    <3>1. PICK i \in Item : bookings' = Append(bookings,
                [by |-> sessions[req[t].sid].acct, item |-> i, asked |-> i, active |-> TRUE])
      BY <2>0, <2>1, ChBookPost
    <3>2. UNCHANGED <<stash, shown>>
      BY <2>1 DEF Ch!BookPost, Ch!chatVars
    <3> DEFINE e == [by |-> sessions[req[t].sid].acct, item |-> i, asked |-> i, active |-> TRUE]
    <3>3. e.item = e.asked /\ bookings' = Append(bookings, e)
      BY <3>1
    <3> HIDE DEF e
    <3>4. /\ DOMAIN bookings' = 1..Len(bookings) + 1 /\ DOMAIN bookings = 1..Len(bookings)
          /\ Len(bookings) \in Nat
      BY <3>3, LenProperties DEF ChType
    <3>5. \A n \in 1..Len(bookings) + 1 : bookings'[n] = IF n = Len(bookings) + 1 THEN e ELSE bookings[n]
      BY <3>3, <3>4
    <3>6. \A n \in 1..Len(bookings) + 1 : n = Len(bookings) + 1 \/ n \in 1..Len(bookings)
      BY <3>4
    <3>7. Ch!BookedAsShown'
      BY <3>3, <3>4, <3>5, <3>6, <1>0 DEF Ch!BookedAsShown
    <3>. QED  BY <3>2, <3>7, <1>1 DEF ChShown
  <2>2. CASE Ch!BrowseExcept(t) \/ Ch!Search(t) \/ Ch!BoardReset(t)
    <3>1. UNCHANGED bookings
      BY <2>2 DEF Ch!BrowseExcept, Ch!Search, Ch!BoardReset, Ch!hubVars
    <3>2. Agree'
      BY <2>0, <2>2, <1>0 DEF Ch!BrowseExcept, Ch!Search, Ch!BoardReset, ChType
    <3>. QED  BY <3>1, <3>2, <1>2 DEF ChShown
  <2>3. ASSUME UNCHANGED <<bookings, stash, shown>> PROVE ChShown'
    BY <2>3, <1>1, <1>2 DEF ChShown
  <2>. QED
    BY <2>1, <2>2, <2>3, <1>4
       DEF Ch!HandleText, Ch!BrainTurn, Ch!TypedLogin, Ch!TypedLogout, Ch!LogoutAll,
           Ch!DeleteWarn, Ch!DeleteConfirm, Ch!hubVars, Ch!chatVars
<1>5. ASSUME NEW t \in Tab,
             Ch!BookStore(t) \/ Ch!ApiLogin(t) \/ Ch!ApiLoginKey(t) \/ Ch!ReadBack(t)
             \/ Ch!ApiLogout(t) \/ Ch!ApiReset(t)
      PROVE  ChShown'
  BY <1>1, <1>2, <1>5 DEF ChShown, Ch!BookStore, Ch!ApiLogin, Ch!ApiLoginKey, Ch!ReadBack,
                          Ch!ApiLogout, Ch!ApiReset, Ch!hubVars, Ch!chatVars
<1>6. ASSUME NEW t \in Tab, Ch!ApiCancel(t) PROVE ChShown'
  BY <1>1, <1>3, <1>6 DEF ChShown, Ch!ApiCancel
<1>7. ASSUME NEW t \in Tab, Ch!Rotate(t) PROVE ChShown'
  <2>1. UNCHANGED bookings
    BY <1>7 DEF Ch!Rotate, Ch!hubVars
  <2>2. CASE UNCHANGED <<stash, shown>>
    BY <2>1, <2>2, <1>1, <1>2 DEF ChShown
  <2>3. CASE \E n \in Sid :
            /\ stash' = [stash EXCEPT ![n] = stash[Ch!S(t)], ![Ch!S(t)] = None]
            /\ shown' = [shown EXCEPT ![n] = shown[Ch!S(t)], ![Ch!S(t)] = <<>>]
    <3>1. Ch!S(t) \in Sid
      BY <1>7 DEF ChType, Ch!Rotate, Ch!S
    <3>2. Agree'
      BY <2>3, <3>1, <1>0 DEF ChType
    <3>. QED  BY <2>1, <3>2, <1>2 DEF ChShown
  <2>. QED  BY <1>7, <2>2, <2>3 DEF Ch!Rotate, Ch!chatVars
<1>8. ASSUME NEW t \in Tab, NEW k \in Ch!Kinds, Ch!Send(t, k) PROVE ChShown'
  BY <1>1, <1>2, <1>8 DEF ChShown, Ch!Send, Ch!hubVars, Ch!chatVars
<1>9. ASSUME NEW t \in Tab, Ch!Deliver(t) PROVE ChShown'
  BY <1>1, <1>2, <1>9 DEF ChShown, Ch!Deliver, Ch!hubVars, Ch!chatVars
<1>10. ASSUME NEW s \in Sid, Ch!Forget(s) PROVE ChShown'
  <2>1. CASE UNCHANGED <<stash, shown>>
    BY <2>1, <1>1, <1>2, <1>10, ChForgetIs DEF ChShown
  <2>2. CASE stash' = [stash EXCEPT ![s] = None] /\ shown' = [shown EXCEPT ![s] = <<>>]
    <3>1. Agree'
      BY <2>2, <1>0 DEF ChType
    <3>. QED  BY <3>1, <1>2, <1>10, ChForgetIs DEF ChShown
  <2>. QED  BY <2>1, <2>2, <1>10, ChForgetIs
<1>11. ASSUME NEW b, Ch!OwnerConfirms(b) PROVE ChShown'
  BY <1>1, <1>3, <1>11 DEF ChShown, Ch!OwnerConfirms, Ch!chatVars
<1>. QED
  BY <1>4, <1>5, <1>6, <1>7, <1>8, <1>9, <1>10, <1>11 DEF Ch!Next

LEMMA ChWarnedNext == ChType /\ ChWarned /\ Ch!Next => ChWarned'
<1> SUFFICES ASSUME ChType, ChWarned, Ch!Next PROVE ChWarned'
  OBVIOUS
<1>0. sessions \in [Sid -> Ch!SessionType \cup {None}] /\ warned \in [Sid -> Account \cup {None}]
  BY DEF ChType
<1>1. ASSUME UNCHANGED <<sessions, warned>> PROVE ChWarned'
  BY <1>1 DEF ChWarned
<1>2. ASSUME NEW s \in Sid, NEW a \in Account, Ch!SetSession(s, a) PROVE ChWarned'
  BY <1>0, <1>2, ChFresh DEF ChWarned, Ch!SetSession
<1>3. ASSUME NEW s \in Sid, Ch!DropSession(s) PROVE ChWarned'
  BY <1>0, <1>3 DEF ChWarned, Ch!DropSession
<1>4. ASSUME NEW s \in Sid, sessions[s] # None, NEW C,
             sessions' = [sessions EXCEPT ![s].cancels = C], UNCHANGED warned
      PROVE  ChWarned'
  <2>1. sessions[s] \in Ch!SessionType
    BY <1>0, <1>4
  <2> DEFINE z == [sessions[s] EXCEPT !.cancels = C]
  <2>2. sessions' = [sessions EXCEPT ![s] = z] /\ z.pend = sessions[s].pend
    BY <2>1, <1>4 DEF Ch!SessionType
  <2> HIDE DEF z
  <2>. QED  BY <2>2, <1>0, <1>4 DEF ChWarned
<1>5. ASSUME NEW t \in Tab, Ch!S(t) \in Sid, Ch!DeleteWarn(t) PROVE ChWarned'
  <2> DEFINE s == Ch!S(t)
  <2>1. /\ sessions[s] # None /\ sessions' = [sessions EXCEPT ![s].pend = sessions[s].acct]
        /\ warned' = [warned EXCEPT ![s] = sessions[s].acct]
    BY <1>5 DEF Ch!DeleteWarn
  <2>2. sessions[s] \in Ch!SessionType
    BY <2>1, <1>0, <1>5
  <2> DEFINE z == [sessions[s] EXCEPT !.pend = sessions[s].acct]
  <2>3. sessions' = [sessions EXCEPT ![s] = z] /\ z.pend = sessions[s].acct
    BY <2>1, <2>2 DEF Ch!SessionType
  <2> HIDE DEF z
  <2>. QED  BY <2>1, <2>3, <1>0, <1>5 DEF ChWarned
<1>6. ASSUME NEW t \in Tab, Ch!HandleText(t) PROVE ChWarned'
  <2>0. Ch!S(t) \in Sid /\ live \subseteq Account
    BY <1>6 DEF ChType, Ch!HandleText, Ch!At, Ch!S
  <2>1. CASE Ch!TypedLogin(t)
    BY <2>0, <2>1, <1>2 DEF Ch!TypedLogin
  <2>2. CASE Ch!TypedLogout(t) \/ Ch!LogoutAll(t) \/ Ch!DeleteConfirm(t)
    BY <2>0, <2>2, <1>1, <1>3 DEF Ch!TypedLogout, Ch!LogoutAll, Ch!DeleteConfirm
  <2>3. CASE Ch!DeleteWarn(t)
    BY <2>0, <2>3, <1>5
  <2>4. CASE Ch!BrowseExcept(t) \/ Ch!BrainTurn(t)
    BY <2>4, <1>1 DEF Ch!BrowseExcept, Ch!BrainTurn, Ch!Search, Ch!BoardReset, Ch!BookPost, Ch!chatVars
  <2>. QED  BY <2>1, <2>2, <2>3, <2>4, <1>6 DEF Ch!HandleText
<1>7. ASSUME NEW t \in Tab, Ch!BookStore(t) PROVE ChWarned'
  <2>0. Ch!S(t) \in Sid
    BY <1>7 DEF ChType, Ch!BookStore, Ch!At, Ch!S
  <2>1. CASE sessions[Ch!S(t)] = None
    BY <2>1, <1>1, <1>7 DEF Ch!BookStore
  <2>2. CASE sessions[Ch!S(t)] # None
    <3>1. sessions' = [sessions EXCEPT ![Ch!S(t)].cancels =
                           sessions[Ch!S(t)].cancels \cup {req[t].posted}] /\ UNCHANGED warned
      BY <2>2, <1>7 DEF Ch!BookStore
    <3>. QED  BY <3>1, <2>0, <2>2, <1>4
  <2>. QED  BY <2>1, <2>2
<1>8. ASSUME NEW t \in Tab, Ch!ApiCancel(t) PROVE ChWarned'
  <2>0. Ch!S(t) \in Sid /\ UNCHANGED warned
    BY <1>8 DEF ChType, Ch!ApiCancel, Ch!At, Ch!S
  <2>1. PICK b \in IF sessions[Ch!S(t)] = None THEN {} ELSE sessions[Ch!S(t)].cancels :
            \/ sessions' = [sessions EXCEPT ![Ch!S(t)].cancels = sessions[Ch!S(t)].cancels \ {b}]
            \/ sessions' = sessions
    BY <1>8 DEF Ch!ApiCancel
  <2>2. sessions[Ch!S(t)] # None
    BY <2>1
  <2>. QED  BY <2>0, <2>1, <2>2, <1>1, <1>4
<1>9. ASSUME NEW t \in Tab, Ch!ApiLogin(t) \/ Ch!ApiLoginKey(t) \/ Ch!ReadBack(t)
                            \/ Ch!ApiLogout(t) \/ Ch!ApiReset(t)
      PROVE  ChWarned'
  <2>0. Ch!S(t) \in Sid /\ live \subseteq Account
    BY <1>9 DEF ChType, Ch!ApiLogin, Ch!ApiLoginKey, Ch!ReadBack, Ch!ApiLogout, Ch!ApiReset,
                Ch!At, Ch!S
  <2>1. \/ UNCHANGED <<sessions, warned>> \/ Ch!DropSession(Ch!S(t))
        \/ \E a \in live : Ch!SetSession(Ch!S(t), a)
    BY <1>9 DEF Ch!ApiLogin, Ch!ApiLoginKey, Ch!ReadBack, Ch!ApiLogout, Ch!ApiReset, Ch!chatVars
  <2>. QED  BY <2>0, <2>1, <1>1, <1>2, <1>3
<1>10. ASSUME NEW t \in Tab, Ch!Rotate(t) PROVE ChWarned'
  <2>0. Ch!S(t) \in Sid
    BY <1>10 DEF ChType, Ch!Rotate, Ch!S
  <2>1. CASE UNCHANGED <<sessions, warned>>
    BY <2>1, <1>1
  <2>2. CASE \E n \in Sid :
            /\ sessions' = [sessions EXCEPT ![n] = sessions[Ch!S(t)], ![Ch!S(t)] = None]
            /\ warned' = [warned EXCEPT ![n] = warned[Ch!S(t)], ![Ch!S(t)] = None]
    BY <2>0, <2>2, <1>0 DEF ChWarned
  <2>. QED  BY <1>10, <2>1, <2>2 DEF Ch!Rotate, Ch!chatVars
<1>11. ASSUME NEW s \in Sid, Ch!Forget(s) PROVE ChWarned'
  BY <1>1, <1>3, <1>11 DEF Ch!Forget
<1>12. ASSUME NEW t \in Tab, (\E k \in Ch!Kinds : Ch!Send(t, k)) \/ Ch!Deliver(t) PROVE ChWarned'
  BY <1>1, <1>12 DEF Ch!Send, Ch!Deliver, Ch!chatVars
<1>13. ASSUME NEW b, Ch!OwnerConfirms(b) PROVE ChWarned'
  BY <1>1, <1>13 DEF Ch!OwnerConfirms, Ch!chatVars
<1>. QED
  BY <1>6, <1>7, <1>8, <1>9, <1>10, <1>11, <1>12, <1>13 DEF Ch!Next

(* While a request is alone, no other request takes a step.                *)
LEMMA ChOthersIdle ==
    ASSUME ChAlone, NEW t \in Tab, NEW u \in Tab, t # u,
           req[t].pc # "idle", req[u].pc # "idle"
    PROVE  ~req[t].alone /\ ~req[u].alone
BY DEF ChAlone

(* A step leaves the request that takes it alone as it was, and the others *)
(* as they were.                                                           *)
LEMMA ChWorksReq ==
    ASSUME ChType, NEW t \in Tab, Works(t)
    PROVE  /\ \A u \in Tab \ {t} : req'[u] = req[u]
           /\ req'[t].pc = "idle" \/ req'[t].alone = req[t].alone
           /\ req[t].pc # "idle"
<1>1. req \in [Tab -> Request]
  BY DEF ChType
<1>2. Ch!NoReq.pc = "idle"
  BY DEF Ch!NoReq
<1>. QED  BY <1>1, <1>2 DEF Works, Stays, Enters, Leaves, Dies, Rotates, Turned

LEMMA ChAloneNext == ChType /\ ChShown /\ ChAlone /\ ChSays /\ Ch!Next => ChAlone'
<1> SUFFICES ASSUME ChType, ChShown, ChAlone, ChSays, Ch!Next PROVE ChAlone'
  OBVIOUS
<1> DEFINE Fine(u) ==
        /\ \A v \in Tab \ {u} : req'[v].pc = "idle"
        /\ cookie' # None /\ (req'[u].pc = "answered" => req'[u].says = "same")
              => req'[u].sid = cookie'
<1>1. ASSUME NEW t \in Tab, Works(t) PROVE ChAlone'
  <2> SUFFICES ASSUME NEW u \in Tab, req'[u].pc # "idle", req'[u].alone PROVE Fine(u)
    BY DEF ChAlone
  <2>1. u = t
    BY <1>1, ChWorksReq, ChOthersIdle
  <2>2. req[t].alone /\ req[t].pc \notin {"idle", "answered"} /\ cookie' = cookie
    BY <2>1, <1>1, ChWorksReq DEF Works
  <2>3. \A v \in Tab \ {t} : req'[v].pc = "idle"
    BY <2>2, <1>1, ChWorksReq DEF ChAlone
  <2>4. cookie # None => req[t].sid = cookie
    BY <2>2 DEF ChAlone
  <2>5. ~Dies(t)
    BY <2>1 DEF Dies, Ch!NoReq, ChType
  <2>6. req'[t].sid = req[t].sid \/ (req'[t].pc = "answered" /\ req'[t].says # "same")
    BY <2>5, <1>1, ChatAssumption DEF Works, Stays, Enters, Leaves, Rotates, Turned, ChSays
  <2>. QED  BY <2>1, <2>2, <2>3, <2>4, <2>6
<1>2. ASSUME NEW t \in Tab, NEW k \in Ch!Kinds, Ch!Send(t, k) PROVE ChAlone'
  <2> SUFFICES ASSUME NEW u \in Tab, req'[u].pc # "idle", req'[u].alone PROVE Fine(u)
    BY DEF ChAlone
  <2>1. u = t /\ Ch!InFlight = {}
    BY <1>2, ChSendIs
  <2>2. \A v \in Tab \ {t} : req'[v].pc = "idle"
    BY <2>1, <1>2, ChSendIs DEF Ch!InFlight
  <2>. QED  BY <2>1, <2>2, <1>2, ChSendIs
<1>3. ASSUME NEW t \in Tab, Ch!Deliver(t) PROVE ChAlone'
  <2> SUFFICES ASSUME NEW u \in Tab, req'[u].pc # "idle", req'[u].alone PROVE Fine(u)
    BY DEF ChAlone
  <2>1. u # t /\ req'[u] = req[u] /\ req[t].pc = "answered"
    BY <1>3, ChDeliverIs
  <2>. QED  BY <2>1 DEF ChAlone
<1>4. ASSUME NEW s \in Sid, Ch!Forget(s) PROVE ChAlone'
  <2>1. cookie' = cookie
    BY <1>4, ChForgetIs
  <2>2. \A t \in Tab : /\ req'[t].pc = req[t].pc /\ req'[t].sid = req[t].sid
                       /\ req'[t].alone = req[t].alone
                       /\ req'[t].says = "same" => req[t].says = "same"
    BY <1>4, ChForgetIs, ChatAssumption
  <2>. QED  BY <2>1, <2>2 DEF ChAlone
<1>5. CASE Confirms
  BY <1>5, ChConfirms DEF ChAlone
<1>. QED  BY <1>1, <1>2, <1>3, <1>4, <1>5, ChSteps

LEMMA ChSaysNext == ChType /\ ChShown /\ ChAlone /\ ChSays /\ Ch!Next => ChSays'
<1> SUFFICES ASSUME ChType, ChShown, ChAlone, ChSays, Ch!Next PROVE ChSays'
  OBVIOUS
<1> DEFINE Fine(u) ==
        /\ req'[u].pc = "entered" => req'[u].says # "same"
        /\ req'[u].pc \in {"entered", "answered"} /\ req'[u].alone
              /\ req'[u].says \notin {None, "same"} =>
                 /\ req'[u].sid \in Sid /\ sessions'[req'[u].sid] # None
                 /\ sessions'[req'[u].sid].acct = req'[u].says
<1>0. SUFFICES ASSUME NEW u \in Tab PROVE Fine(u)
  BY DEF ChSays, Holds
<1> HIDE DEF Fine
<1>00. sessions \in [Sid -> Ch!SessionType \cup {None}]
  BY DEF ChType
<1>1. ASSUME NEW t \in Tab, Works(t) PROVE Fine(u)
  <2>0. req[t].sid \in Sid /\ req[t].sid \in minted /\ req[t].pc \notin {"idle", "answered"}
    BY <1>1 DEF Works, ChType
  <2>1. CASE u # t
    <3>1. req'[u] = req[u] /\ (req[u].pc # "idle" => ~req[u].alone)
      BY <2>1, <1>1, ChWorksReq, ChOthersIdle
    <3>. QED  BY <3>1 DEF Fine, ChSays
  <2>2. CASE u = t /\ Stays(t)
    <3>1. sessions[req[t].sid] # None => sessions[req[t].sid].acct # "same"
      BY <2>0, <1>00, ChatAssumption DEF Ch!SessionType
    <3>. QED  BY <2>0, <2>2, <3>1, ChatAssumption DEF Fine, Stays, Turned
  <2>3. CASE u = t /\ Enters(t)
    <3>1. PICK a \in Account :
            /\ sessions' = [sessions EXCEPT ![req[t].sid] = Ch!Fresh(a)]
            /\ \/ Turned(t, "answered", req[t].sid, a)
               \/ Turned(t, "entered", req[t].sid, a)
               \/ Turned(t, "keyed", req[t].sid, req[t].says)
      BY <2>3 DEF Enters
    <3>2. sessions'[req[t].sid] = Ch!Fresh(a)
      BY <3>1, <2>0, <1>00
    <3>. QED  BY <2>0, <2>3, <3>1, <3>2, ChFresh, ChatAssumption DEF Fine, Turned
  <2>4. CASE u = t /\ Leaves(t)
    BY <2>4, ChatAssumption DEF Fine, Leaves, Turned
  <2>5. CASE u = t /\ Dies(t)
    BY <2>5 DEF Fine, Dies, Ch!NoReq, ChType
  <2>6. CASE u = t /\ Rotates(t)
    <3>1. PICK n \in Sid \ minted :
          /\ sessions' = [sessions EXCEPT ![n] = sessions[req[t].sid], ![req[t].sid] = None]
          /\ Turned(t, "answered", n, req[t].says)
      BY <2>6 DEF Rotates
    <3>2. sessions'[n] = sessions[req[t].sid] /\ req[t].pc = "entered"
      BY <3>1, <2>0, <2>6, <1>00 DEF Rotates
    <3>. QED  BY <2>6, <3>1, <3>2 DEF Fine, Turned, ChSays, Holds
  <2>. QED  BY <1>1, <2>1, <2>2, <2>3, <2>4, <2>5, <2>6 DEF Works
<1>2. ASSUME NEW t \in Tab, NEW k \in Ch!Kinds, Ch!Send(t, k) PROVE Fine(u)
  BY <1>2, ChSendIs DEF Fine, ChSays
<1>3. ASSUME NEW t \in Tab, Ch!Deliver(t) PROVE Fine(u)
  BY <1>3, ChDeliverIs DEF Fine, ChSays, Holds
<1>4. ASSUME NEW s \in Sid, Ch!Forget(s) PROVE Fine(u)
  <2>1. CASE UNCHANGED <<sessions, req>>
    BY <2>1 DEF Fine, ChSays, Holds
  <2>2. CASE \A t \in Tab :
               /\ req'[t].pc = req[t].pc
               /\ req'[t].says = IF req[t].says = "same" THEN "same" ELSE None
    BY <2>2, ChatAssumption DEF Fine, ChSays
  <2>. QED  BY <2>1, <2>2, <1>4, ChForgetIs
<1>5. CASE Confirms
  BY <1>5, ChConfirms DEF Fine, ChSays, Holds
<1>. QED  BY <1>1, <1>2, <1>3, <1>4, <1>5, ChSteps

LEMMA ChToldNext ==
    ChType /\ ChShown /\ ChAlone /\ ChSays /\ ChTold /\ Ch!Next => ChTold'
<1> SUFFICES ASSUME ChType, ChShown, ChAlone, ChSays, ChTold, Ch!Next, told' # None
             PROVE  Holds(cookie, told)' \/ \E u \in Tab : Telling(u)'
  BY DEF ChTold
<1>0. sessions \in [Sid -> Ch!SessionType \cup {None}]
  BY DEF ChType
<1>1. ASSUME NEW t \in Tab, Works(t)
      PROVE  Holds(cookie, told)' \/ \E u \in Tab : Telling(u)'
  <2>0. /\ req[t].sid \in Sid /\ req[t].sid \in minted /\ req[t].pc \notin {"idle", "answered"}
        /\ cookie' = cookie /\ told' = told
    BY <1>1 DEF Works, ChType
  <2>1. Holds(cookie, told) \/ \E u \in Tab : Telling(u)
    BY <2>0 DEF ChTold
  (* Another request that was telling still is, when sessions stay.        *)
  <2>2. CASE Stays(t)
    <3>1. Holds(cookie, told) => Holds(cookie, told)'
      BY <2>0, <2>2 DEF Stays, Holds
    <3>2. ASSUME NEW u \in Tab, u # t, Telling(u) PROVE Telling(u)'
      <4>1. req'[u] = req[u]
        BY <1>1, <3>2, ChWorksReq
      <4>2. req[u].pc \in {"keyed", "entered"} => req[u].sid \in Sid
        BY DEF ChType
      <4>. QED  BY <4>1, <4>2, <3>2, <2>2 DEF Telling, Stays
    <3>3. ASSUME Telling(t) PROVE Telling(t)'
      <4>1. req[t].pc \in {"keyed", "entered"} /\ sessions[req[t].sid] # None
        BY <2>0, <3>3 DEF Telling
      <4>2. sessions'[req[t].sid] # None /\ Turned(t, "entered", req[t].sid, sessions[req[t].sid].acct)
        BY <4>1, <2>0, <2>2 DEF Stays
      <4>. QED  BY <4>2 DEF Telling, Turned
    <3>. QED  BY <2>1, <3>1, <3>2, <3>3
  <2>3. CASE Enters(t)
    <3>1. PICK a \in Account :
            /\ sessions' = [sessions EXCEPT ![req[t].sid] = Ch!Fresh(a)]
            /\ \/ Turned(t, "answered", req[t].sid, a)
               \/ Turned(t, "entered", req[t].sid, a)
               \/ Turned(t, "keyed", req[t].sid, req[t].says)
      BY <2>3 DEF Enters
    <3>2. sessions'[req[t].sid] # None
      BY <3>1, <2>0, <1>0, ChFresh
    <3>3. Telling(t)'
      BY <3>1, <3>2, ChatAssumption DEF Telling, Turned
    <3>. QED  BY <3>3
  <2>4. CASE Leaves(t)
    <3>1. Telling(t)'
      BY <2>4, ChatAssumption DEF Telling, Leaves, Turned
    <3>. QED  BY <3>1
  <2>5. CASE Dies(t)
    <3>1. ~Telling(t) /\ sessions' = sessions
      BY <2>0, <2>5 DEF Telling, Dies
    <3>2. ASSUME NEW u \in Tab, u # t, Telling(u) PROVE Telling(u)'
      BY <1>1, <3>1, <3>2, ChWorksReq DEF Telling
    <3>3. Holds(cookie, told) => Holds(cookie, told)'
      BY <2>0, <3>1 DEF Holds
    <3>. QED  BY <2>1, <3>1, <3>2, <3>3
  <2>6. CASE Rotates(t)
    <3>1. Telling(t)'
      BY <2>6 DEF Telling, Rotates, Turned, ChSays
    <3>. QED  BY <3>1
  <2>. QED  BY <1>1, <2>2, <2>3, <2>4, <2>5, <2>6 DEF Works
<1>2. ASSUME NEW t \in Tab, NEW k \in Ch!Kinds, Ch!Send(t, k)
      PROVE  Holds(cookie, told)' \/ \E u \in Tab : Telling(u)'
  <2>1. UNCHANGED <<sessions, cookie, told>> /\ req[t].pc = "idle"
    BY <1>2, ChSendIs
  <2>2. ASSUME NEW u \in Tab, Telling(u) PROVE Telling(u)'
    <3>1. u # t
      BY <2>1, <2>2 DEF Telling
    <3>2. /\ req'[u].pc = req[u].pc /\ req'[u].sid = req[u].sid /\ ~req'[u].alone
      BY <3>1, <1>2, ChSendIs
    <3>. QED  BY <2>1, <2>2, <3>2 DEF Telling
  <2>3. Holds(cookie, told) => Holds(cookie, told)'
    BY <2>1 DEF Holds
  <2>. QED  BY <2>1, <2>2, <2>3 DEF ChTold
<1>3. ASSUME NEW t \in Tab, Ch!Deliver(t)
      PROVE  Holds(cookie, told)' \/ \E u \in Tab : Telling(u)'
  <2>1. req[t].alone /\ req[t].pc = "answered" /\ cookie' = req[t].sid /\ sessions' = sessions
    BY <1>3, ChDeliverIs
  <2>2. CASE req[t].says = "same"
    <3>1. told' = told
      BY <2>1, <2>2, <1>3, ChDeliverIs
    <3>2. \A u \in Tab : ~Telling(u)
      <4>1. ~Telling(t)
        BY <2>1, <2>2 DEF Telling
      <4>2. \A u \in Tab \ {t} : ~Telling(u)
        BY <2>1 DEF ChAlone, Telling
      <4>. QED  BY <4>1, <4>2
    <3>3. Holds(cookie, told)
      BY <3>1, <3>2 DEF ChTold
    <3>4. cookie # None
      BY <3>3, ChatAssumption DEF Holds
    <3>5. req[t].sid = cookie
      BY <2>1, <2>2, <3>4 DEF ChAlone
    <3>. QED  BY <2>1, <3>1, <3>3, <3>5 DEF Holds
  <2>3. CASE req[t].says # "same"
    <3>1. told' = req[t].says
      BY <2>1, <2>3, <1>3, ChDeliverIs
    <3>2. Holds(req[t].sid, req[t].says)
      BY <2>1, <2>3, <3>1 DEF ChSays
    <3>. QED  BY <2>1, <3>1, <3>2 DEF Holds
  <2>. QED  BY <2>2, <2>3
<1>4. ASSUME NEW s \in Sid, Ch!Forget(s)
      PROVE  Holds(cookie, told)' \/ \E u \in Tab : Telling(u)'
  <2>1. UNCHANGED <<sessions, req, told, cookie>>
    BY <1>4, ChForgetIs
  <2>. QED  BY <2>1 DEF ChTold, Holds, Telling
<1>5. CASE Confirms
  <2>1. UNCHANGED <<sessions, req, told, cookie>>
    BY <1>5, ChConfirms
  <2>. QED  BY <2>1 DEF ChTold, Holds, Telling
<1>. QED  BY <1>1, <1>2, <1>3, <1>4, <1>5, ChSteps

(***************************************************************************)
(* Cancel tokens, under the lock.                                          *)
(***************************************************************************)
(* Bookings are made and closed, never reattributed.                       *)
Grows == /\ DOMAIN bookings \subseteq DOMAIN bookings'
         /\ \A n \in DOMAIN bookings : bookings'[n].by = bookings[n].by
(* A session's tokens are those some session of that account had.          *)
NoNewTokens ==
    \A s \in Sid : sessions'[s] # None =>
        \/ sessions'[s].cancels = {}
        \/ \E x \in Sid : /\ sessions[x] # None /\ sessions'[s].acct = sessions[x].acct
                          /\ sessions'[s].cancels \subseteq sessions[x].cancels
NonePosted == \A u \in Tab : req'[u].pc # "posted"

LEMMA ChTokensKept == Ch!CancelTokensFit /\ Grows /\ NoNewTokens => Ch!CancelTokensFit'
<1> SUFFICES ASSUME Ch!CancelTokensFit, Grows, NoNewTokens,
                    NEW s \in Sid, sessions'[s] # None, NEW b \in sessions'[s].cancels
             PROVE  b \in DOMAIN bookings' /\ bookings'[b].by = sessions'[s].acct
  BY DEF Ch!CancelTokensFit
<1>1. PICK x \in Sid : /\ sessions[x] # None /\ sessions'[s].acct = sessions[x].acct
                       /\ sessions'[s].cancels \subseteq sessions[x].cancels
  BY DEF NoNewTokens
<1>2. b \in DOMAIN bookings /\ bookings[b].by = sessions[x].acct
  BY <1>1 DEF Ch!CancelTokensFit
<1>. QED  BY <1>1, <1>2 DEF Grows

(* Those who hold the lock find nobody in the middle of a booking, and     *)
(* leave nobody there, the booking itself aside.                           *)
LEMMA ChLocked ==
    ASSUME Serialized, ChType, NEW t \in Tab, req[t].pc # "posted",
           Ch!HandleText(t) \/ Ch!ApiLogin(t) \/ Ch!ApiLoginKey(t) \/ Ch!Rotate(t)
           \/ Ch!ApiLogout(t) \/ Ch!ApiReset(t)
    PROVE  \A u \in Tab \ {t} : req[u].pc # "posted"
BY DEF Ch!LockFree, Ch!HandleText, Ch!ApiLogin, Ch!ApiLoginKey, Ch!Rotate, Ch!ApiLogout, Ch!ApiReset

LEMMA ChSetTokens ==
    ASSUME ChType, NEW s \in Sid,
           \/ Ch!DropSession(s) \/ \E a \in Account : Ch!SetSession(s, a)
           \/ UNCHANGED <<sessions, warned>>
    PROVE  NoNewTokens
<1>1. sessions \in [Sid -> Ch!SessionType \cup {None}]
  BY DEF ChType
<1>2. CASE Ch!DropSession(s)
  BY <1>1, <1>2 DEF Ch!DropSession, NoNewTokens
<1>3. ASSUME NEW a \in Account, Ch!SetSession(s, a) PROVE NoNewTokens
  BY <1>1, <1>3, ChFresh DEF Ch!SetSession, NoNewTokens
<1>4. CASE UNCHANGED <<sessions, warned>>
  BY <1>1, <1>4 DEF NoNewTokens
<1>. QED  BY <1>2, <1>3, <1>4

(* The steps under the lock, the booking aside.                            *)
LEMMA ChLockedTokens ==
    ASSUME Serialized, ChType, ChShown, NEW t \in Tab,
           \/ Ch!HandleText(t) /\ ~Ch!BookPost(t)
           \/ Ch!ApiLogin(t) \/ Ch!ApiLoginKey(t) \/ Ch!Rotate(t)
           \/ Ch!ApiLogout(t) \/ Ch!ApiReset(t)
    PROVE  Grows /\ NoNewTokens /\ NonePosted
<1>0. /\ req[t].pc \in {"sent", "entered"} /\ req[t].sid \in Sid /\ Ch!S(t) = req[t].sid
      /\ req \in [Tab -> Request] /\ bookings' = bookings /\ live \subseteq Account
      /\ sessions \in [Sid -> Ch!SessionType \cup {None}]
  BY DEF ChType, Ch!S, Ch!At, Ch!HandleText, Ch!BrainTurn, Ch!Say, Ch!hubVars, Ch!ApiLogin,
         Ch!ApiLoginKey, Ch!Rotate, Ch!ApiLogout, Ch!ApiReset, Ch!TypedLogin, Ch!TypedLogout,
         Ch!LogoutAll, Ch!DeleteWarn, Ch!DeleteConfirm, Ch!BrowseExcept, Ch!Search, Ch!BoardReset
<1>1. Grows
  BY <1>0 DEF Grows
<1>2. \A u \in Tab \ {t} : req[u].pc # "posted"
  BY <1>0, ChLocked
<1>3. ASSUME req'[t].pc # "posted", \A u \in Tab \ {t} : req'[u] = req[u]
      PROVE  NonePosted
  BY <1>2, <1>3 DEF NonePosted
<1>4. ASSUME NEW sid \in Sid \cup {None}, NEW says \in Account \cup {None, "same"},
             Ch!Answer(t, sid, says)
      PROVE  NonePosted
  BY <1>3, <1>4, ChAnswer DEF Turned
<1>5. ASSUME NEW pc \in {"answered", "entered", "keyed"}, NEW says,
             req' = [req EXCEPT ![t].pc = pc, ![t].says = says]
      PROVE  NonePosted
  <2>1. req'[t].pc = pc /\ \A u \in Tab \ {t} : req'[u] = req[u]
    BY <1>0, <1>5 DEF Request
  <2>. QED  BY <1>3, <2>1
<1>6. ASSUME req' = [req EXCEPT ![t] = Ch!NoReq] PROVE NonePosted
  <2>1. req'[t].pc = "idle" /\ \A u \in Tab \ {t} : req'[u] = req[u]
    BY <1>0, <1>6 DEF Ch!NoReq
  <2>. QED  BY <1>3, <2>1
<1>7. ASSUME Ch!Say(t) PROVE NonePosted
  BY <1>0, <1>4, <1>7 DEF Ch!Say
<1>8. CASE Ch!TypedLogin(t)
  <2>1. PICK a \in Account : Ch!SetSession(req[t].sid, a) /\ Ch!Answer(t, req[t].sid, a)
    BY <1>0, <1>8 DEF Ch!TypedLogin
  <2>. QED  BY <2>1, <1>0, <1>1, <1>4, ChSetTokens
<1>9. CASE Ch!TypedLogout(t) \/ Ch!ApiLogout(t) \/ Ch!ApiReset(t)
  <2>1. /\ Ch!DropSession(req[t].sid)
        /\ Ch!Answer(t, req[t].sid, None) \/ Ch!Answer(t, None, None)
    BY <1>0, <1>9 DEF Ch!TypedLogout, Ch!ApiLogout, Ch!ApiReset
  <2>. QED  BY <2>1, <1>0, <1>1, <1>4, ChSetTokens
<1>10. CASE Ch!LogoutAll(t) \/ Ch!DeleteConfirm(t)
  <2>1. \/ Ch!DropSession(req[t].sid) /\ Ch!Answer(t, req[t].sid, None)
        \/ Ch!Say(t) /\ UNCHANGED <<sessions, warned>>
    BY <1>0, <1>10 DEF Ch!LogoutAll, Ch!DeleteConfirm
  <2>. QED  BY <2>1, <1>0, <1>1, <1>4, <1>7, ChSetTokens
<1>11. CASE Ch!DeleteWarn(t)
  <2>1. /\ sessions' = [sessions EXCEPT ![req[t].sid].pend = sessions[req[t].sid].acct]
        /\ sessions[req[t].sid] # None /\ Ch!Say(t)
    BY <1>0, <1>11 DEF Ch!DeleteWarn
  <2> DEFINE o == sessions[req[t].sid]
             z == [o EXCEPT !.pend = o.acct]
  <2>2. z.acct = o.acct /\ z.cancels = o.cancels
    BY <2>1, <1>0 DEF Ch!SessionType
  <2>3. sessions' = [sessions EXCEPT ![req[t].sid] = z]
    BY <2>1
  <2> HIDE DEF z
  <2>4. NoNewTokens
    BY <2>1, <2>2, <2>3, <1>0 DEF NoNewTokens
  <2>. QED  BY <2>1, <2>4, <1>1, <1>7
<1>12. ASSUME Ch!Say(t), UNCHANGED <<sessions, warned>> PROVE NoNewTokens /\ NonePosted
  BY <1>0, <1>7, <1>12, ChSetTokens
<1>13. CASE Ch!ApiLogin(t)
  <2>1. PICK pc \in {"answered", "entered", "keyed"} :
           \E says : req' = [req EXCEPT ![t].pc = pc, ![t].says = says]
    BY <1>13 DEF Ch!ApiLogin
  <2>2. NonePosted
    BY <2>1, <1>5
  <2>3. (\E a \in Account : Ch!SetSession(req[t].sid, a)) \/ UNCHANGED <<sessions, warned>>
    BY <1>0, <1>13 DEF Ch!ApiLogin
  <2>. QED  BY <2>2, <2>3, <1>0, <1>1, ChSetTokens
<1>14. CASE Ch!ApiLoginKey(t)
  <2>1. CASE (\E a \in live : Ch!SetSession(Ch!S(t), a)) /\ req' = [req EXCEPT ![t].pc = "keyed"]
    <3>1. req'[t].pc = "keyed" /\ \A u \in Tab \ {t} : req'[u] = req[u]
      BY <2>1, <1>0 DEF Request
    <3>. QED  BY <2>1, <3>1, <1>0, <1>1, <1>3, ChSetTokens
  <2>2. CASE Ch!Say(t) /\ UNCHANGED <<sessions, warned>>
    BY <2>2, <1>0, <1>1, <1>7, ChSetTokens
  <2>. QED  BY <1>14, <2>1, <2>2 DEF Ch!ApiLoginKey
<1>15. CASE Ch!Rotate(t)
  <2>1. CASE sessions[req[t].sid] = None
    <3>1. req' = [req EXCEPT ![t] = Ch!NoReq] /\ sessions' = sessions
      BY <1>0, <1>15, <2>1 DEF Ch!Rotate, Ch!chatVars
    <3>2. NoNewTokens
      BY <1>0, <3>1 DEF NoNewTokens
    <3>. QED  BY <1>1, <1>6, <3>1, <3>2
  <2>2. CASE sessions[req[t].sid] # None
    <3>1. PICK n \in Sid \ minted :
            /\ sessions' = [sessions EXCEPT ![n] = sessions[req[t].sid], ![req[t].sid] = None]
            /\ Ch!Answer(t, n, req[t].says)
      BY <2>2, <1>0, <1>15 DEF Ch!Rotate
    <3>2. NoNewTokens
      BY <2>2, <3>1, <1>0 DEF NoNewTokens
    <3>3. req[t].says \in Account \cup {None, "same"}
      BY <1>0 DEF Request
    <3>. QED  BY <3>1, <3>2, <3>3, <1>1, <1>4
  <2>. QED  BY <2>1, <2>2
<1>16. ASSUME Ch!HandleText(t), ~Ch!BookPost(t) PROVE Grows /\ NoNewTokens /\ NonePosted
  <2>1. \/ Ch!TypedLogin(t) \/ Ch!TypedLogout(t) \/ Ch!LogoutAll(t)
        \/ Ch!DeleteWarn(t) \/ Ch!DeleteConfirm(t)
        \/ Ch!BrowseExcept(t) \/ Ch!BrainTurn(t)
    BY <1>16 DEF Ch!HandleText
  <2>3. CASE Ch!BrainTurn(t) \/ Ch!BrowseExcept(t)
    <3>1. Ch!Say(t) /\ UNCHANGED <<sessions, warned>>
      BY <2>3, <1>16 DEF Ch!BrainTurn, Ch!BrowseExcept, Ch!Search, Ch!BoardReset, Ch!chatVars
    <3>. QED  BY <3>1, <1>1, <1>12
  <2>4. CASE Ch!DeleteWarn(t) \/ Ch!DeleteConfirm(t) \/ Ch!LogoutAll(t)
    BY <2>4, <1>10, <1>11
  <2>5. CASE Ch!TypedLogin(t) \/ Ch!TypedLogout(t)
    BY <2>5, <1>8, <1>9
  <2>. QED  BY <2>1, <2>3, <2>4, <2>5
<1>. QED  BY <1>9, <1>13, <1>14, <1>15, <1>16

(* The steps that move no session into or out of an account: a booking on  *)
(* its way stays where it is.                                              *)
PostedStays ==
    \A u \in Tab : req'[u].pc = "posted" =>
        /\ req[u].pc = "posted" /\ req'[u].posted = req[u].posted /\ req'[u].sid = req[u].sid
        /\ sessions'[req[u].sid] # None =>
              /\ sessions[req[u].sid] # None
              /\ sessions'[req[u].sid].acct = sessions[req[u].sid].acct
LEMMA ChPostedKept ==
    ASSUME ChTokens, Grows, NoNewTokens, PostedStays
    PROVE  ChTokens'
<1>1. Ch!CancelTokensFit'
  BY ChTokensKept DEF ChTokens
<1>2. ASSUME NEW u \in Tab, req'[u].pc = "posted"
      PROVE  /\ req'[u].posted \in DOMAIN bookings'
             /\ sessions'[req'[u].sid] # None =>
                   sessions'[req'[u].sid].acct = bookings'[req'[u].posted].by
  <2>1. /\ req[u].pc = "posted" /\ req'[u].posted = req[u].posted /\ req'[u].sid = req[u].sid
        /\ sessions'[req[u].sid] # None =>
              /\ sessions[req[u].sid] # None
              /\ sessions'[req[u].sid].acct = sessions[req[u].sid].acct
    BY <1>2 DEF PostedStays
  <2>2. /\ req[u].posted \in DOMAIN bookings
        /\ sessions[req[u].sid] # None =>
              sessions[req[u].sid].acct = bookings[req[u].posted].by
    BY <2>1 DEF ChTokens
  <2>. QED  BY <2>1, <2>2 DEF Grows
<1>. QED  BY <1>1, <1>2 DEF ChTokens

LEMMA ChTokensNext ==
    ASSUME Serialized, ChType, ChShown, ChTokens, Ch!Next
    PROVE  ChTokens'
<1>0. /\ sessions \in [Sid -> Ch!SessionType \cup {None}] /\ req \in [Tab -> Request]
      /\ \A t \in Tab : req[t].pc \notin {"idle", "answered"} => req[t].sid \in Sid
      /\ DOMAIN bookings = 1..Len(bookings) /\ Len(bookings) \in Nat
  BY LenProperties DEF ChType
<1>1. ASSUME NEW t \in Tab,
             \/ Ch!HandleText(t) /\ ~Ch!BookPost(t)
             \/ Ch!ApiLogin(t) \/ Ch!ApiLoginKey(t) \/ Ch!Rotate(t)
             \/ Ch!ApiLogout(t) \/ Ch!ApiReset(t)
      PROVE  ChTokens'
  BY <1>1, ChLockedTokens, ChPostedKept DEF PostedStays, NonePosted
<1>2. ASSUME NEW t \in Tab, Ch!HandleText(t), Ch!BookPost(t) PROVE ChTokens'
  <2>1. req[t].sid \in Sid /\ req[t].pc = "sent"
    BY <1>0, <1>2 DEF Ch!HandleText, Ch!At
  <2>2. PICK pc \in {"posted", "answered"}, i \in Item :
               /\ Turned(t, pc, req[t].sid, "same")
               /\ bookings' = Append(bookings, [by |-> sessions[req[t].sid].acct, item |-> i,
                                               asked |-> i, active |-> TRUE])
               /\ req'[t].posted = Len(bookings) + 1 /\ sessions' = sessions
    BY <2>1, <1>2, ChBookPost
  <2>3. \A u \in Tab \ {t} : req[u].pc # "posted"
    BY <2>1, <1>2, ChLocked
  <2> DEFINE b == [by |-> sessions[req[t].sid].acct, item |-> i, asked |-> i, active |-> TRUE]
  <2>4. b.by = sessions[req[t].sid].acct /\ bookings' = Append(bookings, b)
    BY <2>2
  <2> HIDE DEF b
  <2>5. /\ DOMAIN bookings' = 1..Len(bookings) + 1
        /\ bookings'[Len(bookings) + 1] = b
        /\ \A n \in 1..Len(bookings) : bookings'[n] = bookings[n]
    BY <2>4, <1>0, LenProperties DEF ChType
  <2>6. Len(bookings) + 1 \in DOMAIN bookings' /\ DOMAIN bookings \subseteq DOMAIN bookings'
    BY <2>5, <1>0
  <2>7. Grows
    BY <2>5, <2>6, <1>0 DEF Grows
  <2>8. NoNewTokens
    BY <2>2, <1>0 DEF NoNewTokens
  <2>9. Ch!CancelTokensFit'
    BY <2>7, <2>8, ChTokensKept DEF ChTokens
  <2>10. ASSUME NEW u \in Tab, req'[u].pc = "posted"
         PROVE  /\ req'[u].posted \in DOMAIN bookings'
                /\ sessions'[req'[u].sid] # None =>
                      sessions'[req'[u].sid].acct = bookings'[req'[u].posted].by
    <3>1. u = t
      BY <2>2, <2>3, <2>10 DEF Turned
    <3>2. req'[t].sid = req[t].sid
      BY <2>2 DEF Turned
    <3>. QED  BY <3>1, <3>2, <2>2, <2>4, <2>5, <2>6
  <2>. QED  BY <2>9, <2>10 DEF ChTokens
<1>3. ASSUME NEW t \in Tab, Ch!BookStore(t) PROVE ChTokens'
  <2>1. /\ req[t].pc = "posted" /\ req[t].sid \in Sid /\ Ch!S(t) = req[t].sid
        /\ bookings' = bookings /\ Ch!Answer(t, req[t].sid, "same")
        /\ sessions' = IF sessions[req[t].sid] = None THEN sessions
                       ELSE [sessions EXCEPT ![req[t].sid].cancels = @ \cup {req[t].posted}]
    BY <1>0, <1>3 DEF Ch!BookStore, Ch!At, Ch!S, Ch!hubVars
  <2>2. Turned(t, "answered", req[t].sid, "same")
    BY <2>1, ChAnswer
  <2>3. Grows
    BY <2>1 DEF Grows
  <2>4. CASE sessions[req[t].sid] = None
    <3>1. NoNewTokens /\ PostedStays
      BY <2>1, <2>2, <2>4, <1>0 DEF NoNewTokens, PostedStays, Turned
    <3>. QED  BY <2>3, <3>1, ChPostedKept
  <2>5. CASE sessions[req[t].sid] # None
    <3> DEFINE o == sessions[req[t].sid]
               z == [o EXCEPT !.cancels = o.cancels \cup {req[t].posted}]
    <3>1. z.acct = o.acct /\ z.cancels = o.cancels \cup {req[t].posted} /\ z \in Ch!SessionType
      <4>1. o \in Ch!SessionType /\ req[t].posted \in 1..MaxBookings
        BY <2>1, <2>5, <1>0, ChatAssumption DEF ChType, Request
      <4>. QED  BY <4>1 DEF Ch!SessionType
    <3>2. sessions' = [sessions EXCEPT ![req[t].sid] = z]
      BY <2>1, <2>5
    <3> HIDE DEF z
    <3>3. z # None /\ sessions'[req[t].sid] = z
          /\ \A s \in Sid \ {req[t].sid} : sessions'[s] = sessions[s]
      BY <3>1, <3>2, <2>1, <1>0, ChatAssumption
    <3>4. req[t].posted \in DOMAIN bookings /\ bookings[req[t].posted].by = o.acct
      BY <2>1, <2>5 DEF ChTokens
    <3>5. ASSUME NEW s \in Sid, sessions'[s] # None, NEW b \in sessions'[s].cancels
          PROVE  b \in DOMAIN bookings' /\ bookings'[b].by = sessions'[s].acct
      <4>1. CASE s = req[t].sid
        BY <4>1, <3>1, <3>3, <3>4, <3>5, <2>1, <2>5 DEF ChTokens, Ch!CancelTokensFit
      <4>2. CASE s # req[t].sid
        BY <4>2, <3>3, <3>5, <2>1 DEF ChTokens, Ch!CancelTokensFit
      <4>. QED  BY <4>1, <4>2
    <3>6. Ch!CancelTokensFit'
      BY <3>5 DEF Ch!CancelTokensFit
    <3>7. ASSUME NEW u \in Tab, req'[u].pc = "posted"
          PROVE  /\ req'[u].posted \in DOMAIN bookings'
                 /\ sessions'[req'[u].sid] # None =>
                       sessions'[req'[u].sid].acct = bookings'[req'[u].posted].by
      <4>1. u # t /\ req'[u] = req[u] /\ req[u].sid \in Sid
        BY <2>2, <3>7, <1>0 DEF Turned
      <4>2. /\ sessions'[req[u].sid] # None => sessions[req[u].sid] # None
            /\ sessions'[req[u].sid] # None => sessions'[req[u].sid].acct = sessions[req[u].sid].acct
        BY <4>1, <3>1, <3>3, <2>5
      <4>. QED  BY <4>1, <4>2, <3>7, <2>1 DEF ChTokens
    <3>. QED  BY <3>6, <3>7 DEF ChTokens
  <2>. QED  BY <2>4, <2>5
<1>4. ASSUME NEW t \in Tab, Ch!ReadBack(t) PROVE ChTokens'
  <2>1. /\ bookings' = bookings /\ sessions' = sessions
        /\ req'[t].pc # "posted" /\ \A u \in Tab \ {t} : req'[u] = req[u]
    BY <1>0, <1>4 DEF Ch!ReadBack, Ch!hubVars, Ch!chatVars, Ch!NoReq, Request
  <2>. QED  BY <2>1, <1>0, ChPostedKept DEF Grows, NoNewTokens, PostedStays
<1>5. ASSUME NEW t \in Tab, Ch!ApiCancel(t) PROVE ChTokens'
  <2>1. PICK b \in IF sessions[req[t].sid] = None THEN {} ELSE sessions[req[t].sid].cancels :
            /\ bookings' = [bookings EXCEPT ![b].active = FALSE]
            /\ \E heard \in BOOLEAN :
                  sessions' = IF heard /\ bookings[b].active
                              THEN [sessions EXCEPT ![req[t].sid].cancels = @ \ {b}] ELSE sessions
    BY <1>5 DEF Ch!ApiCancel, Ch!S
  <2>2. req[t].sid \in Sid /\ Ch!Answer(t, req[t].sid, "same")
    BY <1>0, <1>5 DEF Ch!ApiCancel, Ch!At, Ch!Say, Ch!S
  <2>3. Turned(t, "answered", req[t].sid, "same")
    BY <2>2, ChAnswer
  <2>4. Grows
    BY <2>1, ChInactive DEF Grows
  <2>5. \A s \in Sid : sessions'[s] # None =>
            /\ sessions[s] # None /\ sessions'[s].acct = sessions[s].acct
            /\ sessions'[s].cancels \subseteq sessions[s].cancels
    <3>1. CASE sessions' = sessions
      BY <3>1
    <3>2. CASE sessions' = [sessions EXCEPT ![req[t].sid].cancels = @ \ {b}]
      <4> DEFINE o == sessions[req[t].sid]
                 z == [o EXCEPT !.cancels = o.cancels \ {b}]
      <4>1. o # None /\ o \in Ch!SessionType
        BY <2>1, <2>2, <1>0
      <4>2. z.acct = o.acct /\ z.cancels = o.cancels \ {b}
        BY <4>1 DEF Ch!SessionType
      <4>3. sessions' = [sessions EXCEPT ![req[t].sid] = z]
        BY <3>2
      <4> HIDE DEF z
      <4>. QED  BY <4>1, <4>2, <4>3, <1>0
    <3>. QED  BY <2>1, <3>1, <3>2
  <2>6. NoNewTokens
    BY <2>5 DEF NoNewTokens
  <2>7. PostedStays
    BY <2>3, <2>5, <1>0 DEF PostedStays, Turned
  <2>. QED  BY <2>4, <2>6, <2>7, ChPostedKept
<1>6. ASSUME NEW t \in Tab, NEW k \in Ch!Kinds, Ch!Send(t, k) PROVE ChTokens'
  <2>1. /\ bookings' = bookings /\ sessions' = sessions /\ req'[t].pc = "sent"
        /\ \A u \in Tab \ {t} : /\ req'[u].pc = req[u].pc /\ req'[u].sid = req[u].sid
                                /\ req'[u].posted = req[u].posted
    BY <1>6, ChSendIs
  <2>2. PostedStays
    BY <2>1 DEF PostedStays
  <2>. QED  BY <2>1, <2>2, ChPostedKept DEF Grows, NoNewTokens
<1>7. ASSUME NEW t \in Tab, Ch!Deliver(t) PROVE ChTokens'
  <2>1. /\ bookings' = bookings /\ sessions' = sessions /\ req'[t].pc = "idle"
        /\ \A u \in Tab \ {t} : req'[u] = req[u]
    BY <1>7, ChDeliverIs
  <2>. QED  BY <2>1, ChPostedKept DEF Grows, NoNewTokens, PostedStays
<1>8. ASSUME NEW s \in Sid, Ch!Forget(s) PROVE ChTokens'
  <2>1. /\ bookings' = bookings
        /\ sessions' = sessions \/ sessions' = [sessions EXCEPT ![s] = None]
        /\ \A u \in Tab : /\ req'[u].pc = req[u].pc /\ req'[u].sid = req[u].sid
                          /\ req'[u].posted = req[u].posted
    BY <1>8, ChForgetIs
  <2>2. PostedStays
    BY <2>1, <1>0 DEF PostedStays
  <2>3. NoNewTokens
    BY <2>1, <1>0 DEF NoNewTokens
  <2>. QED  BY <2>1, <2>2, <2>3, ChPostedKept DEF Grows
<1>9. CASE Confirms
  <2>1. Grows /\ UNCHANGED <<sessions, req>>
    BY <1>9, ChConfirms DEF Grows
  <2>. QED  BY <2>1, ChPostedKept DEF NoNewTokens, PostedStays
<1>. QED
  BY <1>1, <1>2, <1>3, <1>4, <1>5, <1>6, <1>7, <1>8, <1>9 DEF Ch!Next, Confirms

(***************************************************************************)
(* The theorems about the chat.                                            *)
(***************************************************************************)
LEMMA ChQuiet == UNCHANGED Ch!vars => (ChInv => ChInv') /\ (ChTokens => ChTokens')
<1> SUFFICES ASSUME UNCHANGED Ch!vars PROVE (ChInv => ChInv') /\ (ChTokens => ChTokens')
  OBVIOUS
<1>1. UNCHANGED <<live, bookings, sessions, stash, cookie, minted, req, shown, warned, told>>
  BY DEF Ch!vars, Ch!hubVars, Ch!chatVars
<1>2. ChType => ChType'
  BY <1>1 DEF ChType
<1>3. ChShown => ChShown'
  BY <1>1 DEF ChShown, Ch!BookedAsShown
<1>4. ChWarned => ChWarned'
  BY <1>1 DEF ChWarned
<1>5. (ChAlone => ChAlone') /\ (ChSays => ChSays')
  BY <1>1 DEF ChAlone, ChSays, Holds
<1>6. ChTold => ChTold'
  BY <1>1 DEF ChTold, Holds, Telling
<1>7. ChTokens => ChTokens'
  BY <1>1 DEF ChTokens, Ch!CancelTokensFit
<1>. QED  BY <1>2, <1>3, <1>4, <1>5, <1>6, <1>7 DEF ChInv

LEMMA ChStep == ChInv /\ [Ch!Next]_(Ch!vars) => ChInv'
<1>1. ChInv /\ Ch!Next => ChInv'
  BY ChTypeNext, ChShownNext, ChWarnedNext, ChAloneNext, ChSaysNext, ChToldNext DEF ChInv
<1>. QED  BY <1>1, ChQuiet

(* What a step of the front ends is to the chat.                           *)
LEMMA ChView == /\ WebInit => Ch!Init
                /\ [WebNext]_webVars => [Ch!Next]_(Ch!vars)
<1>1. UNCHANGED chatVars => UNCHANGED Ch!vars
  BY DEF chatVars, Ch!vars, Ch!hubVars, Ch!chatVars
<1>. QED  BY <1>1 DEF WebInit, WebNext, webVars

THEOREM ChInvariance == WebSpec => []ChInv
<1>1. WebInit => ChInv
  BY ChView, ChInit
<1>2. ChInv /\ [WebNext]_webVars => ChInv'
  BY ChView, ChStep
<1>. QED  BY <1>1, <1>2, PTL DEF WebSpec

(* A number books the listing that was shown at it, through logins that    *)
(* move the sender to a fresh sid, resets, evictions and empty searches.   *)
THEOREM NumbersBookWhatWasShown == WebSpec => []BookedAsShown
<1>1. ChInv => BookedAsShown
  BY DEF ChInv, ChShown, BookedAsShown
<1>. QED  BY <1>1, ChInvariance, PTL

(* With BRAIN_LOCK, a session's cancel tokens are those of bookings its    *)
(* own account made, whatever logged in while the hub was booking.         *)
THEOREM CancelTokensAreOwn == ASSUME Serialized PROVE WebSpec => []CancelTokensFit
<1>1. WebInit => ChTokens
  BY ChView, ChInit
<1>2. ChInv /\ ChTokens /\ [WebNext]_webVars => ChTokens'
  <2>1. ChInv /\ ChTokens /\ Ch!Next => ChTokens'
    BY ChTokensNext DEF ChInv
  <2>. QED  BY <2>1, ChView, ChQuiet
<1>3. ChTokens => CancelTokensFit
  BY DEF ChTokens, CancelTokensFit
<1>. QED  BY <1>1, <1>2, <1>3, ChInvariance, PTL DEF WebSpec

(* With no request in flight, the browser acts as the account it was last  *)
(* told it acts as (ChTold: until then a reply that will tell it is on its *)
(* way).                                                                   *)
THEOREM BrowserActsAsTold == WebSpec => []ToldIsActing
<1>1. ChInv => ToldIsActing
  <2> SUFFICES ASSUME ChInv, told # None, Ch!InFlight = {}
               PROVE  cookie # None /\ sessions[cookie] # None /\ sessions[cookie].acct = told
    BY DEF ToldIsActing, Ch!ToldIsActing
  <2>1. \A t \in Tab : ~Telling(t)
    BY DEF Telling, Ch!InFlight
  <2>2. Holds(cookie, told)
    BY <2>1 DEF ChInv, ChTold
  <2>. QED  BY <2>2, ChatAssumption DEF Holds
<1>. QED  BY <1>1, ChInvariance, PTL

(* Only DeleteConfirm erases an account, and only the one its session was  *)
(* warned about.                                                           *)
Erases == \A a \in live \ live' :
              \E s \in Sid : /\ warned[s] = a
                             /\ sessions[s] # None /\ sessions[s].acct = a
                             /\ sessions'[s] = None
LEMMA ChErases == ChInv /\ Ch!Next => Erases
<1> SUFFICES ASSUME ChInv, Ch!Next, NEW a \in live \ live'
             PROVE  \E s \in Sid : /\ warned[s] = a
                                   /\ sessions[s] # None /\ sessions[s].acct = a
                                   /\ sessions'[s] = None
  BY DEF Erases
<1>1. PICK t \in Tab : Ch!HandleText(t) /\ Ch!DeleteConfirm(t)
  <2>1. live' # live
    OBVIOUS
  <2>. QED
    BY <2>1 DEF Ch!Next, Ch!Send, Ch!Deliver, Ch!HandleText, Ch!BrainTurn, Ch!BookStore,
                Ch!ApiLogin, Ch!ApiLoginKey, Ch!ReadBack, Ch!Rotate, Ch!ApiLogout, Ch!ApiReset,
                Ch!ApiCancel, Ch!OwnerConfirms, Ch!Forget, Ch!TypedLogin, Ch!TypedLogout,
                Ch!LogoutAll, Ch!DeleteWarn, Ch!BrowseExcept, Ch!Search, Ch!BoardReset,
                Ch!BookPost, Ch!hubVars
<1>2. req[t].sid \in Sid /\ Ch!S(t) = req[t].sid
  BY <1>1 DEF ChInv, ChType, Ch!HandleText, Ch!At, Ch!S
<1> DEFINE s == req[t].sid
<1>3. /\ sessions[s] # None /\ sessions[s].pend # None /\ sessions[s].pend = sessions[s].acct
      /\ live' = live \ {sessions[s].acct} /\ Ch!DropSession(s)
  BY <1>1, <1>2 DEF Ch!DeleteConfirm
<1>4. a = sessions[s].acct /\ warned[s] = a
  BY <1>2, <1>3 DEF ChInv, ChWarned
<1>5. sessions'[s] = None
  BY <1>2, <1>3 DEF Ch!DropSession, ChInv, ChType
<1>. QED  BY <1>2, <1>3, <1>4, <1>5

(* An account is erased only by a session that was warned about that very  *)
(* account and has not logged in anew since (_delete_account).             *)
THEOREM ErasureWasAnnounced == WebSpec => ErasedAsWarned
<1>1. ChInv /\ [WebNext]_webVars => [Erases]_(Ch!vars)
  BY ChView, ChErases
<1>2. WebSpec => [][Erases]_(Ch!vars)
  BY <1>1, ChInvariance, PTL DEF WebSpec
<1>. QED  BY <1>2 DEF Erases, ErasedAsWarned, Ch!ErasedAsWarned
=============================================================================
