--------------------------------- MODULE X402 ---------------------------------
(***************************************************************************)
(* Payments by x402 (everlist/x402verify.py, x402facilitate.py, and GET     *)
(* /premium/events of app.py in testnet mode with settlement on): a signed  *)
(* authorization is verified, its nonce recorded, and the facilitator asked *)
(* to settle it.  Verification runs without LOCK, in steps: the clock, a    *)
(* first look at the nonces, the recovery of the signature, a second look   *)
(* that records the nonce.  The rest holds LOCK, the call of the            *)
(* facilitator included.                                                    *)
(***************************************************************************)
EXTENDS Integers, FiniteSets

CONSTANTS
    Authorization,  \* what a payer signed; each has a nonce of its own
    Spelling,    \* ways to write a nonce's hex digits
    Thread,      \* requests in flight
    Free,        \* LOCK is free
    MaxServed    \* bound on what is counted per payment

(* What comes in is an authorization and a spelling of its nonce.  The signature
   covers the 32 bytes, whatever letters spell them; nonce registry and
   fingerprint are keyed by the string.                                    *)
Payment == Authorization \X Spelling
SpellingsOf(a) == {p \in Payment : p[1] = a}

ASSUME X402Assumption ==
    /\ Free \notin Thread
    /\ MaxServed \in Nat

VARIABLES
    used,      \* _USED_NONCES
    status,    \* SETTLEMENTS: the recorded outcome of each payment
    entries,   \* how many x402_settlement entries LEDGER has for each payment
    disk,      \* the last snapshot
    lock,      \* who holds LOCK
    thread,    \* the request threads
    expired,   \* payments past validBefore + skew (external)
    late,      \* for the record: those that expired while a request had them
    onChain,   \* payments the facilitator has settled (external)
    asked,     \* for the record: calls of the facilitator
    served     \* for the record: answers 200

vars == <<used, status, entries, disk, lock, thread, expired, late, onChain, asked,
          served>>
world == <<expired, late, onChain, asked>>

Idle == [pc |-> "idle"]
Statuses == {"none", "settled", "unknown", "failed"}

(* snapshot_used_nonces prunes before it copies.                           *)
Pruned(S) == S \ expired

Init ==
    /\ used = {}
    /\ status = [p \in Payment |-> "none"]
    /\ entries = [p \in Payment |-> 0]
    /\ disk = [used |-> used, status |-> status, entries |-> entries]
    /\ lock = Free
    /\ thread = [t \in Thread |-> Idle]
    /\ expired = {}
    /\ late = {}
    /\ onChain = {}
    /\ asked = [p \in Payment |-> 0]
    /\ served = [p \in Payment |-> 0]

At(t, pc) == thread[t].pc = pc
Goto(t, pc) == thread' = [thread EXCEPT ![t].pc = pc]
Drop(t) == thread' = [thread EXCEPT ![t] = Idle]
Pay(t) == thread[t].p
Busy == {t \in Thread : ~At(t, "idle")}

-----------------------------------------------------------------------------
(* verify_payment.                                                         *)

(* The validity window.                                                    *)
CheckWindow(t, p) ==
    /\ At(t, "idle")
    /\ p \notin expired
    /\ thread' = [thread EXCEPT ![t] = [pc |-> "window", p |-> p]]
    /\ UNCHANGED <<used, status, entries, disk, lock, world, served>>

(* The first look at the nonces, which prunes; the clock may have moved on. *)
FirstLook(t) ==
    /\ At(t, "window")
    /\ used' = Pruned(used)
    /\ Pay(t) \notin used'
    /\ Goto(t, "recover")
    /\ UNCHANGED <<status, entries, disk, lock, world, served>>

(* Mutant: the double check is missing.                                    *)
SecondLookMissing(t) ==
    /\ At(t, "recover")
    /\ used' = used \cup {Pay(t)}
    /\ Goto(t, "verified")
    /\ UNCHANGED <<status, entries, disk, lock, world, served>>

(* The signature is good; "double-check under lock", then record the nonce. *)
SecondLook(t) ==
    /\ At(t, "recover")
    /\ Pay(t) \notin used
    /\ used' = used \cup {Pay(t)}
    /\ Goto(t, "verified")
    /\ UNCHANGED <<status, entries, disk, lock, world, served>>

(* A look finds the nonce: 402, "replayed payment".                        *)
Replayed(t) ==
    /\ \/ At(t, "window") /\ used' = Pruned(used)
       \/ At(t, "recover") /\ used' = used
    /\ Pay(t) \in used'
    /\ Drop(t)
    /\ UNCHANGED <<status, entries, disk, lock, world, served>>

(* The signature is not the payer's: 402, and the nonce stays free.        *)
BadSignature(t) ==
    /\ At(t, "recover")
    /\ Drop(t)
    /\ UNCHANGED <<used, status, entries, disk, lock, world, served>>

-----------------------------------------------------------------------------
(* The handler of /premium/events, under LOCK.                             *)

Persist == disk' = [used |-> Pruned(used), status |-> status', entries |-> entries']

(* Mutant: the nonce is not persisted before the facilitator is called.    *)
EnterUnwritten(t) ==
    /\ At(t, "verified")
    /\ lock = Free
    /\ lock' = t
    /\ Goto(t, "settle")
    /\ UNCHANGED <<used, status, entries, disk, world, served>>

(* Take LOCK and persist the nonce at once.                                *)
Enter(t) ==
    /\ At(t, "verified")
    /\ lock = Free
    /\ lock' = t
    /\ used' = Pruned(used)
    /\ Goto(t, "settle")
    /\ UNCHANGED <<status, entries, world, served>>
    /\ Persist

(* The authorization of p is on the chain, in whatever spelling it got there. *)
OnChain(p) == \E q \in onChain : q[1] = p[1]

(* SettlementRegistry.settle asks the facilitator only if nothing is recorded
   for the fingerprint.  The payment settles on the chain or not, and the chain
   takes an authorization once; the answer arrives later, or never.        *)
Ask(t) ==
    /\ At(t, "settle")
    /\ status[Pay(t)] = "none"
    /\ asked' = [asked EXCEPT ![Pay(t)] = @ + 1]
    /\ \/ onChain' = onChain
       \/ ~OnChain(Pay(t)) /\ onChain' = onChain \cup {Pay(t)}
    /\ Goto(t, "asked")
    /\ UNCHANGED <<used, status, entries, disk, lock, expired, late, served>>

(* The facilitator reports a success only with a transaction of the
   authorization, and a 4xx only for a call it did not settle; a timeout or a
   5xx may mean either.                                                    *)
MayReport(p, s) ==
    \/ s = "unknown"
    \/ s = "settled" /\ OnChain(p)
    \/ s = "failed" /\ p \notin onChain

(* Mutant: a timeout counts as settled.                                    *)
OutcomesHopeful(p) == {s \in {"settled", "failed"} : s = "settled" \/ MayReport(p, s)}

Outcomes(p) == {s \in Statuses : MayReport(p, s)}

Finish(t) ==
    /\ entries' = IF status'[Pay(t)] = "settled"
                  THEN [entries EXCEPT ![Pay(t)] = @ + 1] ELSE entries
    /\ served[Pay(t)] < MaxServed
    /\ served' = [served EXCEPT ![Pay(t)] = @ + 1]
    /\ lock' = Free
    /\ Drop(t)
    /\ used' = Pruned(used)
    /\ Persist

(* Record the outcome and the ledger entry, persist both, answer 200.      *)
Record(t) ==
    /\ At(t, "asked")
    /\ \E s \in Outcomes(Pay(t)) : status' = [status EXCEPT ![Pay(t)] = s]
    /\ Finish(t)
    /\ UNCHANGED world

(* A recorded outcome is used again, and appended to the ledger again.     *)
Reuse(t) ==
    /\ At(t, "settle")
    /\ status[Pay(t)] # "none"
    /\ status' = status
    /\ Finish(t)
    /\ UNCHANGED world

-----------------------------------------------------------------------------
(* validBefore + skew passes.                                              *)
Expire(a) ==
    /\ expired' = expired \cup SpellingsOf(a)
    /\ late' = late \cup (SpellingsOf(a) \cap {Pay(t) : t \in Busy})
    /\ UNCHANGED <<used, status, entries, disk, lock, thread, onChain, asked, served>>

(* Another handler persists a change of its own.                           *)
OtherPersist ==
    /\ lock = Free
    /\ used' = Pruned(used)
    /\ UNCHANGED <<status, entries, lock, thread, world, served>>
    /\ Persist

(* The process dies and reads its snapshot back.                           *)
Restart ==
    /\ used' = disk.used
    /\ status' = disk.status
    /\ entries' = disk.entries
    /\ lock' = Free
    /\ thread' = [t \in Thread |-> Idle]
    /\ UNCHANGED <<disk, world, served>>

Next ==
    \/ \E t \in Thread : \/ FirstLook(t) \/ SecondLook(t) \/ Replayed(t)
                         \/ BadSignature(t) \/ Enter(t) \/ Ask(t) \/ Record(t) \/ Reuse(t)
                         \/ \E p \in Payment : CheckWindow(t, p)
    \/ \E a \in Authorization : Expire(a)
    \/ OtherPersist
    \/ Restart

Spec == Init /\ [][Next]_vars

-----------------------------------------------------------------------------
(* Properties.                                                             *)

(* LOCK is held by the one thread in the settlement section.               *)
TypeOK ==
    /\ used \subseteq Payment
    /\ status \in [Payment -> Statuses]
    /\ \A t \in Thread : thread[t].pc \in {"settle", "asked"} <=> lock = t
    /\ disk.used \subseteq Payment /\ disk.status \in [Payment -> Statuses]

(* "settles AT MOST once" (x402facilitate.py): the facilitator is asked at most
   once for a fingerprint, whatever crashes or expires between the steps.  Two
   spellings of an authorization have two fingerprints; and when the hub died
   between asking and recording, and the payment expired while a later request
   was verifying it, neither nonce nor record is left to refuse it.        *)
AskedOnce == \A p \in Payment \ late : asked[p] <= 1

(* reconcile: what the registry records as settled is in the ledger, in memory
   and on disk, and its authorization is on the chain ("NEVER claim settled
   without tx proof").                                                     *)
Reconciled ==
    \A p \in Payment :
        /\ status[p] = "settled" <=> entries[p] > 0
        /\ disk.status[p] = "settled" <=> disk.entries[p] > 0
        /\ status[p] = "settled" => OnChain(p)

(* One payment, as it was spelled, buys one answer ("replayed payment"), through
   racing requests and crashes, unless it expired while a request was verifying
   it: pruned before a look, its nonce is forgotten.                       *)
ServedOnce == \A p \in Payment \ late : served[p] <= 1
=============================================================================
