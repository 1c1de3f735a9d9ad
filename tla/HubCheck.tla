------------------------------ MODULE HubCheck ------------------------------
(***************************************************************************)
(* check_hub.py against a hub that runs app.py: the checker's requests one *)
(* by one, while the hub books, settles, restarts with another fee or goes *)
(* dark.  GET /ledger sums the totals with the lock and writes the list    *)
(* out after it.  A hub may also cheat: the model says how, the checker    *)
(* has to find out.  Amounts are cents, the fee a hundredth of a percent.  *)
(***************************************************************************)
EXTENDS Integers, Sequences, FiniteSets, Functions

CONSTANTS
    Price,          \* cents of a booking
    Pct,            \* fees the operator may declare
    MaxEntries,     \* bound: ledger entries
    MaxRestarts     \* bound: restarts with another fee

VARIABLES
    dark,           \* where the checker was when the hub went dark, or "none"
    pct,            \* FEE_PCT
    cheat,          \* what the hub does to its ledger
    ledger, totals, \* LEDGER, and the sums of the answer being written
    served,         \* the list the checker got
    pc, declared,   \* where the checker is, and the fee it read
    verdict,
    raced,          \* the ledger changed under an answer, or the limiter cut one off
    restarts

hubCheckVars == <<dark, pct, cheat, ledger, totals, served, pc, declared, verdict, raced,
                  restarts>>

(* The hub serves.                                                         *)
up == dark = "none"

Cheats == {"none", "fee", "skim", "waive", "hide"}
Escrow == {"HELD", "RELEASED", "REFUNDED", "WAIVED", "DIRECT"}
Verdict == {"none", "CONFORMANT", "NON-CONFORMANT", "INSUFFICIENT-EVIDENCE", "UNREACHABLE"}
Mirror == [kind |-> "escrow_sync", escrow |-> "none", amount |-> 0, fee |-> 0, payout |-> 0]

TypeOK ==
    /\ raced \in BOOLEAN
    /\ dark \in {"none", "manifest", "totals", "list", "challenge", "sync"}
    /\ pct \in Pct /\ declared \in Pct \cup {0}
    /\ cheat \in Cheats /\ verdict \in Verdict
    /\ \A n \in DOMAIN ledger : /\ ledger[n].kind \in {"booking", "escrow_sync"}
                                /\ ledger[n].escrow \in Escrow \cup {"none"}
                                /\ {ledger[n].amount, ledger[n].payout} \subseteq Int
    /\ pc \in {"manifest", "totals", "list", "challenge", "sync", "done"}

Init ==
    /\ dark = "none" /\ pct \in Pct /\ cheat \in Cheats
    /\ ledger = <<>> /\ served = <<>> /\ totals = [volume |-> 0, fees |-> 0]
    /\ pc = "manifest" /\ declared = 0 /\ verdict = "none"
    /\ raced = FALSE /\ restarts = 0

(***************************************************************************)
(* The hub.                                                                *)
(***************************************************************************)
(* hub_fee_c: whole cents, rounded down.                                   *)
hub_fee_c(price) == (price * pct) \div 10000

(* POST /book: a free listing waives, an instant one settles at booking.   *)
Rail(price) == IF price = 0 THEN {"WAIVED"} ELSE {"HELD", "DIRECT"}
Entry(price, rail) ==
    LET fee == hub_fee_c(price) + (IF cheat = "fee" THEN 3 ELSE 0) IN
    [kind |-> "booking", escrow |-> IF cheat = "waive" THEN "WAIVED" ELSE rail,
     amount |-> price, fee |-> fee,
     payout |-> price - fee - (IF cheat = "skim" THEN 3 ELSE 0)]

(* Whatever changes the ledger while an answer is being written shows in   *)
(* its list and not in its totals.  After the verdict nothing matters.     *)
Writing(change) ==
    /\ up /\ pc # "done" /\ change
    /\ raced' = (raced \/ pc = "list")
    /\ UNCHANGED <<dark, pct, cheat, totals, served, pc, declared, verdict, restarts>>

Book ==
    \E price \in Price : \E rail \in Rail(price) :
        Writing(/\ Len(ledger) < MaxEntries
                /\ ledger' = Append(ledger, Entry(price, rail)))

(* confirm and cancel write the new state into the booking's own entry.    *)
Settle ==
    \E n \in DOMAIN ledger, to \in {"RELEASED", "REFUNDED"} :
        Writing(/\ ledger[n].escrow \in {"HELD", "WAIVED"} /\ cheat # "waive"
                /\ ledger' = [ledger EXCEPT ![n].escrow = to])

(* sync-escrow and x402 append entries of their own, without an amount.    *)
Mirrored ==
    Writing(Len(ledger) < MaxEntries /\ ledger' = Append(ledger, Mirror))

Reprice ==
    /\ up /\ pc # "done" /\ restarts < MaxRestarts /\ restarts' = restarts + 1
    /\ pct' \in Pct \ {pct}
    /\ UNCHANGED <<dark, cheat, ledger, totals, served, pc, declared, verdict, raced>>

GoDark ==
    /\ up /\ pc # "done" /\ dark' = pc
    /\ UNCHANGED <<pct, cheat, ledger, totals, served, pc, declared, verdict, raced,
                   restarts>>

(***************************************************************************)
(* The checker.                                                            *)
(***************************************************************************)
Bookings(list) == {n \in DOMAIN list : list[n].kind = "booking"}
Volume(list) == SumFunctionOnSet([n \in DOMAIN list |-> list[n].amount], Bookings(list))
Fees(list)   == SumFunctionOnSet([n \in DOMAIN list |-> list[n].fee], Bookings(list))
Abs(x) == IF x < 0 THEN -x ELSE x

(* TOL = 0.011: one cent passes, two do not. *)
Off(x, y) == Abs(x - y) > 1
Round(x) == (x + 5000) \div 10000

(* Mutant: the settled states are forgotten in C4.                         *)
UnknownStateEarly(e) == e.escrow \notin {"HELD", "WAIVED"}
(* C2 and C3, C4, C4b and C5. *)
BadArithmetic(e) == Off(e.fee + e.payout, e.amount)
BadFee(e) == Off(e.fee, Round(e.amount * declared))
UnknownState(e) == e.escrow \notin {"HELD", "RELEASED", "REFUNDED", "WAIVED"}
WaivedPaid(e) == e.escrow = "WAIVED" /\ e.amount # 0
BadTotals(list) == Off(totals.volume, Volume(list)) \/ Off(totals.fees, Fees(list))
Inconsistent(list) ==
    \/ \E n \in Bookings(list) : \/ BadArithmetic(list[n]) \/ BadFee(list[n])
                                 \/ UnknownState(list[n]) \/ WaivedPaid(list[n])
    \/ BadTotals(list)

Conclude(v) ==
    /\ verdict' = v
    /\ UNCHANGED <<dark, pct, cheat, ledger, raced, restarts>>

(* C1: the manifest with the fee and the ledger's path. *)
Manifest ==
    /\ pc = "manifest"
    /\ IF up THEN pc' = "totals" /\ declared' = pct /\ Conclude("none")
       ELSE pc' = "done" /\ declared' = declared /\ Conclude("UNREACHABLE")
    /\ UNCHANGED <<totals, served>>

(* GET /ledger: the sums, in the lock; then the list as it is by then.     *)
Totals ==
    /\ pc = "totals"
    /\ IF up THEN /\ pc' = "list" /\ Conclude("none")
                  /\ totals' = [volume |-> Volume(ledger), fees |-> Fees(ledger)]
       ELSE pc' = "done" /\ totals' = totals /\ Conclude("UNREACHABLE")
    /\ UNCHANGED <<declared, served>>
List ==
    LET list == IF cheat = "hide" /\ ledger # <<>> THEN Tail(ledger) ELSE ledger IN
    /\ pc = "list"
    /\ IF ~up THEN pc' = "done" /\ served' = served /\ Conclude("UNREACHABLE")
       ELSE /\ served' = list
            /\ IF Bookings(list) = {} THEN pc' = "done" /\ Conclude("INSUFFICIENT-EVIDENCE")
               ELSE pc' = "challenge"
                    /\ Conclude(IF Inconsistent(list) THEN "NON-CONFORMANT" ELSE "CONFORMANT")
    /\ UNCHANGED <<declared, totals>>

(* C6: the manifest advertises accounts, so no challenge is a failure.     *)
Challenge ==
    /\ pc = "challenge" /\ pc' = "sync"
    /\ Conclude(IF up THEN verdict ELSE "NON-CONFORMANT")
    /\ UNCHANGED <<declared, totals, served>>

(* C7: sync-escrow answers 403 without the admin key, or 429 when the      *)
(* source has used up its admin requests; a dark hub is only a warning.    *)
Sync ==
    /\ pc = "sync" /\ pc' = "done"
    /\ \/ Conclude(verdict)
       \/ up /\ raced' = TRUE /\ verdict' = "NON-CONFORMANT"
             /\ UNCHANGED <<dark, pct, cheat, ledger, restarts>>
    /\ UNCHANGED <<declared, totals, served>>

Next ==
    \/ Book \/ Settle \/ Mirrored \/ Reprice \/ GoDark
    \/ Manifest \/ Totals \/ List \/ Challenge \/ Sync

Spec == Init /\ [][Next]_hubCheckVars

(* main: a gate sees only the exit code. *)
ExitCode(v) == CASE v = "NON-CONFORMANT" -> 1 [] v = "UNREACHABLE" -> 2 [] OTHER -> 0

(***************************************************************************)
(* Properties.                                                             *)
(***************************************************************************)
Instant == \E n \in DOMAIN ledger : ledger[n].escrow = "DIRECT"
Honest(e) ==
    /\ Abs(e.fee * 10000 - e.amount * declared) < 20000
    /\ Abs(e.fee + e.payout - e.amount) < 2
    /\ e.escrow = "WAIVED" => e.amount = 0

(* The requests whose failure means "dark target", C1 and the ledger.      *)
Early == {"manifest", "totals", "list"}

(* The verdict fits the hub that was looked at, whatever books, settles or *)
(* goes dark between the requests.  A hub that answers and does not cheat  *)
(* is not blamed; excepted are the instant rail (C4 does not know DIRECT), *)
(* a fee changed since the bookings, and a ledger or a limiter that moved  *)
(* under an answer.  A hub that is cleared charged every booking it showed *)
(* what it declared, to two cents, and showed all it counted.  A hub that  *)
(* goes dark before its ledger was read, and no other, exits 2, and one    *)
(* dark at the challenge exits 1 ("a dark trust anchor must never look     *)
(* green to gates"); one that goes dark later has only a warning (C7).     *)
VerdictFits ==
    pc = "done" =>
        /\ verdict = "NON-CONFORMANT" =>
              cheat # "none" \/ Instant \/ raced \/ restarts > 0 \/ dark = "challenge"
        /\ verdict = "CONFORMANT" =>
              /\ \A n \in Bookings(served) : Honest(served[n])
              /\ raced \/ Abs(totals.volume - Volume(served)) < 2
        /\ ExitCode(verdict) = 2 <=> dark \in Early
        /\ dark = "challenge" => ExitCode(verdict) = 1
        /\ verdict = "INSUFFICIENT-EVIDENCE" =>
              totals.volume = 0 \/ raced \/ cheat = "hide"
=============================================================================
