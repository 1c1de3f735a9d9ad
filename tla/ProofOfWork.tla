----------------------------- MODULE ProofOfWork -----------------------------
(***************************************************************************)
(* Proof-of-work challenges (everlist/app.py, _pow_issue and _pow_spend):   *)
(* issued to anybody, solved outside the hub, spent by signup and recovery. *)
(* Both functions run under LOCK and each is one action; the table is not   *)
(* persisted.                                                              *)
(***************************************************************************)
EXTENDS Integers, FiniteSets

CONSTANTS
    Kind,         \* what a challenge is for: signup, recover
    PowCap,       \* POW_CAP
    MaxIssued,    \* bound on the challenges issued; they are random, never reused
    MaxAccepted,  \* bound on how often one challenge is counted as accepted
    MaxRestarts   \* bound on restarts

VARIABLES
    table,     \* POW_CHALLENGES: for the challenges in it, kind and "used"
    expired,   \* challenges older than ten minutes (external)
    solved,    \* challenges whose solution somebody has found (external)
    issued,    \* for the record: how many were issued
    accepted,  \* for the record: how often each was accepted
    restarts

vars == <<table, expired, solved, issued, accepted, restarts>>

Challenge == 1..MaxIssued
Issued == 1..issued
Stored == DOMAIN table
Keep(S) == [c \in S |-> table[c]]

Init ==
    /\ table = <<>>
    /\ expired = {}
    /\ solved = {}
    /\ issued = 0
    /\ accepted = [c \in Challenge |-> 0]
    /\ restarts = 0

(* Mutant: a full table loses its oldest challenges.                       *)
PruneOldest(T) ==
    {c \in T : Cardinality(T) > PowCap => \E d \in T : d < c}

(* A table that grew past its cap loses expired challenges, the oldest first
   and at most half of the table; the others stay, however many they are.  *)
Prune(T) ==
    LET half == Cardinality(T) \div 2
        doomed == {c \in T \cap expired : Cardinality({d \in T \cap expired : d < c}) < half}
    IN  IF Cardinality(T) > PowCap THEN T \ doomed ELSE T

(* GET /auth/challenge?kind=signup or recover.                             *)
Issue(k) ==
    LET c == issued + 1
        grown == [d \in Stored \cup {c} |->
                    IF d = c THEN [kind |-> k, used |-> FALSE] ELSE table[d]] IN
    /\ c \in Challenge
    /\ issued' = c
    /\ table' = [d \in Prune(Stored \cup {c}) |-> grown[d]]
    /\ UNCHANGED <<expired, solved, accepted, restarts>>

(* _pow_spend(k, {challenge: c, nonce}).  The mark is taken off a used challenge
   when it is looked at, an expired one is dropped, work that does not suffice
   changes nothing.                                                        *)
Spend(k, c) ==
    /\ c \in Stored
    /\ table[c].kind = k
    /\ \/ /\ table[c].used
          /\ table' = [table EXCEPT ![c].used = FALSE]
          /\ UNCHANGED accepted
       \/ /\ ~table[c].used /\ c \in expired
          /\ table' = Keep(Stored \ {c})
          /\ UNCHANGED accepted
       \/ /\ ~table[c].used /\ c \notin expired /\ c \in solved
          /\ accepted[c] < MaxAccepted
          /\ table' = [table EXCEPT ![c].used = TRUE]
          /\ accepted' = [accepted EXCEPT ![c] = @ + 1]
    /\ UNCHANGED <<expired, solved, issued, restarts>>

Solve(c) ==
    /\ c \in Issued \ solved
    /\ solved' = solved \cup {c}
    /\ UNCHANGED <<table, expired, issued, accepted, restarts>>

Expire(c) ==
    /\ c \in Issued \ expired
    /\ expired' = expired \cup {c}
    /\ UNCHANGED <<table, solved, issued, accepted, restarts>>

Restart ==
    /\ restarts < MaxRestarts
    /\ restarts' = restarts + 1
    /\ table' = <<>>
    /\ UNCHANGED <<expired, solved, issued, accepted>>

Next ==
    \/ \E k \in Kind : Issue(k) \/ \E c \in Challenge : Spend(k, c)
    \/ \E c \in Challenge : Solve(c) \/ Expire(c)
    \/ Restart

Spec == Init /\ [][Next]_vars

-----------------------------------------------------------------------------
(* Properties.                                                             *)

(* The table holds issued challenges, and a mark means an acceptance.      *)
TypeOK ==
    /\ Stored \subseteq Issued
    /\ \A c \in Stored : table[c].kind \in Kind /\ (table[c].used => accepted[c] > 0)
    /\ expired \cup solved \subseteq Issued

(* Work is not lost, to a full table, to an attempt with a wrong solution or
   to one of the wrong kind: until the hub restarts, a challenge that was not
   accepted and has not expired can still be spent.                        *)
WorkNotLost ==
    restarts = 0 => \A c \in Issued : accepted[c] = 0 /\ c \notin expired
                                     => c \in Stored /\ ~table[c].used
=============================================================================
