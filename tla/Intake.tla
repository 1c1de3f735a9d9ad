------------------------------- MODULE Intake -------------------------------
(***************************************************************************)
(* Listing by conversation, chatlib.py: the guided draft a bare 'list'     *)
(* starts (_INTAKE), the one-prompt path it ends in (_create_listing), the *)
(* private deal, and the per-sender slot count that edit and delete keep.  *)
(* A value is what the two validations tell apart: "ok" passes both, "odd" *)
(* is a price like '15 eur' or '15,50' that the guided step takes and      *)
(* float() does not, "bad" passes neither and only an edit can store it.   *)
(***************************************************************************)
EXTENDS Naturals, Sequences, FiniteSets

CONSTANTS
    Steps,          \* the guided order, a sequence of field names
    AnonCap,        \* _LIST_CAP
    AccountCap,     \* _ACCOUNT_CAP
    MaxListings     \* bound: listings the sender makes

VARIABLES
    draft,          \* the sender's entry in _INTAKE, or NoDraft
    account,        \* whether the sender is logged in
    count,          \* _list_counts[sender]
    listings,       \* what the hub holds, in the order it was made
    foreign         \* slots freed by deleting what was not made here

intakeVars == <<draft, account, count, listings, foreign>>

Field   == {Steps[i] : i \in DOMAIN Steps}
Value   == {"ok", "odd", "bad"}
NoDraft == [f \in Field |-> "nodraft"]
Blank   == [f \in Field |-> "none"]
Drafting == draft # NoDraft

TypeOK ==
    /\ draft \in [Field -> Value \cup {"none", "skip"}] \cup {NoDraft}
    /\ account \in BOOLEAN /\ count \in 0..AccountCap /\ foreign \in Nat
    /\ \A n \in DOMAIN listings : listings[n] \in
          [here : BOOLEAN, live : BOOLEAN, heard : BOOLEAN, price : Value \cup {"default"}]

Init ==
    /\ draft = NoDraft /\ account = FALSE /\ count = 0 /\ foreign = 0
    /\ listings = <<[here |-> FALSE, live |-> TRUE, heard |-> TRUE, price |-> "ok"]>>

(***************************************************************************)
(* Making a listing.                                                       *)
(***************************************************************************)
Cap == IF account THEN AccountCap ELSE AnonCap

(* The cap is read before the hub is asked and counted after its 201; the  *)
(* hub may refuse, be unreachable, or list and lose the answer.            *)
Post(price) ==
    \/ UNCHANGED <<listings, count>>
    \/ \E heard \in BOOLEAN :
          /\ count < Cap /\ Len(listings) <= MaxListings
          /\ price \in {"ok", "default"}
          /\ listings' = Append(listings, [here |-> TRUE, live |-> TRUE,
                                           heard |-> heard, price |-> price])
          /\ count' = IF heard THEN count + 1 ELSE count

OneShot ==
    /\ \E v \in Value : Post(v)
    /\ UNCHANGED <<draft, account, foreign>>
Deal ==
    /\ Post("ok")
    /\ UNCHANGED <<draft, account, foreign>>

(***************************************************************************)
(* The guided draft.                                                       *)
(***************************************************************************)
Open == {i \in DOMAIN Steps : draft[Steps[i]] = "none"}
Asked == Steps[CHOOSE i \in Open : \A j \in Open : i <= j]
Complete == Open = {}
Accepts(f, v) == CASE f = "price" -> v # "bad"
                   [] OTHER -> v = "ok"

Start ==
    /\ ~Drafting
    /\ draft' = Blank
    /\ UNCHANGED <<account, count, listings, foreign>>

(* An answer fills the step that is asked; 'skip' passes it. *)
FillStep ==
    /\ Drafting /\ ~Complete
    /\ \E v \in {w \in Value : Accepts(Asked, w)} \cup {"skip"} :
          draft' = [draft EXCEPT ![Asked] = v]
    /\ UNCHANGED <<account, count, listings, foreign>>

(* 'price: 20' stores what it is given, without the step's check. *)
EditField ==
    /\ Drafting
    /\ \E f \in Field, v \in Value : draft' = [draft EXCEPT ![f] = v]
    /\ UNCHANGED <<account, count, listings, foreign>>

Cancel ==
    /\ Drafting
    /\ draft' = NoDraft
    /\ UNCHANGED <<account, count, listings, foreign>>

(* The draft is gone before _create_listing judges it. *)
Publish ==
    /\ Drafting /\ draft["title"] \notin {"none", "skip"}
    /\ draft' = NoDraft
    /\ Post(IF draft["price"] \in Value THEN draft["price"] ELSE "default")
    /\ UNCHANGED <<account, foreign>>
Confirm == Publish
Yes     == Complete /\ Publish

(* 15 idle minutes, or the oldest tenth at the cap of 500 senders. *)
Idle ==
    /\ Drafting
    /\ draft' = NoDraft
    /\ UNCHANGED <<account, count, listings, foreign>>

(***************************************************************************)
(* Commands that break out of the draft.                                   *)
(***************************************************************************)
(* Mutant: the slot is freed before the hub is asked.                      *)
DeleteEarly ==
    /\ \E n \in DOMAIN listings :
          /\ listings[n].live
          /\ count' = IF count = 0 THEN 0 ELSE count - 1
          /\ \/ UNCHANGED <<listings, foreign>>
             \/ /\ listings' = [listings EXCEPT ![n].live = FALSE]
                /\ foreign' = IF listings[n].here /\ listings[n].heard THEN foreign
                              ELSE foreign + 1
    /\ UNCHANGED <<draft, account>>
(* A delete the hub answers with 200 frees a slot of this sender, whoever  *)
(* made the listing; any other answer changes nothing.                     *)
Delete ==
    /\ \E n \in DOMAIN listings :
          /\ listings[n].live
          /\ \/ UNCHANGED <<listings, count, foreign>>
             \/ /\ listings' = [listings EXCEPT ![n].live = FALSE]
                /\ count' = IF count = 0 THEN 0 ELSE count - 1
                /\ foreign' = IF listings[n].here /\ listings[n].heard THEN foreign
                              ELSE foreign + 1
    /\ UNCHANGED <<draft, account>>

Login  == account' = TRUE  /\ UNCHANGED <<draft, count, listings, foreign>>
Logout == account' = FALSE /\ UNCHANGED <<draft, count, listings, foreign>>

Next ==
    \/ Start \/ FillStep \/ EditField \/ Cancel \/ Confirm \/ Yes \/ Idle
    \/ OneShot \/ Deal \/ Delete \/ Login \/ Logout

Spec == Init /\ [][Next]_intakeVars

(***************************************************************************)
(* Properties.                                                             *)
(***************************************************************************)
Mine == {n \in DOMAIN listings : listings[n].here /\ listings[n].heard /\ listings[n].live}

(* The slots the chat says are used are the live listings it made and was  *)
(* answered about, as long as nothing made elsewhere was deleted here: no  *)
(* refusal, lost answer, login or logout in between makes the two differ   *)
(* (_list_counts in _create_listing, _create_deal and _owned_listing).     *)
SlotsExact == foreign = 0 => count = Cardinality(Mine)
=============================================================================
