----------------------------- MODULE Credential -----------------------------
(***************************************************************************)
(* Personhood: POST /accounts/verify-midnight and /accounts/vouch of       *)
(* app.py, the credential verifier of midnight_credential.py, and what     *)
(* chatlib keeps of the answer.  The handler names the account under LOCK, *)
(* reads the contract without it and decides under LOCK again; the         *)
(* contract, other requests and the account's deletion move in between.    *)
(***************************************************************************)
EXTENDS Integers, FiniteSets

CONSTANTS
    Account,
    Credentials,
    Request,        \* verify-midnight requests under way
    Page,           \* actions of the contract on the indexer's first page
    MaxChain,       \* bound: changes of the contract
    MaxMarks        \* bound: vouchings and deletions

VARIABLES
    admitted, revoked,  \* the contract's holders and revoked maps
    shown,          \* the maps as of the last action the first page has
    account,        \* Account -> the fields of ACCOUNTS that matter here
    request,        \* Request -> its place in the handler
    session,        \* Account -> verified_by in its chat session
    told,           \* the accounts whose credential was answered to be revoked
    late,           \* those marked on a reading older than the revocation it shows
    chain, marks

credVars == <<admitted, revoked, shown, account, request, session, told, late, chain, marks>>

None == "none"
Verdicts == {"good", "revoked", "unknown", "error"}
Idle == [pc |-> "idle"]

TypeOK ==
    /\ admitted \subseteq Credentials /\ revoked \subseteq admitted
    /\ shown.admitted \subseteq admitted /\ shown.revoked \subseteq revoked
    /\ \A a \in Account :
          /\ account[a].exists \in BOOLEAN /\ account[a].human \in BOOLEAN
          /\ account[a].by \in {None, "midnight-zk", "midnight-zk-revoked", "admin-vouch"}
          /\ account[a].cred \in Credentials \cup {None}
    /\ \A r \in Request : request[r].pc \in {"idle", "read", "decide", "answer"}
    /\ session \in [Account -> {None, "midnight-zk", "midnight-zk-revoked"}]
    /\ told \subseteq Account /\ late \subseteq Account
    /\ chain \in 0..MaxChain /\ marks \in 0..MaxMarks

Init ==
    /\ admitted = {} /\ revoked = {} /\ shown = [admitted |-> {}, revoked |-> {}]
    /\ account = [a \in Account |-> [exists |-> TRUE, human |-> FALSE, by |-> None, cred |-> None]]
    /\ request = [r \in Request |-> Idle]
    /\ session = [a \in Account |-> None]
    /\ told = {} /\ late = {}
    /\ chain = 0 /\ marks = 0

(***************************************************************************)
(* The contract, and what of it a query of the indexer brings: the query   *)
(* asks whether there is a next page, and the reader never fetches it.     *)
(***************************************************************************)
Paged ==
    shown' = IF chain < Page THEN [admitted |-> admitted', revoked |-> revoked'] ELSE shown

Admit(c) ==
    /\ c \notin admitted /\ chain < MaxChain /\ chain' = chain + 1
    /\ admitted' = admitted \cup {c} /\ revoked' = revoked /\ Paged
    /\ UNCHANGED <<account, request, session, told, late, marks>>
Revoke(c) ==
    /\ c \in admitted \ revoked /\ chain < MaxChain /\ chain' = chain + 1
    /\ revoked' = revoked \cup {c} /\ admitted' = admitted /\ Paged
    /\ UNCHANGED <<account, request, session, told, late, marks>>

(***************************************************************************)
(* POST /accounts/verify-midnight.                                         *)
(***************************************************************************)
(* A login token or the account's code names the account.                  *)
Ask(r, a, c) ==
    /\ request[r] = Idle /\ account[a].exists
    /\ request' = [request EXCEPT ![r] = [pc |-> "read", of |-> a, cred |-> c]]
    /\ UNCHANGED <<admitted, revoked, shown, account, session, told, late, chain, marks>>

(* verify: the state of the last action it was shown, decoded.  No action, *)
(* an indexer or a file that fails, another holder commitment: an error.   *)
Verdict(c) ==
    IF c \notin shown.admitted THEN "unknown"
    ELSE IF c \in shown.revoked THEN "revoked" ELSE "good"
Read(r) ==
    /\ request[r].pc = "read"
    /\ \E v \in {"error"} \cup (IF shown.admitted = {} THEN {} ELSE {Verdict(request[r].cred)}) :
          request' = [request EXCEPT ![r] =
              IF v = "error" THEN Idle
              ELSE [pc |-> "decide", of |-> request[r].of, cred |-> request[r].cred,
                    verdict |-> v]]
    /\ UNCHANGED <<admitted, revoked, shown, account, session, told, late, chain, marks>>

(* Under LOCK: one credential per account, and one account per credential. *)
Taken(a, c) == \E b \in Account \ {a} : account[b].exists /\ account[b].cred = c
(* Mutant: a holder counts only while it is verified.                      *)
BindableIfUnverified(a, c) ==
    /\ account[a].cred \in {None, c}
    /\ ~\E b \in Account \ {a} : account[b].exists /\ account[b].cred = c /\ account[b].human
Bindable(a, c) == account[a].cred \in {None, c} /\ ~Taken(a, c)
(* Mutant: the account keeps being human, the chat alone is told.          *)
DowngradedInName(a) == [account[a] EXCEPT !.human = FALSE]
Downgraded(a) == [account[a] EXCEPT !.human = FALSE, !.by = "midnight-zk-revoked"]

Decide(r) ==
    /\ request[r].pc = "decide"
    /\ LET a == request[r].of
           c == request[r].cred
           v == request[r].verdict
           answer(code) == [pc |-> "answer", of |-> a, cred |-> c, code |-> code]
       IN  \/ /\ ~account[a].exists         \* KeyError: the connection ends
              /\ request' = [request EXCEPT ![r] = Idle]
              /\ UNCHANGED <<account, told, late>>
           \/ /\ account[a].exists /\ v = "good" /\ Bindable(a, c)
              /\ account' = [account EXCEPT ![a].cred = c, ![a].human = TRUE,
                                            ![a].by = "midnight-zk"]
              /\ late' = IF c \in shown.revoked THEN late \cup {a} ELSE late \ {a}
              /\ request' = [request EXCEPT ![r] = answer("verified")]
              /\ UNCHANGED told
           \/ /\ account[a].exists /\ v = "good" /\ ~Bindable(a, c)
              /\ request' = [request EXCEPT ![r] = answer("conflict")]
              /\ UNCHANGED <<account, told, late>>
           \/ /\ account[a].exists /\ v = "revoked"
              /\ account' = IF account[a].cred = c
                            THEN [account EXCEPT ![a] = Downgraded(a)] ELSE account
              /\ told' = IF account[a].cred = c THEN told \cup {a} ELSE told
              /\ request' = [request EXCEPT ![r] = answer("revoked")]
              /\ UNCHANGED late
           \/ /\ account[a].exists /\ v = "unknown"
              /\ request' = [request EXCEPT ![r] = answer("unknown")]
              /\ UNCHANGED <<account, told, late>>
    /\ UNCHANGED <<admitted, revoked, shown, session, chain, marks>>

(* _verify_midnight of the chat: "verification lost" for any revoked       *)
(* credential the user names, the account's own or not.  Answers may come  *)
(* in another order than the decisions.                                    *)
Answer(r) ==
    /\ request[r].pc = "answer"
    /\ session' = CASE request[r].code = "verified" ->
                          [session EXCEPT ![request[r].of] = "midnight-zk"]
                    [] request[r].code = "revoked" ->
                          [session EXCEPT ![request[r].of] = "midnight-zk-revoked"]
                    [] OTHER -> session
    /\ request' = [request EXCEPT ![r] = Idle]
    /\ UNCHANGED <<admitted, revoked, shown, account, told, late, chain, marks>>

(***************************************************************************)
(* The operator vouches; the account is deleted.                           *)
(***************************************************************************)
Vouch(a) ==
    /\ account[a].exists /\ marks < MaxMarks /\ marks' = marks + 1
    /\ account' = [account EXCEPT ![a].human = TRUE, ![a].by = "admin-vouch"]
    /\ UNCHANGED <<admitted, revoked, shown, request, session, told, late, chain>>
Delete(a) ==
    /\ account[a].exists /\ marks < MaxMarks /\ marks' = marks + 1
    /\ account' = [account EXCEPT ![a] = [exists |-> FALSE, human |-> FALSE, by |-> None,
                                          cred |-> None]]
    /\ session' \in {session, [session EXCEPT ![a] = None]}
    /\ UNCHANGED <<admitted, revoked, shown, request, told, late, chain>>

Next ==
    \/ \E c \in Credentials : Admit(c) \/ Revoke(c)
    \/ \E r \in Request : \/ \E a \in Account, c \in Credentials : Ask(r, a, c)
                          \/ Read(r) \/ Decide(r) \/ Answer(r)
    \/ \E a \in Account : Vouch(a) \/ Delete(a)

Spec == Init /\ [][Next]_credVars

(***************************************************************************)
(* Properties.                                                             *)
(***************************************************************************)
(* Anti-sybil, however the two sections of several requests interleave: no *)
(* credential is held by two accounts.                                     *)
OneHolder ==
    \A a, b \in Account : account[a].exists /\ account[b].exists
        /\ account[a].cred # None /\ account[a].cred = account[b].cred => a = b

(* An account whose credential the hub has answered to be revoked is not   *)
(* midnight-zk any more, unless a request that had read the contract       *)
(* before the revocation marked it afterwards.  What the first page does   *)
(* not show, no request hears of.                                          *)
RevokedLoses ==
    \A a \in told : account[a].by = "midnight-zk" => a \in late
=============================================================================
